------------------------------ MODULE EventHub ------------------------------
(***************************************************************************)
(* The daemon's side of its control connections: the hub that fans events  *)
(* out (daemon/hub.rs) and the three threads that serve one connection     *)
(* (daemon/server/transport.rs): one reads requests and answers them, one  *)
(* pumps events from the hub, one writes to the socket.                    *)
(*                                                                         *)
(* Three bounded buffers lie between the drainer and a client: its queue   *)
(* at the hub, the connection's outbox and the socket.  An event is its    *)
(* number; what a client asks and is answered is one mark.                 *)
(***************************************************************************)
EXTENDS Integers, FiniteSets, Sequences

CONSTANTS
    Clients,        \* control connections, each made once
    QueueDepth,     \* QUEUE_DEPTH of a subscriber
    WriteDepth,     \* WRITE_QUEUE_DEPTH of a connection
    SocketRoom,     \* what a socket buffers for a client that does not read
    MaxConnections, \* MAX_CONNECTIONS
    MaxEvents       \* bound: events published

ASSUME HubConstants ==
    /\ {QueueDepth, WriteDepth, SocketRoom, MaxConnections} \subseteq Nat \ {0}
    /\ MaxEvents \in Nat

VARIABLES
    phase,       \* what the connection's own thread is doing
    open,        \* Daemon.open, the connections counted
    published,   \* events published so far
    subscribers, \* Hub.subscribers
    queue,       \* a subscriber's channel
    outbox,      \* the connection's channel to its writer
    buffered,    \* the socket's buffer towards the client
    socket,      \* whether the daemon has shut the socket
    pump,        \* the pump thread
    writer,      \* the writer thread
    client,      \* the other end of the connection
    asked,       \* a request has arrived and is not answered
    got          \* the last event before those still on their way

hubVars == <<phase, open, published, subscribers, queue, outbox, buffered, socket,
             pump, writer, client, asked, got>>

Answer == 0

Counted  == {"authenticating", "attaching", "serving", "leaving", "refusing"}
Finished == {"closed", "refused"}

InPhase(c, p) == phase[c] = p
Enters(c, p) == phase' = [phase EXCEPT ![c] = p]

\* A read finds the end of the stream or an error.
Ends(c) == socket[c] = "shut" \/ client[c] \in {"halfClosed", "gone"}

\* A send to the writer's channel blocks while it is full, and fails once the
\* writer has ended.
CanSend(c) == writer[c] = "running" /\ Len(outbox[c]) < WriteDepth
-----------------------------------------------------------------------------
(* Accepting. *)

\* spawn_connection counts first and looks afterwards.
Accept(c) ==
    /\ InPhase(c, "absent")
    /\ open' = open + 1
    /\ Enters(c, IF open + 1 > MaxConnections THEN "refusing" ELSE "authenticating")
    /\ writer' = [writer EXCEPT ![c] = IF open + 1 > MaxConnections THEN @ ELSE "running"]
    /\ client' = [client EXCEPT ![c] = "here"]
    /\ UNCHANGED <<published, subscribers, queue, outbox, buffered, socket, pump, asked, got>>

\* Mutant: the slot is given back by the cap and by the connection's end.
RefuseTwice(c) ==
    /\ InPhase(c, "refusing")
    /\ open' = open - 2
    /\ Enters(c, "refused")
    /\ socket' = [socket EXCEPT ![c] = "shut"]
    /\ UNCHANGED <<published, subscribers, queue, outbox, buffered, pump, writer, client, asked, got>>

\* The cap is reached: the slot just taken is given back.
Refuse(c) ==
    /\ InPhase(c, "refusing")
    /\ open' = open - 1
    /\ Enters(c, "refused")
    /\ socket' = [socket EXCEPT ![c] = "shut"]
    /\ UNCHANGED <<published, subscribers, queue, outbox, buffered, pump, writer, client, asked, got>>

\* authenticate: the answer goes to the writer whether the token was good or
\* not; a peer that hangs up or says nothing gets none.
Authenticate(c) ==
    /\ InPhase(c, "authenticating")
    /\ \/ /\ \E next \in {"attaching", "leaving"} : Enters(c, next)
          /\ CanSend(c)
          /\ outbox' = [outbox EXCEPT ![c] = Append(@, Answer)]
       \/ Enters(c, "leaving") /\ UNCHANGED outbox
    /\ UNCHANGED <<open, published, subscribers, queue, buffered, socket, pump, writer,
                   client, asked, got>>

Subscribe(c) ==
    /\ InPhase(c, "attaching")
    /\ subscribers' = subscribers \cup {c}
    /\ got' = [got EXCEPT ![c] = published]
    /\ pump' = [pump EXCEPT ![c] = "running"]
    /\ Enters(c, "serving")
    /\ UNCHANGED <<open, published, queue, outbox, buffered, socket, writer, client, asked>>
-----------------------------------------------------------------------------
(* The drainer. *)

Deaf(c) == pump[c] = "ended"
QueueFull(c) == ~Deaf(c) /\ Len(queue[c]) >= QueueDepth

\* Mutant: who has no room is dropped but left connected.
PublishDrops ==
    /\ published < MaxEvents
    /\ published' = published + 1
    /\ queue' = [c \in Clients |-> IF c \in subscribers /\ ~Deaf(c) /\ ~QueueFull(c)
                                   THEN Append(queue[c], published') ELSE queue[c]]
    /\ subscribers' = {c \in subscribers : ~Deaf(c) /\ ~QueueFull(c)}
    /\ UNCHANGED <<phase, open, outbox, buffered, socket, pump, writer, client, asked, got>>

\* Mutant: who has no room misses the event and stays.
PublishSkips ==
    /\ published < MaxEvents
    /\ published' = published + 1
    /\ queue' = [c \in Clients |-> IF c \in subscribers /\ ~Deaf(c) /\ ~QueueFull(c)
                                   THEN Append(queue[c], published') ELSE queue[c]]
    /\ subscribers' = {c \in subscribers : ~Deaf(c)}
    /\ UNCHANGED <<phase, open, outbox, buffered, socket, pump, writer, client, asked, got>>

\* publish, under the lock: who has room gets the event, who does not loses the
\* connection, and who has no receiver any more is forgotten.
Publish ==
    /\ published < MaxEvents
    /\ published' = published + 1
    /\ queue' = [c \in Clients |-> IF c \in subscribers /\ ~Deaf(c) /\ ~QueueFull(c)
                                   THEN Append(queue[c], published') ELSE queue[c]]
    /\ socket' = [c \in Clients |-> IF c \in subscribers /\ QueueFull(c)
                                    THEN "shut" ELSE socket[c]]
    /\ subscribers' = {c \in subscribers : ~Deaf(c) /\ ~QueueFull(c)}
    /\ UNCHANGED <<phase, open, outbox, buffered, pump, writer, client, asked, got>>
-----------------------------------------------------------------------------
(* The threads of a connection. *)

\* Mutant: an event there is no room for on the way to the writer is let go.
PumpDrops(c) ==
    /\ pump[c] = "running" /\ queue[c] # <<>>
    /\ outbox' = [outbox EXCEPT ![c] = IF CanSend(c) THEN Append(@, Head(queue[c])) ELSE @]
    /\ queue' = [queue EXCEPT ![c] = Tail(@)]
    /\ UNCHANGED <<phase, open, published, subscribers, buffered, socket, pump, writer,
                   client, asked, got>>

\* The pump ends when the hub has dropped its sender and the queue is empty, or
\* when there is no writer to send to.
Pump(c) ==
    /\ pump[c] = "running"
    /\ \/ /\ queue[c] # <<>> /\ CanSend(c)
          /\ outbox' = [outbox EXCEPT ![c] = Append(@, Head(queue[c]))]
          /\ queue' = [queue EXCEPT ![c] = Tail(@)]
          /\ UNCHANGED pump
       \/ /\ \/ queue[c] = <<>> /\ c \notin subscribers
             \/ queue[c] # <<>> /\ writer[c] = "ended"
          /\ pump' = [pump EXCEPT ![c] = "ended"]
          /\ UNCHANGED <<queue, outbox>>
    /\ UNCHANGED <<phase, open, published, subscribers, buffered, socket, writer, client, asked, got>>

\* A write blocks while the socket is full; into a closed one it fails, though
\* what the client closed may take one more.
Write(c) ==
    /\ writer[c] = "running" /\ outbox[c] # <<>>
    /\ \/ /\ socket[c] = "open" /\ Len(buffered[c]) < SocketRoom
          /\ buffered' = [buffered EXCEPT ![c] = Append(@, Head(outbox[c]))]
          /\ outbox' = [outbox EXCEPT ![c] = Tail(@)]
          /\ UNCHANGED writer
       \/ /\ socket[c] = "shut" \/ client[c] = "gone"
          /\ writer' = [writer EXCEPT ![c] = "ended"]
          /\ UNCHANGED <<buffered, outbox>>
    /\ UNCHANGED <<phase, open, published, subscribers, queue, socket, pump, client, asked, got>>

\* Every sender of the outbox is gone: the connection's thread and the pump.
WriterDone(c) ==
    /\ writer[c] = "running" /\ outbox[c] = <<>>
    /\ InPhase(c, "leaving") /\ pump[c] # "running"
    /\ writer' = [writer EXCEPT ![c] = "ended"]
    /\ UNCHANGED <<phase, open, published, subscribers, queue, outbox, buffered, socket,
                   pump, client, asked, got>>

Serve(c) ==
    /\ InPhase(c, "serving") /\ asked[c]
    /\ \/ /\ CanSend(c)
          /\ outbox' = [outbox EXCEPT ![c] = Append(@, Answer)]
          /\ asked' = [asked EXCEPT ![c] = FALSE]
          /\ UNCHANGED <<phase, subscribers>>
       \/ /\ writer[c] = "ended"
          /\ Enters(c, "leaving")
          /\ subscribers' = subscribers \ {c}
          /\ UNCHANGED <<outbox, asked>>
    /\ UNCHANGED <<open, published, queue, buffered, socket, pump, writer, client, got>>

\* Mutant: the subscription outlives the connection's last request.
HangsUpSubscribed(c) ==
    /\ InPhase(c, "serving") /\ ~asked[c] /\ Ends(c)
    /\ Enters(c, "leaving")
    /\ UNCHANGED <<open, published, subscribers, queue, outbox, buffered, socket, pump,
                   writer, client, asked, got>>

\* Requests read before the end are still served.
HangsUp(c) ==
    /\ InPhase(c, "serving") /\ ~asked[c] /\ Ends(c)
    /\ Enters(c, "leaving")
    /\ subscribers' = subscribers \ {c}
    /\ UNCHANGED <<open, published, queue, outbox, buffered, socket, pump, writer, client, asked, got>>

\* Mutant: a connection that never subscribed does not give its slot back.
CloseLeaks(c) ==
    /\ InPhase(c, "leaving") /\ pump[c] # "running" /\ writer[c] = "ended"
    /\ Enters(c, "closed")
    /\ socket' = [socket EXCEPT ![c] = "shut"]
    /\ open' = IF pump[c] = "none" THEN open ELSE open - 1
    /\ UNCHANGED <<published, subscribers, queue, outbox, buffered, pump, writer, client, asked, got>>

\* Both threads are joined before the socket is closed and the slot returned.
Close(c) ==
    /\ InPhase(c, "leaving") /\ pump[c] # "running" /\ writer[c] = "ended"
    /\ Enters(c, "closed")
    /\ socket' = [socket EXCEPT ![c] = "shut"]
    /\ open' = open - 1
    /\ UNCHANGED <<published, subscribers, queue, outbox, buffered, pump, writer, client, asked, got>>
-----------------------------------------------------------------------------
(* The client. *)

ClientReads(c) ==
    /\ client[c] \in {"here", "halfClosed"} /\ buffered[c] # <<>>
    /\ buffered' = [buffered EXCEPT ![c] = Tail(@)]
    /\ got' = [got EXCEPT ![c] = IF Head(buffered[c]) = Answer THEN @ ELSE Head(buffered[c])]
    /\ UNCHANGED <<phase, open, published, subscribers, queue, outbox, socket, pump,
                   writer, client, asked>>

ClientAsks(c) ==
    /\ client[c] = "here" /\ InPhase(c, "serving") /\ socket[c] = "open" /\ ~asked[c]
    /\ asked' = [asked EXCEPT ![c] = TRUE]
    /\ UNCHANGED <<phase, open, published, subscribers, queue, outbox, buffered, socket,
                   pump, writer, client, got>>

ClientCloses(c) ==
    /\ client[c] \in {"here", "halfClosed"}
    /\ \E how \in {"halfClosed", "gone"} :
            how # client[c] /\ client' = [client EXCEPT ![c] = how]
    /\ UNCHANGED <<phase, open, published, subscribers, queue, outbox, buffered, socket,
                   pump, writer, asked, got>>
-----------------------------------------------------------------------------
HubInit ==
    /\ phase = [c \in Clients |-> "absent"] /\ client = [c \in Clients |-> "absent"]
    /\ open = 0 /\ published = 0 /\ subscribers = {}
    /\ queue = [c \in Clients |-> <<>>] /\ outbox = queue /\ buffered = queue
    /\ socket = [c \in Clients |-> "open"]
    /\ pump = [c \in Clients |-> "none"] /\ writer = pump
    /\ asked = [c \in Clients |-> FALSE] /\ got = [c \in Clients |-> 0]

ConnectionStep(c) ==
    \/ Accept(c) \/ Refuse(c) \/ Authenticate(c) \/ Subscribe(c)
    \/ Pump(c) \/ Write(c) \/ WriterDone(c) \/ Serve(c) \/ HangsUp(c) \/ Close(c)

ClientStep(c) == ClientReads(c) \/ ClientAsks(c) \/ ClientCloses(c)

HubNext == Publish \/ \E c \in Clients : ConnectionStep(c) \/ ClientStep(c)

HubSpec == HubInit /\ [][HubNext]_hubVars

\* Each of a connection's three threads goes on while it can.
HubFairness ==
    \A c \in Clients :
        /\ WF_hubVars(Pump(c))
        /\ WF_hubVars(Write(c) \/ WriterDone(c))
        /\ WF_hubVars(\/ Refuse(c) \/ Authenticate(c) \/ Subscribe(c)
                     \/ Serve(c) \/ HangsUp(c) \/ Close(c))
-----------------------------------------------------------------------------
(* Correctness. *)

\* The types of the state: the count of connections is never below zero.
HubTypeOK ==
    /\ phase \in [Clients -> Counted \cup Finished \cup {"absent"}]
    /\ client \in [Clients -> {"absent", "here", "halfClosed", "gone"}]
    /\ open \in Nat /\ published \in 0..MaxEvents /\ subscribers \subseteq Clients
    /\ \A c \in Clients : \A s \in {queue[c], outbox[c], buffered[c]} : s \in Seq(0..MaxEvents)
    /\ socket \in [Clients -> {"open", "shut"}]
    /\ pump \in [Clients -> {"none", "running", "ended"}]
    /\ writer \in [Clients -> {"none", "running", "ended"}]
    /\ asked \in [Clients -> BOOLEAN] /\ got \in [Clients -> 0..MaxEvents]

\* The number of connections counted is the number there are, and no more are
\* served than the cap (transport.rs:161-203).
SlotsCounted ==
    /\ open = Cardinality({c \in Clients : phase[c] \in Counted})
    /\ Cardinality({c \in Clients : phase[c] \in Counted \ {"refusing"}}) <= MaxConnections

\* No client works on while blind: a connection that is served and whose socket
\* is open gets its events (hub.rs:117-121).
NoBlindClient ==
    \A c \in Clients :
        phase[c] = "serving" /\ socket[c] = "open" /\ client[c] # "gone"
            => c \in subscribers /\ pump[c] = "running"

\* What is on its way to a client, oldest first, and the events in it.
Stream(c) == buffered[c] \o outbox[c] \o queue[c]
EventsOf(s) == {s[k] : k \in DOMAIN s} \ {Answer}

Ascending(s) ==
    \A j, k \in DOMAIN s : j < k /\ Answer \notin {s[j], s[k]} => s[j] < s[k]

\* A client's events come in order and without a gap from where it subscribed,
\* up to the last one published for as long as it is subscribed (hub.rs:105-128).
NoGaps ==
    \A c \in Clients :
        /\ Ascending(Stream(c))
        /\ \E last \in 0..published :
                /\ EventsOf(Stream(c)) = (got[c] + 1)..last
                /\ c \in subscribers => last = published

\* Subscribing is joining the feed, and the last event handed to a client is the
\* newest in its stream, or the last it read.
Newest(events) == CHOOSE e \in events : \A f \in events : f <= e
LastOf(c) == Newest(EventsOf(Stream(c)) \cup {got[c]})

Feed == INSTANCE EventFeed WITH
    Readers <- Clients,
    last <- published,
    fresh <- {c \in Clients : phase[c] \in {"absent", "authenticating", "attaching"}},
    following <- subscribers,
    due <- [c \in Clients |-> LastOf(c)],
    read <- got

\* A client joins once and then reads every event in its turn, whatever fills up,
\* until it is dropped (hub.rs:4-11): no step skips, repeats or takes one back,
\* and nobody who was dropped is handed anything again.
ImplementsEventFeed == Feed!FeedSpec

\* Whoever is gone gives its slot back: the three threads of a connection never
\* wait for each other for good (transport.rs:278-282).
SlotComesBack == \A c \in Clients : client[c] = "gone" ~> phase[c] \in Finished
=============================================================================
