---------------------------- MODULE PeerNetwork ----------------------------
(***************************************************************************)
(* Control connections to peers: the registry that names one actor per    *)
(* user (actor/peer_registry.rs), the life of an actor                     *)
(* (actor/peer_actor.rs), the operations loop's handling of connections    *)
(* that come, go or cannot be made (operations/mod.rs, operations/peers.rs)*)
(* and the server's brokering of the ones we cannot dial.                  *)
(*                                                                         *)
(* Concurrent parties: the operations loop, one thread per actor, one      *)
(* thread per incoming connection, callers of the API, and the server and  *)
(* the peers outside.  One action is one message handled or one section    *)
(* under a lock.                                                           *)
(*                                                                         *)
(* A peer has at most one download in the model; what it transfers is in   *)
(* Downloads.  Deadlines (a dial, the idle reaper, the retirement grace,   *)
(* a brokered connect) may pass at any moment.                             *)
(***************************************************************************)
EXTENDS Integers, FiniteSets, Sequences

CONSTANTS
    Peers,         \* the users we may have a control connection with
    MaxActors,     \* bound: the most actors any scenario creates
    Scenarios,     \* bounds: what the world does in a behaviour, see Scenario
    MaxPeerOps     \* bound: operations in the loop's channel when another arrives

ASSUME PeerConstants ==
    /\ MaxActors \in Nat \ {0}
    /\ \A s \in Scenarios :
            /\ s.wanted \subseteq Peers /\ s.searchers \subseteq Peers
            /\ s.callers \subseteq Peers
            /\ s.actors \in 1..MaxActors
            /\ s.stops \in BOOLEAN
            /\ s.capacities # {} /\ s.capacities \subseteq Nat
    /\ MaxPeerOps \in Nat \ {0}

VARIABLES
    registry,       \* peers: user -> id of its actor, for the users it holds
    actors,         \* id -> the state of the actor's thread
    minted,         \* NEXT_PEER_ID: ids handed out so far
    arriving,       \* incoming connections between handshake and nudge
    capacity,       \* max_peers
    operations,     \* the loop's channel of ClientOperations
    resolving,      \* users whose address the server has been asked for
    pendingConnect, \* pending_connect_tokens: token -> user
    download,       \* the one download from each peer; Requested is a Queued
                    \* one whose QueueUpload has gone out
    answered,       \* searchers whose search has reached us
    held,           \* pending_peer_messages: users a search reply waits for
    scenario,       \* whom we download from, who searches, who dials us, what
                    \* set_max_peers is given, how many actors are created,
                    \* and whether the client stops
    hungUp,         \* history: users that closed an established connection
    shutDown        \* Client::disconnect has run

actorVars == <<actors, registry, minted, arriving, capacity>>
loopVars  == <<operations, resolving, pendingConnect>>
workVars  == <<download, answered, held, hungUp, shutDown, scenario>>
peerVars  == <<actorVars, loopVars, workVars>>

ActorId == 1..MaxActors
Posts   == {"QueueUpload", "SendMessage", "Retire", "Stop"}

\* The thread of one connection.  `inbox` is its mailbox, `backlog` what it
\* set aside while still connecting (queued_messages).
Actor ==
    [user : Peers, outbound : BOOLEAN, brokered : BOOLEAN,
     conn : {"connecting", "connected", "disconnected", "stopped"},
     established : BOOLEAN, reported : BOOLEAN, retiring : BOOLEAN,
     inbox : Seq(Posts), backlog : Seq(Posts)]

Arrival == [user : Peers, id : ActorId, registered : BOOLEAN]

Operation ==
    [op : {"ConnectToPeer", "GetPeerAddressResponse", "PeerConnected"}, user : Peers]
      \cup [op : {"PeerDisconnected"}, id : ActorId, user : Peers, error : BOOLEAN]
      \cup [op : {"PeerConnectFailed"}, id : ActorId, user : Peers, brokered : BOOLEAN]
      \cup [op : {"CantConnectToPeer"}, token : ActorId]

-----------------------------------------------------------------------------
(* Reading and writing the tables. *)

Registered(u) == u \in DOMAIN registry

Without(f, u) == [v \in DOMAIN f \ {u} |-> f[v]]

\* protected_peers, as far as this module's own state reaches.
Waiting   == {"Queued", "Requested"}
Protected == {u \in Peers : download[u] \in Waiting \/ u \in held}

\* The entries eviction may take, and the one it takes: the oldest.
Idle(users) == {u \in users : u \notin Protected}
Victims(users) ==
    {u \in Idle(users) : \A v \in Idle(users) : registry[u] <= registry[v]}

\* A new actor: on_start finds an incoming connection up already and dials any
\* other.  While a dial blocks the mailbox is simply not read yet.
Spawned(u, outbound, brokered) ==
    [user |-> u, outbound |-> outbound, brokered |-> brokered,
     conn |-> IF outbound THEN "connecting" ELSE "connected",
     established |-> ~outbound, reported |-> FALSE,
     retiring |-> FALSE, inbox |-> <<>>, backlog |-> <<>>]

\* handle.send: the message goes to the mailbox, read or not.
Post(as, i, m) == [as EXCEPT ![i].inbox = Append(@, m)]

Fail(d, u) == [d EXCEPT ![u] = IF @ \in Waiting THEN "Failed" ELSE @]

Ask(d, u) == [d EXCEPT ![u] = IF @ = "Queued" THEN "Requested" ELSE @]

\* disconnect and disconnect_with_error post at most one terminal operation.
Report(i, op) ==
    operations' = IF actors[i].reported THEN operations
                                        ELSE Append(operations, op)

Closed(a) == [a EXCEPT !.conn = "disconnected", !.reported = TRUE]

CleanReport(i) ==
    [op |-> "PeerDisconnected", id |-> i, user |-> actors[i].user, error |-> FALSE]

\* disconnect_with_error: a retired connection ends cleanly, a dial that never
\* came up failed to connect, anything else was lost.
ErrorReport(i) ==
    LET a == actors[i] IN
    IF a.retiring THEN CleanReport(i)
    ELSE IF a.outbound /\ ~a.established
         THEN [op |-> "PeerConnectFailed", id |-> i, user |-> a.user,
               brokered |-> a.brokered]
         ELSE [op |-> "PeerDisconnected", id |-> i, user |-> a.user,
               error |-> TRUE]

\* register_peer_protected under the map lock: evict if the map is full, insert,
\* retire the actor this one replaces.  `Registers` is what it does when it
\* succeeds and `Refuses` when every peer is busy.
Full(u) == Cardinality(DOMAIN registry) >= capacity /\ ~Registered(u)

Refuses(u) == Full(u) /\ Victims(DOMAIN registry) = {}

Registers(u, i, outbound, brokered) ==
    \E gone \in IF Full(u) THEN Victims(DOMAIN registry) ELSE {u} :
        LET stopped ==
                IF Full(u) THEN Post(actors, registry[gone], "Stop") ELSE actors
            retired ==
                IF Registered(u) THEN Post(stopped, registry[u], "Retire")
                                 ELSE stopped
        IN  /\ actors' = [k \in DOMAIN actors \cup {i} |->
                             IF k = i THEN Spawned(u, outbound, brokered)
                                      ELSE retired[k]]
            /\ registry' = [v \in ((DOMAIN registry \ {gone}) \cup {u}) |->
                               IF v = u THEN i ELSE registry[v]]

\* Mutant: whoever holds the name now is evicted, the reporter or not.
RemovePeerAny(u, i) ==
    IF Registered(u)
    THEN registry' = Without(registry, u) /\ actors' = Post(actors, registry[u], "Stop")
    ELSE UNCHANGED <<registry, actors>>

\* Mutant: the reporter leaves the map but its thread is never stopped.
RemovePeerOnly(u, i) ==
    /\ UNCHANGED actors
    /\ registry' = IF Registered(u) /\ registry[u] = i
                   THEN Without(registry, u) ELSE registry

\* remove_peer_if and handle.stop(): only the actor that reported is evicted.
RemovePeerIf(u, i) ==
    IF Registered(u) /\ registry[u] = i
    THEN registry' = Without(registry, u) /\ actors' = Post(actors, i, "Stop")
    ELSE UNCHANGED <<registry, actors>>

-----------------------------------------------------------------------------
(* Callers and the world outside. *)

AtLeastOne(n) == IF n = 0 THEN 1 ELSE n

SetMaxPeers(n) ==
    /\ capacity' = AtLeastOne(n)
    /\ UNCHANGED <<actors, registry, minted, arriving, loopVars, workVars>>

\* An actor that has already closed may still hold the user's name.
HeldByTheDead(u) == Registered(u) /\ actors[registry[u]].conn = "disconnected"

\* download_with_metadata: ask at once over a connection we have, or have the
\* server resolve the user; without a server the download fails.
Download(u) ==
    /\ download[u] = "none"
    /\ hungUp' = IF HeldByTheDead(u) THEN hungUp \cup {u} ELSE hungUp
    /\ \/ /\ Registered(u)
          /\ actors' = Post(actors, registry[u], "QueueUpload")
          /\ download' = [download EXCEPT ![u] = "Queued"]
          /\ UNCHANGED resolving
       \/ /\ ~Registered(u)
          /\ download' = [download EXCEPT ![u] = IF shutDown THEN "Failed" ELSE "Queued"]
          /\ resolving' = IF shutDown THEN resolving ELSE resolving \cup {u}
          /\ UNCHANGED actors
    /\ UNCHANGED <<registry, minted, arriving, capacity, operations,
                   pendingConnect, answered, held, shutDown, scenario>>

\* IncomingSearch with an answer to give: send it, or hold it and resolve
\* (bound: one search of each searcher).
AnswerSearch(u) ==
    /\ ~shutDown
    /\ u \notin answered
    /\ answered' = answered \cup {u}
    /\ IF Registered(u)
       THEN /\ actors' = Post(actors, registry[u], "SendMessage")
            /\ UNCHANGED <<held, resolving>>
       ELSE /\ held' = held \cup {u}
            /\ resolving' = resolving \cup {u}
            /\ UNCHANGED actors
    /\ UNCHANGED <<registry, minted, arriving, capacity, operations,
                   pendingConnect, download, hungUp, shutDown, scenario>>

ExpireHeld(u) ==
    /\ u \in held
    /\ held' = held \ {u}
    /\ UNCHANGED <<actorVars, loopVars, download, hungUp, answered, shutDown, scenario>>

\* disconnect: the server goes first, then every registered actor is stopped.
StopAll ==
    /\ ~shutDown /\ scenario.stops
    /\ shutDown' = TRUE
    /\ registry' = <<>>
    /\ actors' = [i \in DOMAIN actors |->
                     IF \E u \in DOMAIN registry : registry[u] = i
                     THEN [actors[i] EXCEPT !.inbox = Append(@, "Stop")]
                     ELSE actors[i]]
    /\ UNCHANGED <<minted, arriving, capacity, loopVars, download, answered, held, hungUp, scenario>>

\* Bound: the world adds an operation only while the channel is short.
Arrives(op) ==
    /\ ~shutDown
    /\ Len(operations) < MaxPeerOps
    /\ operations' = Append(operations, op)

ServerResolves(u) ==
    /\ resolving' = resolving \ {u}
    /\ Arrives([op |-> "GetPeerAddressResponse", user |-> u])
    /\ UNCHANGED <<actorVars, pendingConnect, workVars>>

\* Somebody asked the server to have us dial them (bound: while there is an
\* actor left to dial with).
ServerSendsConnect(u) ==
    /\ minted < scenario.actors
    /\ Arrives([op |-> "ConnectToPeer", user |-> u])
    /\ UNCHANGED <<actorVars, resolving, pendingConnect, workVars>>

ServerCannotBroker(t) ==
    /\ t \in DOMAIN pendingConnect
    /\ [op |-> "CantConnectToPeer", token |-> t] \notin
            {operations[k] : k \in DOMAIN operations}
    /\ Arrives([op |-> "CantConnectToPeer", token |-> t])
    /\ UNCHANGED <<actorVars, resolving, pendingConnect, workVars>>

-----------------------------------------------------------------------------
(* A connection that reaches our listener. *)

MintFor(u) ==
    /\ ~shutDown
    /\ minted < scenario.actors
    /\ minted' = minted + 1
    /\ arriving' = arriving \cup {[user |-> u, id |-> minted + 1, registered |-> FALSE]}

InboundDial(u) ==
    /\ MintFor(u)
    /\ UNCHANGED <<actors, registry, capacity, loopVars, workVars>>

\* PierceFirewall: the token is consumed before the connection is registered.
PierceFirewall(t) ==
    /\ t \in DOMAIN pendingConnect
    /\ MintFor(pendingConnect[t])
    /\ pendingConnect' = Without(pendingConnect, t)
    /\ UNCHANGED <<actors, registry, capacity, operations, resolving, workVars>>

\* register_peer_or_fail on the connection's thread.
InboundRegister(a) ==
    /\ a \in arriving /\ ~a.registered
    /\ \/ /\ Refuses(a.user)
          /\ download' = Fail(download, a.user)
          /\ arriving' = arriving \ {a}
          /\ UNCHANGED <<actors, registry>>
       \/ /\ ~Refuses(a.user)
          /\ Registers(a.user, a.id, FALSE, FALSE)
          /\ arriving' = (arriving \ {a}) \cup {[a EXCEPT !.registered = TRUE]}
          /\ UNCHANGED download
    /\ UNCHANGED <<minted, capacity, loopVars, held, hungUp, answered, shutDown, scenario>>

\* The nudge to flush what waits for this user, once it is in the map.
InboundNudge(a) ==
    /\ a \in arriving /\ a.registered
    /\ arriving' = arriving \ {a}
    /\ operations' = Append(operations, [op |-> "PeerConnected", user |-> a.user])
    /\ UNCHANGED <<actors, registry, minted, capacity, resolving, pendingConnect, workVars>>
-----------------------------------------------------------------------------
(* The operations loop. *)

Taking(op) == operations # <<>> /\ Head(operations).op = op

\* connect_to_peer for a control connection: an actor that dials.
DialOut(u, brokered) ==
    /\ minted < scenario.actors
    /\ minted' = minted + 1
    /\ \/ /\ Refuses(u)
          /\ download' = Fail(download, u)
          /\ UNCHANGED <<actors, registry>>
       \/ /\ ~Refuses(u)
          /\ Registers(u, minted + 1, TRUE, brokered)
          /\ UNCHANGED download

HandleConnectToPeer ==
    /\ Taking("ConnectToPeer")
    /\ DialOut(Head(operations).user, TRUE)
    /\ operations' = Tail(operations)
    /\ UNCHANGED <<arriving, capacity, resolving, pendingConnect, held, hungUp, answered, shutDown, scenario>>

\* An address is dialled, port 0 included, unless the user is connected by now.
HandlePeerAddress ==
    /\ Taking("GetPeerAddressResponse")
    /\ IF Registered(Head(operations).user)
       THEN UNCHANGED <<minted, actors, registry, download>>
       ELSE DialOut(Head(operations).user, FALSE)
    /\ operations' = Tail(operations)
    /\ UNCHANGED <<arriving, capacity, resolving, pendingConnect, held, hungUp, answered, shutDown, scenario>>

\* Everything that waited for the user goes to whichever actor has the name now.
HandlePeerConnected ==
    /\ Taking("PeerConnected")
    /\ LET u == Head(operations).user
           uploads == IF download[u] \in Waiting THEN <<"QueueUpload">> ELSE <<>>
           replies == IF u \in held THEN <<"SendMessage">> ELSE <<>>
       IN  /\ held' = held \ {u}
           /\ actors' = IF Registered(u)
                        THEN [actors EXCEPT ![registry[u]].inbox = @ \o uploads \o replies]
                        ELSE actors
    /\ operations' = Tail(operations)
    /\ UNCHANGED <<registry, minted, arriving, capacity, resolving, pendingConnect,
                   download, hungUp, answered, shutDown, scenario>>

\* Mutant: only an error evicts, too.
HandleErrorsOnly ==
    /\ Taking("PeerDisconnected")
    /\ LET op == Head(operations) IN
        IF op.error THEN RemovePeerIf(op.user, op.id) /\ download' = Fail(download, op.user)
                    ELSE UNCHANGED <<registry, actors, download>>
    /\ operations' = Tail(operations)
    /\ UNCHANGED <<minted, arriving, capacity, resolving, pendingConnect, held, hungUp, answered, shutDown, scenario>>

\* Only an error is evidence that the peer is gone.
HandlePeerDisconnected ==
    /\ Taking("PeerDisconnected")
    /\ LET op == Head(operations) IN
        /\ RemovePeerIf(op.user, op.id)
        /\ download' = IF op.error THEN Fail(download, op.user) ELSE download
    /\ operations' = Tail(operations)
    /\ UNCHANGED <<minted, arriving, capacity, resolving, pendingConnect, held, hungUp, answered, shutDown, scenario>>

\* A dial the server asked for is answered and given up; any other is brokered
\* under a token of its own (here the id of the actor that failed).
HandleConnectFailed ==
    /\ Taking("PeerConnectFailed")
    /\ LET op == Head(operations) IN
        /\ RemovePeerIf(op.user, op.id)
        /\ IF op.brokered
           THEN download' = Fail(download, op.user) /\ UNCHANGED pendingConnect
           ELSE /\ pendingConnect' = [t \in DOMAIN pendingConnect \cup {op.id} |->
                                         IF t = op.id THEN op.user ELSE pendingConnect[t]]
                /\ UNCHANGED download
    /\ operations' = Tail(operations)
    /\ UNCHANGED <<minted, arriving, capacity, resolving, held, hungUp, answered, shutDown, scenario>>

HandleCantConnect ==
    /\ Taking("CantConnectToPeer")
    /\ LET t == Head(operations).token IN
        IF t \in DOMAIN pendingConnect
        THEN /\ download' = Fail(download, pendingConnect[t])
             /\ pendingConnect' = Without(pendingConnect, t)
        ELSE UNCHANGED <<download, pendingConnect>>
    /\ operations' = Tail(operations)
    /\ UNCHANGED <<actorVars, resolving, held, hungUp, answered, shutDown, scenario>>

\* Mutant: an expired token is forgotten and nobody is told.
SweepForgets(t) ==
    /\ t \in DOMAIN pendingConnect
    /\ pendingConnect' = Without(pendingConnect, t)
    /\ UNCHANGED <<actorVars, operations, resolving, workVars>>

\* The sweep: a brokered connect nobody answered in time.
SweepExpiredConnect(t) ==
    /\ t \in DOMAIN pendingConnect
    /\ download' = Fail(download, pendingConnect[t])
    /\ pendingConnect' = Without(pendingConnect, t)
    /\ UNCHANGED <<actorVars, operations, resolving, held, hungUp, answered, shutDown, scenario>>

-----------------------------------------------------------------------------
(* The thread of actor i. *)

Is(i, conn) == i \in DOMAIN actors /\ actors[i].conn = conn

Becomes(i, a) == actors' = [actors EXCEPT ![i] = a]

Rest == UNCHANGED <<registry, minted, arriving, capacity, resolving, pendingConnect,
                    answered, held, shutDown, scenario>>

Current(i) == Registered(actors[i].user) /\ registry[actors[i].user] = i

\* disconnect_with_error from any state.
Breaks(i, a) ==
    /\ Becomes(i, Closed(a))
    /\ Report(i, ErrorReport(i))

\* The dial is refused, or times out on the way up.
DialFails(i) ==
    /\ Is(i, "connecting")
    /\ Breaks(i, actors[i])
    /\ UNCHANGED <<download, hungUp>> /\ Rest

\* on_connection_established: the handshake goes out, then the backlog, then
\* the loop hears of it.  A backlog that cannot be written ends the connection
\* and the loop hears of both.
Establish(i) ==
    /\ Is(i, "connecting")
    /\ LET a  == [actors[i] EXCEPT !.conn = "connected", !.established = TRUE,
                                   !.backlog = <<>>]
           up == [op |-> "PeerConnected", user |-> a.user]
           lost == [op |-> "PeerDisconnected", id |-> i, user |-> a.user, error |-> TRUE]
           asks == \E k \in DOMAIN actors[i].backlog : actors[i].backlog[k] = "QueueUpload"
       IN  \/ /\ Becomes(i, a)
              /\ operations' = Append(operations, up)
              /\ download' = IF asks THEN Ask(download, a.user) ELSE download
           \/ /\ Becomes(i, Closed(a))
              /\ operations' = Append(operations, lost)
              /\ UNCHANGED download
           \/ /\ actors[i].backlog # <<>>
              /\ Becomes(i, Closed(a))
              /\ operations' = operations \o <<lost, up>>
              /\ UNCHANGED download
    /\ UNCHANGED hungUp /\ Rest

\* Reading one message of the mailbox (run_actor_loop, handle_message).
Takes(i, conn, posts) ==
    Is(i, conn) /\ actors[i].inbox # <<>> /\ Head(actors[i].inbox) \in posts

Opened(i) == [actors[i] EXCEPT !.inbox = Tail(@)]

\* Stop ends the thread from any state; on_stop closes what is open.
ReadStop(i) ==
    /\ \E conn \in {"connecting", "connected", "disconnected"} : Takes(i, conn, {"Stop"})
    /\ Becomes(i, [Closed(Spawned(actors[i].user, FALSE, FALSE)) EXCEPT !.conn = "stopped"])
    /\ Report(i, CleanReport(i))
    /\ UNCHANGED <<download, hungUp>> /\ Rest

\* A dial still under way sets everything aside but its retirement.
ReadConnecting(i) ==
    /\ \/ /\ Takes(i, "connecting", {"Retire"})
          /\ Becomes(i, [Closed(Opened(i)) EXCEPT !.retiring = TRUE])
          /\ Report(i, CleanReport(i))
       \/ /\ Takes(i, "connecting", {"QueueUpload", "SendMessage"})
          /\ Becomes(i, [Opened(i) EXCEPT !.backlog = Append(@, Head(actors[i].inbox))])
          /\ UNCHANGED operations
    /\ UNCHANGED <<download, hungUp>> /\ Rest

ReadConnected(i) ==
    /\ \/ /\ Takes(i, "connected", {"Retire"})
          /\ Becomes(i, [Opened(i) EXCEPT !.retiring = TRUE])
          /\ UNCHANGED <<operations, download>>
       \/ /\ Takes(i, "connected", {"QueueUpload", "SendMessage"})
          /\ Becomes(i, Opened(i))
          /\ download' = IF Head(actors[i].inbox) = "QueueUpload"
                         THEN Ask(download, actors[i].user) ELSE download
          /\ UNCHANGED operations
       \/ /\ Takes(i, "connected", {"QueueUpload", "SendMessage"})
          /\ Breaks(i, Opened(i))
          /\ UNCHANGED download
    /\ UNCHANGED hungUp /\ Rest

\* Without a stream a message is lost.
ReadDisconnected(i) ==
    /\ Takes(i, "disconnected", Posts \ {"Stop"})
    /\ Becomes(i, [Opened(i) EXCEPT !.retiring = @ \/ Head(actors[i].inbox) = "Retire"])
    /\ UNCHANGED <<operations, download, hungUp>> /\ Rest

\* The peer hangs up, nothing moved for too long, or the grace is over.
HangUp(i) ==
    /\ Is(i, "connected")
    /\ Becomes(i, Closed(actors[i]))
    /\ Report(i, CleanReport(i))
    /\ hungUp' = IF Current(i) /\ download[actors[i].user] = "Queued"
                 THEN hungUp \cup {actors[i].user} ELSE hungUp
    /\ UNCHANGED download /\ Rest

ReadError(i) ==
    /\ Is(i, "connected")
    /\ Breaks(i, actors[i])
    /\ UNCHANGED <<download, hungUp>> /\ Rest

\* tick of a closed actor: a retired one stops itself.
SelfStop(i) ==
    /\ Is(i, "disconnected") /\ actors[i].retiring /\ actors[i].inbox = <<>>
    /\ actors' = Post(actors, i, "Stop")
    /\ UNCHANGED <<operations, download, hungUp>> /\ Rest
-----------------------------------------------------------------------------
PeerInit ==
    /\ registry = <<>> /\ actors = <<>> /\ minted = 0 /\ arriving = {}
    /\ scenario \in Scenarios
    /\ capacity \in {AtLeastOne(n) : n \in scenario.capacities}
    /\ operations = <<>> /\ resolving = {} /\ pendingConnect = <<>>
    /\ download = [u \in Peers |-> "none"]
    /\ answered = {} /\ held = {} /\ hungUp = {} /\ shutDown = FALSE

CallerStep ==
    \/ \E n \in scenario.capacities : SetMaxPeers(n)
    \/ \E u \in scenario.wanted : Download(u)
    \/ \E u \in scenario.searchers : AnswerSearch(u) \/ ExpireHeld(u)
    \/ StopAll

WorldStep ==
    \/ \E u \in scenario.callers : ServerSendsConnect(u) \/ InboundDial(u)
    \/ \E u \in resolving : ServerResolves(u)
    \/ \E t \in DOMAIN pendingConnect : ServerCannotBroker(t) \/ PierceFirewall(t)
    \/ \E a \in arriving : InboundRegister(a) \/ InboundNudge(a)

LoopStep ==
    \/ HandleConnectToPeer \/ HandlePeerAddress \/ HandlePeerConnected
    \/ HandlePeerDisconnected \/ HandleConnectFailed \/ HandleCantConnect
    \/ \E t \in DOMAIN pendingConnect : SweepExpiredConnect(t)

ActorStep ==
    \E i \in DOMAIN actors :
        \/ DialFails(i) \/ Establish(i)
        \/ ReadStop(i) \/ ReadConnecting(i) \/ ReadConnected(i) \/ ReadDisconnected(i)
        \/ HangUp(i) \/ ReadError(i) \/ SelfStop(i)

PeerNext == CallerStep \/ WorldStep \/ LoopStep \/ ActorStep

PeerSpec == PeerInit /\ [][PeerNext]_peerVars
-----------------------------------------------------------------------------
(* Correctness. *)

Reports(i) ==
    Cardinality({k \in DOMAIN operations :
        operations[k].op \in {"PeerDisconnected", "PeerConnectFailed"}
            /\ operations[k].id = i})

\* The types of the state, and one user per registry entry.
PeerTypeOK ==
    /\ DOMAIN actors \subseteq ActorId /\ \A i \in DOMAIN actors : actors[i] \in Actor
    /\ DOMAIN registry \subseteq Peers
    /\ \A u \in DOMAIN registry :
            registry[u] \in DOMAIN actors /\ actors[registry[u]].user = u
    /\ minted \in 0..MaxActors /\ arriving \subseteq Arrival /\ capacity \in Nat \ {0}
    /\ \A k \in DOMAIN operations : operations[k] \in Operation
    /\ resolving \subseteq Peers
    /\ DOMAIN pendingConnect \subseteq ActorId
    /\ \A t \in DOMAIN pendingConnect : pendingConnect[t] \in Peers
    /\ download \in [Peers -> {"none", "Queued", "Requested", "Failed"}]
    /\ answered \subseteq Peers /\ held \subseteq Peers /\ hungUp \subseteq Peers
    /\ shutDown \in BOOLEAN

\* No zombie holds a name: an actor that is over but still registered has its
\* report on the way, and that report will evict it (peer_registry.rs:90-95).
NoZombie ==
    \A u \in DOMAIN registry : actors[registry[u]].reported => Reports(registry[u]) = 1

\* No thread is left behind: an actor nothing in the registry points at has
\* ended, or is told to end, or was retired and ends by itself
\* (peer_actor.rs:985-1029).
NoOrphanThread ==
    \A i \in DOMAIN actors :
        \/ Current(i)
        \/ actors[i].conn = "stopped"
        \/ actors[i].retiring
        \/ \E k \in DOMAIN actors[i].inbox : actors[i].inbox[k] \in {"Retire", "Stop"}

\* What may still get a queued download asked for, or fail it.
Way(u) ==
    \/ u \in resolving
    \/ \E t \in DOMAIN pendingConnect : pendingConnect[t] = u
    \/ \E a \in arriving : a.user = u
    \/ \E k \in DOMAIN operations :
            LET op == operations[k] IN
            \/ op.op \in {"ConnectToPeer", "GetPeerAddressResponse", "PeerConnected",
                          "PeerConnectFailed"} /\ op.user = u
            \/ op.op = "PeerDisconnected" /\ op.user = u /\ op.error
    \/ /\ Registered(u)
       /\ LET a == actors[registry[u]] IN
            \/ a.conn = "connecting"
            \/ /\ a.conn = "connected"
               /\ \E k \in DOMAIN a.inbox : a.inbox[k] = "QueueUpload"

\* Whatever becomes of a peer's connection, its queued download was asked for
\* or something is under way that will ask for it or fail it, unless the
\* connection was closed by the peer before the request was read
\* (peers.rs:44-51 and 100-103).
NothingStranded ==
    ~shutDown =>
        \A u \in Peers :
            download[u] = "Queued" => Way(u) \/ u \in hungUp

\* A live actor loses its name only to a newer connection of the same user, to
\* a newcomer while it has nothing to do, or when the client shuts down; never
\* to the report of an actor it replaced (peer_registry.rs:182-203).
SuccessorStays ==
    [][\A u \in DOMAIN registry :
          ~actors[registry[u]].reported =>
              \/ u \in DOMAIN registry' /\ registry'[u] >= registry[u]
              \/ u \in DOMAIN registry' /\ \E a \in arriving : a.user = u /\ a.id = registry'[u]
              \/ u \notin Protected /\ \E v \in DOMAIN registry' : v \notin DOMAIN registry
              \/ shutDown']_peerVars
=============================================================================
