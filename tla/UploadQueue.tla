---------------------------- MODULE UploadQueue ----------------------------
(***************************************************************************)
(* The queue peers wait in for one of our upload slots                     *)
(* (client/upload_queue.rs, client/uploads.rs, operations/transfers.rs).   *)
(*                                                                         *)
(* Three kinds of thread share the tables under the ClientContext lock:    *)
(*   - the operations loop, which takes one ClientOperation at a time;     *)
(*   - one thread per upload being streamed, which pumps when it ends;     *)
(*   - callers of the API (slot count, cancellation).                      *)
(* Each peer's actor stands between the loop and the peer: it takes our    *)
(* offer from its mailbox and posts the peer's answer to the loop.         *)
(*                                                                         *)
(* One action is one section under the lock.  "offered" is Some(instant)   *)
(* in the code; here it is TRUE until the peer answers, and a sweep finds  *)
(* stale every offer older than some cutoff.                               *)
(***************************************************************************)
EXTENDS Integers, FiniteSets, Sequences

CONSTANTS
    Users,       \* the peers that ask us for files
    Files,       \* the shared files they ask for
    MaxSlots,    \* bound: the largest slot count set_upload_slots is given
    MaxRequests, \* bound: how many requests arrive in a behaviour
    PrivilegedLists, \* the lists of donors the server may send
    Outcomes,    \* the ways a stream may end in this instance
    MaxChannel   \* bound: operations waiting in the loop's channel

ASSUME UploadConstants ==
    /\ MaxSlots \in Nat \ {0}
    /\ MaxRequests \in Nat
    /\ PrivilegedLists \subseteq SUBSET Users
    /\ Outcomes \subseteq {"Completed", "Cancelled", "Failed"}
    /\ MaxChannel \in Nat \ {0}

VARIABLES
    queue,           \* upload_queue: the waiting jobs; seq tells them apart
    seq,             \* upload_seq: how many requests were ever queued
    slots,           \* upload_slots
    privileged,      \* privileged_users
    uploads,         \* uploads: token -> job that was given a slot and an offer
    active,          \* active_uploads: token -> transfer, finished ones included
    nextToken,       \* NEXT_UPLOAD_TOKEN, counted from 0
    peerAddresses,   \* peer_addresses: users whose listening port is cached
    pendingServes,   \* pending_serves: user -> tokens waiting for the address
    asked,           \* users whose address uploads have asked the server for
    connected,       \* users whose actor is running and registered
    mailbox,         \* ServeUpload messages on their way to an actor
    serving,         \* serving_tokens of each user's actor
    channel,         \* ClientOperations the loop has yet to take
    owed,            \* the loop has still to pump before its next operation
    ended            \* tokens whose serve thread has yet to pump

jobVars   == <<queue, seq, privileged>>
slotVars  == <<uploads, active, nextToken>>
routeVars == <<peerAddresses, pendingServes, asked>>
actorVars == <<connected, mailbox, serving>>
vars == <<jobVars, slots, slotVars, routeVars, actorVars, channel, owed, ended>>

Token  == Nat
Status == {"InProgress", "Completed", "Cancelled", "Failed"}
Job    == [user : Users, file : Files, privileged : BOOLEAN, seq : Nat]
Offer  == [user : Users, file : Files, offered : BOOLEAN]
Upload == [user : Users, file : Files, status : Status, cancel : BOOLEAN]
Serve  == [user : Users, token : Token]

StartUpload(t) == [op |-> "StartUpload", token |-> t]
PeerDisconnected(u, error) ==
    [op |-> "PeerDisconnected", user |-> u, error |-> error]
Operation ==
    [op : {"StartUpload"}, token : Token]
        \cup [op : {"PeerDisconnected"}, user : Users, error : BOOLEAN]
-----------------------------------------------------------------------------
(* Ordering: donors first, then whoever asked first. *)

\* Mutant: the ordering compares arrival the wrong way round.
NewestFirst(i, j) ==
    \/ i.privileged /\ ~j.privileged
    \/ i.privileged = j.privileged /\ i.seq > j.seq

Before(i, j) ==
    \/ i.privileged /\ ~j.privileged
    \/ i.privileged = j.privileged /\ i.seq < j.seq

Ahead(q, j) == {i \in q : Before(i, j)}

\* Where a waiting job sits, counting from 1.
Place(q, j) == Cardinality(Ahead(q, j)) + 1

\* The n that come first.
Best(q, n) == {j \in q : Place(q, j) <= n}
-----------------------------------------------------------------------------
(* Slots: an offer holds one until it is answered and streamed to its end. *)

InProgress == {t \in DOMAIN active : active[t].status = "InProgress"}

InFlight == Cardinality(DOMAIN uploads) + Cardinality(InProgress)

\* Mutant: only offers hold a slot.
ServedBesideStreams == Best(queue, slots - Cardinality(DOMAIN uploads))

\* What one pump takes: as many of the best ranked jobs as slots are free.
Served == Best(queue, slots - InFlight)

\* Mutants: numbering starts one too high; it starts again as offers leave.
TokenOfSkipping(j) == nextToken + Place(queue, j)
TokenOfReused(j)   == Cardinality(DOMAIN uploads) + Place(queue, j) - 1

\* Tokens are minted in serving order.
TokenOf(j) == nextToken + Place(queue, j) - 1

\* Mutant: a job that is offered a slot is not taken off the queue.
PumpKeepsQueued ==
    /\ queue' = queue
    /\ uploads' =
         [t \in DOMAIN uploads \cup {TokenOf(j) : j \in Served} |->
            IF t \in DOMAIN uploads THEN uploads[t]
            ELSE LET job == CHOOSE j \in Served : TokenOf(j) = t
                 IN  [user |-> job.user, file |-> job.file, offered |-> TRUE]]
    /\ nextToken' = nextToken + Cardinality(Served)
    /\ mailbox' = mailbox \cup
                    {[user |-> j.user, token |-> TokenOf(j)] : j \in Served}

\* The whole of pump_uploads, and the posting of the offers it returns.
PumpUploads ==
    /\ queue' = queue \ Served
    /\ uploads' =
         [t \in DOMAIN uploads \cup {TokenOf(j) : j \in Served} |->
            IF t \in DOMAIN uploads THEN uploads[t]
            ELSE LET job == CHOOSE j \in Served : TokenOf(j) = t
                 IN  [user |-> job.user, file |-> job.file, offered |-> TRUE]]
    /\ nextToken' = nextToken + Cardinality(Served)
    /\ mailbox' = mailbox \cup
                    {[user |-> j.user, token |-> TokenOf(j)] : j \in Served}

\* Mutant: the job is copied to active_uploads and stays in uploads.
SpawnServeCopies(S) ==
    /\ active' =
         [t \in DOMAIN active \cup (S \cap DOMAIN uploads) |->
            IF t \in DOMAIN active THEN active[t]
            ELSE [user |-> uploads[t].user, file |-> uploads[t].file,
                  status |-> "InProgress", cancel |-> FALSE]]
    /\ UNCHANGED uploads

\* spawn_serve for every one of S that is still a job: each moves to active.
SpawnServe(S) ==
    LET moved == S \cap DOMAIN uploads
    IN  /\ uploads' = [t \in DOMAIN uploads \ moved |-> uploads[t]]
        /\ active' =
             [t \in DOMAIN active \cup moved |->
                IF t \in moved
                THEN [user |-> uploads[t].user, file |-> uploads[t].file,
                      status |-> "InProgress", cancel |-> FALSE]
                ELSE active[t]]

DropUploads(S) == uploads' = [t \in DOMAIN uploads \ S |-> uploads[t]]
-----------------------------------------------------------------------------
Init ==
    /\ queue = {} /\ seq = 0 /\ privileged = {}
    /\ slots \in 1..MaxSlots
    /\ uploads = << >> /\ active = << >> /\ nextToken = 0
    /\ peerAddresses = {} /\ pendingServes = [u \in Users |-> {}] /\ asked = {}
    /\ connected = {} /\ mailbox = {} /\ serving = [u \in Users |-> {}]
    /\ channel = << >> /\ owed = FALSE /\ ended = {}
-----------------------------------------------------------------------------
(* Pumping, by the loop and by a serve thread that has just ended. *)

LoopPumps ==
    /\ owed
    /\ PumpUploads
    /\ owed' = FALSE
    /\ UNCHANGED <<seq, privileged, slots, active, routeVars, connected,
                   serving, channel, ended>>

\* Mutant: a finished upload waits for the next request to fill its slot.
ThreadOnlyEnds(t) ==
    /\ t \in ended
    /\ ended' = ended \ {t}
    /\ UNCHANGED <<jobVars, slots, slotVars, routeVars, actorVars, channel, owed>>

ThreadPumps(t) ==
    /\ t \in ended
    /\ PumpUploads
    /\ ended' = ended \ {t}
    /\ UNCHANGED <<seq, privileged, slots, active, routeVars, connected,
                   serving, channel, owed>>
-----------------------------------------------------------------------------
(* The operations loop.  It has no next operation while it owes a pump. *)

\* QueueUpload: nothing refuses a file the same peer already waits for.
\* A request reaches the loop before its connection's own end does, so taking
\* it straight from the connected peer loses no order.
QueueUpload(u, f) ==
    /\ ~owed
    /\ u \in connected
    /\ seq < MaxRequests
    /\ seq' = seq + 1
    /\ queue' = queue \cup {[user |-> u, file |-> f,
                             privileged |-> u \in privileged, seq |-> seq']}
    /\ owed' = TRUE
    /\ UNCHANGED <<privileged, slots, slotVars, routeVars, actorVars, channel,
                   ended>>

\* Mutant: the list counts only for requests still to come.
SetPrivilegedUsersLate(S) ==
    /\ ~owed
    /\ privileged' = S
    /\ owed' = TRUE
    /\ UNCHANGED <<queue, seq, slots, slotVars, routeVars, actorVars, channel,
                   ended>>

SetPrivilegedUsers(S) ==
    /\ ~owed
    /\ privileged' = S
    /\ queue' = {[j EXCEPT !.privileged = j.user \in S] : j \in queue}
    /\ owed' = TRUE
    /\ UNCHANGED <<seq, slots, slotVars, routeVars, actorVars, channel, ended>>

\* Mutants: the newest offer never times out; nobody pumps after a sweep.
SweepSparesNewest(c) ==
    LET stale == {t \in DOMAIN uploads : uploads[t].offered /\ t < c}
    IN  /\ ~owed
        /\ stale # {}
        /\ DropUploads(stale)
        /\ owed' = TRUE
        /\ UNCHANGED <<jobVars, slots, active, nextToken, routeVars, actorVars,
                       channel, ended>>

SweepWithoutPump(c) ==
    LET stale == {t \in DOMAIN uploads : uploads[t].offered /\ t <= c}
    IN  /\ ~owed
        /\ stale # {}
        /\ DropUploads(stale)
        /\ UNCHANGED <<jobVars, slots, active, nextToken, routeVars, actorVars,
                       channel, owed, ended>>

\* expire_stale_offers: whatever was offered up to token c has timed out.
SweepStaleOffers(c) ==
    LET stale == {t \in DOMAIN uploads : uploads[t].offered /\ t <= c}
    IN  /\ ~owed
        /\ stale # {}
        /\ DropUploads(stale)
        /\ owed' = TRUE
        /\ UNCHANGED <<jobVars, slots, active, nextToken, routeVars, actorVars,
                       channel, ended>>

Takes(op) ==
    /\ ~owed
    /\ channel # << >>
    /\ Head(channel).op = op
    /\ channel' = Tail(channel)

\* StartUpload for a job released or expired meanwhile does nothing.
StartUploadGone ==
    /\ Takes("StartUpload")
    /\ Head(channel).token \notin DOMAIN uploads
    /\ UNCHANGED <<jobVars, slots, slotVars, routeVars, actorVars, owed, ended>>

StartUploadKnown ==
    LET t == Head(channel).token
    IN  /\ Takes("StartUpload")
        /\ t \in DOMAIN uploads
        /\ uploads[t].user \in peerAddresses
        /\ SpawnServe({t})
        /\ UNCHANGED <<jobVars, slots, nextToken, routeVars, actorVars, owed,
                       ended>>

StartUploadUnknown ==
    LET t == Head(channel).token
        u == uploads[t].user
    IN  /\ Takes("StartUpload")
        /\ t \in DOMAIN uploads
        /\ u \notin peerAddresses
        /\ uploads' = [uploads EXCEPT ![t].offered = FALSE]
        /\ pendingServes' = [pendingServes EXCEPT ![u] = @ \cup {t}]
        /\ asked' = asked \cup {u}
        /\ UNCHANGED <<jobVars, slots, active, nextToken, peerAddresses,
                       actorVars, owed, ended>>

\* A clean close keeps everything the peer has queued or been offered.
PeerClosed ==
    /\ Takes("PeerDisconnected")
    /\ ~Head(channel).error
    /\ UNCHANGED <<jobVars, slots, slotVars, routeVars, actorVars, owed, ended>>

\* release_upload_slots: an error is evidence that the peer is gone.
PeerFailed ==
    LET u    == Head(channel).user
        jobs == {j \in queue : j.user = u}
        held == {t \in DOMAIN uploads : uploads[t].user = u}
    IN  /\ Takes("PeerDisconnected")
        /\ Head(channel).error
        /\ queue' = queue \ jobs
        /\ DropUploads(held)
        /\ owed' = (jobs # {} \/ held # {})
        /\ UNCHANGED <<seq, privileged, slots, active, nextToken, routeVars,
                       actorVars, ended>>

\* Mutant: the address is cached and the waiting list thrown away unserved.
AddressOnlyCached(u) ==
    /\ ~owed
    /\ asked' = asked \ {u}
    /\ peerAddresses' = peerAddresses \cup {u}
    /\ pendingServes' = [pendingServes EXCEPT ![u] = {}]
    /\ UNCHANGED <<jobVars, slots, slotVars, actorVars, channel, owed, ended>>

\* GetPeerAddressResponse carrying a port: everything waiting on it is served.
\* Other features look addresses up too, so it may come unasked for.
AddressKnown(u) ==
    /\ ~owed
    /\ asked' = asked \ {u}
    /\ peerAddresses' = peerAddresses \cup {u}
    /\ pendingServes' = [pendingServes EXCEPT ![u] = {}]
    /\ SpawnServe(pendingServes[u])
    /\ UNCHANGED <<jobVars, slots, nextToken, actorVars, channel, owed, ended>>

\* Port 0: the server does not know where this user listens.
AddressUnknown(u) ==
    /\ ~owed
    /\ u \in asked
    /\ asked' = asked \ {u}
    /\ UNCHANGED <<jobVars, slots, slotVars, peerAddresses, pendingServes,
                   actorVars, channel, owed, ended>>
-----------------------------------------------------------------------------
(* The peer's actor. *)

ActorStarts(u) ==
    /\ u \notin connected
    /\ connected' = connected \cup {u}
    /\ UNCHANGED <<jobVars, slots, slotVars, routeVars, mailbox, serving,
                   channel, owed, ended>>

\* The actor dies with its serving tokens, and reports how it ended.
ActorEnds(u, error) ==
    /\ u \in connected
    /\ Len(channel) < MaxChannel
    /\ connected' = connected \ {u}
    /\ serving' = [serving EXCEPT ![u] = {}]
    /\ channel' = Append(channel, PeerDisconnected(u, error))
    /\ UNCHANGED <<jobVars, slots, slotVars, routeVars, mailbox, owed, ended>>

\* The actor offers the file to its peer; without one the offer is lost.
ServeUpload(m) ==
    /\ m \in mailbox
    /\ mailbox' = mailbox \ {m}
    /\ serving' = IF m.user \in connected
                  THEN [serving EXCEPT ![m.user] = @ \cup {m.token}]
                  ELSE serving
    /\ UNCHANGED <<jobVars, slots, slotVars, routeVars, connected, channel,
                   owed, ended>>

\* TransferResponse to one of our offers.  A refusal tells the loop nothing.
TransferResponse(u, t, allowed) ==
    /\ t \in serving[u]
    /\ Len(channel) < MaxChannel
    /\ serving' = [serving EXCEPT ![u] = @ \ {t}]
    /\ channel' = IF allowed THEN Append(channel, StartUpload(t)) ELSE channel
    /\ UNCHANGED <<jobVars, slots, slotVars, routeVars, connected, mailbox,
                   owed, ended>>
-----------------------------------------------------------------------------
(* The thread streaming one upload, and the callers of the API. *)

ServeEnds(t, status) ==
    /\ t \in InProgress
    /\ status = "Cancelled" => active[t].cancel
    /\ active' = [active EXCEPT ![t].status = status]
    /\ ended' = ended \cup {t}
    /\ UNCHANGED <<jobVars, slots, uploads, nextToken, routeVars, actorVars,
                   channel, owed>>

CancelUpload(u, f) ==
    LET hit == {t \in InProgress : active[t].user = u /\ active[t].file = f}
    IN  /\ hit # {}
        /\ active' = [t \in DOMAIN active |->
                        IF t \in hit THEN [active[t] EXCEPT !.cancel = TRUE]
                        ELSE active[t]]
        /\ UNCHANGED <<jobVars, slots, uploads, nextToken, routeVars, actorVars,
                       channel, owed, ended>>

SetUploadSlots(n) ==
    /\ slots' = n
    /\ UNCHANGED <<jobVars, slotVars, routeVars, actorVars, channel, owed, ended>>

-----------------------------------------------------------------------------
TakesOperation ==
    StartUploadGone \/ StartUploadKnown \/ StartUploadUnknown
        \/ PeerClosed \/ PeerFailed

LoopStep ==
    \/ LoopPumps
    \/ TakesOperation
    \/ \E u \in Users, f \in Files : QueueUpload(u, f)
    \/ \E S \in PrivilegedLists : SetPrivilegedUsers(S)
    \/ \E c \in DOMAIN uploads : SweepStaleOffers(c)
    \/ \E u \in Users : AddressKnown(u) \/ AddressUnknown(u)

ActorStep ==
    \/ \E u \in Users : ActorStarts(u)
    \/ \E u \in Users, error \in BOOLEAN : ActorEnds(u, error)
    \/ \E m \in mailbox : ServeUpload(m)
    \/ \E u \in Users : \E t \in serving[u], allowed \in BOOLEAN :
          TransferResponse(u, t, allowed)

ThreadStep ==
    \/ \E t \in ended : ThreadPumps(t)
    \/ \E t \in DOMAIN active, status \in Outcomes : ServeEnds(t, status)
    \/ /\ "Cancelled" \in Outcomes
       /\ \E u \in Users, f \in Files : CancelUpload(u, f)
    \/ \E n \in 1..MaxSlots : SetUploadSlots(n)

Next == LoopStep \/ ActorStep \/ ThreadStep

Spec == Init /\ [][Next]_vars

\* Only lowers the slot count while uploads run.
SpecLowering == Init /\ [][Next /\ slots' <= slots]_vars

(* The loop takes its channel in order and sweeps every second, whatever else *)
(* keeps it busy; threads run; a stream ends, its socket deadlines see to it. *)
SweepOf(t) ==
    /\ t \in DOMAIN uploads /\ uploads[t].offered
    /\ \E c \in DOMAIN uploads : t <= c /\ SweepStaleOffers(c)

Tokens == 0..(MaxRequests - 1)

Fairness ==
    /\ WF_vars(LoopPumps)
    /\ SF_vars(TakesOperation)
    /\ \A u \in Users :
          SF_vars(u \in asked /\ (AddressKnown(u) \/ AddressUnknown(u)))
    /\ WF_vars(\E m \in mailbox : ServeUpload(m))
    /\ \A t \in Tokens :
          /\ SF_vars(SweepOf(t))
          /\ WF_vars(ThreadPumps(t))
          /\ WF_vars(\E status \in Outcomes : ServeEnds(t, status))

FairSpec == Spec /\ Fairness

\* An address an accepted offer waits for is learned in the end.
Resolvable ==
    \A u \in Users : SF_vars(pendingServes[u] # {} /\ AddressKnown(u))
-----------------------------------------------------------------------------
(* Properties. *)

(* Every table has its type, and its keys are tokens minted so far. *)
TypeOK ==
    /\ queue \in SUBSET Job /\ IsFiniteSet(queue)
    /\ seq \in Nat
    /\ slots \in 1..MaxSlots
    /\ privileged \in SUBSET Users
    /\ nextToken \in Nat
    /\ uploads \in [DOMAIN uploads -> Offer]
    /\ DOMAIN uploads \in SUBSET (0..(nextToken - 1))
    /\ active \in [DOMAIN active -> Upload]
    /\ DOMAIN active \in SUBSET (0..(nextToken - 1))
    /\ peerAddresses \in SUBSET Users
    /\ pendingServes \in [Users -> SUBSET Token]
    /\ asked \in SUBSET Users
    /\ connected \in SUBSET Users
    /\ mailbox \in SUBSET Serve
    /\ serving \in [Users -> SUBSET Token]
    /\ channel \in Seq(Operation)
    /\ owed \in BOOLEAN
    /\ ended \in SUBSET Token

(* Uploads offered or streaming never exceed the largest slot count ever set, *)
(* whichever of the loop and the ending threads pump, and in what order.  The *)
(* runs check NeverOversubscribed, which implies it.                          *)
SlotBound == InFlight <= MaxSlots

(* Lowering the count interrupts nothing, but nothing new is taken on until   *)
(* those in flight are fewer than the slots that are left.                    *)
NeverOversubscribed ==
    [][InFlight' > InFlight => InFlight' <= slots']_vars

(* No peer waits while a slot is free, once whoever freed one has pumped.     *)
NoIdleSlot ==
    queue # {} /\ ~owed /\ ended = {} => InFlight >= slots

(* A token is a waiting offer or a transfer, never both: spawn_serve moves    *)
(* it, and no later token reuses it.                                          *)
OneLedger == DOMAIN uploads \cap DOMAIN active = {}

(* Whichever way a token travels (mailbox, actor, pending address), it leads  *)
(* back to a job of the very peer it travels with: the bytes of a job are     *)
(* never streamed to another peer's address.                                  *)
RightPeer ==
    \A t \in DOMAIN uploads :
        /\ \A m \in mailbox : m.token = t => m.user = uploads[t].user
        /\ \A u \in Users : t \in serving[u] \cup pendingServes[u]
                             => u = uploads[t].user

(* An accepted offer no longer expires, so it must be waiting for an address  *)
(* that is still unknown, on the very list that address will release.         *)
AcceptedIsRouted ==
    \A t \in DOMAIN uploads :
        ~uploads[t].offered => /\ t \in pendingServes[uploads[t].user]
                               /\ uploads[t].user \notin peerAddresses

NewOffers == DOMAIN uploads' \ DOMAIN uploads

(* While a user the server lists as privileged waits, no other is offered a   *)
(* slot, also when the list changed after they asked.                         *)
NoDonorOvertaken ==
    [][(\E t \in NewOffers : uploads'[t].user \notin privileged)
          => \A j \in queue' : j.user \notin privileged]_vars

(* Among peers of one standing, nobody is offered a slot before somebody who  *)
(* asked earlier.                                                             *)
FirstComeFirstServed ==
    [][NewOffers # {} =>
         \A i \in queue \ queue', j \in queue' :
            (i.user \in privileged <=> j.user \in privileged)
               => i.seq < j.seq]_vars

(* An unanswered offer gives its slot up in the end: it is answered, swept,   *)
(* or released with its peer.                                                 *)
OffersSettle ==
    \A t \in Tokens :
        (t \in DOMAIN uploads /\ uploads[t].offered)
            ~> ~(t \in DOMAIN uploads /\ uploads[t].offered)

(* If addresses resolve, whoever waits is in the end offered a slot or gone. *)
NobodyWaitsForever ==
    Resolvable => \A s \in 1..MaxRequests :
        (\E j \in queue : j.seq = s) ~> ~(\E j \in queue : j.seq = s)

(* A peer that stays away holds none of our slots for good. *)
DepartedFreesSlots ==
    \A u \in Users :
        <>[](u \notin connected)
            => []<>(\A t \in DOMAIN uploads : uploads[t].user # u)
=============================================================================
