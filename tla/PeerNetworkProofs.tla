------------------------- MODULE PeerNetworkProofs -------------------------
(***************************************************************************)
(* Proofs about the registry of peers and its actors, for any users, any   *)
(* number of actors and any scenario: no name is held by an actor whose    *)
(* end nobody will report, no actor runs on that nothing points at, and a  *)
(* download asked of a peer that is still there is not stranded.           *)
(***************************************************************************)
EXTENDS PeerNetwork, FiniteSetTheorems, SequenceTheorems, TLAPS

USE PeerConstants

Box    == Seq(Posts)
Worker == [user : Peers, outbound : BOOLEAN, brokered : BOOLEAN,
           conn : {"connecting", "connected", "disconnected", "stopped"},
           established : BOOLEAN, reported : BOOLEAN, retiring : BOOLEAN,
           inbox : Box, backlog : Box]

Tables ==
    /\ actors \in [DOMAIN actors -> Worker] /\ DOMAIN actors \subseteq ActorId
    /\ registry \in [DOMAIN registry -> DOMAIN actors] /\ DOMAIN registry \subseteq Peers
    /\ \A u \in DOMAIN registry : actors[registry[u]].user = u
    /\ \A i \in DOMAIN actors : actors[i].conn = "connecting" => ~actors[i].reported

World ==
    /\ arriving \subseteq Arrival /\ minted \in 0..MaxActors /\ scenario \in Scenarios
    /\ operations \in Seq(Operation) /\ resolving \subseteq Peers
    /\ pendingConnect \in [DOMAIN pendingConnect -> Peers]
    /\ DOMAIN pendingConnect \subseteq ActorId

\* An id is handed out once.
Fresh ==
    /\ \A i \in DOMAIN actors : i <= minted
    /\ \A a \in arriving : a.id <= minted /\ (~a.registered => a.id \notin DOMAIN actors)
    /\ \A a, b \in arriving : a.id = b.id => a = b

IsReport(m) == m.op \in {"PeerDisconnected", "PeerConnectFailed"}
Says(s, i)  == \E k \in DOMAIN s : IsReport(s[k]) /\ s[k].id = i
SaysOnce(s) == \A j, k \in DOMAIN s :
                   IsReport(s[j]) /\ IsReport(s[k]) /\ s[j].id = s[k].id => j = k

\* An actor reports once, of itself, when it is over.
ReportInv ==
    /\ SaysOnce(operations)
    /\ \A k \in DOMAIN operations :
          IsReport(operations[k]) =>
              /\ operations[k].id \in DOMAIN actors
              /\ actors[operations[k].id].reported
              /\ actors[operations[k].id].user = operations[k].user
    /\ \A u \in DOMAIN registry :
          actors[registry[u]].reported => Says(operations, registry[u])

\* What has been told to end ends, or is over.
MailEnds(a) == \E k \in DOMAIN a.inbox : a.inbox[k] \in {"Retire", "Stop"}
Ending(a)   == a.conn = "stopped" \/ a.retiring \/ MailEnds(a)

OrphanInv == \A i \in DOMAIN actors : Current(i) \/ Ending(actors[i])

PeerInv == Tables /\ World /\ Fresh /\ ReportInv /\ OrphanInv

-----------------------------------------------------------------------------
(* The channel of the loop. *)

LEMMA Added ==
    ASSUME NEW s \in Seq(Operation), NEW m \in Operation
    PROVE  /\ Append(s, m) \in Seq(Operation)
           /\ \A k \in DOMAIN Append(s, m) :
                  \/ k = Len(s) + 1 /\ Append(s, m)[k] = m
                  \/ k \in DOMAIN s /\ Append(s, m)[k] = s[k]
           /\ \A i : Says(s, i) => Says(Append(s, m), i)
           /\ IsReport(m) => Says(Append(s, m), m.id)
           /\ SaysOnce(s) /\ (IsReport(m) => ~Says(s, m.id)) => SaysOnce(Append(s, m))
<1> DEFINE a == Append(s, m)
<1>1. a \in Seq(Operation) /\ Len(s) \in Nat
        /\ DOMAIN s = 1..Len(s) /\ DOMAIN a = 1..(Len(s) + 1)
  OBVIOUS
<1>2. \A k \in DOMAIN a : (k = Len(s) + 1 /\ a[k] = m) \/ (k \in DOMAIN s /\ a[k] = s[k])
  OBVIOUS
<1>3. /\ \A k \in DOMAIN s : k \in DOMAIN a /\ a[k] = s[k]
      /\ Len(s) + 1 \in DOMAIN a /\ a[Len(s) + 1] = m
  OBVIOUS
<1> HIDE DEF a
<1>4. \A i : Says(s, i) => Says(a, i)
  BY <1>3 DEF Says
<1>5. IsReport(m) => Says(a, m.id)
  BY <1>3 DEF Says
<1>6. ASSUME SaysOnce(s), IsReport(m) => ~Says(s, m.id) PROVE SaysOnce(a)
  <2> SUFFICES ASSUME NEW j \in DOMAIN a, NEW k \in DOMAIN a, IsReport(a[j]), IsReport(a[k]),
                      a[j].id = a[k].id
               PROVE  j = k
    BY DEF SaysOnce
  <2>1. CASE j \in DOMAIN s /\ a[j] = s[j] /\ k \in DOMAIN s /\ a[k] = s[k]
    BY <1>6, <2>1 DEF SaysOnce
  <2>2. CASE j = Len(s) + 1 /\ a[j] = m /\ k \in DOMAIN s /\ a[k] = s[k]
    BY <1>6, <2>2 DEF Says
  <2>3. CASE k = Len(s) + 1 /\ a[k] = m /\ j \in DOMAIN s /\ a[j] = s[j]
    BY <1>6, <2>3 DEF Says
  <2> QED BY <1>2, <2>1, <2>2, <2>3
<1> QED BY <1>1, <1>2, <1>4, <1>5, <1>6 DEF a

LEMMA AddedTwo ==
    ASSUME NEW S, NEW s \in Seq(S), NEW x \in S, NEW y \in S
    PROVE  s \o <<x, y>> = Append(Append(s, x), y)
OBVIOUS

LEMMA Taken ==
    ASSUME NEW s \in Seq(Operation), s # <<>>
    PROVE  /\ Head(s) \in Operation /\ Tail(s) \in Seq(Operation)
           /\ \A k \in DOMAIN Tail(s) : k + 1 \in DOMAIN s /\ Tail(s)[k] = s[k + 1]
           /\ 1 \in DOMAIN s /\ Head(s) = s[1]
           /\ \A i : Says(s, i) => Says(Tail(s), i) \/ (IsReport(Head(s)) /\ Head(s).id = i)
           /\ SaysOnce(s) => SaysOnce(Tail(s))
           /\ SaysOnce(s) /\ IsReport(Head(s)) => ~Says(Tail(s), Head(s).id)
<1> DEFINE t == Tail(s)
<1>1. Head(s) \in Operation /\ t \in Seq(Operation) /\ 1 \in DOMAIN s /\ Head(s) = s[1]
  OBVIOUS
<1>2. \A k \in DOMAIN t : k \in Nat \ {0} /\ k + 1 \in DOMAIN s /\ t[k] = s[k + 1]
  OBVIOUS
<1>3. \A k \in DOMAIN s : k = 1 \/ (k - 1 \in DOMAIN t /\ t[k - 1] = s[k])
  OBVIOUS
<1> HIDE DEF t
<1>4. ASSUME NEW i, Says(s, i) PROVE Says(t, i) \/ (IsReport(Head(s)) /\ Head(s).id = i)
  BY <1>1, <1>3, <1>4 DEF Says
<1>5. ASSUME SaysOnce(s), NEW j \in DOMAIN t, NEW k \in DOMAIN t,
             IsReport(t[j]), IsReport(t[k]), t[j].id = t[k].id
      PROVE  j = k
  <2>1. j + 1 = k + 1
    BY <1>2, <1>5 DEF SaysOnce
  <2> QED BY <1>2, <2>1
<1>6. ASSUME SaysOnce(s), IsReport(Head(s)), NEW k \in DOMAIN t,
             IsReport(t[k]), t[k].id = Head(s).id
      PROVE  FALSE
  <2>1. 1 = k + 1
    BY <1>1, <1>2, <1>6 DEF SaysOnce
  <2> QED BY <1>2, <2>1
<1>7. SaysOnce(s) => SaysOnce(t)
  BY <1>5 DEF SaysOnce
<1>8. SaysOnce(s) /\ IsReport(Head(s)) => ~Says(t, Head(s).id)
  BY <1>6 DEF Says
<1> QED BY <1>1, <1>2, <1>4, <1>7, <1>8 DEF t
-----------------------------------------------------------------------------
(* The state of an actor. *)

\* One mailbox with a message added.
LEMMA BoxAdded ==
    ASSUME NEW b \in Box, NEW m \in Posts
    PROVE  /\ Append(b, m) \in Box
           /\ \A k \in DOMAIN b : k \in DOMAIN Append(b, m) /\ Append(b, m)[k] = b[k]
           /\ Len(b) + 1 \in DOMAIN Append(b, m) /\ Append(b, m)[Len(b) + 1] = m
BY DEF Box

\* One mailbox with its first message taken.
LEMMA BoxTaken ==
    ASSUME NEW b \in Box, b # <<>>
    PROVE  /\ Head(b) \in Posts /\ Tail(b) \in Box /\ Head(b) = b[1]
           /\ \A k \in DOMAIN b : k # 1 => k - 1 \in DOMAIN Tail(b) /\ Tail(b)[k - 1] = b[k]
BY DEF Box

LEMMA WorkerFields ==
    ASSUME NEW a \in Worker
    PROVE  /\ a.user \in Peers /\ a.inbox \in Box /\ a.backlog \in Box
           /\ a.reported \in BOOLEAN /\ a.retiring \in BOOLEAN
           /\ a.outbound \in BOOLEAN /\ a.brokered \in BOOLEAN
           /\ a.conn \in {"connecting", "connected", "disconnected", "stopped"}
BY DEF Worker

\* The same actor with another mailbox.
Mailed(b, a) ==
    /\ b \in Worker
    /\ b.user = a.user /\ b.conn = a.conn
    /\ b.reported = a.reported /\ b.retiring = a.retiring

LEMMA NewBox ==
    ASSUME NEW a \in Worker, NEW x \in Box
    PROVE  Mailed([a EXCEPT !.inbox = x], a) /\ [a EXCEPT !.inbox = x].inbox = x
BY DEF Worker, Mailed

\* An actor that was told to end is still told so after more mail, and is told
\* so by Retire or Stop.
LEMMA PostOne ==
    ASSUME NEW a \in Worker, NEW m \in Posts
    PROVE  /\ Mailed([a EXCEPT !.inbox = Append(a.inbox, m)], a)
           /\ Ending(a) => Ending([a EXCEPT !.inbox = Append(a.inbox, m)])
           /\ m \in {"Retire", "Stop"} => Ending([a EXCEPT !.inbox = Append(a.inbox, m)])
<1> DEFINE x == Append(a.inbox, m)
           b == [a EXCEPT !.inbox = x]
<1>1. a.inbox \in Box
  BY WorkerFields
<1>2. x \in Box /\ (\A k \in DOMAIN a.inbox : k \in DOMAIN x /\ x[k] = a.inbox[k])
        /\ Len(a.inbox) + 1 \in DOMAIN x /\ x[Len(a.inbox) + 1] = m
  BY <1>1, BoxAdded
<1> HIDE DEF x
<1>3. Mailed(b, a) /\ b.inbox = x
  BY <1>2, NewBox
<1> HIDE DEF b
<1>4. (Ending(a) => Ending(b)) /\ (m \in {"Retire", "Stop"} => Ending(b))
  BY <1>2, <1>3 DEF Ending, MailEnds, Mailed
<1> QED BY <1>3, <1>4 DEF b, x

\* Post changes one mailbox.
LEMMA PostAny ==
    ASSUME NEW as, as \in [DOMAIN as -> Worker], NEW i \in DOMAIN as, NEW m \in Posts,
           NEW bs, bs = Post(as, i, m)
    PROVE  /\ bs \in [DOMAIN as -> Worker]
           /\ \A j \in DOMAIN as :
                  Mailed(bs[j], as[j]) /\ (Ending(as[j]) => Ending(bs[j]))
           /\ m \in {"Retire", "Stop"} => Ending(bs[i])
<1>1. DOMAIN bs = DOMAIN as /\ bs[i] = [as[i] EXCEPT !.inbox = Append(as[i].inbox, m)]
        /\ \A j \in DOMAIN as : j # i => bs[j] = as[j]
  BY DEF Post
<1>2. \A j \in DOMAIN as : Mailed(as[j], as[j])
  BY DEF Mailed
<1>3. as[i] \in Worker
  OBVIOUS
<1>4. Mailed(bs[i], as[i]) /\ (Ending(as[i]) => Ending(bs[i]))
        /\ (m \in {"Retire", "Stop"} => Ending(bs[i]))
  BY <1>1, <1>3, PostOne
<1>5. \A j \in DOMAIN as : Mailed(bs[j], as[j]) /\ (Ending(as[j]) => Ending(bs[j]))
  BY <1>1, <1>2, <1>4
<1>6. bs = [j \in DOMAIN as |-> bs[j]]
  BY DEF Post
<1>7. bs \in [DOMAIN as -> Worker]
  BY <1>5, <1>6 DEF Mailed
<1> QED BY <1>4, <1>5, <1>7
-----------------------------------------------------------------------------
(* What every step keeps of the tables. *)

\* Actors are added and never taken away, what they have become they remain,
\* and a new one holds its name.
Kept ==
    /\ actors' \in [DOMAIN actors' -> Worker] /\ DOMAIN actors' \subseteq ActorId
    /\ DOMAIN actors \subseteq DOMAIN actors'
    /\ \A j \in DOMAIN actors' : actors'[j].conn = "connecting" => ~actors'[j].reported
    /\ \A j \in DOMAIN actors :
          /\ actors'[j].user = actors[j].user
          /\ actors[j].reported => actors'[j].reported
          /\ Ending(actors[j]) => Ending(actors'[j])
    /\ \A j \in DOMAIN actors' : j \notin DOMAIN actors =>
          /\ ~actors'[j].reported
          /\ actors'[j].user \in DOMAIN registry' /\ registry'[actors'[j].user] = j

\* Who keeps a name is the same actor, who gets one is new, and who loses one
\* is told to end.
Handed ==
    /\ registry' \in [DOMAIN registry' -> DOMAIN actors'] /\ DOMAIN registry' \subseteq Peers
    /\ \A u \in DOMAIN registry' :
          /\ actors'[registry'[u]].user = u
          /\ \/ registry'[u] \notin DOMAIN actors
             \/ u \in DOMAIN registry /\ registry'[u] = registry[u]
    /\ \A u \in DOMAIN registry :
          \/ u \in DOMAIN registry' /\ registry'[u] = registry[u]
          \/ Ending(actors'[registry[u]])

\* Nobody reports.
Mute == \A j \in DOMAIN actors : actors'[j].reported = actors[j].reported

LEMMA TablesStep == ASSUME Tables, Kept, Handed PROVE Tables'
BY DEF Tables, Kept, Handed

LEMMA OrphanStep == ASSUME Tables, OrphanInv, Kept, Handed PROVE OrphanInv'
<1> SUFFICES ASSUME NEW j \in DOMAIN actors'
             PROVE  Current(j)' \/ Ending(actors'[j])
  BY DEF OrphanInv
<1> USE DEF Current, Registered
<1>1. CASE j \notin DOMAIN actors
  BY <1>1 DEF Kept
<1>2. CASE j \in DOMAIN actors /\ Ending(actors[j])
  BY <1>2 DEF Kept
<1>3. CASE j \in DOMAIN actors /\ Current(j)
  <2>1. actors[j].user \in DOMAIN registry /\ registry[actors[j].user] = j
          /\ actors'[j].user = actors[j].user
    BY <1>3 DEF Kept
  <2> QED BY <2>1 DEF Handed
<1> QED BY <1>1, <1>2, <1>3 DEF OrphanInv

\* Nothing happens to the tables.
LEMMA NothingMoves ==
    ASSUME Tables, actors' = actors, registry' = registry
    PROVE  Kept /\ Handed /\ Mute
BY DEF Tables, Kept, Handed, Mute

\* The mailboxes may grow.
LEMMA OnlyMail ==
    ASSUME Tables, NEW bs, bs \in [DOMAIN actors -> Worker],
           \A j \in DOMAIN actors :
               Mailed(bs[j], actors[j]) /\ (Ending(actors[j]) => Ending(bs[j])),
           actors' = bs, registry' = registry
    PROVE  Kept /\ Handed /\ Mute
<1>1. \A j \in DOMAIN actors :
          /\ bs[j].user = actors[j].user /\ bs[j].conn = actors[j].conn
          /\ bs[j].reported = actors[j].reported
          /\ Ending(actors[j]) => Ending(bs[j])
  BY DEF Mailed
<1> HIDE DEF Ending
<1> QED BY <1>1 DEF Tables, Kept, Handed, Mute

\* One message is posted.
LEMMA PostMoves ==
    ASSUME Tables, NEW i \in DOMAIN actors, NEW m \in Posts,
           actors' = Post(actors, i, m), registry' = registry
    PROVE  Kept /\ Handed /\ Mute
<1>1. actors \in [DOMAIN actors -> Worker]
  BY DEF Tables
<1> DEFINE bs == Post(actors, i, m)
<1>2. /\ bs \in [DOMAIN actors -> Worker]
      /\ \A j \in DOMAIN actors :
             Mailed(bs[j], actors[j]) /\ (Ending(actors[j]) => Ending(bs[j]))
  BY <1>1, PostAny
<1> HIDE DEF bs
<1>3. actors' = bs
  BY DEF bs
<1> QED BY <1>2, <1>3, OnlyMail

\* One actor moves on.
LEMMA ActorMoves ==
    ASSUME Tables, NEW i \in DOMAIN actors, NEW a \in Worker,
           a.user = actors[i].user, actors[i].reported => a.reported,
           a.conn = "connecting" => ~a.reported,
           Ending(actors[i]) => Ending(a),
           actors' = [actors EXCEPT ![i] = a], registry' = registry
    PROVE  Kept /\ Handed
<1>1. /\ DOMAIN actors' = DOMAIN actors /\ actors'[i] = a
      /\ \A j \in DOMAIN actors : j # i => actors'[j] = actors[j]
      /\ actors' \in [DOMAIN actors -> Worker]
  BY DEF Tables
<1> HIDE DEF Ending
<1> QED BY <1>1 DEF Tables, Kept, Handed
-----------------------------------------------------------------------------
(* A name is given to a new actor. *)

LEMMA SpawnedIs ==
    ASSUME NEW u \in Peers, NEW o \in BOOLEAN, NEW b \in BOOLEAN
    PROVE  /\ Spawned(u, o, b) \in Worker /\ Spawned(u, o, b).user = u
           /\ ~Spawned(u, o, b).reported
BY DEF Spawned, Worker, Box, Posts

LEMMA NewcomerMoves ==
    ASSUME Tables, NEW u \in Peers, NEW i \in ActorId, i \notin DOMAIN actors,
           NEW rs, rs \in [DOMAIN actors -> Worker],
           \A j \in DOMAIN actors :
               Mailed(rs[j], actors[j]) /\ (Ending(actors[j]) => Ending(rs[j])),
           NEW gone,
           \A v \in DOMAIN registry : v \in {u, gone} => Ending(rs[registry[v]]),
           actors' \in [DOMAIN actors \cup {i} -> Worker],
           actors'[i].user = u, ~actors'[i].reported,
           \A j \in DOMAIN actors : actors'[j] = rs[j],
           registry' \in [(DOMAIN registry \ {gone}) \cup {u} -> DOMAIN actors \cup {i}],
           registry'[u] = i,
           \A v \in DOMAIN registry' : v # u => registry'[v] = registry[v]
    PROVE  Kept /\ Handed /\ Mute
<1>1. \A j \in DOMAIN actors :
          /\ rs[j] \in Worker
          /\ rs[j].user = actors[j].user /\ rs[j].conn = actors[j].conn
          /\ rs[j].reported = actors[j].reported
          /\ Ending(actors[j]) => Ending(rs[j])
  BY DEF Mailed
<1>2. DOMAIN actors' = DOMAIN actors \cup {i}
  OBVIOUS
<1>3. /\ DOMAIN registry' = (DOMAIN registry \ {gone}) \cup {u}
      /\ \A v \in DOMAIN registry : v \notin {u, gone} => v \in DOMAIN registry'
  OBVIOUS
<1>4. Kept
  BY <1>1, <1>2, <1>3 DEF Tables, Kept
<1>5. \A v \in DOMAIN registry : registry[v] \in DOMAIN actors /\ actors[registry[v]].user = v
        /\ v \in Peers
  BY DEF Tables
<1>6. Handed
  BY <1>1, <1>2, <1>3, <1>5 DEF Handed
<1>7. Mute
  BY <1>1 DEF Mute
<1> QED BY <1>4, <1>6, <1>7

LEMMA RegistersMoves ==
    ASSUME Tables, NEW u \in Peers, NEW i \in ActorId, i \notin DOMAIN actors,
           NEW o \in BOOLEAN, NEW b \in BOOLEAN, Registers(u, i, o, b)
    PROVE  Kept /\ Handed /\ Mute
<1>1. PICK gone \in IF Full(u) THEN Victims(DOMAIN registry) ELSE {u} :
          /\ actors' = [k \in DOMAIN actors \cup {i} |->
                 IF k = i THEN Spawned(u, o, b)
                 ELSE (IF Registered(u)
                       THEN Post(IF Full(u) THEN Post(actors, registry[gone], "Stop") ELSE actors,
                                 registry[u], "Retire")
                       ELSE IF Full(u) THEN Post(actors, registry[gone], "Stop") ELSE actors)[k]]
          /\ registry' = [v \in ((DOMAIN registry \ {gone}) \cup {u}) |->
                              IF v = u THEN i ELSE registry[v]]
  BY DEF Registers
<1> DEFINE a == Spawned(u, o, b)
<1>2. a \in Worker /\ a.user = u /\ ~a.reported
  BY SpawnedIs
<1>3. actors \in [DOMAIN actors -> Worker]
        /\ \A v \in DOMAIN registry : registry[v] \in DOMAIN actors
  BY DEF Tables
<1>4. "Stop" \in Posts /\ "Retire" \in Posts
  BY DEF Posts
<1>0. /\ registry' \in [(DOMAIN registry \ {gone}) \cup {u} -> DOMAIN actors \cup {i}]
      /\ registry'[u] = i
      /\ \A v \in DOMAIN registry' : v # u => registry'[v] = registry[v]
  BY <1>1, <1>3
<1> HIDE DEF a
<1>5. CASE Full(u)
  <2>1. gone \in DOMAIN registry /\ u \notin DOMAIN registry
    BY <1>1, <1>5 DEF Full, Victims, Idle, Registered
  <2> DEFINE rs == Post(actors, registry[gone], "Stop")
  <2>2. /\ rs \in [DOMAIN actors -> Worker]
        /\ \A j \in DOMAIN actors :
               Mailed(rs[j], actors[j]) /\ (Ending(actors[j]) => Ending(rs[j]))
        /\ Ending(rs[registry[gone]])
    BY <1>3, <1>4, <2>1, PostAny
  <2>3. /\ actors' \in [DOMAIN actors \cup {i} -> Worker]
        /\ actors'[i].user = u /\ ~actors'[i].reported
        /\ \A j \in DOMAIN actors : actors'[j] = rs[j]
    BY <1>1, <1>2, <1>3, <2>2, <1>5, <2>1 DEF Registered, a
  <2> HIDE DEF rs
  <2>4. \A v \in DOMAIN registry : v \in {u, gone} => Ending(rs[registry[v]])
    BY <2>1, <2>2
  <2> QED BY ONLY Tables, u \in Peers, i \in ActorId, i \notin DOMAIN actors,
                  <1>0, <1>2, <2>2, <2>3, <2>4, NewcomerMoves
<1>6. CASE ~Full(u) /\ u \in DOMAIN registry
  <2> DEFINE rs == Post(actors, registry[u], "Retire")
  <2>2. /\ rs \in [DOMAIN actors -> Worker]
        /\ \A j \in DOMAIN actors :
               Mailed(rs[j], actors[j]) /\ (Ending(actors[j]) => Ending(rs[j]))
        /\ Ending(rs[registry[u]])
    BY <1>3, <1>4, <1>6, PostAny
  <2>3. /\ actors' \in [DOMAIN actors \cup {i} -> Worker]
        /\ actors'[i].user = u /\ ~actors'[i].reported
        /\ \A j \in DOMAIN actors : actors'[j] = rs[j]
    BY <1>1, <1>2, <1>3, <2>2, <1>6 DEF Registered, a
  <2>4. gone = u
    BY <1>1, <1>6
  <2> HIDE DEF rs
  <2>5. \A v \in DOMAIN registry : v \in {u, gone} => Ending(rs[registry[v]])
    BY <2>2, <2>4
  <2> QED BY ONLY Tables, u \in Peers, i \in ActorId, i \notin DOMAIN actors,
                  <1>0, <1>2, <2>2, <2>3, <2>5, NewcomerMoves
<1>7. CASE ~Full(u) /\ u \notin DOMAIN registry
  <2>1. gone = u
    BY <1>1, <1>7
  <2>2. /\ actors' \in [DOMAIN actors \cup {i} -> Worker]
        /\ actors'[i].user = u /\ ~actors'[i].reported
        /\ \A j \in DOMAIN actors : actors'[j] = actors[j]
    BY <1>1, <1>2, <1>3, <1>7 DEF Registered, a
  <2>3. \A j \in DOMAIN actors : Mailed(actors[j], actors[j])
    BY <1>3 DEF Mailed
  <2>4. \A v \in DOMAIN registry : v \in {u, gone} => Ending(actors[registry[v]])
    BY <1>7, <2>1
  <2> QED BY ONLY Tables, u \in Peers, i \in ActorId, i \notin DOMAIN actors,
                  <1>0, <1>2, <1>3, <2>2, <2>3, <2>4, NewcomerMoves
<1> QED BY <1>5, <1>6, <1>7

\* The reporter leaves the map and is told to stop, or nothing happens.
LEMMA RemovalMoves ==
    ASSUME Tables, NEW u, NEW i, RemovePeerIf(u, i)
    PROVE  Kept /\ Handed /\ Mute
<1>1. CASE Registered(u) /\ registry[u] = i
  <2>1. u \in DOMAIN registry /\ i \in DOMAIN actors /\ actors \in [DOMAIN actors -> Worker]
    BY <1>1 DEF Registered, Tables
  <2> DEFINE rs == Post(actors, i, "Stop")
  <2>2. /\ rs \in [DOMAIN actors -> Worker]
        /\ \A j \in DOMAIN actors :
               Mailed(rs[j], actors[j]) /\ (Ending(actors[j]) => Ending(rs[j]))
        /\ Ending(rs[i])
    BY <2>1, PostAny DEF Posts
  <2>3. actors' = rs /\ registry' = [v \in DOMAIN registry \ {u} |-> registry[v]]
    BY <1>1 DEF RemovePeerIf, Without
  <2> HIDE DEF rs
  <2>4. \A j \in DOMAIN actors :
          /\ rs[j].user = actors[j].user /\ rs[j].conn = actors[j].conn
          /\ rs[j].reported = actors[j].reported
    BY <2>2 DEF Mailed
  <2> HIDE DEF Ending
  <2>5. Kept
    BY <2>2, <2>3, <2>4 DEF Tables, Kept
  <2>6. Handed
    BY <1>1, <2>2, <2>3, <2>4 DEF Tables, Handed
  <2>7. Mute
    BY <2>3, <2>4 DEF Mute
  <2> QED BY <2>5, <2>6, <2>7
<1>2. CASE ~(Registered(u) /\ registry[u] = i)
  BY <1>2, NothingMoves DEF RemovePeerIf
<1> QED BY <1>1, <1>2
-----------------------------------------------------------------------------
(* Every step keeps the tables. *)

LEMMA ClosedIs ==
    ASSUME NEW a \in Worker
    PROVE  /\ Closed(a) \in Worker /\ Closed(a).user = a.user
           /\ Closed(a).conn = "disconnected" /\ Closed(a).reported
           /\ Closed(a).retiring = a.retiring /\ Closed(a).inbox = a.inbox
BY DEF Closed, Worker

\* What was told to end is still told so when its connection is closed.
LEMMA ClosedEnds ==
    ASSUME NEW a \in Worker, a.conn # "stopped", Ending(a) PROVE Ending(Closed(a))
BY ClosedIs DEF Ending, MailEnds

\* An actor whose first message is taken.
LEMMA OpenedIs ==
    ASSUME Tables, NEW i \in DOMAIN actors, actors[i].inbox # <<>>
    PROVE  /\ Opened(i) \in Worker
           /\ Opened(i).user = actors[i].user /\ Opened(i).conn = actors[i].conn
           /\ Opened(i).reported = actors[i].reported
           /\ Opened(i).retiring = actors[i].retiring
           /\ Ending(actors[i]) /\ Head(actors[i].inbox) \notin {"Retire", "Stop"}
                => Ending(Opened(i))
           /\ Head(actors[i].inbox) \in Posts
<1> DEFINE a == actors[i]
           t == Tail(a.inbox)
           b == [a EXCEPT !.inbox = t]
<1>1. a \in Worker
  BY DEF Tables
<1>2. a.inbox \in Box
  BY <1>1, WorkerFields
<1>3. /\ t \in Box /\ Head(a.inbox) \in Posts /\ Head(a.inbox) = a.inbox[1]
      /\ \A k \in DOMAIN a.inbox : k # 1 => k - 1 \in DOMAIN t /\ t[k - 1] = a.inbox[k]
  BY <1>2, BoxTaken
<1> HIDE DEF t
<1>4. Mailed(b, a) /\ b.inbox = t
  BY <1>1, <1>3, NewBox
<1>5. Opened(i) = b
  BY DEF Opened, t
<1> HIDE DEF b
<1>6. ASSUME MailEnds(a), Head(a.inbox) \notin {"Retire", "Stop"} PROVE MailEnds(b)
  BY <1>3, <1>4, <1>6 DEF MailEnds
<1> QED BY <1>3, <1>4, <1>5, <1>6 DEF Mailed, Ending

\* What else an actor becomes.
SetAside(a, m) == [a EXCEPT !.backlog = Append(a.backlog, m)]
Retiring(a, r) == [a EXCEPT !.retiring = r]
Up(a)          == [a EXCEPT !.conn = "connected", !.established = TRUE, !.backlog = <<>>]
Stopped(u)     == [Closed(Spawned(u, FALSE, FALSE)) EXCEPT !.conn = "stopped"]

LEMMA SetAsideIs ==
    ASSUME NEW a \in Worker, NEW m \in Posts
    PROVE  /\ SetAside(a, m) \in Worker /\ SetAside(a, m).inbox = a.inbox
           /\ SetAside(a, m).user = a.user /\ SetAside(a, m).conn = a.conn
           /\ SetAside(a, m).reported = a.reported /\ SetAside(a, m).retiring = a.retiring
<1> DEFINE x == Append(a.backlog, m)
<1>1. x \in Box
  BY WorkerFields DEF Box
<1>2. SetAside(a, m) = [a EXCEPT !.backlog = x]
  BY DEF SetAside
<1> HIDE DEF x
<1> QED BY <1>1, <1>2 DEF Worker

LEMMA RetiringIs ==
    ASSUME NEW a \in Worker, NEW r \in BOOLEAN
    PROVE  /\ Retiring(a, r) \in Worker /\ Retiring(a, r).inbox = a.inbox
           /\ Retiring(a, r).user = a.user /\ Retiring(a, r).conn = a.conn
           /\ Retiring(a, r).reported = a.reported /\ Retiring(a, r).retiring = r
BY DEF Worker, Retiring

LEMMA UpIs ==
    ASSUME NEW a \in Worker
    PROVE  /\ Up(a) \in Worker /\ Up(a).inbox = a.inbox
           /\ Up(a).user = a.user /\ Up(a).conn = "connected"
           /\ Up(a).reported = a.reported /\ Up(a).retiring = a.retiring
<1>1. <<>> \in Box
  BY DEF Box
<1> QED BY <1>1 DEF Worker, Up

LEMMA StoppedIs ==
    ASSUME NEW u \in Peers
    PROVE  /\ Stopped(u) \in Worker /\ Stopped(u).user = u
           /\ Stopped(u).conn = "stopped" /\ Stopped(u).reported
<1>1. Spawned(u, FALSE, FALSE) \in Worker /\ Spawned(u, FALSE, FALSE).user = u
  BY SpawnedIs
<1>2. Closed(Spawned(u, FALSE, FALSE)) \in Worker /\ Closed(Spawned(u, FALSE, FALSE)).user = u
        /\ Closed(Spawned(u, FALSE, FALSE)).reported
  BY <1>1, ClosedIs
<1> QED BY <1>2 DEF Worker, Stopped

\* What an actor of our own making may become in one step: itself read on, up,
\* closed or stopped.
Course(i, a) ==
    /\ a \in Worker /\ a.user = actors[i].user
    /\ actors[i].reported => a.reported
    /\ a.conn = "connecting" => ~a.reported
    /\ Ending(actors[i]) => Ending(a)
    /\ actors' = [actors EXCEPT ![i] = a]

LEMMA Courses ==
    ASSUME Tables, NEW i \in DOMAIN actors
    PROVE  /\ DialFails(i) => Course(i, Closed(actors[i]))
           /\ Establish(i) => Course(i, Up(actors[i])) \/ Course(i, Closed(Up(actors[i])))
           /\ ReadStop(i) => Course(i, Stopped(actors[i].user))
           /\ HangUp(i) \/ ReadError(i) => Course(i, Closed(actors[i]))
<1> DEFINE a == actors[i]
<1>1. a \in Worker /\ (a.conn = "connecting" => ~a.reported)
  BY DEF Tables
<1>2. a.user \in Peers
  BY <1>1, WorkerFields
<1>3. /\ Closed(a) \in Worker /\ Closed(a).user = a.user
      /\ Closed(a).conn = "disconnected" /\ Closed(a).reported
      /\ (a.conn # "stopped" /\ Ending(a)) => Ending(Closed(a))
  BY <1>1, ClosedIs, ClosedEnds
<1>4. /\ Up(a) \in Worker /\ Up(a).inbox = a.inbox
      /\ Up(a).user = a.user /\ Up(a).conn = "connected"
      /\ Up(a).reported = a.reported /\ Up(a).retiring = a.retiring
  BY <1>1, UpIs
<1>5. (a.conn # "stopped" /\ Ending(a)) => Ending(Up(a))
  BY <1>4 DEF Ending, MailEnds
<1>6. /\ Closed(Up(a)) \in Worker /\ Closed(Up(a)).user = a.user
      /\ Closed(Up(a)).conn = "disconnected" /\ Closed(Up(a)).reported
      /\ Ending(Up(a)) => Ending(Closed(Up(a)))
  BY <1>4, ClosedIs, ClosedEnds
<1>7. ASSUME actors' = [actors EXCEPT ![i] = Closed(a)], a.conn \in {"connecting", "connected"}
      PROVE  Course(i, Closed(a))
  BY <1>3, <1>7 DEF Course
<1>8. DialFails(i) \/ HangUp(i) \/ ReadError(i) => Course(i, Closed(a))
  BY <1>7 DEF DialFails, HangUp, ReadError, Is, Breaks, Becomes
<1>9. ASSUME Establish(i)
      PROVE  Course(i, Up(a)) \/ Course(i, Closed(Up(a)))
  <2>1. /\ a.conn = "connecting"
        /\ \/ actors' = [actors EXCEPT ![i] = Up(a)]
           \/ actors' = [actors EXCEPT ![i] = Closed(Up(a))]
    BY <1>9 DEF Establish, Is, Becomes, Up
  <2> QED BY <1>1, <1>4, <1>5, <1>6, <2>1 DEF Course
<1>10. ASSUME ReadStop(i) PROVE Course(i, Stopped(a.user))
  <2>1. actors' = [actors EXCEPT ![i] = Stopped(a.user)]
    BY <1>10 DEF ReadStop, Becomes, Stopped
  <2>2. /\ Stopped(a.user) \in Worker /\ Stopped(a.user).user = a.user
        /\ Stopped(a.user).conn = "stopped" /\ Stopped(a.user).reported
    BY <1>2, StoppedIs
  <2> QED BY <2>1, <2>2 DEF Course, Ending
<1> QED BY <1>8, <1>9, <1>10

LEMMA Readings ==
    ASSUME Tables, NEW i \in DOMAIN actors,
           ReadConnecting(i) \/ ReadConnected(i) \/ ReadDisconnected(i)
    PROVE  \/ \E a \in Worker : Course(i, a) /\ a.reported = actors[i].reported
                                 /\ UNCHANGED operations
           \/ /\ Course(i, Closed(Opened(i))) /\ actors[i].conn = "connected"
              /\ Report(i, ErrorReport(i))
           \/ /\ Course(i, Retiring(Closed(Opened(i)), TRUE)) /\ actors[i].conn = "connecting"
              /\ Report(i, CleanReport(i))
<1> DEFINE o == Opened(i)
           m == Head(actors[i].inbox)
<1>1. actors[i] \in Worker /\ (actors[i].conn = "connecting" => ~actors[i].reported)
  BY DEF Tables
<1>2. actors[i].inbox # <<>>
  BY DEF ReadConnecting, ReadConnected, ReadDisconnected, Takes
<1>3. /\ o \in Worker
      /\ o.user = actors[i].user /\ o.conn = actors[i].conn
      /\ o.reported = actors[i].reported /\ o.retiring = actors[i].retiring
      /\ Ending(actors[i]) /\ m \notin {"Retire", "Stop"} => Ending(o)
      /\ m \in Posts
  BY <1>2, OpenedIs
<1>4. /\ Closed(o) \in Worker /\ Closed(o).user = actors[i].user
      /\ Closed(o).conn = "disconnected" /\ Closed(o).reported
      /\ o.conn # "stopped" /\ Ending(o) => Ending(Closed(o))
  BY <1>3, ClosedIs, ClosedEnds
<1>5. o.retiring \in BOOLEAN
  BY <1>3, WorkerFields
<1> HIDE DEF o, m
<1>6. ASSUME NEW a \in Worker, NEW r \in BOOLEAN, r = TRUE PROVE Ending(Retiring(a, r))
  BY <1>6, RetiringIs DEF Ending
<1>7. CASE ReadConnecting(i)
  <2>1. CASE /\ actors' = [actors EXCEPT ![i] = Retiring(Closed(o), TRUE)]
             /\ actors[i].conn = "connecting" /\ Report(i, CleanReport(i))
    <3>1. /\ Retiring(Closed(o), TRUE) \in Worker
          /\ Retiring(Closed(o), TRUE).user = actors[i].user
          /\ Retiring(Closed(o), TRUE).conn = "disconnected"
          /\ Retiring(Closed(o), TRUE).reported /\ Ending(Retiring(Closed(o), TRUE))
      BY <1>4, <1>6, RetiringIs
    <3> QED BY <2>1, <3>1 DEF Course, o
  <2>2. CASE /\ actors' = [actors EXCEPT ![i] = SetAside(o, m)]
             /\ actors[i].conn = "connecting" /\ m \notin {"Retire", "Stop"}
             /\ UNCHANGED operations
    <3>1. /\ SetAside(o, m) \in Worker /\ SetAside(o, m).inbox = o.inbox
          /\ SetAside(o, m).user = o.user /\ SetAside(o, m).conn = o.conn
          /\ SetAside(o, m).reported = o.reported /\ SetAside(o, m).retiring = o.retiring
      BY <1>3, SetAsideIs
    <3>2. Ending(o) => Ending(SetAside(o, m))
      BY <3>1 DEF Ending, MailEnds
    <3> QED BY <1>1, <1>3, <2>2, <3>1, <3>2 DEF Course
  <2>3. \/ /\ actors' = [actors EXCEPT ![i] = Retiring(Closed(o), TRUE)]
           /\ actors[i].conn = "connecting" /\ Report(i, CleanReport(i))
        \/ /\ actors' = [actors EXCEPT ![i] = SetAside(o, m)]
           /\ actors[i].conn = "connecting" /\ m \notin {"Retire", "Stop"}
           /\ UNCHANGED operations
    BY <1>7 DEF ReadConnecting, Takes, Is, Becomes, Retiring, SetAside, o, m
  <2> QED BY <2>1, <2>2, <2>3
<1>8. CASE ReadConnected(i)
  <2>1. \/ /\ actors' = [actors EXCEPT ![i] = Retiring(o, TRUE)]
           /\ actors[i].conn = "connected" /\ UNCHANGED operations
        \/ /\ actors' = [actors EXCEPT ![i] = o]
           /\ actors[i].conn = "connected" /\ m \notin {"Retire", "Stop"}
           /\ UNCHANGED operations
        \/ /\ actors' = [actors EXCEPT ![i] = Closed(o)]
           /\ actors[i].conn = "connected" /\ m \notin {"Retire", "Stop"}
           /\ Report(i, ErrorReport(i))
    BY <1>8 DEF ReadConnected, Takes, Is, Becomes, Breaks, Retiring, o, m
  <2>2. /\ Retiring(o, TRUE) \in Worker
        /\ Retiring(o, TRUE).user = actors[i].user
        /\ Retiring(o, TRUE).conn = actors[i].conn
        /\ Retiring(o, TRUE).reported = actors[i].reported /\ Ending(Retiring(o, TRUE))
    BY <1>3, <1>6, RetiringIs
  <2> QED BY <1>1, <1>3, <1>4, <2>1, <2>2 DEF Course, o
<1>9. CASE ReadDisconnected(i)
  <2> DEFINE r == o.retiring \/ m = "Retire"
  <2>1. /\ actors' = [actors EXCEPT ![i] = Retiring(o, r)]
        /\ actors[i].conn = "disconnected" /\ m # "Stop" /\ UNCHANGED operations
    BY <1>9 DEF ReadDisconnected, Takes, Is, Becomes, Retiring, o, m
  <2>2. r \in BOOLEAN
    BY <1>5
  <2>3. /\ Retiring(o, r) \in Worker /\ Retiring(o, r).inbox = o.inbox
        /\ Retiring(o, r).user = o.user /\ Retiring(o, r).conn = o.conn
        /\ Retiring(o, r).reported = o.reported /\ Retiring(o, r).retiring = r
    BY <1>3, <2>2, RetiringIs
  <2>4. Ending(o) => Ending(Retiring(o, r))
    BY <2>3 DEF Ending, MailEnds
  <2>5. m = "Retire" => Ending(Retiring(o, r))
    BY <2>3 DEF Ending
  <2> HIDE DEF r
  <2> QED BY <1>1, <1>3, <2>1, <2>3, <2>4, <2>5 DEF Course
<1> QED BY <1>7, <1>8, <1>9

LEMMA CourseMoves ==
    ASSUME Tables, NEW i \in DOMAIN actors, NEW a, Course(i, a), registry' = registry
    PROVE  Kept /\ Handed
<1>1. /\ a \in Worker /\ a.user = actors[i].user
      /\ actors[i].reported => a.reported
      /\ a.conn = "connecting" => ~a.reported
      /\ Ending(actors[i]) => Ending(a)
      /\ actors' = [actors EXCEPT ![i] = a]
  BY DEF Course
<1> QED BY <1>1, ActorMoves

LEMMA ActorStepMoves ==
    ASSUME Tables, ActorStep PROVE Kept /\ Handed
<1>1. PICK i \in DOMAIN actors :
          \/ DialFails(i) \/ Establish(i)
          \/ ReadStop(i) \/ ReadConnecting(i) \/ ReadConnected(i) \/ ReadDisconnected(i)
          \/ HangUp(i) \/ ReadError(i) \/ SelfStop(i)
  BY DEF ActorStep
<1>2. registry' = registry
  BY <1>1 DEF DialFails, Establish, ReadStop, ReadConnecting, ReadConnected,
              ReadDisconnected, HangUp, ReadError, SelfStop, Rest
<1>3. CASE DialFails(i) \/ Establish(i) \/ ReadStop(i) \/ HangUp(i) \/ ReadError(i)
  <2>1. \E a : Course(i, a)
    BY <1>3, Courses
  <2> QED BY <1>2, <2>1, CourseMoves
<1>4. CASE ReadConnecting(i) \/ ReadConnected(i) \/ ReadDisconnected(i)
  <2>1. \E a : Course(i, a)
    BY <1>4, Readings
  <2> QED BY <1>2, <2>1, CourseMoves
<1>5. CASE SelfStop(i)
  <2>1. "Stop" \in Posts /\ actors' = Post(actors, i, "Stop")
    BY <1>5 DEF SelfStop, Posts
  <2> QED BY <1>2, <2>1, PostMoves
<1> QED BY <1>1, <1>3, <1>4, <1>5

\* Two more lots of mail, as the nudge of a connection brings.
LEMMA JoinMoves ==
    ASSUME Tables, NEW i \in DOMAIN actors, NEW x \in Box, NEW y \in Box,
           actors' = [actors EXCEPT ![i].inbox = @ \o x \o y], registry' = registry
    PROVE  Kept /\ Handed /\ Mute
<1> DEFINE a == actors[i]
           z == a.inbox \o x \o y
           b == [a EXCEPT !.inbox = z]
<1>1. a \in Worker /\ (a.conn = "connecting" => ~a.reported)
  BY DEF Tables
<1>2. a.inbox \in Box
  BY <1>1, WorkerFields
<1>3. z \in Box /\ \A k \in DOMAIN a.inbox : k \in DOMAIN z /\ z[k] = a.inbox[k]
  BY <1>2 DEF Box
<1>4. actors' = [actors EXCEPT ![i] = b]
  OBVIOUS
<1> HIDE DEF z
<1>5. Mailed(b, a) /\ b.inbox = z
  BY <1>1, <1>3, NewBox
<1> HIDE DEF b
<1>6. Ending(a) => Ending(b)
  BY <1>3, <1>5 DEF Ending, MailEnds, Mailed
<1>7. Course(i, b)
  BY <1>1, <1>4, <1>5, <1>6 DEF Course, Mailed
<1>8. Mute
  BY <1>4, <1>5 DEF Mute, Mailed
<1> QED BY <1>7, <1>8, CourseMoves

LEMMA StopAllMoves ==
    ASSUME Tables, StopAll PROVE Kept /\ Handed /\ Mute
<1> DEFINE told(i) == \E u \in DOMAIN registry : registry[u] = i
           rs == [i \in DOMAIN actors |->
                     IF told(i) THEN [actors[i] EXCEPT !.inbox = Append(actors[i].inbox, "Stop")]
                                ELSE actors[i]]
<1>1. actors' = rs /\ registry' = <<>>
  BY DEF StopAll
<1>2. \A i \in DOMAIN actors : actors[i] \in Worker
  BY DEF Tables
<1>3. ASSUME NEW i \in DOMAIN actors
      PROVE  /\ Mailed(rs[i], actors[i])
             /\ Ending(actors[i]) => Ending(rs[i])
             /\ told(i) => Ending(rs[i])
  <2>1. "Stop" \in Posts
    BY DEF Posts
  <2>2. Mailed(actors[i], actors[i])
    BY <1>2 DEF Mailed
  <2>3. CASE told(i)
    <3>1. rs[i] = [actors[i] EXCEPT !.inbox = Append(actors[i].inbox, "Stop")]
      BY <2>3
    <3> QED BY <1>2, <2>1, <3>1, PostOne
  <2>4. CASE ~told(i)
    BY <2>2, <2>4
  <2> QED BY <2>3, <2>4
<1>4. DOMAIN rs = DOMAIN actors /\ rs = [i \in DOMAIN actors |-> rs[i]]
  OBVIOUS
<1>5. \A u \in DOMAIN registry : told(registry[u]) /\ registry[u] \in DOMAIN actors
  BY DEF Tables
<1> HIDE DEF rs, told
<1>6. \A i \in DOMAIN actors :
          /\ rs[i] \in Worker /\ rs[i].user = actors[i].user /\ rs[i].conn = actors[i].conn
          /\ rs[i].reported = actors[i].reported
  BY <1>3 DEF Mailed
<1>7. DOMAIN registry' = {} /\ registry' \in [{} -> DOMAIN actors']
  BY <1>1
<1>8. rs \in [DOMAIN actors -> Worker]
  BY <1>4, <1>6
<1>9. Kept
  BY <1>1, <1>3, <1>4, <1>6, <1>8 DEF Tables, Kept
<1>10. Handed
  BY <1>1, <1>3, <1>5, <1>7 DEF Handed
<1>11. Mute
  BY <1>1, <1>6 DEF Mute
<1> QED BY <1>9, <1>10, <1>11

LEMMA DialMoves ==
    ASSUME Tables, World, Fresh, NEW u \in Peers, NEW b \in BOOLEAN, DialOut(u, b)
    PROVE  Kept /\ Handed /\ Mute
<1>1. minted + 1 \in ActorId /\ minted + 1 \notin DOMAIN actors
  BY DEF World, Fresh, DialOut, ActorId, Tables
<1>2. CASE UNCHANGED <<actors, registry>>
  BY <1>2, NothingMoves
<1>3. CASE Registers(u, minted + 1, TRUE, b)
  BY <1>1, <1>3, RegistersMoves
<1> QED BY <1>2, <1>3 DEF DialOut

LEMMA EveryMove ==
    ASSUME PeerInv, [PeerNext]_peerVars
    PROVE  Kept /\ Handed /\ (ActorStep \/ Mute)
<1> USE DEF PeerInv
<1>1. ASSUME UNCHANGED <<actors, registry>> PROVE Kept /\ Handed /\ Mute
  BY <1>1, NothingMoves
<1>2. CASE CallerStep
  <2>1. ASSUME NEW n, SetMaxPeers(n) PROVE Kept /\ Handed /\ Mute
    BY <1>1, <2>1 DEF SetMaxPeers
  <2>2. ASSUME NEW u, ExpireHeld(u) PROVE Kept /\ Handed /\ Mute
    BY <1>1, <2>2 DEF ExpireHeld, actorVars
  <2>3. ASSUME NEW u, Download(u) \/ AnswerSearch(u) PROVE Kept /\ Handed /\ Mute
    <3>1. \/ UNCHANGED <<actors, registry>>
          \/ /\ u \in DOMAIN registry /\ registry' = registry
             /\ \E m \in Posts : actors' = Post(actors, registry[u], m)
      BY <2>3 DEF Download, AnswerSearch, Registered, Posts
    <3>2. u \in DOMAIN registry => registry[u] \in DOMAIN actors
      BY DEF Tables
    <3> QED BY <1>1, <3>1, <3>2, PostMoves
  <2> QED BY <1>2, <2>1, <2>2, <2>3, StopAllMoves DEF CallerStep
<1>3. CASE WorldStep
  <2>1. ASSUME NEW a \in arriving, InboundRegister(a) PROVE Kept /\ Handed /\ Mute
    <3>1. a.user \in Peers /\ a.id \in ActorId
      BY DEF World, Arrival
    <3>2. ~a.registered => a.id \notin DOMAIN actors
      BY DEF Fresh
    <3>3. UNCHANGED <<actors, registry>> \/ (~a.registered /\ Registers(a.user, a.id, FALSE, FALSE))
      BY <2>1 DEF InboundRegister
    <3> QED BY <1>1, <3>1, <3>2, <3>3, RegistersMoves
  <2>2. UNCHANGED <<actors, registry>> \/ \E a \in arriving : InboundRegister(a)
    BY <1>3 DEF WorldStep, ServerSendsConnect, InboundDial, ServerResolves,
                ServerCannotBroker, PierceFirewall, InboundNudge, actorVars
  <2> QED BY <1>1, <2>1, <2>2
<1>4. CASE LoopStep
  <2>1. operations # <<>> => Head(operations) \in Operation
    BY Taken DEF World
  <2>2. ASSUME HandleConnectToPeer \/ HandlePeerAddress PROVE Kept /\ Handed /\ Mute
    <3>1. Head(operations).user \in Peers
      BY <2>1, <2>2 DEF HandleConnectToPeer, HandlePeerAddress, Taking, Operation
    <3>2. \/ UNCHANGED <<actors, registry>>
          \/ \E b \in BOOLEAN : DialOut(Head(operations).user, b)
      BY <2>2 DEF HandleConnectToPeer, HandlePeerAddress
    <3> QED BY <1>1, <3>1, <3>2, DialMoves
  <2>3. ASSUME HandlePeerConnected PROVE Kept /\ Handed /\ Mute
    <3> DEFINE u == Head(operations).user
    <3>1. registry' = registry
      BY <2>3 DEF HandlePeerConnected
    <3>2. \/ actors' = actors
          \/ /\ u \in DOMAIN registry
             /\ \E x, y \in Box : actors' = [actors EXCEPT ![registry[u]].inbox = @ \o x \o y]
      <4>1. <<"QueueUpload">> \in Box /\ <<"SendMessage">> \in Box /\ <<>> \in Box
        BY DEF Box, Posts
      <4> QED BY <2>3, <4>1 DEF HandlePeerConnected, Registered
    <3>3. u \in DOMAIN registry => registry[u] \in DOMAIN actors
      BY DEF Tables
    <3> QED BY <1>1, <3>1, <3>2, <3>3, JoinMoves
  <2>4. ASSUME HandlePeerDisconnected \/ HandleConnectFailed PROVE Kept /\ Handed /\ Mute
    BY <2>4, RemovalMoves DEF HandlePeerDisconnected, HandleConnectFailed
  <2>5. ASSUME HandleCantConnect \/ \E t \in DOMAIN pendingConnect : SweepExpiredConnect(t)
        PROVE  Kept /\ Handed /\ Mute
    BY <1>1, <2>5 DEF HandleCantConnect, SweepExpiredConnect, actorVars
  <2> QED BY <1>4, <2>2, <2>3, <2>4, <2>5 DEF LoopStep
<1>5. CASE ActorStep
  BY <1>5, ActorStepMoves
<1> QED BY <1>1, <1>2, <1>3, <1>4, <1>5 DEF PeerNext, peerVars, actorVars
-----------------------------------------------------------------------------
(* What every step does to the reports on their way. *)

Quiet ==
    /\ SaysOnce(operations')
    /\ \A i : Says(operations, i) => Says(operations', i)
    /\ \A k \in DOMAIN operations' :
          IsReport(operations'[k]) =>
              \E j \in DOMAIN operations : operations[j] = operations'[k]

LEMMA QuietStep == ASSUME Tables, ReportInv, Kept, Handed, Mute, Quiet PROVE ReportInv'
<1>1. ASSUME NEW k \in DOMAIN operations', IsReport(operations'[k])
      PROVE  /\ operations'[k].id \in DOMAIN actors'
             /\ actors'[operations'[k].id].reported
             /\ actors'[operations'[k].id].user = operations'[k].user
  <2>1. PICK j \in DOMAIN operations : operations[j] = operations'[k]
    BY <1>1 DEF Quiet
  <2>2. /\ operations'[k].id \in DOMAIN actors
        /\ actors[operations'[k].id].reported
        /\ actors[operations'[k].id].user = operations'[k].user
    BY <1>1, <2>1 DEF ReportInv
  <2> QED BY <2>2 DEF Kept
<1>2. ASSUME NEW u \in DOMAIN registry', actors'[registry'[u]].reported
      PROVE  Says(operations', registry'[u])
  <2>1. registry'[u] \in DOMAIN actors'
    BY DEF Handed
  <2>2. registry'[u] \in DOMAIN actors /\ u \in DOMAIN registry /\ registry'[u] = registry[u]
    BY <1>2, <2>1 DEF Kept, Handed
  <2>3. Says(operations, registry[u])
    BY <1>2, <2>2 DEF ReportInv, Mute
  <2> QED BY <2>2, <2>3 DEF Quiet
<1>3. SaysOnce(operations')
  BY DEF Quiet
<1> QED BY <1>1, <1>2, <1>3 DEF ReportInv

\* Actor i, which has not reported yet, does so.
Speaks(i) ==
    /\ SaysOnce(operations') /\ Says(operations', i)
    /\ \A j : Says(operations, j) => Says(operations', j)
    /\ \A k \in DOMAIN operations' :
          IsReport(operations'[k]) =>
              \/ \E j \in DOMAIN operations : operations[j] = operations'[k]
              \/ operations'[k].id = i /\ operations'[k].user = actors[i].user

LEMMA SpeaksStep ==
    ASSUME Tables, ReportInv, NEW i \in DOMAIN actors, NEW a, Course(i, a), a.reported,
           registry' = registry, Speaks(i)
    PROVE  ReportInv'
<1>1. /\ DOMAIN actors' = DOMAIN actors /\ actors'[i] = a
      /\ \A j \in DOMAIN actors : j # i => actors'[j] = actors[j]
      /\ a.user = actors[i].user
  BY DEF Course, Tables
<1>2. ASSUME NEW k \in DOMAIN operations', IsReport(operations'[k])
      PROVE  /\ operations'[k].id \in DOMAIN actors'
             /\ actors'[operations'[k].id].reported
             /\ actors'[operations'[k].id].user = operations'[k].user
  <2>1. CASE \E j \in DOMAIN operations : operations[j] = operations'[k]
    <3>1. /\ operations'[k].id \in DOMAIN actors
          /\ actors[operations'[k].id].reported
          /\ actors[operations'[k].id].user = operations'[k].user
      BY <1>2, <2>1 DEF ReportInv
    <3> QED BY <1>1, <3>1
  <2>2. CASE operations'[k].id = i /\ operations'[k].user = actors[i].user
    BY <1>1, <2>2
  <2> QED BY <1>2, <2>1, <2>2 DEF Speaks
<1>3. ASSUME NEW u \in DOMAIN registry', actors'[registry'[u]].reported
      PROVE  Says(operations', registry'[u])
  <2>1. registry'[u] = registry[u] /\ u \in DOMAIN registry /\ registry[u] \in DOMAIN actors
    BY DEF Tables
  <2>2. CASE registry[u] = i
    BY <2>1, <2>2 DEF Speaks
  <2>3. CASE registry[u] # i
    <3>1. Says(operations, registry[u])
      BY <1>1, <1>3, <2>1, <2>3 DEF ReportInv
    <3> QED BY <2>1, <3>1 DEF Speaks
  <2> QED BY <2>2, <2>3
<1>4. SaysOnce(operations')
  BY DEF Speaks
<1> QED BY <1>2, <1>3, <1>4 DEF ReportInv

\* The loop takes a report and removes who made it.
LEMMA HeardStep ==
    ASSUME Tables, ReportInv, Kept, Handed, operations \in Seq(Operation), operations # <<>>,
           IsReport(Head(operations)), RemovePeerIf(Head(operations).user, Head(operations).id),
           operations' = Tail(operations)
    PROVE  ReportInv'
<1> DEFINE op == Head(operations)
           t  == Tail(operations)
<1>1. /\ \A k \in DOMAIN t : k + 1 \in DOMAIN operations /\ t[k] = operations[k + 1]
      /\ 1 \in DOMAIN operations /\ op = operations[1]
      /\ \A i : Says(operations, i) => Says(t, i) \/ op.id = i
      /\ SaysOnce(operations) => SaysOnce(t)
  BY Taken
<1>2. op.id \in DOMAIN actors /\ actors[op.id].user = op.user /\ actors[op.id].reported
  BY <1>1 DEF ReportInv
<1>3. \A j \in DOMAIN actors : actors'[j].reported = actors[j].reported
  BY RemovalMoves DEF Mute
<1>4. \A u \in DOMAIN registry' : /\ u \in DOMAIN registry /\ registry'[u] = registry[u]
                                  /\ registry[u] # op.id
  <2>1. CASE Registered(op.user) /\ registry[op.user] = op.id
    <3>1. registry' = [v \in DOMAIN registry \ {op.user} |-> registry[v]]
      BY <2>1 DEF RemovePeerIf, Without
    <3> QED BY <1>2, <3>1 DEF Tables
  <2>2. CASE ~(Registered(op.user) /\ registry[op.user] = op.id)
    <3>1. registry' = registry
      BY <2>2 DEF RemovePeerIf
    <3> QED BY <1>2, <2>2, <3>1 DEF Tables, Registered
  <2> QED BY <2>1, <2>2
<1> HIDE DEF op, t
<1>5. operations' = t
  BY DEF t
<1>6. ASSUME NEW k \in DOMAIN t, IsReport(t[k])
      PROVE  t[k].id \in DOMAIN actors' /\ actors'[t[k].id].reported
               /\ actors'[t[k].id].user = t[k].user
  <2>1. t[k].id \in DOMAIN actors /\ actors[t[k].id].reported
               /\ actors[t[k].id].user = t[k].user
    BY <1>1, <1>6 DEF ReportInv
  <2> QED BY <2>1 DEF Kept
<1>7. ASSUME NEW u \in DOMAIN registry', actors'[registry'[u]].reported
      PROVE  Says(t, registry'[u])
  <2>1. registry[u] \in DOMAIN actors /\ actors[registry[u]].reported
    BY <1>3, <1>4, <1>7 DEF Tables
  <2> QED BY <1>1, <1>4, <2>1 DEF ReportInv
<1> QED BY <1>1, <1>5, <1>6, <1>7 DEF ReportInv

\* What the channel may undergo without a report.
LEMMA Quieter ==
    ASSUME operations \in Seq(Operation), SaysOnce(operations),
           \/ operations' = operations
           \/ \E m \in Operation : ~IsReport(m) /\ operations' = Append(operations, m)
           \/ operations # <<>> /\ ~IsReport(Head(operations)) /\ operations' = Tail(operations)
    PROVE  Quiet
<1>1. CASE operations' = operations
  BY <1>1 DEF Quiet
<1>2. CASE \E m \in Operation : ~IsReport(m) /\ operations' = Append(operations, m)
  <2>1. PICK m \in Operation : ~IsReport(m) /\ operations' = Append(operations, m)
    BY <1>2
  <2> DEFINE s == Append(operations, m)
  <2>2. /\ \A k \in DOMAIN s : \/ k = Len(operations) + 1 /\ s[k] = m
                               \/ k \in DOMAIN operations /\ s[k] = operations[k]
        /\ \A i : Says(operations, i) => Says(s, i)
        /\ SaysOnce(s)
    BY <2>1, Added
  <2> HIDE DEF s
  <2>3. operations' = s
    BY <2>1 DEF s
  <2> QED BY <2>1, <2>2, <2>3 DEF Quiet
<1>3. CASE operations # <<>> /\ ~IsReport(Head(operations)) /\ operations' = Tail(operations)
  <2> DEFINE t == Tail(operations)
  <2>1. /\ \A k \in DOMAIN t : k + 1 \in DOMAIN operations /\ t[k] = operations[k + 1]
        /\ \A i : Says(operations, i) => Says(t, i)
        /\ SaysOnce(t)
    BY <1>3, Taken
  <2> HIDE DEF t
  <2>2. operations' = t
    BY <1>3 DEF t
  <2> QED BY <2>1, <2>2 DEF Quiet
<1> QED BY <1>1, <1>2, <1>3

\* A report is added, and perhaps the word that the connection came up.
LEMMA Louder ==
    ASSUME operations \in Seq(Operation), SaysOnce(operations), NEW i, ~Says(operations, i),
           NEW m \in Operation, IsReport(m), m.id = i, m.user = actors[i].user,
           \/ operations' = Append(operations, m)
           \/ \E n \in Operation : ~IsReport(n) /\ operations' = Append(Append(operations, m), n)
    PROVE  Speaks(i)
<1> DEFINE s == Append(operations, m)
<1>1. /\ s \in Seq(Operation)
      /\ \A k \in DOMAIN s : \/ k = Len(operations) + 1 /\ s[k] = m
                             \/ k \in DOMAIN operations /\ s[k] = operations[k]
      /\ \A j : Says(operations, j) => Says(s, j)
      /\ Says(s, i) /\ SaysOnce(s)
  BY Added
<1>2. \/ operations' = s
      \/ \E n \in Operation : ~IsReport(n) /\ operations' = Append(s, n)
  OBVIOUS
<1> HIDE DEF s
<1>3. CASE operations' = s
  BY <1>1, <1>3 DEF Speaks
<1>4. CASE \E n \in Operation : ~IsReport(n) /\ operations' = Append(s, n)
  <2>1. PICK n \in Operation : ~IsReport(n) /\ operations' = Append(s, n)
    BY <1>4
  <2> DEFINE r == Append(s, n)
  <2>2. /\ \A k \in DOMAIN r : \/ k = Len(s) + 1 /\ r[k] = n
                               \/ k \in DOMAIN s /\ r[k] = s[k]
        /\ \A j : Says(s, j) => Says(r, j)
        /\ SaysOnce(r)
    BY <1>1, <2>1, Added
  <2> HIDE DEF r
  <2>3. operations' = r
    BY <2>1 DEF r
  <2> QED BY <1>1, <2>1, <2>2, <2>3 DEF Speaks
<1> QED BY <1>2, <1>3, <1>4

\* What one actor does to the reports.
LEMMA ActorReports ==
    ASSUME PeerInv, ActorStep PROVE ReportInv'
<1> USE DEF PeerInv
<1>0. Kept /\ Handed
  BY ActorStepMoves
<1>1. PICK i \in DOMAIN actors :
          \/ DialFails(i) \/ Establish(i)
          \/ ReadStop(i) \/ ReadConnecting(i) \/ ReadConnected(i) \/ ReadDisconnected(i)
          \/ HangUp(i) \/ ReadError(i) \/ SelfStop(i)
  BY DEF ActorStep
<1>2. /\ operations \in Seq(Operation) /\ SaysOnce(operations)
      /\ actors[i] \in Worker /\ i \in ActorId
  BY DEF World, ReportInv, Tables
<1>3. ~actors[i].reported => ~Says(operations, i)
  BY DEF ReportInv, Says
<1>4. registry' = registry
  BY <1>1 DEF DialFails, Establish, ReadStop, ReadConnecting, ReadConnected,
              ReadDisconnected, HangUp, ReadError, SelfStop, Rest
<1>5. /\ actors[i].user \in Peers /\ actors[i].brokered \in BOOLEAN
      /\ actors[i].retiring \in BOOLEAN
  BY <1>2, WorkerFields
<1>6. /\ CleanReport(i) \in Operation /\ IsReport(CleanReport(i))
      /\ CleanReport(i).id = i /\ CleanReport(i).user = actors[i].user
      /\ ErrorReport(i) \in Operation /\ IsReport(ErrorReport(i))
      /\ ErrorReport(i).id = i /\ ErrorReport(i).user = actors[i].user
  BY <1>2, <1>5 DEF CleanReport, ErrorReport, Operation, IsReport
\* The two ways a step of an actor can go.
<1>7. ASSUME NEW a, Course(i, a), a.reported = actors[i].reported, operations' = operations
      PROVE  ReportInv'
  <2>1. Mute
    BY <1>7 DEF Mute, Course, Tables
  <2>2. Quiet
    BY <1>2, <1>7, Quieter
  <2> QED BY <1>0, <2>1, <2>2, QuietStep
<1>8. ASSUME NEW a, Course(i, a), a.reported, NEW m \in {CleanReport(i), ErrorReport(i)},
             Report(i, m)
      PROVE  ReportInv'
  <2>1. CASE actors[i].reported
    <3>1. a.reported = actors[i].reported
      <4>1. a \in Worker /\ a.reported \in BOOLEAN /\ actors[i].reported \in BOOLEAN
        BY <1>2, <1>8, WorkerFields DEF Course
      <4> QED BY <1>8, <2>1, <4>1
    <3>2. operations' = operations
      BY <1>8, <2>1 DEF Report
    <3> QED BY <1>7, <1>8, <3>1, <3>2
  <2>2. CASE ~actors[i].reported
    <3>1. operations' = Append(operations, m) /\ m \in Operation /\ IsReport(m)
            /\ m.id = i /\ m.user = actors[i].user
      BY <1>6, <1>8, <2>2 DEF Report
    <3>2. Speaks(i)
      BY <1>2, <1>3, <2>2, <3>1, Louder
    <3> QED BY <1>4, <1>8, <3>2, SpeaksStep
  <2> QED BY <2>1, <2>2
<1>9. CASE DialFails(i) \/ HangUp(i) \/ ReadError(i)
  <2>1. Course(i, Closed(actors[i])) /\ Closed(actors[i]).reported
    BY <1>2, <1>9, Courses, ClosedIs
  <2>2. \E m \in {CleanReport(i), ErrorReport(i)} : Report(i, m)
    BY <1>9 DEF DialFails, HangUp, ReadError, Breaks
  <2> QED BY <1>8, <2>1, <2>2
<1>10. CASE ReadStop(i)
  <2>1. Course(i, Stopped(actors[i].user)) /\ Stopped(actors[i].user).reported
    BY <1>5, <1>10, Courses, StoppedIs
  <2>2. Report(i, CleanReport(i))
    BY <1>10 DEF ReadStop
  <2> QED BY <1>8, <2>1, <2>2
<1>11. CASE ReadConnecting(i) \/ ReadConnected(i) \/ ReadDisconnected(i)
  <2>1. actors[i].inbox # <<>>
    BY <1>11 DEF ReadConnecting, ReadConnected, ReadDisconnected, Takes
  <2>2. /\ Closed(Opened(i)) \in Worker /\ Closed(Opened(i)).reported
        /\ Retiring(Closed(Opened(i)), TRUE).reported
    BY <2>1, OpenedIs, ClosedIs, RetiringIs
  <2>3. \/ \E a \in Worker : Course(i, a) /\ a.reported = actors[i].reported
                               /\ operations' = operations
        \/ Course(i, Closed(Opened(i))) /\ Report(i, ErrorReport(i))
        \/ Course(i, Retiring(Closed(Opened(i)), TRUE)) /\ Report(i, CleanReport(i))
    BY <1>11, Readings
  <2> QED BY <1>7, <1>8, <2>2, <2>3
<1>12. CASE SelfStop(i)
  <2>1. actors' = Post(actors, i, "Stop") /\ operations' = operations /\ "Stop" \in Posts
    BY <1>12 DEF SelfStop, Posts
  <2>2. Mute
    BY <1>4, <2>1, PostMoves
  <2>3. Quiet
    BY <1>2, <2>1, Quieter
  <2> QED BY <1>0, <2>2, <2>3, QuietStep
<1>13. CASE Establish(i)
  <2> DEFINE lost == [op |-> "PeerDisconnected", id |-> i, user |-> actors[i].user, error |-> TRUE]
             up   == [op |-> "PeerConnected", user |-> actors[i].user]
             b    == [actors[i] EXCEPT !.conn = "connected", !.established = TRUE,
                                       !.backlog = <<>>]
  <2>1. /\ lost \in Operation /\ IsReport(lost) /\ lost.id = i /\ lost.user = actors[i].user
        /\ up \in Operation /\ ~IsReport(up)
    BY <1>2, <1>5 DEF Operation, IsReport
  <2>2. /\ b = Up(actors[i]) /\ b.user = actors[i].user /\ b \in Worker
        /\ b.reported = actors[i].reported
    <3>1. b = Up(actors[i])
      BY DEF Up
    <3> QED BY <1>2, <3>1, UpIs
  <2>3. Closed(b).reported
    BY <2>2, ClosedIs
  <2>4. ~actors[i].reported
    BY <1>13 DEF Establish, Is, Tables
  <2>5. Closed(b) # b
    BY <2>2, <2>3, <2>4
  <2>6. \/ actors' = [actors EXCEPT ![i] = b] /\ operations' = Append(operations, up)
        \/ actors' = [actors EXCEPT ![i] = Closed(b)] /\ operations' = Append(operations, lost)
        \/ actors' = [actors EXCEPT ![i] = Closed(b)] /\ operations' = operations \o <<lost, up>>
    BY <1>13, <2>2 DEF Establish, Becomes
  <2>7. Course(i, b) \/ Course(i, Closed(b))
    BY <1>13, <2>2, Courses
  <2>8. actors'[i] = b => Course(i, b)
    BY <2>5, <2>7 DEF Course, Tables
  <2>9. actors'[i] = Closed(b) => Course(i, Closed(b))
    BY <2>5, <2>7 DEF Course, Tables
  <2> HIDE DEF b, lost, up
  <2>10. operations \o <<lost, up>> = Append(Append(operations, lost), up)
    BY <1>2, <2>1, AddedTwo
  <2>11. CASE actors' = [actors EXCEPT ![i] = b] /\ operations' = Append(operations, up)
    <3>1. Course(i, b)
      BY <2>8, <2>11 DEF Tables
    <3>2. Mute
      BY <2>2, <3>1 DEF Mute, Course, Tables
    <3>3. Quiet
      BY <1>2, <2>1, <2>11, Quieter
    <3> QED BY <1>0, <3>2, <3>3, QuietStep
  <2>12. CASE /\ actors' = [actors EXCEPT ![i] = Closed(b)]
              /\ \/ operations' = Append(operations, lost)
                 \/ operations' = operations \o <<lost, up>>
    <3>1. Course(i, Closed(b))
      BY <2>9, <2>12 DEF Tables
    <3>2. Speaks(i)
      BY <1>2, <1>3, <2>1, <2>4, <2>10, <2>12, Louder
    <3> QED BY <1>4, <2>3, <3>1, <3>2, SpeaksStep
  <2> QED BY <2>6, <2>11, <2>12
<1> QED BY <1>1, <1>9, <1>10, <1>11, <1>12, <1>13

LEMMA ReportStep ==
    ASSUME PeerInv, [PeerNext]_peerVars PROVE ReportInv'
<1> USE DEF PeerInv
<1>1. Kept /\ Handed /\ (ActorStep \/ Mute)
  BY EveryMove
<1>2. operations \in Seq(Operation) /\ SaysOnce(operations)
  BY DEF World, ReportInv
<1>3. ASSUME Quiet, ~ActorStep PROVE ReportInv'
  BY <1>1, <1>3, QuietStep
<1>4. CASE ActorStep
  BY <1>4, ActorReports
<1>5. CASE UNCHANGED operations
  BY <1>2, <1>3, <1>4, <1>5, Quieter
<1>6. CASE CallerStep
  BY <1>5, <1>6 DEF CallerStep, SetMaxPeers, Download, AnswerSearch, ExpireHeld, StopAll, loopVars
<1>7. CASE WorldStep
  <2>1. \/ UNCHANGED operations
        \/ \E m \in Operation : ~IsReport(m) /\ operations' = Append(operations, m)
    <3>1. ASSUME NEW u \in scenario.callers, ServerSendsConnect(u)
          PROVE  \E m \in Operation : ~IsReport(m) /\ operations' = Append(operations, m)
      <4>1. u \in Peers
        BY PeerConstants DEF World
      <4> DEFINE m == [op |-> "ConnectToPeer", user |-> u]
      <4>2. m \in Operation /\ ~IsReport(m)
        BY <4>1 DEF Operation, IsReport
      <4>3. operations' = Append(operations, m)
        BY <3>1 DEF ServerSendsConnect, Arrives
      <4> QED BY <4>2, <4>3
    <3>2. ASSUME NEW u \in resolving, ServerResolves(u)
          PROVE  \E m \in Operation : ~IsReport(m) /\ operations' = Append(operations, m)
      <4> DEFINE m == [op |-> "GetPeerAddressResponse", user |-> u]
      <4>2. m \in Operation /\ ~IsReport(m)
        BY DEF Operation, IsReport, World
      <4>3. operations' = Append(operations, m)
        BY <3>2 DEF ServerResolves, Arrives
      <4> QED BY <4>2, <4>3
    <3>3. ASSUME NEW t \in DOMAIN pendingConnect, ServerCannotBroker(t)
          PROVE  \E m \in Operation : ~IsReport(m) /\ operations' = Append(operations, m)
      <4> DEFINE m == [op |-> "CantConnectToPeer", token |-> t]
      <4>2. m \in Operation /\ ~IsReport(m)
        BY DEF Operation, IsReport, World
      <4>3. operations' = Append(operations, m)
        BY <3>3 DEF ServerCannotBroker, Arrives
      <4> QED BY <4>2, <4>3
    <3>4. ASSUME NEW a \in arriving, InboundNudge(a)
          PROVE  \E m \in Operation : ~IsReport(m) /\ operations' = Append(operations, m)
      <4> DEFINE m == [op |-> "PeerConnected", user |-> a.user]
      <4>2. m \in Operation /\ ~IsReport(m)
        BY DEF Operation, IsReport, World, Arrival
      <4>3. operations' = Append(operations, m)
        BY <3>4 DEF InboundNudge
      <4> QED BY <4>2, <4>3
    <3> QED BY <1>7, <3>1, <3>2, <3>3, <3>4
            DEF WorldStep, InboundDial, PierceFirewall, InboundRegister, loopVars
  <2> QED BY <1>2, <1>3, <1>4, <2>1, Quieter
<1>8. CASE LoopStep
  <2>1. CASE HandlePeerDisconnected \/ HandleConnectFailed
    <3>1. /\ operations # <<>> /\ IsReport(Head(operations)) /\ operations' = Tail(operations)
          /\ RemovePeerIf(Head(operations).user, Head(operations).id)
      BY <2>1 DEF HandlePeerDisconnected, HandleConnectFailed, Taking, IsReport
    <3> QED BY <1>1, <1>2, <3>1, HeardStep
  <2>2. CASE \/ HandleConnectToPeer \/ HandlePeerAddress \/ HandlePeerConnected
             \/ HandleCantConnect
    <3>1. operations # <<>> /\ ~IsReport(Head(operations)) /\ operations' = Tail(operations)
      BY <2>2 DEF HandleConnectToPeer, HandlePeerAddress, HandlePeerConnected,
                  HandleCantConnect, Taking, IsReport
    <3> QED BY <1>2, <1>3, <1>4, <3>1, Quieter
  <2>3. CASE \E t \in DOMAIN pendingConnect : SweepExpiredConnect(t)
    BY <1>5, <2>3 DEF SweepExpiredConnect
  <2> QED BY <1>8, <2>1, <2>2, <2>3 DEF LoopStep
<1> QED BY <1>4, <1>5, <1>6, <1>7, <1>8 DEF PeerNext, peerVars, loopVars
-----------------------------------------------------------------------------
(* Identities and types. *)

LEMMA PostDomain == ASSUME NEW as, NEW i, NEW m PROVE DOMAIN Post(as, i, m) = DOMAIN as
BY DEF Post

LEMMA ActorsStay ==
    ASSUME CallerStep \/ ActorStep \/ HandlePeerDisconnected \/ HandleConnectFailed
             \/ HandlePeerConnected
    PROVE  /\ DOMAIN actors' = DOMAIN actors
           /\ UNCHANGED <<minted, arriving, scenario, pendingConnect>> \/ HandleConnectFailed
           /\ UNCHANGED <<minted, arriving, scenario>>
<1>1. CASE CallerStep
  BY <1>1, PostDomain DEF CallerStep, SetMaxPeers, Download, AnswerSearch, ExpireHeld, StopAll,
     loopVars, workVars, actorVars
<1>2. CASE ActorStep
  BY <1>2, PostDomain
     DEF ActorStep, DialFails, Establish, ReadStop, ReadConnecting, ReadConnected,
         ReadDisconnected, HangUp, ReadError, SelfStop, Breaks, Becomes, Rest
<1>3. CASE HandlePeerDisconnected \/ HandleConnectFailed
  <2>1. DOMAIN actors' = DOMAIN actors
    BY <1>3, PostDomain DEF HandlePeerDisconnected, HandleConnectFailed, RemovePeerIf
  <2> QED BY <1>3, <2>1 DEF HandlePeerDisconnected, HandleConnectFailed
<1>4. CASE HandlePeerConnected
  BY <1>4 DEF HandlePeerConnected
<1> QED BY <1>1, <1>2, <1>3, <1>4

\* The ids of actors and of connections on their way in.
LEMMA FreshStep ==
    ASSUME PeerInv, [PeerNext]_peerVars PROVE Fresh'
<1> USE DEF PeerInv
<1>1. minted \in Nat
  BY DEF World
<1>2. ASSUME DOMAIN actors' = DOMAIN actors, minted' = minted, arriving' \subseteq arriving
      PROVE  Fresh'
  BY <1>2 DEF Fresh
<1>3. ASSUME NEW u, DialOut(u, TRUE) \/ DialOut(u, FALSE), arriving' = arriving PROVE Fresh'
  <2>1. /\ minted' = minted + 1
        /\ DOMAIN actors' = DOMAIN actors \/ DOMAIN actors' = DOMAIN actors \cup {minted + 1}
    BY <1>3 DEF DialOut, Registers
  <2>2. \A i \in DOMAIN actors : i \in Int
    BY DEF Tables, ActorId
  <2>3. \A a \in arriving : a.id \in Int
    BY DEF World, Arrival, ActorId
  <2> QED BY <1>1, <1>3, <2>1, <2>2, <2>3 DEF Fresh
<1>4. ASSUME NEW u, MintFor(u), actors' = actors PROVE Fresh'
  <2> DEFINE n == [user |-> u, id |-> minted + 1, registered |-> FALSE]
  <2>1. minted' = minted + 1 /\ arriving' = arriving \cup {n} /\ n.id = minted + 1
    BY <1>4 DEF MintFor
  <2>2. \A i \in DOMAIN actors : i \in Int
    BY DEF Tables, ActorId
  <2>3. \A a \in arriving : a.id \in Int
    BY DEF World, Arrival, ActorId
  <2> HIDE DEF n
  <2> QED BY <1>1, <1>4, <2>1, <2>2, <2>3 DEF Fresh
<1>5. ASSUME NEW a \in arriving, InboundRegister(a) PROVE Fresh'
  <2>1. minted' = minted
    BY <1>5 DEF InboundRegister
  <2>2. CASE UNCHANGED actors /\ arriving' = arriving \ {a}
    BY <1>2, <2>1, <2>2
  <2>3. CASE /\ Registers(a.user, a.id, FALSE, FALSE)
             /\ arriving' = (arriving \ {a}) \cup {[a EXCEPT !.registered = TRUE]}
    <3> DEFINE n == [a EXCEPT !.registered = TRUE]
    <3>1. n.id = a.id /\ n.registered
      BY DEF World, Arrival
    <3>2. DOMAIN actors' = DOMAIN actors \cup {a.id}
      BY <2>3 DEF Registers
    <3>3. arriving' = (arriving \ {a}) \cup {n}
      BY <2>3
    <3> HIDE DEF n
    <3> QED BY <2>1, <3>1, <3>2, <3>3 DEF Fresh
  <2> QED BY <1>5, <2>2, <2>3 DEF InboundRegister
<1>6. CASE UNCHANGED peerVars
  BY <1>2, <1>6 DEF peerVars, actorVars
<1>7. CASE CallerStep \/ ActorStep
  BY <1>2, <1>7, ActorsStay
<1>8. CASE WorldStep
  <2>1. ASSUME NEW a \in arriving, InboundNudge(a) PROVE Fresh'
    BY <1>2, <2>1 DEF InboundNudge
  <2>2. ASSUME NEW u, InboundDial(u) \/ PierceFirewall(u) PROVE Fresh'
    BY <1>4, <2>2 DEF InboundDial, PierceFirewall
  <2>3. ASSUME NEW u, ServerSendsConnect(u) \/ ServerResolves(u) \/ ServerCannotBroker(u)
        PROVE  Fresh'
    BY <1>2, <2>3 DEF ServerSendsConnect, ServerResolves, ServerCannotBroker, actorVars
  <2> QED BY <1>5, <1>8, <2>1, <2>2, <2>3 DEF WorldStep
<1>9. CASE LoopStep
  <2>1. CASE HandleConnectToPeer
    BY <1>3, <2>1 DEF HandleConnectToPeer
  <2>2. CASE HandlePeerAddress
    <3>1. arriving' = arriving
            /\ (UNCHANGED <<minted, actors>> \/ DialOut(Head(operations).user, FALSE))
      BY <2>2 DEF HandlePeerAddress
    <3> QED BY <1>2, <1>3, <3>1
  <2>3. CASE HandlePeerConnected \/ HandlePeerDisconnected \/ HandleConnectFailed
    BY <1>2, <2>3, ActorsStay
  <2>4. CASE HandleCantConnect \/ \E t \in DOMAIN pendingConnect : SweepExpiredConnect(t)
    BY <1>2, <2>4 DEF HandleCantConnect, SweepExpiredConnect, actorVars
  <2> QED BY <1>9, <2>1, <2>2, <2>3, <2>4 DEF LoopStep
<1> QED BY <1>6, <1>7, <1>8, <1>9 DEF PeerNext

\* What may be added to the channel.
LEMMA ReportTypes ==
    ASSUME Tables, NEW i \in DOMAIN actors
    PROVE  /\ CleanReport(i) \in Operation /\ ErrorReport(i) \in Operation
           /\ [op |-> "PeerDisconnected", id |-> i, user |-> actors[i].user,
               error |-> TRUE] \in Operation
           /\ [op |-> "PeerConnected", user |-> actors[i].user] \in Operation
<1>1. actors[i] \in Worker /\ i \in ActorId
  BY DEF Tables
<1>2. actors[i].user \in Peers /\ actors[i].brokered \in BOOLEAN
  BY <1>1, WorkerFields
<1> QED BY <1>1, <1>2 DEF CleanReport, ErrorReport, Operation

LEMMA ActorWords ==
    ASSUME Tables, operations \in Seq(Operation), ActorStep
    PROVE  operations' \in Seq(Operation)
<1>1. PICK i \in DOMAIN actors :
          \/ DialFails(i) \/ Establish(i)
          \/ ReadStop(i) \/ ReadConnecting(i) \/ ReadConnected(i) \/ ReadDisconnected(i)
          \/ HangUp(i) \/ ReadError(i) \/ SelfStop(i)
  BY DEF ActorStep
<1>2. \A m \in Operation : Append(operations, m) \in Seq(Operation)
  BY Added
<1>3. ASSUME NEW m \in {CleanReport(i), ErrorReport(i)}, Report(i, m)
      PROVE  operations' \in Seq(Operation)
  BY <1>2, <1>3, ReportTypes DEF Report
<1>4. CASE Establish(i)
  <2> DEFINE lost == [op |-> "PeerDisconnected", id |-> i, user |-> actors[i].user, error |-> TRUE]
             up   == [op |-> "PeerConnected", user |-> actors[i].user]
             b    == [actors[i] EXCEPT !.conn = "connected", !.established = TRUE,
                                       !.backlog = <<>>]
  <2>1. lost \in Operation /\ up \in Operation
    BY ReportTypes
  <2>2. b.user = actors[i].user
    <3>1. actors[i] \in Worker /\ b = Up(actors[i])
      BY DEF Tables, Up
    <3> QED BY <3>1, UpIs
  <2>3. \/ operations' = Append(operations, up)
        \/ operations' = Append(operations, lost)
        \/ operations' = operations \o <<lost, up>>
    BY <1>4, <2>2 DEF Establish
  <2> HIDE DEF lost, up
  <2>4. operations \o <<lost, up>> \in Seq(Operation)
    BY <2>1, AddedTwo, Added
  <2> QED BY <1>2, <2>1, <2>3, <2>4
<1>5. CASE DialFails(i) \/ ReadStop(i) \/ HangUp(i) \/ ReadError(i)
  <2>1. \E m \in {CleanReport(i), ErrorReport(i)} : Report(i, m)
    BY <1>5 DEF DialFails, ReadStop, HangUp, ReadError, Breaks
  <2> QED BY <1>3, <2>1
<1>6. CASE ReadConnecting(i) \/ ReadConnected(i) \/ ReadDisconnected(i) \/ SelfStop(i)
  <2>1. operations' = operations \/ \E m \in {CleanReport(i), ErrorReport(i)} : Report(i, m)
    BY <1>6 DEF ReadConnecting, ReadConnected, ReadDisconnected, SelfStop, Breaks
  <2> QED BY <1>3, <2>1
<1> QED BY <1>1, <1>4, <1>5, <1>6

LEMMA WorldKept ==
    ASSUME PeerInv, [PeerNext]_peerVars PROVE World'
<1> USE DEF PeerInv
<1>1. /\ arriving \subseteq Arrival /\ minted \in 0..MaxActors /\ scenario \in Scenarios
      /\ operations \in Seq(Operation) /\ resolving \subseteq Peers
      /\ pendingConnect \in [DOMAIN pendingConnect -> Peers]
      /\ DOMAIN pendingConnect \subseteq ActorId
      /\ scenario.actors \in 1..MaxActors
      /\ \A u \in scenario.wanted \cup scenario.searchers \cup scenario.callers : u \in Peers
  BY PeerConstants DEF World
<1>2. \A m \in Operation : Append(operations, m) \in Seq(Operation)
  BY <1>1, Added
<1>3. operations # <<>> => Head(operations) \in Operation /\ Tail(operations) \in Seq(Operation)
  BY <1>1, Taken
<1>4. \A t : Without(pendingConnect, t) \in [DOMAIN pendingConnect \ {t} -> Peers]
  BY <1>1 DEF Without
<1>5. ASSUME NEW u \in Peers, MintFor(u)
      PROVE  arriving' \subseteq Arrival /\ minted' \in 0..MaxActors
  <2>1. minted + 1 \in ActorId /\ minted' = minted + 1
          /\ arriving' = arriving \cup {[user |-> u, id |-> minted + 1, registered |-> FALSE]}
    BY <1>1, <1>5 DEF MintFor, ActorId
  <2>2. [user |-> u, id |-> minted + 1, registered |-> FALSE] \in Arrival
    BY <2>1 DEF Arrival
  <2>3. arriving' \subseteq Arrival
    BY <1>1, <2>1, <2>2
  <2>4. minted' \in 0..MaxActors
    BY <2>1 DEF ActorId
  <2> QED BY <2>3, <2>4
<1>6. CASE UNCHANGED peerVars
  BY <1>1, <1>6 DEF World, peerVars, actorVars, loopVars, workVars
<1>7. CASE CallerStep
  <2>1. UNCHANGED <<arriving, minted, scenario, pendingConnect, operations>>
          /\ resolving' \subseteq Peers
    BY <1>1, <1>7 DEF CallerStep, SetMaxPeers, Download, AnswerSearch, ExpireHeld, StopAll,
       loopVars, workVars, actorVars
  <2> QED BY <1>1, <2>1 DEF World
<1>8. CASE ActorStep
  <2>1. UNCHANGED <<arriving, minted, scenario, pendingConnect, resolving>>
    BY <1>8 DEF ActorStep, DialFails, Establish, ReadStop, ReadConnecting, ReadConnected,
         ReadDisconnected, HangUp, ReadError, SelfStop, Rest
  <2>2. operations' \in Seq(Operation)
    BY <1>1, <1>8, ActorWords
  <2> QED BY <1>1, <2>1, <2>2 DEF World
<1>9. CASE WorldStep
  <2>1. ASSUME NEW u \in scenario.callers, ServerSendsConnect(u) PROVE World'
    <3>1. [op |-> "ConnectToPeer", user |-> u] \in Operation
      BY <1>1 DEF Operation
    <3> QED BY <1>1, <1>2, <2>1, <3>1
            DEF ServerSendsConnect, Arrives, World, actorVars, workVars
  <2>2. ASSUME NEW u \in scenario.callers, InboundDial(u) PROVE World'
    <3>1. UNCHANGED <<scenario, operations, resolving, pendingConnect>> /\ MintFor(u)
      BY <2>2 DEF InboundDial, loopVars, workVars
    <3>2. arriving' \subseteq Arrival /\ minted' \in 0..MaxActors
      BY <1>1, <1>5, <3>1
    <3> QED BY <1>1, <3>1, <3>2 DEF World
  <2>3. ASSUME NEW u \in resolving, ServerResolves(u) PROVE World'
    <3>1. [op |-> "GetPeerAddressResponse", user |-> u] \in Operation
      BY <1>1 DEF Operation
    <3> QED BY <1>1, <1>2, <2>3, <3>1
            DEF ServerResolves, Arrives, World, actorVars, workVars
  <2>4. ASSUME NEW t \in DOMAIN pendingConnect, ServerCannotBroker(t) PROVE World'
    <3>1. [op |-> "CantConnectToPeer", token |-> t] \in Operation
      BY <1>1 DEF Operation
    <3> QED BY <1>1, <1>2, <2>4, <3>1
            DEF ServerCannotBroker, Arrives, World, actorVars, workVars
  <2>5. ASSUME NEW t \in DOMAIN pendingConnect, PierceFirewall(t) PROVE World'
    <3>1. /\ UNCHANGED <<scenario, operations, resolving>> /\ MintFor(pendingConnect[t])
          /\ pendingConnect' = Without(pendingConnect, t)
      BY <2>5 DEF PierceFirewall, workVars
    <3>2. arriving' \subseteq Arrival /\ minted' \in 0..MaxActors
      BY <1>1, <1>5, <3>1
    <3> QED BY <1>1, <1>4, <3>1, <3>2 DEF World
  <2>6. ASSUME NEW a \in arriving, InboundRegister(a) PROVE World'
    <3>1. [a EXCEPT !.registered = TRUE] \in Arrival
      BY <1>1 DEF Arrival
    <3>2. UNCHANGED <<minted, scenario, operations, resolving, pendingConnect>>
            /\ arriving' \subseteq Arrival
      BY <1>1, <2>6, <3>1 DEF InboundRegister, loopVars
    <3> QED BY <1>1, <3>2 DEF World
  <2>7. ASSUME NEW a \in arriving, InboundNudge(a) PROVE World'
    <3>1. [op |-> "PeerConnected", user |-> a.user] \in Operation
      BY <1>1 DEF Operation, Arrival
    <3> QED BY <1>1, <1>2, <2>7, <3>1 DEF InboundNudge, World, workVars
  <2> QED BY <1>9, <2>1, <2>2, <2>3, <2>4, <2>5, <2>6, <2>7 DEF WorldStep
<1>10. CASE LoopStep
  <2>1. ASSUME NEW u, NEW b, DialOut(u, b) PROVE minted' \in 0..MaxActors
    BY <1>1, <2>1 DEF DialOut
  <2>2. CASE HandleConnectToPeer \/ HandlePeerAddress
    <3>1. /\ UNCHANGED <<arriving, scenario, resolving, pendingConnect>>
          /\ operations # <<>> /\ operations' = Tail(operations)
          /\ minted' = minted \/ \E u, b : DialOut(u, b)
      BY <2>2 DEF HandleConnectToPeer, HandlePeerAddress, Taking
    <3> QED BY <1>1, <1>3, <2>1, <3>1 DEF World
  <2>3. CASE HandlePeerConnected \/ HandlePeerDisconnected
    <3>1. /\ UNCHANGED <<arriving, minted, scenario, resolving, pendingConnect>>
          /\ operations # <<>> /\ operations' = Tail(operations)
      BY <2>3 DEF HandlePeerConnected, HandlePeerDisconnected, Taking
    <3> QED BY <1>1, <1>3, <3>1 DEF World
  <2>4. CASE HandleConnectFailed
    <3>1. /\ UNCHANGED <<arriving, minted, scenario, resolving>>
          /\ operations # <<>> /\ operations' = Tail(operations)
          /\ Head(operations).op = "PeerConnectFailed"
      BY <2>4 DEF HandleConnectFailed, Taking
    <3>2. Head(operations).id \in ActorId /\ Head(operations).user \in Peers
      BY <1>3, <3>1 DEF Operation
    <3>3. /\ pendingConnect' \in [DOMAIN pendingConnect' -> Peers]
          /\ DOMAIN pendingConnect' \subseteq ActorId
      BY <1>1, <2>4, <3>2 DEF HandleConnectFailed
    <3> QED BY <1>1, <1>3, <3>1, <3>3 DEF World
  <2>5. CASE HandleCantConnect
    <3>1. /\ UNCHANGED <<arriving, minted, scenario, resolving>>
          /\ operations # <<>> /\ operations' = Tail(operations)
          /\ pendingConnect' = pendingConnect \/ \E t : pendingConnect' = Without(pendingConnect, t)
      BY <2>5 DEF HandleCantConnect, Taking, actorVars
    <3> QED BY <1>1, <1>3, <1>4, <3>1 DEF World
  <2>6. CASE \E t \in DOMAIN pendingConnect : SweepExpiredConnect(t)
    <3>1. /\ UNCHANGED <<arriving, minted, scenario, operations, resolving>>
          /\ \E t : pendingConnect' = Without(pendingConnect, t)
      BY <2>6 DEF SweepExpiredConnect, actorVars
    <3> QED BY <1>1, <1>4, <3>1 DEF World
  <2> QED BY <1>10, <2>2, <2>3, <2>4, <2>5, <2>6 DEF LoopStep
<1> QED BY <1>6, <1>7, <1>8, <1>9, <1>10 DEF PeerNext

-----------------------------------------------------------------------------
LEMMA PeerInvHolds == PeerSpec => []PeerInv
<1>1. PeerInit => PeerInv
  <2> SUFFICES ASSUME PeerInit PROVE PeerInv
    OBVIOUS
  <2>1. Tables /\ World /\ Fresh /\ OrphanInv
    BY PeerConstants DEF PeerInit, Tables, World, Fresh, OrphanInv
  <2>2. ReportInv
    BY DEF PeerInit, ReportInv, SaysOnce
  <2> QED BY <2>1, <2>2 DEF PeerInv
<1>2. PeerInv /\ [PeerNext]_peerVars => PeerInv'
  <2> SUFFICES ASSUME PeerInv, [PeerNext]_peerVars PROVE PeerInv'
    OBVIOUS
  <2>1. Kept /\ Handed
    BY EveryMove
  <2>2. Tables' /\ OrphanInv'
    BY <2>1, TablesStep, OrphanStep DEF PeerInv
  <2> QED BY <2>2, WorldKept, FreshStep, ReportStep DEF PeerInv
<1> QED BY <1>1, <1>2, PTL DEF PeerSpec

\* Whoever is over and still holds its user's name has exactly one report on
\* the way, for any number of users and connections (peer_registry.rs:90-95).
THEOREM NoNameIsLost == PeerSpec => []NoZombie
<1>1. PeerInv => NoZombie
  <2> SUFFICES ASSUME PeerInv, NEW u \in DOMAIN registry, actors[registry[u]].reported
               PROVE  Reports(registry[u]) = 1
    BY DEF NoZombie
  <2> DEFINE i == registry[u]
             R == {k \in DOMAIN operations :
                      operations[k].op \in {"PeerDisconnected", "PeerConnectFailed"}
                        /\ operations[k].id = i}
  <2>1. PICK k \in DOMAIN operations : IsReport(operations[k]) /\ operations[k].id = i
    BY DEF PeerInv, ReportInv, Says
  <2>2. \A j \in DOMAIN operations :
            IsReport(operations[j]) /\ operations[j].id = i => j = k
    BY <2>1 DEF PeerInv, ReportInv, SaysOnce
  <2>3. R = {k}
    BY <2>1, <2>2 DEF IsReport
  <2>4. Cardinality(R) = 1
    BY <2>3, FS_Singleton
  <2> QED BY <2>4 DEF Reports
<1> QED BY <1>1, PeerInvHolds, PTL

\* Whoever is not registered any more has ended or will end, for any number of
\* users and connections (peer_actor.rs:985-1029).
THEOREM NoThreadIsLeft == PeerSpec => []NoOrphanThread
<1>1. PeerInv => NoOrphanThread
  BY DEF PeerInv, OrphanInv, NoOrphanThread, Ending, MailEnds
<1> QED BY <1>1, PeerInvHolds, PTL
-----------------------------------------------------------------------------
\* How a live actor may lose its name in one step.
Succeeds ==
    \A u \in DOMAIN registry :
        ~actors[registry[u]].reported =>
            \/ u \in DOMAIN registry' /\ registry'[u] >= registry[u]
            \/ u \in DOMAIN registry' /\ \E a \in arriving : a.user = u /\ a.id = registry'[u]
            \/ u \notin Protected /\ \E v \in DOMAIN registry' : v \notin DOMAIN registry
            \/ shutDown'

\* A registration takes a name for the newcomer, or from somebody idle.
LEMMA RegistersSucceeds ==
    ASSUME Tables, NEW u, NEW i, NEW o, NEW b, Registers(u, i, o, b),
           u \in DOMAIN registry => \/ i >= registry[u]
                                    \/ \E a \in arriving : a.user = u /\ a.id = i
    PROVE  Succeeds
<1>1. PICK gone \in IF Full(u) THEN Victims(DOMAIN registry) ELSE {u} :
          registry' = [v \in ((DOMAIN registry \ {gone}) \cup {u}) |->
                              IF v = u THEN i ELSE registry[v]]
  BY DEF Registers
<1>2. \A v \in DOMAIN registry : registry[v] \in Int
  BY DEF Tables, ActorId
<1>3. u \in DOMAIN registry' /\ registry'[u] = i
  BY <1>1
<1>4. \A v \in DOMAIN registry : v \notin {u, gone} =>
          v \in DOMAIN registry' /\ registry'[v] = registry[v]
  BY <1>1
<1>5. gone # u => u \notin DOMAIN registry /\ gone \notin Protected
  BY <1>1 DEF Full, Registered, Victims, Idle
<1>6. ASSUME NEW v \in DOMAIN registry
      PROVE  \/ v \in DOMAIN registry' /\ registry'[v] >= registry[v]
             \/ v \in DOMAIN registry' /\ \E a \in arriving : a.user = v /\ a.id = registry'[v]
             \/ v \notin Protected /\ \E w \in DOMAIN registry' : w \notin DOMAIN registry
  <2>1. CASE v = u
    BY <1>3, <2>1
  <2>2. CASE v # u /\ v = gone
    BY <1>3, <1>5, <2>2
  <2>3. CASE v \notin {u, gone}
    BY <1>2, <1>4, <2>3
  <2> QED BY <2>1, <2>2, <2>3
<1> QED BY <1>6 DEF Succeeds

LEMMA DialSucceeds ==
    ASSUME Tables, World, Fresh, NEW u, NEW b, DialOut(u, b) PROVE Succeeds
<1>1. \A v \in DOMAIN registry : registry[v] \in Int /\ registry[v] <= minted
  BY DEF Tables, Fresh, ActorId
<1>2. minted \in Int
  BY DEF World
<1>3. CASE registry' = registry
  BY <1>1, <1>3 DEF Succeeds
<1>4. CASE Registers(u, minted + 1, TRUE, b)
  <2>1. u \in DOMAIN registry => minted + 1 >= registry[u]
    BY <1>1, <1>2
  <2> QED BY <1>4, <2>1, RegistersSucceeds
<1> QED BY <1>3, <1>4 DEF DialOut

LEMMA SucceedsStep == ASSUME PeerInv, [PeerNext]_peerVars PROVE Succeeds
<1> USE DEF PeerInv
<1>1. ASSUME registry' = registry PROVE Succeeds
  <2>1. \A v \in DOMAIN registry : registry[v] \in Int
    BY DEF Tables, ActorId
  <2> QED BY <1>1, <2>1 DEF Succeeds
<1>2. CASE UNCHANGED peerVars
  BY <1>1, <1>2 DEF peerVars, actorVars
<1>3. CASE CallerStep
  <2>1. registry' = registry \/ shutDown'
    BY <1>3 DEF CallerStep, SetMaxPeers, Download, AnswerSearch, ExpireHeld, StopAll, actorVars
  <2> QED BY <1>1, <2>1 DEF Succeeds
<1>4. CASE WorldStep
  <2>1. ASSUME NEW a \in arriving, InboundRegister(a) PROVE Succeeds
    <3>1. registry' = registry \/ Registers(a.user, a.id, FALSE, FALSE)
      BY <2>1 DEF InboundRegister
    <3> QED BY <1>1, <3>1, RegistersSucceeds
  <2>2. registry' = registry \/ \E a \in arriving : InboundRegister(a)
    BY <1>4 DEF WorldStep, ServerSendsConnect, InboundDial, ServerResolves,
                ServerCannotBroker, PierceFirewall, InboundNudge, actorVars
  <2> QED BY <1>1, <2>1, <2>2
<1>5. CASE LoopStep
  <2>1. CASE HandlePeerDisconnected \/ HandleConnectFailed
    <3> DEFINE op == Head(operations)
    <3>1. operations # <<>> /\ IsReport(op) /\ RemovePeerIf(op.user, op.id)
      BY <2>1 DEF HandlePeerDisconnected, HandleConnectFailed, Taking, IsReport
    <3>2. 1 \in DOMAIN operations /\ op = operations[1]
      BY <3>1, Taken DEF World
    <3>3. op.id \in DOMAIN actors /\ actors[op.id].reported
      BY <3>1, <3>2 DEF ReportInv
    <3> HIDE DEF op
    <3>4. CASE Registered(op.user) /\ registry[op.user] = op.id
      <4>1. registry' = [v \in DOMAIN registry \ {op.user} |-> registry[v]]
        BY <3>1, <3>4 DEF RemovePeerIf, Without
      <4>2. \A v \in DOMAIN registry : registry[v] \in Int
        BY DEF Tables, ActorId
      <4> QED BY <3>3, <3>4, <4>1, <4>2 DEF Succeeds
    <3>5. CASE ~(Registered(op.user) /\ registry[op.user] = op.id)
      BY <1>1, <3>1, <3>5 DEF RemovePeerIf
    <3> QED BY <3>4, <3>5
  <2>2. CASE HandleConnectToPeer \/ HandlePeerAddress
    <3>1. registry' = registry \/ \E u, b : DialOut(u, b)
      BY <2>2 DEF HandleConnectToPeer, HandlePeerAddress
    <3> QED BY <1>1, <3>1, DialSucceeds
  <2>3. CASE \/ HandlePeerConnected \/ HandleCantConnect
             \/ \E t \in DOMAIN pendingConnect : SweepExpiredConnect(t)
    BY <1>1, <2>3 DEF HandlePeerConnected, HandleCantConnect, SweepExpiredConnect, actorVars
  <2> QED BY <1>5, <2>1, <2>2, <2>3 DEF LoopStep
<1>6. CASE ActorStep
  BY <1>1, <1>6
     DEF ActorStep, DialFails, Establish, ReadStop, ReadConnecting, ReadConnected,
         ReadDisconnected, HangUp, ReadError, SelfStop, Rest
<1> QED BY <1>2, <1>3, <1>4, <1>5, <1>6 DEF PeerNext

\* No report of an actor that was replaced takes the name from its successor,
\* for any number of users and connections (peer_registry.rs:182-203).
THEOREM SuccessorsStay == PeerSpec => SuccessorStays
<1>1. PeerInv /\ [PeerNext]_peerVars => [Succeeds]_peerVars
  BY SucceedsStep
<1> QED BY <1>1, PeerInvHolds, PTL DEF PeerSpec, SuccessorStays, Succeeds
-----------------------------------------------------------------------------
(* Nothing is stranded. *)

\* Who holds a name was not told to end, has not ended for good, and has not
\* reported while it is up.
Standing ==
    \A u \in DOMAIN registry :
        LET a == actors[registry[u]] IN
        /\ ~a.retiring /\ ~MailEnds(a) /\ a.conn # "stopped"
        /\ a.conn = "connected" => ~a.reported

\* A token stands for the user of the actor it is named for.
TokenInv ==
    \A t \in DOMAIN pendingConnect :
        t \in DOMAIN actors /\ actors[t].user = pendingConnect[t]

Asking(a)  == \E k \in DOMAIN a.inbox : a.inbox[k] = "QueueUpload"
IsError(m) == m.op = "PeerConnectFailed" \/ (m.op = "PeerDisconnected" /\ m.error)
Fails(s, i)    == \E k \in DOMAIN s : IsError(s[k]) /\ s[k].id = i
Mentions(s, o, u) == \E k \in DOMAIN s : s[k].op = o /\ s[k].user = u
Comes(x, u, r) == \E a \in x : a.user = u /\ a.registered = r
Token(p, u)    == \E t \in DOMAIN p : p[t] = u

\* The actor that holds u's name will see the request, or its end fails it.
Tended(u) ==
    LET a == actors[registry[u]] IN
    \/ a.conn = "connecting"
    \/ /\ a.conn = "connected"
       /\ \/ Asking(a)
          \/ Mentions(operations, "PeerConnected", u)
          \/ Comes(arriving, u, TRUE)
    \/ a.conn = "disconnected" /\ Fails(operations, registry[u])

\* Nobody holds u's name, and somebody will or the download is failed.
Sought(u) ==
    \/ u \in resolving
    \/ Token(pendingConnect, u)
    \/ Comes(arriving, u, FALSE)
    \/ Mentions(operations, "GetPeerAddressResponse", u)

Wants(u) == download[u] = "Queued" /\ u \notin hungUp

WayInv ==
    ~shutDown => \A u \in Peers : Wants(u) => IF Registered(u) THEN Tended(u) ELSE Sought(u)

DownloadInv == download \in [Peers -> {"none", "Queued", "Requested", "Failed"}]

StrandInv == Standing /\ TokenInv /\ WayInv /\ DownloadInv

\* More is added to the channel, or its first operation is taken.
Grows == \A k \in DOMAIN operations :
             k \in DOMAIN operations' /\ operations'[k] = operations[k]

LEMMA GrowsTells ==
    ASSUME Grows
    PROVE  /\ \A o, u : Mentions(operations, o, u) => Mentions(operations', o, u)
           /\ \A i : Fails(operations, i) => Fails(operations', i)
BY DEF Grows, Mentions, Fails

LEMMA AddedTells ==
    ASSUME operations \in Seq(Operation), NEW m \in Operation,
           operations' = Append(operations, m)
    PROVE  /\ Grows
           /\ \A o, u : m.op = o /\ m.user = u => Mentions(operations', o, u)
           /\ IsError(m) => Fails(operations', m.id)
<1> DEFINE s == Append(operations, m)
<1>1. /\ \A k \in DOMAIN operations : k \in DOMAIN s /\ s[k] = operations[k]
      /\ Len(operations) + 1 \in DOMAIN s /\ s[Len(operations) + 1] = m
  OBVIOUS
<1> HIDE DEF s
<1>2. operations' = s
  BY DEF s
<1> QED BY <1>1, <1>2 DEF Grows, Mentions, Fails

LEMMA TakenTells ==
    ASSUME operations \in Seq(Operation), operations # <<>>, operations' = Tail(operations)
    PROVE  /\ \A o, u : Mentions(operations, o, u) =>
                  \/ Mentions(operations', o, u)
                  \/ Head(operations).op = o /\ Head(operations).user = u
           /\ \A i : Fails(operations, i) =>
                  Fails(operations', i) \/ (IsError(Head(operations)) /\ Head(operations).id = i)
           /\ SaysOnce(operations) /\ IsReport(Head(operations))
                /\ Fails(operations, Head(operations).id) => IsError(Head(operations))
<1> DEFINE t == Tail(operations)
<1>1. Head(operations) = operations[1] /\ 1 \in DOMAIN operations
  OBVIOUS
<1>2. \A k \in DOMAIN operations : k = 1 \/ (k - 1 \in DOMAIN t /\ t[k - 1] = operations[k])
  OBVIOUS
<1> HIDE DEF t
<1>3. operations' = t
  BY DEF t
<1>4. ASSUME SaysOnce(operations), IsReport(Head(operations)),
             Fails(operations, Head(operations).id)
      PROVE  IsError(Head(operations))
  <2>1. PICK k \in DOMAIN operations :
            IsError(operations[k]) /\ operations[k].id = Head(operations).id
    BY <1>4 DEF Fails
  <2>2. k = 1
    BY <1>1, <1>4, <2>1 DEF SaysOnce, IsError, IsReport
  <2> QED BY <1>1, <2>1, <2>2
<1>5. ASSUME NEW o, NEW u, Mentions(operations, o, u)
      PROVE  Mentions(t, o, u) \/ (Head(operations).op = o /\ Head(operations).user = u)
  <2>1. PICK k \in DOMAIN operations : operations[k].op = o /\ operations[k].user = u
    BY <1>5 DEF Mentions
  <2> QED BY <1>1, <1>2, <2>1 DEF Mentions
<1>6. ASSUME NEW i, Fails(operations, i)
      PROVE  Fails(t, i) \/ (IsError(Head(operations)) /\ Head(operations).id = i)
  <2>1. PICK k \in DOMAIN operations : IsError(operations[k]) /\ operations[k].id = i
    BY <1>6 DEF Fails
  <2> QED BY <1>1, <1>2, <2>1 DEF Fails
<1> QED BY <1>3, <1>4, <1>5, <1>6

\* An actor that got mail, but none that ends it.
Left(b, a) ==
    /\ b.conn = a.conn /\ b.reported = a.reported /\ b.retiring = a.retiring
    /\ MailEnds(b) => MailEnds(a)
    /\ Asking(a) => Asking(b)

LEMMA LeftAlone == ASSUME NEW a PROVE Left(a, a)
BY DEF Left

LEMMA LeftMail ==
    ASSUME NEW a \in Worker, NEW x \in Box, \A k \in DOMAIN x : x[k] \notin {"Retire", "Stop"},
           NEW b, b = [a EXCEPT !.inbox = a.inbox \o x]
    PROVE  /\ Left(b, a)
           /\ (\E k \in DOMAIN x : x[k] = "QueueUpload") => Asking(b)
<1> DEFINE z == a.inbox \o x
<1>1. a.inbox \in Box
  BY WorkerFields
<1>2. /\ z \in Box
      /\ \A k \in DOMAIN a.inbox : k \in DOMAIN z /\ z[k] = a.inbox[k]
      /\ \A k \in DOMAIN x : k + Len(a.inbox) \in DOMAIN z /\ z[k + Len(a.inbox)] = x[k]
      /\ \A k \in DOMAIN z : \/ k \in DOMAIN a.inbox /\ z[k] = a.inbox[k]
                             \/ \E j \in DOMAIN x : z[k] = x[j]
  <2>1. a.inbox \in Seq(Posts) /\ x \in Seq(Posts)
    BY <1>1 DEF Box
  <2>2. /\ DOMAIN z = 1..(Len(a.inbox) + Len(x)) /\ DOMAIN a.inbox = 1..Len(a.inbox)
        /\ DOMAIN x = 1..Len(x) /\ Len(x) \in Nat /\ Len(a.inbox) \in Nat
        /\ \A k \in DOMAIN z : z[k] = IF k <= Len(a.inbox) THEN a.inbox[k]
                                                          ELSE x[k - Len(a.inbox)]
    BY <2>1
  <2>3. z \in Box
    BY <2>1 DEF Box
  <2>4. ASSUME NEW k \in DOMAIN z
        PROVE  \/ k \in DOMAIN a.inbox /\ z[k] = a.inbox[k]
               \/ \E j \in DOMAIN x : z[k] = x[j]
    <3>1. CASE k <= Len(a.inbox)
      BY <2>2, <3>1
    <3>2. CASE ~(k <= Len(a.inbox))
      <4>1. k - Len(a.inbox) \in DOMAIN x /\ z[k] = x[k - Len(a.inbox)]
        BY <2>2, <3>2
      <4> QED BY <4>1
    <3> QED BY <3>1, <3>2
  <2>5. \A k \in DOMAIN a.inbox : k \in DOMAIN z /\ z[k] = a.inbox[k]
    BY <2>2
  <2>6. \A k \in DOMAIN x : k + Len(a.inbox) \in DOMAIN z /\ z[k + Len(a.inbox)] = x[k]
    BY <2>2
  <2> QED BY <2>3, <2>4, <2>5, <2>6
<1> HIDE DEF z
<1>3. Mailed([a EXCEPT !.inbox = z], a) /\ [a EXCEPT !.inbox = z].inbox = z
  BY <1>2, NewBox
<1>4. b = [a EXCEPT !.inbox = z]
  BY DEF z
<1>5. b.inbox = z /\ b.conn = a.conn /\ b.reported = a.reported /\ b.retiring = a.retiring
  BY <1>3, <1>4 DEF Mailed
<1> HIDE <1>4
<1>6. MailEnds(b) => MailEnds(a)
  BY <1>2, <1>5 DEF MailEnds
<1>7. Asking(a) => Asking(b)
  BY <1>2, <1>5 DEF Asking
<1>8. ASSUME NEW k \in DOMAIN x, x[k] = "QueueUpload"
      PROVE  Asking(b)
  <2>1. k + Len(a.inbox) \in DOMAIN b.inbox /\ b.inbox[k + Len(a.inbox)] = "QueueUpload"
    BY ONLY <1>2, <1>5, <1>8
  <2> QED BY ONLY <2>1 DEF Asking
<1> QED BY <1>5, <1>6, <1>7, <1>8 DEF Left
-----------------------------------------------------------------------------
(* Who keeps a name, and undisturbed. *)

Stands(a) == /\ ~a.retiring /\ ~MailEnds(a) /\ a.conn # "stopped"
             /\ a.conn = "connected" => ~a.reported

Holds(v) ==
    /\ v \in DOMAIN registry /\ v \in DOMAIN registry' /\ registry'[v] = registry[v]
    /\ Left(actors'[registry[v]], actors[registry[v]])

LEMMA NobodyMoves ==
    ASSUME actors' = actors, registry' = registry
    PROVE  \A v \in DOMAIN registry : Holds(v)
BY LeftAlone DEF Holds

LEMMA MailNames ==
    ASSUME Tables, NEW i \in DOMAIN actors,
           NEW x \in Box, \A k \in DOMAIN x : x[k] \notin {"Retire", "Stop"},
           actors' = [actors EXCEPT ![i].inbox = @ \o x], registry' = registry
    PROVE  /\ \A v \in DOMAIN registry : Holds(v)
           /\ (\E k \in DOMAIN x : x[k] = "QueueUpload") => Asking(actors'[i])
<1> DEFINE b == [actors[i] EXCEPT !.inbox = actors[i].inbox \o x]
<1>1. actors[i] \in Worker /\ \A v \in DOMAIN registry : registry[v] \in DOMAIN actors
  BY DEF Tables
<1>2. /\ Left(b, actors[i])
      /\ (\E k \in DOMAIN x : x[k] = "QueueUpload") => Asking(b)
  BY <1>1, LeftMail
<1>3. actors' = [actors EXCEPT ![i] = b]
  OBVIOUS
<1> HIDE DEF b
<1>4. actors'[i] = b /\ \A j \in DOMAIN actors : j # i => actors'[j] = actors[j]
  BY <1>3
<1>5. \A j \in DOMAIN actors : Left(actors'[j], actors[j])
  BY <1>2, <1>4, LeftAlone
<1> QED BY <1>1, <1>2, <1>4, <1>5 DEF Holds

LEMMA PostNames ==
    ASSUME Tables, NEW i \in DOMAIN actors, NEW m \in Posts \ {"Retire", "Stop"},
           actors' = Post(actors, i, m), registry' = registry
    PROVE  /\ \A v \in DOMAIN registry : Holds(v)
           /\ m = "QueueUpload" => Asking(actors'[i])
<1> DEFINE x == <<m>>
<1>1. actors[i].inbox \in Seq(Posts)
  BY WorkerFields DEF Tables, Box
<1>2. Append(actors[i].inbox, m) = actors[i].inbox \o x
  BY <1>1
<1>3. x \in Box /\ (\A k \in DOMAIN x : x[k] = m) /\ 1 \in DOMAIN x
  BY DEF Box
<1>4. actors' = [actors EXCEPT ![i].inbox = @ \o x]
  BY <1>2 DEF Post
<1>5. \A k \in DOMAIN x : x[k] \notin {"Retire", "Stop"}
  BY <1>3
<1>6. m = "QueueUpload" => \E k \in DOMAIN x : x[k] = "QueueUpload"
  BY <1>3
<1>7. x \in Box
  BY <1>3
<1> HIDE DEF x
<1>8. /\ \A v \in DOMAIN registry : Holds(v)
      /\ (\E k \in DOMAIN x : x[k] = "QueueUpload") => Asking(actors'[i])
  BY ONLY Tables, i \in DOMAIN actors, registry' = registry, <1>4, <1>5, <1>7, MailNames
<1> QED BY <1>6, <1>8

\* Names tell actors apart.
LEMMA OwnNames ==
    ASSUME Tables, NEW u \in DOMAIN registry, NEW v \in DOMAIN registry, registry[u] = registry[v]
    PROVE  u = v
BY DEF Tables

LEMMA RegistersNames ==
    ASSUME Tables, NEW u \in Peers, NEW i, i \notin DOMAIN actors, NEW o, NEW b,
           Registers(u, i, o, b)
    PROVE  /\ u \in DOMAIN registry' /\ registry'[u] = i /\ actors'[i] = Spawned(u, o, b)
           /\ \A v \in DOMAIN registry' : v # u => Holds(v)
           /\ \A v \in DOMAIN registry : v \notin DOMAIN registry' => v \notin Protected
<1>1. PICK gone \in IF Full(u) THEN Victims(DOMAIN registry) ELSE {u} :
          /\ actors' = [k \in DOMAIN actors \cup {i} |->
                 IF k = i THEN Spawned(u, o, b)
                 ELSE (IF Registered(u)
                       THEN Post(IF Full(u) THEN Post(actors, registry[gone], "Stop") ELSE actors,
                                 registry[u], "Retire")
                       ELSE IF Full(u) THEN Post(actors, registry[gone], "Stop") ELSE actors)[k]]
          /\ registry' = [v \in ((DOMAIN registry \ {gone}) \cup {u}) |->
                              IF v = u THEN i ELSE registry[v]]
  BY DEF Registers
<1>2. u \in DOMAIN registry' /\ registry'[u] = i /\ actors'[i] = Spawned(u, o, b)
  BY <1>1
<1>3. gone # u => Full(u) /\ gone \in DOMAIN registry /\ gone \notin Protected
  BY <1>1 DEF Full, Registered, Victims, Idle
<1>4. \A v \in DOMAIN registry : v \notin DOMAIN registry' => v \notin Protected
  BY <1>1, <1>3
<1>5. ASSUME NEW v \in DOMAIN registry', v # u PROVE Holds(v)
  <2>1. v \in DOMAIN registry /\ v # gone /\ registry'[v] = registry[v]
    BY <1>1, <1>5
  <2>2. registry[v] \in DOMAIN actors /\ registry[v] # i
    BY <2>1 DEF Tables
  <2>3. CASE Full(u)
    <3>1. u \notin DOMAIN registry /\ gone \in DOMAIN registry
      BY <1>1, <2>3 DEF Full, Registered, Victims, Idle
    <3>2. registry[gone] # registry[v]
      BY <2>1, <3>1, OwnNames
    <3>3. actors'[registry[v]] = Post(actors, registry[gone], "Stop")[registry[v]]
      BY <1>1, <2>2, <2>3, <3>1 DEF Registered
    <3>4. actors'[registry[v]] = actors[registry[v]]
      BY <2>2, <3>2, <3>3 DEF Post
    <3> QED BY <1>5, <2>1, <3>4, LeftAlone DEF Holds
  <2>4. CASE ~Full(u) /\ u \in DOMAIN registry
    <3>1. registry[u] # registry[v]
      BY <1>5, <2>1, <2>4, OwnNames
    <3>2. actors'[registry[v]] = Post(actors, registry[u], "Retire")[registry[v]]
      BY <1>1, <2>2, <2>4 DEF Registered
    <3>3. actors'[registry[v]] = actors[registry[v]]
      BY <2>2, <3>1, <3>2 DEF Post
    <3> QED BY <1>5, <2>1, <3>3, LeftAlone DEF Holds
  <2>5. CASE ~Full(u) /\ u \notin DOMAIN registry
    <3>1. actors'[registry[v]] = actors[registry[v]]
      BY <1>1, <2>2, <2>5 DEF Registered
    <3> QED BY <1>5, <2>1, <3>1, LeftAlone DEF Holds
  <2> QED BY <2>3, <2>4, <2>5
<1> QED BY <1>2, <1>4, <1>5

LEMMA RemovalNames ==
    ASSUME Tables, NEW u, NEW i, RemovePeerIf(u, i)
    PROVE  /\ \A v \in DOMAIN registry' : Holds(v)
           /\ \A v \in DOMAIN registry : v \notin DOMAIN registry' => v = u /\ registry[v] = i
<1>1. CASE Registered(u) /\ registry[u] = i
  <2>1. u \in DOMAIN registry /\ registry' = [v \in DOMAIN registry \ {u} |-> registry[v]]
          /\ actors' = Post(actors, i, "Stop")
    BY <1>1 DEF RemovePeerIf, Without, Registered
  <2>2. ASSUME NEW v \in DOMAIN registry' PROVE Holds(v)
    <3>1. v \in DOMAIN registry /\ v # u /\ registry'[v] = registry[v]
      BY <2>1
    <3>2. registry[v] # i /\ registry[v] \in DOMAIN actors
      BY <1>1, <2>1, <3>1, OwnNames DEF Tables
    <3>3. actors'[registry[v]] = actors[registry[v]]
      BY <2>1, <3>2 DEF Post
    <3> QED BY <3>1, <3>3, LeftAlone DEF Holds
  <2> QED BY <1>1, <2>1, <2>2
<1>2. CASE ~(Registered(u) /\ registry[u] = i)
  BY <1>2, NobodyMoves DEF RemovePeerIf
<1> QED BY <1>1, <1>2

\* A newcomer stands.
LEMMA SpawnedStands ==
    ASSUME NEW u \in Peers, NEW o \in BOOLEAN, NEW b \in BOOLEAN
    PROVE  /\ Stands(Spawned(u, o, b))
           /\ Spawned(u, o, b).conn = IF o THEN "connecting" ELSE "connected"
<1>1. Spawned(u, o, b).inbox = <<>> /\ DOMAIN <<>> = {}
  BY DEF Spawned
<1> QED BY <1>1 DEF Spawned, Stands, MailEnds
-----------------------------------------------------------------------------
(* What the actor that holds a name may do in a step. *)

LEMMA OpenedMail ==
    ASSUME Tables, NEW i \in DOMAIN actors, actors[i].inbox # <<>>
    PROVE  /\ MailEnds(Opened(i)) => MailEnds(actors[i])
           /\ Asking(actors[i]) /\ Head(actors[i].inbox) # "QueueUpload" => Asking(Opened(i))
           /\ Head(actors[i].inbox) \in {"Retire", "Stop"} => MailEnds(actors[i])
<1> DEFINE a == actors[i]
           t == Tail(a.inbox)
           b == [a EXCEPT !.inbox = t]
<1>1. a \in Worker /\ a.inbox \in Box
  BY WorkerFields DEF Tables
<1>2. /\ t \in Box /\ Head(a.inbox) = a.inbox[1] /\ 1 \in DOMAIN a.inbox
      /\ \A k \in DOMAIN a.inbox : k # 1 => k - 1 \in DOMAIN t /\ t[k - 1] = a.inbox[k]
      /\ \A k \in DOMAIN t : k + 1 \in DOMAIN a.inbox /\ t[k] = a.inbox[k + 1]
  BY <1>1 DEF Box
<1> HIDE DEF t
<1>3. b.inbox = t
  BY <1>1, <1>2, NewBox
<1>4. Opened(i) = b
  BY DEF Opened, t
<1> HIDE DEF b
<1>5. MailEnds(b) => MailEnds(a)
  BY <1>2, <1>3 DEF MailEnds
<1>6. Asking(a) /\ Head(a.inbox) # "QueueUpload" => Asking(b)
  BY <1>2, <1>3 DEF Asking
<1>7. Head(a.inbox) \in {"Retire", "Stop"} => MailEnds(a)
  BY <1>2 DEF MailEnds
<1> QED BY <1>4, <1>5, <1>6, <1>7

LEMMA ErrorIs ==
    ASSUME Tables, NEW i \in DOMAIN actors, ~actors[i].retiring
    PROVE  /\ ErrorReport(i) \in Operation /\ IsError(ErrorReport(i)) /\ ErrorReport(i).id = i
<1>1. actors[i] \in Worker /\ i \in ActorId
  BY DEF Tables
<1>2. actors[i].user \in Peers /\ actors[i].brokered \in BOOLEAN
  BY <1>1, WorkerFields
<1> QED BY <1>1, <1>2 DEF ErrorReport, Operation, IsError

\* The end of a connection that stood is an error, and is reported.
LEMMA BreakFails ==
    ASSUME Tables, operations \in Seq(Operation), NEW i \in DOMAIN actors,
           ~actors[i].retiring, ~actors[i].reported, Report(i, ErrorReport(i))
    PROVE  Grows /\ Fails(operations', i)
<1>1. operations' = Append(operations, ErrorReport(i))
  BY DEF Report
<1>2. ErrorReport(i) \in Operation /\ IsError(ErrorReport(i)) /\ ErrorReport(i).id = i
  BY ErrorIs
<1> QED BY <1>1, <1>2, AddedTells

WantsNext(u) == download'[u] = "Queued" /\ u \notin hungUp'

\* Either it goes on dialling; or it is up, and the loop is told, or it still
\* has the request before it; or it is over, and the loop is told of an error,
\* or was; or nobody waits for the download any more.
Acts(i) ==
    LET a == actors[i]
        b == actors'[i]
    IN  /\ Stands(b) /\ b.user = a.user
        /\ \/ b.conn = "connecting"
           \/ b.conn = "connected" /\ Mentions(operations', "PeerConnected", a.user)
           \/ /\ b.conn = "connected" /\ a.conn = "connected"
              /\ Asking(a) => Asking(b)
           \/ b.conn = "disconnected" /\ Fails(operations', i)
           \/ b.conn = "disconnected" /\ a.conn = "disconnected"
           \/ ~WantsNext(a.user)

LEMMA DialActs ==
    ASSUME Tables, operations \in Seq(Operation), NEW i \in DOMAIN actors,
           Stands(actors[i]), DialFails(i) \/ Establish(i)
    PROVE  Acts(i) /\ Grows
<1> DEFINE a == actors[i]
<1>1. /\ a \in Worker /\ a.conn = "connecting" /\ ~a.reported /\ ~a.retiring /\ ~MailEnds(a)
      /\ i \in ActorId
  BY DEF Tables, DialFails, Establish, Is, Stands
<1>2. /\ Closed(a) \in Worker /\ Closed(a).user = a.user /\ Closed(a).conn = "disconnected"
      /\ Closed(a).retiring = a.retiring /\ Closed(a).inbox = a.inbox
  BY <1>1, ClosedIs
<1>3. /\ Up(a) \in Worker /\ Up(a).inbox = a.inbox /\ Up(a).user = a.user
      /\ Up(a).conn = "connected" /\ Up(a).reported = a.reported /\ Up(a).retiring = a.retiring
  BY <1>1, UpIs
<1>4. /\ Closed(Up(a)).user = a.user /\ Closed(Up(a)).conn = "disconnected"
      /\ Closed(Up(a)).retiring = a.retiring /\ Closed(Up(a)).inbox = a.inbox
  BY <1>3, ClosedIs
<1>5. Stands(Closed(a)) /\ Stands(Up(a)) /\ Stands(Closed(Up(a)))
  BY <1>1, <1>2, <1>3, <1>4 DEF Stands, MailEnds
<1>6. a.user \in Peers
  BY <1>1, WorkerFields
<1>7. CASE DialFails(i)
  <2>1. actors'[i] = Closed(a) /\ Report(i, ErrorReport(i))
    BY <1>7 DEF DialFails, Breaks, Becomes
  <2>2. Grows /\ Fails(operations', i)
    BY <1>1, <2>1, BreakFails
  <2> QED BY <1>2, <1>5, <2>1, <2>2 DEF Acts
<1>8. CASE Establish(i)
  <2> DEFINE lost == [op |-> "PeerDisconnected", id |-> i, user |-> a.user, error |-> TRUE]
             up   == [op |-> "PeerConnected", user |-> a.user]
             b    == [actors[i] EXCEPT !.conn = "connected", !.established = TRUE,
                                       !.backlog = <<>>]
  <2>1. /\ lost \in Operation /\ IsError(lost) /\ lost.id = i
        /\ up \in Operation /\ up.op = "PeerConnected" /\ up.user = a.user
    BY <1>1, <1>6 DEF Operation, IsError
  <2>9. \/ actors' = [actors EXCEPT ![i] = b] /\ operations' = Append(operations, up)
        \/ actors' = [actors EXCEPT ![i] = Closed(b)] /\ operations' = Append(operations, lost)
        \/ actors' = [actors EXCEPT ![i] = Closed(b)] /\ operations' = operations \o <<lost, up>>
    <3>1. b.user = a.user
      BY <1>1 DEF Worker
    <3> QED BY <1>8, <3>1 DEF Establish, Becomes
  <2>10. b = Up(a)
    BY DEF Up
  <2> HIDE DEF b
  <2>2. \/ actors'[i] = Up(a) /\ operations' = Append(operations, up)
        \/ actors'[i] = Closed(Up(a)) /\ operations' = Append(operations, lost)
        \/ actors'[i] = Closed(Up(a)) /\ operations' = operations \o <<lost, up>>
    BY <2>9, <2>10
  <2> HIDE DEF lost, up
  <2>3. CASE actors'[i] = Up(a) /\ operations' = Append(operations, up)
    <3>1. Grows /\ Mentions(operations', "PeerConnected", a.user)
      BY <2>1, <2>3, AddedTells
    <3> QED BY <1>3, <1>5, <2>3, <3>1 DEF Acts
  <2>4. CASE actors'[i] = Closed(Up(a)) /\ operations' = Append(operations, lost)
    <3>1. Grows /\ Fails(operations', i)
      BY <2>1, <2>4, AddedTells
    <3> QED BY <1>4, <1>5, <2>4, <3>1 DEF Acts
  <2>5. CASE actors'[i] = Closed(Up(a)) /\ operations' = operations \o <<lost, up>>
    <3>1. /\ \A k \in DOMAIN operations : k \in DOMAIN operations' /\ operations'[k] = operations[k]
          /\ Len(operations) + 1 \in DOMAIN operations'
          /\ operations'[Len(operations) + 1] = lost
      BY <2>1, <2>5
    <3>2. Grows /\ Fails(operations', i)
      BY <2>1, <3>1 DEF Grows, Fails
    <3> QED BY <1>4, <1>5, <2>5, <3>2 DEF Acts
  <2> QED BY <2>2, <2>3, <2>4, <2>5
<1> QED BY <1>7, <1>8

LEMMA ReadingActs ==
    ASSUME Tables, operations \in Seq(Operation), DownloadInv, NEW i \in DOMAIN actors,
           Stands(actors[i]), ReadConnecting(i) \/ ReadConnected(i) \/ ReadDisconnected(i)
    PROVE  Acts(i) /\ Grows
<1> DEFINE a == actors[i]
           o == Opened(i)
           m == Head(a.inbox)
<1>1. /\ a \in Worker /\ ~a.retiring /\ ~MailEnds(a) /\ a.inbox # <<>>
      /\ a.conn = "connected" => ~a.reported
  BY DEF Tables, ReadConnecting, ReadConnected, ReadDisconnected, Takes, Stands
<1>2. /\ o \in Worker /\ o.user = a.user /\ o.conn = a.conn
      /\ o.reported = a.reported /\ o.retiring = a.retiring /\ m \in Posts
  BY <1>1, OpenedIs
<1>3. /\ ~MailEnds(o) /\ m \notin {"Retire", "Stop"}
      /\ Asking(a) /\ m # "QueueUpload" => Asking(o)
  BY <1>1, OpenedMail
<1>4. /\ Closed(o).user = a.user /\ Closed(o).conn = "disconnected"
      /\ Closed(o).retiring = a.retiring /\ Closed(o).inbox = o.inbox
  BY <1>2, ClosedIs
<1>5. a.user \in Peers
  BY <1>1, WorkerFields
<1> HIDE DEF o, m
<1>6. ASSUME operations' = operations PROVE Grows
  BY <1>6 DEF Grows
<1>7. CASE ReadConnecting(i)
  <2>1. /\ a.conn = "connecting" /\ operations' = operations
        /\ actors'[i] = SetAside(o, m)
    BY <1>3, <1>7 DEF ReadConnecting, Takes, Is, Becomes, SetAside, o, m
  <2>2. /\ SetAside(o, m).inbox = o.inbox
        /\ SetAside(o, m).user = o.user /\ SetAside(o, m).conn = o.conn
        /\ SetAside(o, m).reported = o.reported /\ SetAside(o, m).retiring = o.retiring
    BY <1>2, SetAsideIs
  <2>3. Stands(SetAside(o, m))
    BY <1>1, <1>2, <1>3, <2>1, <2>2 DEF Stands, MailEnds
  <2> QED BY <1>2, <1>6, <2>1, <2>2, <2>3 DEF Acts
<1>8. CASE ReadConnected(i)
  <2>1. /\ a.conn = "connected" /\ ~a.reported
        /\ \/ /\ actors'[i] = o /\ operations' = operations
              /\ download' = IF m = "QueueUpload" THEN Ask(download, a.user) ELSE download
           \/ actors'[i] = Closed(o) /\ Report(i, ErrorReport(i))
    BY <1>1, <1>3, <1>8 DEF ReadConnected, Takes, Is, Becomes, Breaks, o, m
  <2>2. CASE /\ actors'[i] = o /\ operations' = operations
             /\ download' = IF m = "QueueUpload" THEN Ask(download, a.user) ELSE download
    <3>1. Stands(o)
      BY <1>1, <1>2, <1>3, <2>1 DEF Stands
    <3>2. m = "QueueUpload" => ~WantsNext(a.user)
      BY <1>5, <2>2 DEF Ask, WantsNext, DownloadInv
    <3> QED BY <1>2, <1>3, <1>6, <2>1, <2>2, <3>1, <3>2 DEF Acts
  <2>3. CASE actors'[i] = Closed(o) /\ Report(i, ErrorReport(i))
    <3>1. Stands(Closed(o))
      BY <1>1, <1>3, <1>4 DEF Stands, MailEnds
    <3>2. Grows /\ Fails(operations', i)
      BY <1>1, <2>1, <2>3, BreakFails
    <3> QED BY <1>4, <2>3, <3>1, <3>2 DEF Acts
  <2> QED BY <2>1, <2>2, <2>3
<1>9. CASE ReadDisconnected(i)
  <2> DEFINE r == o.retiring \/ m = "Retire"
  <2>1. /\ actors'[i] = Retiring(o, r)
        /\ a.conn = "disconnected" /\ operations' = operations
    BY <1>9 DEF ReadDisconnected, Takes, Is, Becomes, Retiring, o, m
  <2>2. r = FALSE
    BY <1>1, <1>2, <1>3
  <2>3. /\ Retiring(o, r).inbox = o.inbox /\ Retiring(o, r).retiring = r
        /\ Retiring(o, r).user = o.user /\ Retiring(o, r).conn = o.conn
    BY <1>2, <2>2, RetiringIs
  <2> HIDE DEF r
  <2>4. Stands(Retiring(o, r))
    BY <1>2, <1>3, <2>1, <2>2, <2>3 DEF Stands, MailEnds
  <2> QED BY <1>2, <1>6, <2>1, <2>3, <2>4 DEF Acts
<1> QED BY <1>7, <1>8, <1>9

LEMMA HolderActs ==
    ASSUME Tables, operations \in Seq(Operation), DownloadInv, NEW i \in DOMAIN actors,
           Current(i), Stands(actors[i]),
           \/ DialFails(i) \/ Establish(i)
           \/ ReadStop(i) \/ ReadConnecting(i) \/ ReadConnected(i) \/ ReadDisconnected(i)
           \/ HangUp(i) \/ ReadError(i) \/ SelfStop(i)
    PROVE  Acts(i) /\ Grows
<1> DEFINE a == actors[i]
<1>1. a \in Worker /\ ~a.retiring /\ ~MailEnds(a)
  BY DEF Tables, Stands
<1>2. CASE ReadStop(i)
  <2>1. a.inbox # <<>> /\ Head(a.inbox) = "Stop"
    BY <1>2 DEF ReadStop, Takes
  <2> QED BY <1>1, <2>1, OpenedMail
<1>3. CASE SelfStop(i)
  BY <1>1, <1>3 DEF SelfStop
<1>4. CASE HangUp(i) \/ ReadError(i)
  <2>1. a.conn = "connected" /\ ~a.reported /\ actors'[i] = Closed(a)
    BY <1>4 DEF HangUp, ReadError, Is, Breaks, Becomes, Stands
  <2>2. /\ Closed(a).user = a.user /\ Closed(a).conn = "disconnected"
        /\ Closed(a).retiring = a.retiring /\ Closed(a).inbox = a.inbox
    BY <1>1, ClosedIs
  <2>3. Stands(Closed(a))
    BY <1>1, <2>2 DEF Stands, MailEnds
  <2>4. CASE ReadError(i)
    <3>1. Grows /\ Fails(operations', i)
      BY <1>1, <2>1, <2>4, BreakFails DEF ReadError, Breaks
    <3> QED BY <2>1, <2>2, <2>3, <3>1 DEF Acts
  <2>5. CASE HangUp(i)
    <3>1. ~WantsNext(a.user)
      BY <2>5 DEF HangUp, WantsNext
    <3>2. operations' = Append(operations, CleanReport(i))
      BY <2>1, <2>5 DEF HangUp, Report
    <3>3. a.user \in Peers /\ i \in ActorId
      BY <1>1, WorkerFields DEF Tables
    <3>4. CleanReport(i) \in Operation
      BY <3>3 DEF CleanReport, Operation
    <3>5. Grows
      BY <3>2, <3>4, AddedTells
    <3> QED BY <2>1, <2>2, <2>3, <3>1, <3>5 DEF Acts
  <2> QED BY <1>4, <2>4, <2>5
<1> QED BY <1>2, <1>3, <1>4, DialActs, ReadingActs
-----------------------------------------------------------------------------
(* What a step leaves of the ways. *)

WayOf(u) == Wants(u) => IF Registered(u) THEN Tended(u) ELSE Sought(u)

\* Whoever holds a name afterwards stands, and each way leads on.
Goes ==
    /\ \A v \in DOMAIN registry' : Holds(v) \/ Stands(actors'[registry'[v]])
    /\ \A u \in Peers : WayOf(u) => WayOf(u)'

LEMMA StandingStep == ASSUME Standing, Goes PROVE Standing'
<1> SUFFICES ASSUME NEW v \in DOMAIN registry' PROVE Stands(actors'[registry'[v]])
  BY DEF Standing, Stands
<1>1. CASE Holds(v)
  <2>1. Stands(actors[registry[v]]) /\ Left(actors'[registry[v]], actors[registry[v]])
          /\ registry'[v] = registry[v]
    BY <1>1 DEF Standing, Stands, Holds
  <2>2. Stands(actors'[registry[v]])
    BY <2>1 DEF Stands, Left
  <2> QED BY <2>1, <2>2
<1> QED BY <1>1 DEF Goes

\* What else than its actor a way may lead through.
Nudged(u) == Mentions(operations, "PeerConnected", u) \/ Comes(arriving, u, TRUE)

LEMMA TendedStays ==
    ASSUME NEW u, Holds(u), Tended(u),
           Fails(operations, registry[u]) => Fails(operations', registry[u]),
           Nudged(u) => Nudged(u)'
    PROVE  Tended(u)'
<1>1. registry'[u] = registry[u] /\ Left(actors'[registry[u]], actors[registry[u]])
  BY DEF Holds
<1> DEFINE a == actors[registry[u]]
           b == actors'[registry[u]]
<1>2. b.conn = a.conn /\ (Asking(a) => Asking(b))
  BY <1>1 DEF Left
<1>3. \/ a.conn = "connecting"
      \/ a.conn = "connected" /\ (Asking(a) \/ Nudged(u))
      \/ a.conn = "disconnected" /\ Fails(operations, registry[u])
  BY DEF Tended, Nudged
<1> HIDE DEF a, b
<1>4. \/ b.conn = "connecting"
      \/ b.conn = "connected" /\ (Asking(b) \/ Nudged(u)')
      \/ b.conn = "disconnected" /\ Fails(operations', registry[u])
  BY <1>2, <1>3
<1> QED BY <1>1, <1>4 DEF Tended, Nudged, b

Stay(u) ==
    WantsNext(u) =>
        /\ Wants(u)
        /\ \A i : Fails(operations, i) => Fails(operations', i)
        /\ Nudged(u) => Nudged(u)'
        /\ Sought(u) => Sought(u)'

LEMMA WayStays ==
    ASSUME NEW u, WayOf(u), Stay(u),
           WantsNext(u) => IF u \in DOMAIN registry THEN Holds(u) ELSE u \notin DOMAIN registry'
    PROVE  WayOf(u)'
<1> SUFFICES ASSUME WantsNext(u)
             PROVE  IF u \in DOMAIN registry' THEN Tended(u)' ELSE Sought(u)'
  BY DEF WayOf, Wants, WantsNext, Registered
<1>1. /\ Wants(u) /\ (Sought(u) => Sought(u)') /\ (Nudged(u) => Nudged(u)')
      /\ \A i : Fails(operations, i) => Fails(operations', i)
  BY DEF Stay
<1>2. CASE u \in DOMAIN registry
  <2>1. Holds(u) /\ Tended(u)
    BY <1>1, <1>2 DEF WayOf, Registered
  <2>2. Tended(u)'
    BY <1>1, <2>1, TendedStays
  <2> QED BY <2>1, <2>2 DEF Holds
<1>3. CASE u \notin DOMAIN registry
  BY <1>1, <1>3 DEF WayOf, Registered
<1> QED BY <1>2, <1>3

\* Every actor keeps its name.
LEMMA StayGoes ==
    ASSUME \A v \in DOMAIN registry : Holds(v), DOMAIN registry' = DOMAIN registry,
           \A u \in Peers : Stay(u)
    PROVE  Goes
BY WayStays DEF Goes

LEMMA FailedIs ==
    ASSUME DownloadInv, NEW w, download' = Fail(download, w), hungUp' = hungUp,
           NEW u \in Peers, WantsNext(u)
    PROVE  Wants(u) /\ u # w
BY DEF DownloadInv, Fail, Waiting, Wants, WantsNext

LEMMA CallersGo ==
    ASSUME PeerInv, StrandInv, CallerStep, ~StopAll PROVE Goes
<1> USE DEF PeerInv, StrandInv
<1>1. \A u \in scenario.wanted \cup scenario.searchers : u \in Peers
  BY PeerConstants DEF World
<1>2. ASSUME operations' = operations, arriving' = arriving
      PROVE  \A u : (Nudged(u) => Nudged(u)')
                      /\ \A i : Fails(operations, i) => Fails(operations', i)
  BY <1>2 DEF Nudged
<1>3. ASSUME NEW n, SetMaxPeers(n) PROVE Goes
  <2>1. UNCHANGED <<actors, registry, operations, arriving, resolving, pendingConnect,
                    download, hungUp>>
    BY <1>3 DEF SetMaxPeers, loopVars, workVars
  <2>2. \A u \in Peers : Stay(u)
    BY <1>2, <2>1 DEF Stay, Wants, WantsNext, Sought
  <2> QED BY <2>1, <2>2, NobodyMoves, StayGoes
<1>4. ASSUME NEW n, ExpireHeld(n) PROVE Goes
  <2>1. UNCHANGED <<actors, registry, operations, arriving, resolving, pendingConnect,
                    download, hungUp>>
    BY <1>4 DEF ExpireHeld, loopVars, actorVars
  <2>2. \A u \in Peers : Stay(u)
    BY <1>2, <2>1 DEF Stay, Wants, WantsNext, Sought
  <2> QED BY <2>1, <2>2, NobodyMoves, StayGoes
<1>5. ASSUME NEW w \in Peers, AnswerSearch(w) PROVE Goes
  <2>1. /\ UNCHANGED <<registry, operations, arriving, pendingConnect, download, hungUp>>
        /\ resolving \subseteq resolving'
    BY <1>5 DEF AnswerSearch
  <2>2. \A v \in DOMAIN registry : Holds(v)
    <3>1. CASE w \in DOMAIN registry
      <4>1. actors' = Post(actors, registry[w], "SendMessage") /\ registry[w] \in DOMAIN actors
        BY <1>5, <3>1 DEF AnswerSearch, Registered, Tables
      <4>2. "SendMessage" \in Posts \ {"Retire", "Stop"}
        BY DEF Posts
      <4> QED BY <2>1, <4>1, <4>2, PostNames
    <3>2. CASE w \notin DOMAIN registry
      <4>1. actors' = actors
        BY <1>5, <3>2 DEF AnswerSearch, Registered
      <4> QED BY <2>1, <4>1, NobodyMoves
    <3> QED BY <3>1, <3>2
  <2>3. \A u \in Peers : Stay(u)
    BY <1>2, <2>1 DEF Stay, Wants, WantsNext, Sought
  <2> QED BY <2>1, <2>2, <2>3, StayGoes
<1>6. ASSUME NEW w \in Peers, Download(w) PROVE Goes
  <2>1. UNCHANGED <<registry, operations, arriving, pendingConnect>>
    BY <1>6 DEF Download
  <2>2. /\ \A v \in DOMAIN registry : Holds(v)
        /\ w \in DOMAIN registry => Asking(actors'[registry[w]])
    <3>1. CASE w \in DOMAIN registry
      <4>1. actors' = Post(actors, registry[w], "QueueUpload") /\ registry[w] \in DOMAIN actors
        BY <1>6, <3>1 DEF Download, Registered, Tables
      <4>2. "QueueUpload" \in Posts \ {"Retire", "Stop"}
        BY DEF Posts
      <4> QED BY <2>1, <4>1, <4>2, PostNames
    <3>2. CASE w \notin DOMAIN registry
      <4>1. actors' = actors
        BY <1>6, <3>2 DEF Download, Registered
      <4> QED BY <2>1, <3>2, <4>1, NobodyMoves
    <3> QED BY <3>1, <3>2
  <2>3. /\ resolving \subseteq resolving' /\ hungUp \subseteq hungUp'
        /\ \A u \in Peers : u # w => download'[u] = download[u]
    BY <1>6 DEF Download, DownloadInv
  <2>4. ASSUME NEW u \in Peers, u # w PROVE Stay(u)
    BY <1>2, <2>1, <2>3, <2>4 DEF Stay, Wants, WantsNext, Sought
  <2>5. ASSUME WantsNext(w), w \in DOMAIN registry PROVE Tended(w)'
    <3>1. actors[registry[w]].conn # "disconnected"
      BY <1>6, <2>5 DEF Download, HeldByTheDead, Registered, WantsNext
    <3>2. /\ registry[w] \in DOMAIN actors /\ actors[registry[w]] \in Worker
          /\ actors[registry[w]].conn # "stopped"
      BY <2>5 DEF Tables, Standing
    <3>3. actors[registry[w]].conn \in {"connecting", "connected"}
      BY <3>1, <3>2, WorkerFields
    <3>4. registry'[w] = registry[w] /\ actors'[registry[w]].conn = actors[registry[w]].conn
      BY <2>2, <2>5 DEF Holds, Left
    <3> QED BY <2>2, <2>5, <3>3, <3>4 DEF Tended
  <2>6. ASSUME WantsNext(w), w \notin DOMAIN registry PROVE Sought(w)'
    <3>1. w \in resolving'
      BY <1>6, <2>6 DEF Download, Registered, WantsNext, DownloadInv
    <3> QED BY <3>1 DEF Sought
  <2>7. WayOf(w)'
    BY <2>1, <2>5, <2>6 DEF WayOf, Wants, WantsNext, Registered
  <2>8. ASSUME NEW u \in Peers, WayOf(u) PROVE WayOf(u)'
    <3>1. CASE u # w
      BY <2>1, <2>2, <2>4, <2>8, <3>1, WayStays
    <3> QED BY <2>7, <3>1
  <2> QED BY <2>1, <2>2, <2>8 DEF Goes
<1> QED BY <1>1, <1>3, <1>4, <1>5, <1>6 DEF CallerStep
LEMMA ServerGoes ==
    ASSUME PeerInv, StrandInv,
           \/ \E u \in scenario.callers : ServerSendsConnect(u)
           \/ \E u \in resolving : ServerResolves(u)
           \/ \E t \in DOMAIN pendingConnect : ServerCannotBroker(t)
    PROVE  Goes
<1> USE DEF PeerInv, StrandInv
<1>1. /\ \A u \in scenario.callers \cup resolving : u \in Peers
      /\ DOMAIN pendingConnect \subseteq ActorId /\ operations \in Seq(Operation)
  BY PeerConstants DEF World
<1>2. PICK m \in Operation :
          /\ operations' = Append(operations, m)
          /\ UNCHANGED <<registry, actors, arriving, pendingConnect, download, hungUp>>
          /\ \/ resolving' = resolving
             \/ \E w : resolving' = resolving \ {w} /\ m.op = "GetPeerAddressResponse" /\ m.user = w
  <2>1. \A u \in Peers : /\ [op |-> "ConnectToPeer", user |-> u] \in Operation
                         /\ [op |-> "GetPeerAddressResponse", user |-> u] \in Operation
    BY DEF Operation
  <2>2. \A t \in ActorId : [op |-> "CantConnectToPeer", token |-> t] \in Operation
    BY DEF Operation
  <2>3. ASSUME NEW u \in scenario.callers, ServerSendsConnect(u)
        PROVE  /\ operations' = Append(operations, [op |-> "ConnectToPeer", user |-> u])
               /\ UNCHANGED <<registry, actors, arriving, pendingConnect, download, hungUp, resolving>>
    BY <2>3 DEF ServerSendsConnect, Arrives, actorVars, workVars
  <2>4. ASSUME NEW u \in resolving, ServerResolves(u)
        PROVE  /\ operations' = Append(operations, [op |-> "GetPeerAddressResponse", user |-> u])
               /\ resolving' = resolving \ {u}
               /\ UNCHANGED <<registry, actors, arriving, pendingConnect, download, hungUp>>
    BY <2>4 DEF ServerResolves, Arrives, actorVars, workVars
  <2>5. ASSUME NEW t \in DOMAIN pendingConnect, ServerCannotBroker(t)
        PROVE  /\ operations' = Append(operations, [op |-> "CantConnectToPeer", token |-> t])
               /\ UNCHANGED <<registry, actors, arriving, pendingConnect, download, hungUp, resolving>>
    BY <2>5 DEF ServerCannotBroker, Arrives, actorVars, workVars
  <2>6. CASE \E u \in scenario.callers : ServerSendsConnect(u)
    BY <1>1, <2>1, <2>3, <2>6
  <2>7. CASE \E u \in resolving : ServerResolves(u)
    <3>1. PICK u \in resolving : ServerResolves(u)
      BY <2>7
    <3> DEFINE x == [op |-> "GetPeerAddressResponse", user |-> u]
    <3>2. x \in Operation /\ x.op = "GetPeerAddressResponse" /\ x.user = u
      BY <1>1, <2>1
    <3>3. /\ operations' = Append(operations, x) /\ resolving' = resolving \ {u}
          /\ UNCHANGED <<registry, actors, arriving, pendingConnect, download, hungUp>>
      BY <2>4, <3>1
    <3> HIDE DEF x
    <3> QED BY <3>2, <3>3
  <2>8. CASE \E t \in DOMAIN pendingConnect : ServerCannotBroker(t)
    BY <1>1, <2>2, <2>5, <2>8
  <2> QED BY <2>6, <2>7, <2>8
<1>3. /\ \A o, u : Mentions(operations, o, u) => Mentions(operations', o, u)
      /\ \A i : Fails(operations, i) => Fails(operations', i)
      /\ Mentions(operations', m.op, m.user)
  BY <1>1, <1>2, AddedTells, GrowsTells
<1>4. ASSUME NEW u \in Peers PROVE Stay(u)
  <2>1. Nudged(u) => Nudged(u)'
    BY <1>2, <1>3 DEF Nudged
  <2>2. Sought(u) => Sought(u)'
    BY <1>2, <1>3 DEF Sought
  <2> QED BY <1>2, <1>3, <2>1, <2>2 DEF Stay, Wants, WantsNext
<1> QED BY <1>2, <1>4, NobodyMoves, StayGoes

LEMMA ArrivalsGo ==
    ASSUME PeerInv, StrandInv,
           \/ \E u \in scenario.callers : InboundDial(u)
           \/ \E t \in DOMAIN pendingConnect : PierceFirewall(t)
           \/ \E a \in arriving : InboundNudge(a)
    PROVE  Goes
<1> USE DEF PeerInv, StrandInv
<1>1. CASE \E u \in scenario.callers : InboundDial(u)
  <2>1. /\ UNCHANGED <<registry, actors, operations, resolving, pendingConnect, download, hungUp>>
        /\ arriving \subseteq arriving'
    BY <1>1 DEF InboundDial, MintFor, loopVars, workVars
  <2>2. \A u \in Peers : Stay(u)
    BY <2>1 DEF Stay, Wants, WantsNext, Nudged, Sought, Comes
  <2> QED BY <2>1, <2>2, NobodyMoves, StayGoes
<1>2. CASE \E t \in DOMAIN pendingConnect : PierceFirewall(t)
  <2>1. PICK t \in DOMAIN pendingConnect : PierceFirewall(t)
    BY <1>2
  <2> DEFINE n == [user |-> pendingConnect[t], id |-> minted + 1, registered |-> FALSE]
  <2>2. /\ UNCHANGED <<registry, actors, operations, resolving, download, hungUp>>
        /\ arriving' = arriving \cup {n}
        /\ pendingConnect' = [s \in DOMAIN pendingConnect \ {t} |-> pendingConnect[s]]
    BY <2>1 DEF PierceFirewall, MintFor, Without, workVars
  <2>3. n \in arriving' /\ n.user = pendingConnect[t] /\ n.registered = FALSE
          /\ arriving \subseteq arriving'
    BY <2>2
  <2> HIDE DEF n
  <2>4. ASSUME NEW u PROVE Token(pendingConnect, u) => Token(pendingConnect', u) \/ Comes(arriving', u, FALSE)
    BY <2>2, <2>3 DEF Token, Comes
  <2>5. ASSUME NEW u \in Peers PROVE Stay(u)
    <3>1. Comes(arriving, u, FALSE) => Comes(arriving', u, FALSE)
      BY <2>3 DEF Comes
    <3>2. Comes(arriving, u, TRUE) => Comes(arriving', u, TRUE)
      BY <2>3 DEF Comes
    <3>3. Sought(u) => Sought(u)'
      BY <2>2, <2>4, <3>1 DEF Sought
    <3>4. Nudged(u) => Nudged(u)'
      BY <2>2, <3>2 DEF Nudged
    <3> QED BY <2>2, <3>3, <3>4 DEF Stay, Wants, WantsNext
  <2> QED BY <2>2, <2>5, NobodyMoves, StayGoes
<1>3. CASE \E a \in arriving : InboundNudge(a)
  <2>1. PICK a \in arriving : InboundNudge(a)
    BY <1>3
  <2> DEFINE m == [op |-> "PeerConnected", user |-> a.user]
  <2>2. /\ UNCHANGED <<registry, actors, resolving, pendingConnect, download, hungUp>>
        /\ arriving' = arriving \ {a} /\ a.registered
        /\ operations' = Append(operations, m)
    BY <2>1 DEF InboundNudge, workVars
  <2>3. m \in Operation /\ m.op = "PeerConnected" /\ m.user = a.user
          /\ operations \in Seq(Operation)
    BY DEF World, Arrival, Operation
  <2> HIDE DEF m
  <2>4. /\ \A o, u : Mentions(operations, o, u) => Mentions(operations', o, u)
        /\ \A i : Fails(operations, i) => Fails(operations', i)
        /\ Mentions(operations', "PeerConnected", a.user)
    BY <2>2, <2>3, AddedTells, GrowsTells
  <2>5. ASSUME NEW u \in Peers PROVE Stay(u)
    <3>1. Comes(arriving, u, FALSE) => Comes(arriving', u, FALSE)
      BY <2>2 DEF Comes
    <3>2. Comes(arriving, u, TRUE) => Comes(arriving', u, TRUE) \/ u = a.user
      BY <2>2 DEF Comes
    <3>3. Sought(u) => Sought(u)'
      BY <2>2, <2>4, <3>1 DEF Sought
    <3>4. Nudged(u) => Nudged(u)'
      BY <2>4, <3>2 DEF Nudged
    <3> QED BY <2>2, <2>4, <3>3, <3>4 DEF Stay, Wants, WantsNext
  <2> QED BY <2>2, <2>5, NobodyMoves, StayGoes
<1> QED BY <1>1, <1>2, <1>3

\* What the name of u's newcomer means for the others: they stay, or lose their
\* own name only while nobody waits for them.
LEMMA RegistersGoes ==
    ASSUME Tables, NEW w \in Peers, NEW i, i \notin DOMAIN actors,
           NEW o \in BOOLEAN, NEW b \in BOOLEAN, Registers(w, i, o, b),
           UNCHANGED <<download, hungUp>>,
           \A u \in Peers : u # w => Stay(u),
           o \/ Comes(arriving', w, TRUE)
    PROVE  Goes
<1>1. /\ w \in DOMAIN registry' /\ registry'[w] = i /\ actors'[i] = Spawned(w, o, b)
      /\ \A v \in DOMAIN registry' : v # w => Holds(v)
      /\ \A v \in DOMAIN registry : v \notin DOMAIN registry' => v \notin Protected
  BY RegistersNames
<1>2. /\ Stands(Spawned(w, o, b))
      /\ Spawned(w, o, b).conn = IF o THEN "connecting" ELSE "connected"
  BY SpawnedStands
<1>3. Tended(w)'
  BY <1>1, <1>2 DEF Tended
<1>4. ASSUME NEW u \in Peers, u # w, WayOf(u) PROVE WayOf(u)'
  <2>1. ASSUME WantsNext(u), u \in DOMAIN registry PROVE Holds(u)
    <3>1. u \in Protected
      BY <2>1 DEF WantsNext, Protected, Waiting
    <3> QED BY <1>1, <1>4, <2>1, <3>1
  <2>2. u \notin DOMAIN registry => u \notin DOMAIN registry'
    BY <1>1, <1>4 DEF Holds
  <2>3. Stay(u)
    BY <1>4
  <2> QED BY <1>4, <2>1, <2>2, <2>3, WayStays
<1>5. WayOf(w)'
  BY <1>1, <1>3 DEF WayOf, Registered
<1> QED BY <1>1, <1>2, <1>4, <1>5 DEF Goes

LEMMA InboundGoes ==
    ASSUME PeerInv, StrandInv, NEW a \in arriving, InboundRegister(a) PROVE Goes
<1> USE DEF PeerInv, StrandInv
<1>1. /\ a.user \in Peers /\ a \in Arrival /\ ~a.registered /\ a.id \notin DOMAIN actors
      /\ UNCHANGED <<operations, resolving, pendingConnect, hungUp>>
  BY DEF World, Arrival, Fresh, InboundRegister, loopVars
<1>2. CASE /\ download' = Fail(download, a.user) /\ arriving' = arriving \ {a}
           /\ UNCHANGED <<actors, registry>>
  <2>1. ASSUME NEW u \in Peers PROVE Stay(u)
    <3>1. u # a.user => \A r : Comes(arriving, u, r) => Comes(arriving', u, r)
      BY <1>2 DEF Comes
    <3>2. WantsNext(u) => Wants(u) /\ u # a.user
      BY <1>1, <1>2, FailedIs
    <3> QED BY <1>1, <3>1, <3>2 DEF Stay, Nudged, Sought
  <2> QED BY <1>2, <2>1, NobodyMoves, StayGoes
<1>3. CASE /\ Registers(a.user, a.id, FALSE, FALSE) /\ download' = download
           /\ arriving' = (arriving \ {a}) \cup {[a EXCEPT !.registered = TRUE]}
  <2> DEFINE n == [a EXCEPT !.registered = TRUE]
  <2>1. n.user = a.user /\ n.registered = TRUE
    BY <1>1 DEF Arrival
  <2>2. n \in arriving' /\ arriving \ {a} \subseteq arriving'
    BY <1>3
  <2> HIDE DEF n
  <2>3. Comes(arriving', a.user, TRUE)
    BY <2>1, <2>2 DEF Comes
  <2>4. ASSUME NEW u \in Peers, u # a.user PROVE Stay(u)
    <3>1. \A r : Comes(arriving, u, r) => Comes(arriving', u, r)
      BY <2>2, <2>4 DEF Comes
    <3> QED BY <1>1, <1>3, <3>1 DEF Stay, Nudged, Sought, Wants, WantsNext
  <2> QED BY <1>1, <1>3, <2>3, <2>4, RegistersGoes
<1> QED BY <1>2, <1>3 DEF InboundRegister
\* What taking an operation leaves of the ways.
LEMMA TakenStays ==
    ASSUME operations \in Seq(Operation), operations # <<>>, operations' = Tail(operations),
           arriving' = arriving, resolving' = resolving,
           \A u : Token(pendingConnect, u) => Token(pendingConnect', u) \/ ~WantsNext(u),
           ~IsError(Head(operations)),
           NEW u, WantsNext(u) => Wants(u),
           Head(operations).op \in {"PeerConnected", "GetPeerAddressResponse"} =>
               Head(operations).user # u
    PROVE  Stay(u)
<1>1. /\ \A o : Mentions(operations, o, u) =>
              \/ Mentions(operations', o, u)
              \/ Head(operations).op = o /\ Head(operations).user = u
      /\ \A i : Fails(operations, i) => Fails(operations', i)
  BY TakenTells
<1>2. /\ Mentions(operations, "PeerConnected", u) => Mentions(operations', "PeerConnected", u)
      /\ Mentions(operations, "GetPeerAddressResponse", u)
            => Mentions(operations', "GetPeerAddressResponse", u)
  BY <1>1
<1>3. Nudged(u) => Nudged(u)'
  BY <1>2 DEF Nudged
<1>4. WantsNext(u) /\ Sought(u) => Sought(u)'
  BY <1>2 DEF Sought
<1> QED BY <1>1, <1>3, <1>4 DEF Stay

LEMMA DialsGo ==
    ASSUME PeerInv, StrandInv, HandleConnectToPeer \/ HandlePeerAddress PROVE Goes
<1> USE DEF PeerInv, StrandInv
<1>0. PICK w : w = Head(operations).user
  OBVIOUS
<1>1. /\ operations \in Seq(Operation) /\ operations # <<>> /\ operations' = Tail(operations)
      /\ Head(operations).op \in {"ConnectToPeer", "GetPeerAddressResponse"}
      /\ UNCHANGED <<arriving, resolving, pendingConnect, hungUp>>
  BY DEF World, HandleConnectToPeer, HandlePeerAddress, Taking
<1>2. Head(operations) \in Operation
  BY <1>1, Taken
<1>3. w \in Peers /\ ~IsError(Head(operations))
  BY <1>0, <1>1, <1>2 DEF Operation, IsError
<1>4. \/ UNCHANGED <<actors, registry, download>> /\ w \in DOMAIN registry
      \/ \E b \in BOOLEAN : DialOut(w, b)
  BY <1>0 DEF HandleConnectToPeer, HandlePeerAddress, Registered
<1>5. ASSUME NEW u, u # w, WantsNext(u) => Wants(u) PROVE Stay(u)
  BY <1>0, <1>1, <1>3, <1>5, TakenStays
<1>6. CASE UNCHANGED <<actors, registry, download>> /\ w \in DOMAIN registry
  <2>1. \A u : WantsNext(u) => Wants(u)
    BY <1>1, <1>6 DEF Wants, WantsNext
  <2>2. /\ \A i : Fails(operations, i) => Fails(operations', i)
        /\ Mentions(operations, "PeerConnected", w) => Mentions(operations', "PeerConnected", w)
    BY <1>1, <1>3, TakenTells
  <2>3. Nudged(w) => Nudged(w)'
    BY <1>1, <2>2 DEF Nudged
  <2>4. \A v \in DOMAIN registry : Holds(v)
    BY <1>6, NobodyMoves
  <2>5. ASSUME WayOf(w) PROVE WayOf(w)'
    <3>1. ASSUME Wants(w) PROVE Tended(w)'
      <4>1. Tended(w)
        BY <1>6, <2>5, <3>1 DEF WayOf, Registered
      <4> QED BY <1>6, <2>2, <2>3, <2>4, <4>1, TendedStays
    <3> QED BY <1>1, <1>6, <3>1 DEF WayOf, Wants, Registered
  <2>6. ASSUME NEW u \in Peers, u # w, WayOf(u) PROVE WayOf(u)'
    BY <1>5, <1>6, <2>1, <2>4, <2>6, WayStays
  <2>7. \A v \in DOMAIN registry' : Holds(v)
    BY <1>6, <2>4
  <2> QED BY <2>5, <2>6, <2>7 DEF Goes
<1>7. ASSUME NEW b \in BOOLEAN, DialOut(w, b) PROVE Goes
  <2>1. minted + 1 \notin DOMAIN actors
    BY DEF World, Fresh, Tables, ActorId
  <2>2. CASE download' = Fail(download, w) /\ UNCHANGED <<actors, registry>>
    <3>1. ASSUME NEW u \in Peers, WantsNext(u) PROVE Wants(u) /\ u # w
      BY <1>1, <2>2, <3>1, FailedIs
    <3>2. ASSUME NEW u \in Peers PROVE Stay(u)
      <4>1. CASE u # w
        BY <1>5, <3>1, <4>1
      <4>2. CASE u = w
        BY <3>1, <4>2 DEF Stay
      <4> QED BY <4>1, <4>2
    <3> QED BY <2>2, <3>2, NobodyMoves, StayGoes
  <2>3. CASE Registers(w, minted + 1, TRUE, b) /\ download' = download
    <3>1. \A u \in Peers : u # w => Stay(u)
      BY <1>1, <1>5, <2>3 DEF Wants, WantsNext
    <3> QED BY <1>1, <1>3, <2>1, <2>3, <3>1, RegistersGoes
  <2> QED BY <1>7, <2>2, <2>3 DEF DialOut
<1> QED BY <1>4, <1>6, <1>7

LEMMA NudgeGoes ==
    ASSUME PeerInv, StrandInv, HandlePeerConnected PROVE Goes
<1> USE DEF PeerInv, StrandInv
<1>0. PICK w : w = Head(operations).user
  OBVIOUS
<1> DEFINE uploads == IF download[w] \in Waiting THEN <<"QueueUpload">> ELSE <<>>
           replies == IF w \in held THEN <<"SendMessage">> ELSE <<>>
<1>8. PICK x : x = uploads \o replies
  OBVIOUS
<1>1. /\ operations \in Seq(Operation) /\ operations # <<>> /\ operations' = Tail(operations)
      /\ Head(operations).op = "PeerConnected"
      /\ UNCHANGED <<registry, arriving, resolving, pendingConnect, download, hungUp>>
  BY DEF World, HandlePeerConnected, Taking
<1>2. ~IsError(Head(operations))
  BY <1>1 DEF IsError
<1>3. \A u : WantsNext(u) => Wants(u)
  BY <1>1 DEF Wants, WantsNext
<1>4. ASSUME NEW u, u # w PROVE Stay(u)
  BY <1>0, <1>1, <1>2, <1>3, <1>4, TakenStays
<1>5. /\ x \in Box /\ \A k \in DOMAIN x : x[k] \notin {"Retire", "Stop"}
      /\ download[w] \in Waiting => \E k \in DOMAIN x : x[k] = "QueueUpload"
  <2> DEFINE M == {"QueueUpload", "SendMessage"}
  <2>1. uploads \in Seq(M) /\ replies \in Seq(M)
    BY <<"QueueUpload">> \in Seq(M), <<"SendMessage">> \in Seq(M), <<>> \in Seq(M)
  <2> HIDE DEF uploads, replies
  <2>2. x \in Seq(M)
    BY <1>8, <2>1
  <2>3. (\A k \in DOMAIN x : x[k] \notin {"Retire", "Stop"}) /\ x \in Box
    <3>1. M \subseteq Posts
      BY DEF Posts
    <3>2. x \in Seq(Posts)
      BY <2>2, <3>1, SeqMonotonic
    <3> QED BY <2>2, <3>2 DEF Box
  <2> USE DEF uploads
  <2>4. download[w] \in Waiting => 1 \in DOMAIN x /\ x[1] = "QueueUpload"
    BY <1>8, <2>1
  <2> QED BY <2>3, <2>4
<1>6. CASE w \in DOMAIN registry
  <2>1. registry[w] \in DOMAIN actors /\ actors[registry[w]].inbox \in Seq(Posts)
    BY <1>6, WorkerFields DEF Tables, Box
  <2>2. actors[registry[w]].inbox \o uploads \o replies = actors[registry[w]].inbox \o x
    <3>1. <<"QueueUpload">> \in Seq(Posts) /\ <<"SendMessage">> \in Seq(Posts)
            /\ <<>> \in Seq(Posts)
      BY DEF Posts
    <3>2. uploads \in Seq(Posts) /\ replies \in Seq(Posts)
      BY <3>1
    <3> HIDE DEF uploads, replies
    <3>3. \A s, t, v \in Seq(Posts) : (s \o t) \o v = s \o (t \o v)
      BY ConcatAssociative
    <3> QED BY <1>8, <2>1, <3>2, <3>3, Zenon
  <2>3. actors' = [actors EXCEPT ![registry[w]].inbox = @ \o x]
    BY <1>0, <1>6, <2>2 DEF HandlePeerConnected, Registered
  <2>4. /\ \A v \in DOMAIN registry : Holds(v)
        /\ (\E k \in DOMAIN x : x[k] = "QueueUpload") => Asking(actors'[registry[w]])
    BY <1>1, <1>5, <2>1, <2>3, MailNames
  <2>5. ASSUME WayOf(w) PROVE WayOf(w)'
    <3>1. ASSUME Wants(w) PROVE Tended(w)'
      <4>1. Tended(w) /\ Asking(actors'[registry[w]])
        BY <1>5, <1>6, <2>4, <2>5, <3>1 DEF WayOf, Registered, Wants, Waiting
      <4>2. registry'[w] = registry[w]
              /\ actors'[registry[w]].conn = actors[registry[w]].conn
        BY <1>6, <2>4 DEF Holds, Left
      <4>3. Fails(operations, registry[w]) => Fails(operations', registry[w])
        BY <1>1, <1>2, TakenTells
      <4> QED BY <4>1, <4>2, <4>3 DEF Tended
    <3> QED BY <1>1, <1>6, <3>1 DEF WayOf, Wants, Registered
  <2>6. ASSUME NEW u \in Peers, u # w, WayOf(u) PROVE WayOf(u)'
    BY <1>1, <1>4, <2>4, <2>6, WayStays
  <2>7. \A v \in DOMAIN registry' : Holds(v)
    BY <1>1, <2>4
  <2> QED BY <2>5, <2>6, <2>7 DEF Goes
<1>7. CASE w \notin DOMAIN registry
  <2>1. actors' = actors
    BY <1>0, <1>7 DEF HandlePeerConnected, Registered
  <2>2. \A v \in DOMAIN registry : Holds(v)
    BY <1>1, <2>1, NobodyMoves
  <2>3. ASSUME WayOf(w) PROVE WayOf(w)'
    <3>1. Sought(w) => Sought(w)'
      <4>1. Mentions(operations, "GetPeerAddressResponse", w)
                => Mentions(operations', "GetPeerAddressResponse", w)
        BY <1>1, TakenTells
      <4> QED BY <1>1, <4>1 DEF Sought
    <3> QED BY <1>1, <1>7, <2>3, <3>1 DEF WayOf, Wants, Registered
  <2>4. ASSUME NEW u \in Peers, u # w, WayOf(u) PROVE WayOf(u)'
    BY <1>1, <1>4, <2>2, <2>4, WayStays
  <2>5. \A v \in DOMAIN registry' : Holds(v)
    BY <1>1, <2>2
  <2> QED BY <2>3, <2>4, <2>5 DEF Goes
<1> QED BY <1>6, <1>7
\* The loop hears of an end: the reporter loses its name, and whoever it held the
\* name for is failed or asked for by way of the server.
LEMMA EndsGo ==
    ASSUME PeerInv, StrandInv, HandlePeerDisconnected \/ HandleConnectFailed PROVE Goes
<1> USE DEF PeerInv, StrandInv
<1>0. PICK op : op = Head(operations)
  OBVIOUS
<1>1. /\ operations \in Seq(Operation) /\ operations # <<>> /\ operations' = Tail(operations)
      /\ op.op \in {"PeerDisconnected", "PeerConnectFailed"} /\ RemovePeerIf(op.user, op.id)
      /\ UNCHANGED <<arriving, resolving, hungUp>>
  BY <1>0 DEF World, HandlePeerDisconnected, HandleConnectFailed, Taking
<1>2. /\ op.id \in DOMAIN actors /\ actors[op.id].reported /\ actors[op.id].user = op.user
      /\ op \in Operation
  <2>1. 1 \in DOMAIN operations /\ op = operations[1] /\ op \in Operation
    BY <1>0, <1>1, Taken
  <2> QED BY <1>1, <2>1 DEF ReportInv, IsReport
<1>3. /\ \A v \in DOMAIN registry' : Holds(v)
      /\ \A v \in DOMAIN registry : v \notin DOMAIN registry' => v = op.user /\ registry[v] = op.id
  BY <1>1, RemovalNames
<1>4. /\ \A u : Mentions(operations, "PeerConnected", u) => Mentions(operations', "PeerConnected", u)
      /\ \A u : Mentions(operations, "GetPeerAddressResponse", u)
                   => Mentions(operations', "GetPeerAddressResponse", u)
      /\ \A i : Fails(operations, i) /\ i # op.id => Fails(operations', i)
      /\ Fails(operations, op.id) => IsError(op)
  BY <1>0, <1>1, TakenTells DEF ReportInv, IsReport
<1>5. op.user \in Peers
  BY <1>2, WorkerFields DEF Tables
\* Who is told.
<1>6. \/ download' = Fail(download, op.user)
      \/ op.op = "PeerDisconnected" /\ ~op.error /\ download' = download
      \/ Token(pendingConnect', op.user) /\ download' = download
  <2>1. CASE HandlePeerDisconnected
    BY <1>0, <2>1 DEF HandlePeerDisconnected, Taking
  <2>2. CASE HandleConnectFailed
    <3>1. CASE op.brokered
      BY <1>0, <2>2, <3>1 DEF HandleConnectFailed
    <3>2. CASE ~op.brokered
      <4>1. op.id \in DOMAIN pendingConnect' /\ pendingConnect'[op.id] = op.user
              /\ download' = download
        BY <1>0, <2>2, <3>2 DEF HandleConnectFailed
      <4> QED BY <4>1 DEF Token
    <3> QED BY <3>1, <3>2
  <2> QED BY <2>1, <2>2
<1>7. \A u : Token(pendingConnect, u) => Token(pendingConnect', u)
  <2>1. CASE pendingConnect' = pendingConnect
    BY <2>1
  <2>2. CASE pendingConnect' = [t \in DOMAIN pendingConnect \cup {op.id} |->
                                    IF t = op.id THEN op.user ELSE pendingConnect[t]]
    <3>1. \A t \in DOMAIN pendingConnect : t \in DOMAIN pendingConnect'
                                              /\ pendingConnect'[t] = pendingConnect[t]
      BY <1>2, <2>2 DEF TokenInv
    <3> QED BY <3>1 DEF Token
  <2> QED BY <1>0, <2>1, <2>2 DEF HandlePeerDisconnected, HandleConnectFailed
<1>8. ASSUME NEW u \in Peers, WantsNext(u)
      PROVE  Wants(u) /\ (download' = Fail(download, op.user) => u # op.user)
  BY <1>1, <1>6, <1>8, FailedIs DEF Wants, WantsNext
<1>9. ASSUME NEW u \in Peers, WayOf(u), WantsNext(u)
      PROVE  IF u \in DOMAIN registry' THEN Tended(u)' ELSE Sought(u)'
  <2>1. Wants(u)
    BY <1>8, <1>9
  <2>2. CASE u \in DOMAIN registry'
    <3>1. Holds(u) /\ u \in DOMAIN registry
      BY <1>3, <2>2 DEF Holds
    <3>2. registry[u] # op.id
      <4>1. ASSUME registry[u] = op.id PROVE FALSE
        <5>1. u = op.user
          BY <1>2, <3>1, <4>1 DEF Tables
        <5>2. registry' = [v \in DOMAIN registry \ {u} |-> registry[v]]
          BY <1>1, <3>1, <4>1, <5>1 DEF RemovePeerIf, Registered, Without
        <5> QED BY <2>2, <5>2
      <4> QED BY <4>1
    <3>3. Tended(u)
      BY <1>9, <2>1, <3>1 DEF WayOf, Registered
    <3>4. Nudged(u) => Nudged(u)'
      BY <1>1, <1>4 DEF Nudged
    <3>5. Fails(operations, registry[u]) => Fails(operations', registry[u])
      BY <1>4, <3>2
    <3> QED BY <2>2, <3>1, <3>3, <3>4, <3>5, TendedStays
  <2>3. CASE u \notin DOMAIN registry' /\ u \in DOMAIN registry
    <3>1. u = op.user /\ registry[u] = op.id
      BY <1>3, <2>3
    <3>2. Tended(u)
      BY <1>9, <2>1, <2>3 DEF WayOf, Registered
    <3>3. actors[op.id].conn \notin {"connecting", "connected"}
      BY <1>2, <2>3, <3>1 DEF Tables, Standing
    <3>4. IsError(op)
      BY <1>4, <3>1, <3>2, <3>3 DEF Tended
    <3>5. Token(pendingConnect', u)
      BY <1>6, <1>8, <1>9, <3>1, <3>4 DEF IsError
    <3> QED BY <2>3, <3>5 DEF Sought
  <2>4. CASE u \notin DOMAIN registry
    <3>1. Sought(u) /\ u \notin DOMAIN registry'
      BY <1>3, <1>9, <2>1, <2>4 DEF WayOf, Registered, Holds
    <3>2. Sought(u)'
      BY <1>1, <1>4, <1>7, <3>1 DEF Sought
    <3> QED BY <3>1, <3>2
  <2> QED BY <2>2, <2>3, <2>4
<1>10. \A u \in Peers : WayOf(u) => WayOf(u)'
  BY <1>9 DEF WayOf, Wants, WantsNext, Registered
<1> QED BY <1>3, <1>10 DEF Goes

LEMMA TokensGo ==
    ASSUME PeerInv, StrandInv,
           HandleCantConnect \/ \E t \in DOMAIN pendingConnect : SweepExpiredConnect(t)
    PROVE  Goes
<1> USE DEF PeerInv, StrandInv
<1>1. UNCHANGED <<actors, registry, arriving, resolving, hungUp>> /\ operations \in Seq(Operation)
  BY DEF World, HandleCantConnect, SweepExpiredConnect, actorVars
<1>2. \/ download' = download /\ pendingConnect' = pendingConnect
      \/ \E t \in DOMAIN pendingConnect :
              /\ download' = Fail(download, pendingConnect[t])
              /\ pendingConnect' = Without(pendingConnect, t)
  BY DEF HandleCantConnect, SweepExpiredConnect
<1>3. /\ \A u : Mentions(operations, "PeerConnected", u) => Mentions(operations', "PeerConnected", u)
      /\ \A u : Mentions(operations, "GetPeerAddressResponse", u)
                   => Mentions(operations', "GetPeerAddressResponse", u)
      /\ \A i : Fails(operations, i) => Fails(operations', i)
  <2>1. CASE operations' = operations
    BY <2>1
  <2>2. CASE HandleCantConnect
    <3>1. /\ operations # <<>> /\ operations' = Tail(operations)
          /\ Head(operations).op = "CantConnectToPeer"
      BY <2>2 DEF HandleCantConnect, Taking
    <3> QED BY <1>1, <3>1, TakenTells DEF IsError
  <2> QED BY <2>1, <2>2 DEF SweepExpiredConnect
<1>4. ASSUME NEW u \in Peers, WantsNext(u)
      PROVE  Wants(u) /\ (Token(pendingConnect, u) => Token(pendingConnect', u))
  <2>1. CASE download' = download /\ pendingConnect' = pendingConnect
    BY <1>1, <1>4, <2>1 DEF Wants, WantsNext
  <2>2. ASSUME NEW t \in DOMAIN pendingConnect,
               download' = Fail(download, pendingConnect[t]),
               pendingConnect' = Without(pendingConnect, t)
        PROVE  Wants(u) /\ (Token(pendingConnect, u) => Token(pendingConnect', u))
    <3>1. Wants(u) /\ u # pendingConnect[t]
      BY <1>1, <1>4, <2>2, FailedIs
    <3> QED BY <2>2, <3>1 DEF Token, Without
  <2> QED BY <1>2, <2>1, <2>2
<1>5. ASSUME NEW u \in Peers PROVE Stay(u)
  BY <1>1, <1>3, <1>4 DEF Stay, Nudged, Sought
<1> QED BY <1>1, <1>5, NobodyMoves, StayGoes

LEMMA ActorsGo == ASSUME PeerInv, StrandInv, ActorStep PROVE Goes
<1> USE DEF PeerInv, StrandInv
<1>1. PICK i \in DOMAIN actors :
          \/ DialFails(i) \/ Establish(i)
          \/ ReadStop(i) \/ ReadConnecting(i) \/ ReadConnected(i) \/ ReadDisconnected(i)
          \/ HangUp(i) \/ ReadError(i) \/ SelfStop(i)
  BY DEF ActorStep
<1>2. /\ UNCHANGED <<registry, arriving, resolving, pendingConnect>>
      /\ operations \in Seq(Operation) /\ hungUp \subseteq hungUp'
      /\ \A j \in DOMAIN actors : j # i => actors'[j] = actors[j]
  <2>1. UNCHANGED <<registry, arriving, resolving, pendingConnect>>
    BY <1>1 DEF DialFails, Establish, ReadStop, ReadConnecting, ReadConnected,
                ReadDisconnected, HangUp, ReadError, SelfStop, Rest
  <2>2. hungUp \subseteq hungUp'
    BY <1>1 DEF DialFails, Establish, ReadStop, ReadConnecting, ReadConnected,
                ReadDisconnected, HangUp, ReadError, SelfStop
  <2>3. \E b : actors' = [actors EXCEPT ![i] = b]
    <3>1. CASE DialFails(i) \/ Establish(i) \/ ReadStop(i) \/ HangUp(i) \/ ReadError(i)
      BY <3>1, Courses DEF Course
    <3>2. CASE ReadConnecting(i) \/ ReadConnected(i) \/ ReadDisconnected(i)
      BY <3>2, Readings DEF Course
    <3>3. CASE SelfStop(i)
      BY <3>3 DEF SelfStop, Post
    <3> QED BY <1>1, <3>1, <3>2, <3>3
  <2> QED BY <2>1, <2>2, <2>3 DEF World
<1>3. \A u \in Peers : WantsNext(u) => Wants(u)
  <2>1. \/ download' = download
        \/ download' = Ask(download, actors[i].user)
    BY <1>1 DEF DialFails, Establish, ReadStop, ReadConnecting, ReadConnected,
                ReadDisconnected, HangUp, ReadError, SelfStop
  <2>2. \A u \in Peers : download'[u] = "Queued" => download[u] = "Queued"
    BY <2>1 DEF Ask, DownloadInv
  <2> QED BY <1>2, <2>2 DEF Wants, WantsNext
<1>4. Grows
  <2>1. actors[i] \in Worker /\ i \in ActorId
    BY DEF Tables
  <2>2. /\ actors[i].user \in Peers /\ actors[i].brokered \in BOOLEAN
        /\ actors[i].retiring \in BOOLEAN
    BY <2>1, WorkerFields
  <2>3. CleanReport(i) \in Operation /\ ErrorReport(i) \in Operation
    BY <2>1, <2>2 DEF CleanReport, ErrorReport, Operation
  <2>4. ASSUME NEW m \in Operation, Report(i, m) PROVE Grows
    <3>1. operations' = operations \/ operations' = Append(operations, m)
      BY <2>4 DEF Report
    <3> QED BY <1>2, <3>1, AddedTells DEF Grows
  <2>5. ASSUME operations' = operations PROVE Grows
    BY <2>5 DEF Grows
  <2>6. CASE Establish(i)
    <3> DEFINE lost == [op |-> "PeerDisconnected", id |-> i, user |-> actors[i].user, error |-> TRUE]
               up   == [op |-> "PeerConnected", user |-> actors[i].user]
               b    == [actors[i] EXCEPT !.conn = "connected", !.established = TRUE,
                                         !.backlog = <<>>]
    <3>1. lost \in Operation /\ up \in Operation /\ b.user = actors[i].user
      BY <2>1, <2>2 DEF Operation, Worker
    <3>2. \/ operations' = Append(operations, up)
          \/ operations' = Append(operations, lost)
          \/ operations' = operations \o <<lost, up>>
      BY <2>6, <3>1 DEF Establish
    <3> HIDE DEF lost, up
    <3>3. CASE operations' = operations \o <<lost, up>>
      BY <1>2, <3>1, <3>3 DEF Grows
    <3> QED BY <1>2, <3>1, <3>2, <3>3, AddedTells
  <2> QED BY <1>1, <2>3, <2>4, <2>5, <2>6
          DEF DialFails, ReadStop, ReadConnecting, ReadConnected,
              ReadDisconnected, HangUp, ReadError, SelfStop, Breaks
<1>5. /\ \A o, u : Mentions(operations, o, u) => Mentions(operations', o, u)
      /\ \A j : Fails(operations, j) => Fails(operations', j)
  BY <1>4, GrowsTells
<1>6. ASSUME NEW u \in Peers PROVE Stay(u)
  BY <1>2, <1>3, <1>5 DEF Stay, Nudged, Sought
<1>7. ASSUME NEW v \in DOMAIN registry, registry[v] # i PROVE Holds(v)
  <2>1. actors'[registry[v]] = actors[registry[v]]
    BY <1>2, <1>7 DEF Tables
  <2> QED BY <1>2, <2>1, LeftAlone DEF Holds
<1>8. CASE ~Current(i)
  <2>1. \A v \in DOMAIN registry : registry[v] # i
    BY <1>8 DEF Tables, Current, Registered
  <2> QED BY <1>2, <1>6, <1>7, <2>1, StayGoes
<1>9. CASE Current(i)
  <2>0. PICK w \in DOMAIN registry : w = actors[i].user /\ registry[w] = i
    BY <1>9 DEF Current, Registered
  <2>1. Stands(actors[i])
    BY <2>0 DEF Standing, Stands
  <2>2. Acts(i)
    BY <1>1, <1>2, <1>9, <2>1, HolderActs
  <2>3. \A v \in DOMAIN registry : v # w => registry[v] # i
    BY <2>0, OwnNames
  <2>4. w \in Peers
    BY DEF Tables
  <2>5. ASSUME WayOf(w) PROVE WayOf(w)'
    <3>1. ASSUME WantsNext(w) PROVE Tended(w)'
      <4>1. Wants(w) /\ Tended(w)
        BY <1>3, <2>0, <2>4, <2>5, <3>1 DEF WayOf, Registered
      <4>2. registry'[w] = i
        BY <1>2, <2>0
      <4>3. Nudged(w) => Nudged(w)'
        BY <1>2, <1>5 DEF Nudged
      <4>4. CASE actors'[i].conn = "connected" /\ actors[i].conn = "connected"
                   /\ (Asking(actors[i]) => Asking(actors'[i]))
        BY <2>0, <4>1, <4>2, <4>3, <4>4 DEF Tended, Nudged
      <4>5. CASE actors'[i].conn = "disconnected" /\ actors[i].conn = "disconnected"
        BY <1>5, <2>0, <4>1, <4>2, <4>5 DEF Tended
      <4>6. CASE \/ actors'[i].conn = "connecting"
                 \/ actors'[i].conn = "connected" /\ Mentions(operations', "PeerConnected", w)
                 \/ actors'[i].conn = "disconnected" /\ Fails(operations', i)
        BY <4>2, <4>6 DEF Tended
      <4> QED BY <2>0, <2>2, <3>1, <4>4, <4>5, <4>6 DEF Acts
    <3> QED BY <1>2, <2>0, <3>1 DEF WayOf, Wants, WantsNext, Registered
  <2>6. ASSUME NEW u \in Peers, u # w, WayOf(u) PROVE WayOf(u)'
    BY <1>2, <1>6, <1>7, <2>3, <2>6, WayStays
  <2>7. ASSUME NEW v \in DOMAIN registry' PROVE Holds(v) \/ Stands(actors'[registry'[v]])
    <3>1. CASE v = w
      BY <1>2, <2>0, <2>2, <3>1 DEF Acts
    <3>2. CASE v # w
      BY <1>2, <1>7, <2>3, <3>2
    <3> QED BY <3>1, <3>2
  <2> QED BY <2>5, <2>6, <2>7 DEF Goes
<1> QED BY <1>8, <1>9
LEMMA StepGoes == ASSUME PeerInv, StrandInv, [PeerNext]_peerVars PROVE Goes \/ StopAll
<1>1. CASE UNCHANGED peerVars
  <2>1. UNCHANGED <<actors, registry, operations, arriving, resolving, pendingConnect,
                    download, hungUp>>
    BY <1>1 DEF peerVars, actorVars, loopVars, workVars
  <2>2. \A u \in Peers : Stay(u)
    BY <2>1 DEF Stay, Wants, WantsNext, Sought, Nudged
  <2> QED BY <2>1, <2>2, NobodyMoves, StayGoes
<1>2. CASE CallerStep
  BY <1>2, CallersGo
<1>3. CASE WorldStep
  BY <1>3, ServerGoes, ArrivalsGo, InboundGoes DEF WorldStep
<1>4. CASE LoopStep
  BY <1>4, DialsGo, NudgeGoes, EndsGo, TokensGo DEF LoopStep
<1>5. CASE ActorStep
  BY <1>5, ActorsGo
<1> QED BY <1>1, <1>2, <1>3, <1>4, <1>5 DEF PeerNext

\* Only the failure of a dial hands out a token, under the id of the actor.
LEMMA TokenStep == ASSUME PeerInv, TokenInv, [PeerNext]_peerVars PROVE TokenInv'
<1> USE DEF PeerInv
<1>1. \A t \in DOMAIN pendingConnect' :
          \/ t \in DOMAIN pendingConnect /\ pendingConnect'[t] = pendingConnect[t]
          \/ t \in DOMAIN actors /\ actors[t].user = pendingConnect'[t]
  <2>1. CASE pendingConnect' = pendingConnect
    BY <2>1
  <2>2. CASE \E t : pendingConnect' = Without(pendingConnect, t)
    BY <2>2 DEF Without
  <2>3. CASE HandleConnectFailed
    <3>0. PICK op : op = Head(operations)
      OBVIOUS
    <3>1. /\ operations \in Seq(Operation) /\ operations # <<>>
          /\ op.op = "PeerConnectFailed"
      BY <2>3, <3>0 DEF World, HandleConnectFailed, Taking
    <3>2. 1 \in DOMAIN operations /\ op = operations[1]
      BY <3>0, <3>1, Taken
    <3>3. op.id \in DOMAIN actors /\ actors[op.id].user = op.user
      BY <3>1, <3>2 DEF ReportInv, IsReport
    <3>4. \/ pendingConnect' = pendingConnect
          \/ pendingConnect' = [t \in DOMAIN pendingConnect \cup {op.id} |->
                                    IF t = op.id THEN op.user ELSE pendingConnect[t]]
      BY <2>3, <3>0 DEF HandleConnectFailed
    <3> QED BY <3>3, <3>4
  <2>4. CASE CallerStep
    BY <2>1, <2>4 DEF CallerStep, SetMaxPeers, Download, AnswerSearch, ExpireHeld, StopAll, loopVars
  <2>5. CASE WorldStep
    BY <2>1, <2>2, <2>5 DEF WorldStep, ServerSendsConnect, InboundDial, ServerResolves,
       ServerCannotBroker, PierceFirewall, InboundRegister, InboundNudge, loopVars
  <2>6. CASE LoopStep
    BY <2>1, <2>2, <2>3, <2>6 DEF LoopStep, HandleConnectToPeer, HandlePeerAddress,
       HandlePeerConnected, HandlePeerDisconnected, HandleCantConnect, SweepExpiredConnect
  <2>7. CASE ActorStep
    BY <2>1, <2>7 DEF ActorStep, DialFails, Establish, ReadStop, ReadConnecting, ReadConnected,
       ReadDisconnected, HangUp, ReadError, SelfStop, Rest
  <2> QED BY <2>1, <2>4, <2>5, <2>6, <2>7 DEF PeerNext, peerVars, loopVars
<1>2. Kept
  BY EveryMove
<1> QED BY <1>1, <1>2 DEF TokenInv, Kept

Rested == /\ capacity \in Nat \ {0}
          /\ answered \subseteq Peers /\ held \subseteq Peers /\ hungUp \subseteq Peers
          /\ shutDown \in BOOLEAN

LEMMA DownloadStep ==
    ASSUME PeerInv, DownloadInv, [PeerNext]_peerVars PROVE DownloadInv'
<1> USE DEF DownloadInv
<1>1. CASE download' = download
  BY <1>1
<1>2. CASE \E w : download' = Fail(download, w) \/ download' = Ask(download, w)
  BY <1>2 DEF Fail, Ask
<1>3. CASE CallerStep
  BY <1>1, <1>3 DEF CallerStep, SetMaxPeers, Download, AnswerSearch, ExpireHeld, StopAll, workVars
<1>4. CASE WorldStep
  BY <1>1, <1>2, <1>4 DEF WorldStep, ServerSendsConnect, InboundDial, ServerResolves,
     ServerCannotBroker, PierceFirewall, InboundRegister, InboundNudge, workVars
<1>5. CASE LoopStep
  BY <1>1, <1>2, <1>5 DEF LoopStep, HandleConnectToPeer, HandlePeerAddress, DialOut,
     HandlePeerConnected, HandlePeerDisconnected, HandleConnectFailed, HandleCantConnect,
     SweepExpiredConnect
<1>6. CASE ActorStep
  BY <1>1, <1>2, <1>6 DEF ActorStep, DialFails, Establish, ReadStop, ReadConnecting,
     ReadConnected, ReadDisconnected, HangUp, ReadError, SelfStop
<1> QED BY <1>1, <1>3, <1>4, <1>5, <1>6 DEF PeerNext, peerVars, workVars

LEMMA RestedStep == ASSUME PeerInv, Rested, [PeerNext]_peerVars PROVE Rested'
<1> USE DEF PeerInv, Rested
<1>1. /\ \A u \in scenario.searchers : u \in Peers
      /\ \A n \in scenario.capacities : AtLeastOne(n) \in Nat \ {0}
  BY PeerConstants DEF World, AtLeastOne
<1>2. \A i \in DOMAIN actors : actors[i].user \in Peers
  BY WorkerFields DEF Tables
<1>3. CASE CallerStep
  BY <1>1, <1>3 DEF CallerStep, SetMaxPeers, Download, HeldByTheDead, AnswerSearch, ExpireHeld,
     StopAll, workVars, actorVars, Registered, Tables
<1>4. CASE WorldStep
  BY <1>4 DEF WorldStep, ServerSendsConnect, InboundDial, ServerResolves,
     ServerCannotBroker, PierceFirewall, InboundRegister, InboundNudge, actorVars, workVars
<1>5. CASE LoopStep
  BY <1>5 DEF LoopStep, HandleConnectToPeer, HandlePeerAddress,
     HandlePeerConnected, HandlePeerDisconnected, HandleConnectFailed, HandleCantConnect,
     SweepExpiredConnect, actorVars
<1>6. CASE ActorStep
  BY <1>2, <1>6 DEF ActorStep, DialFails, Establish, ReadStop, ReadConnecting,
     ReadConnected, ReadDisconnected, HangUp, ReadError, SelfStop, Rest
<1> QED BY <1>3, <1>4, <1>5, <1>6 DEF PeerNext, peerVars, actorVars, workVars

Strung == PeerInv /\ StrandInv /\ Rested

LEMMA StrungHolds == PeerSpec => []Strung
<1>1. PeerInit => StrandInv /\ Rested
  <2> SUFFICES ASSUME PeerInit PROVE StrandInv /\ Rested
    OBVIOUS
  <2>1. registry = <<>> /\ pendingConnect = <<>> /\ download = [u \in Peers |-> "none"]
    BY DEF PeerInit
  <2>2. Standing /\ TokenInv /\ DownloadInv /\ WayInv
    BY <2>1 DEF Standing, TokenInv, DownloadInv, WayInv, Wants
  <2>3. Rested
    <3>1. scenario.capacities \subseteq Nat
      BY PeerConstants DEF PeerInit
    <3>2. \A n \in scenario.capacities : AtLeastOne(n) \in Nat \ {0}
      BY <3>1 DEF AtLeastOne
    <3> QED BY <3>2 DEF PeerInit, Rested
  <2> QED BY <2>2, <2>3 DEF StrandInv
<1>2. PeerInv /\ StrandInv /\ Rested /\ [PeerNext]_peerVars => StrandInv' /\ Rested'
  <2> SUFFICES ASSUME PeerInv, StrandInv, Rested, [PeerNext]_peerVars PROVE StrandInv' /\ Rested'
    OBVIOUS
  <2>1. TokenInv' /\ DownloadInv' /\ Rested'
    BY TokenStep, DownloadStep, RestedStep DEF StrandInv
  <2>2. CASE StopAll
    <3>1. shutDown' = TRUE /\ registry' = <<>>
      BY <2>2 DEF StopAll
    <3> QED BY <2>1, <3>1 DEF StrandInv, Standing, WayInv
  <2>3. CASE Goes
    <3>1. Standing'
      BY <2>3, StandingStep DEF StrandInv
    <3>2. shutDown => shutDown'
      BY DEF PeerNext, CallerStep, SetMaxPeers, Download, AnswerSearch, ExpireHeld, StopAll,
         WorldStep, ServerSendsConnect, InboundDial, ServerResolves, ServerCannotBroker,
         PierceFirewall, InboundRegister, InboundNudge, LoopStep, HandleConnectToPeer,
         HandlePeerAddress, HandlePeerConnected, HandlePeerDisconnected, HandleConnectFailed,
         HandleCantConnect, SweepExpiredConnect, ActorStep, DialFails, Establish, ReadStop,
         ReadConnecting, ReadConnected, ReadDisconnected, HangUp, ReadError, SelfStop, Rest,
         actorVars, workVars, peerVars
    <3>3. WayInv'
      BY <2>3, <3>2 DEF StrandInv, WayInv, Goes, WayOf
    <3> QED BY <2>1, <3>1, <3>3 DEF StrandInv
  <2> QED BY <2>2, <2>3, StepGoes
<1> QED BY <1>1, <1>2, PeerInvHolds, PTL DEF PeerSpec, Strung

\* A download that waits was asked for, or something is under way that will ask
\* for it or fail it, whatever connections come, go and fail meanwhile, for any
\* number of users and connections, but for a peer that closed before it read the
\* request (peers.rs:44-51 and 100-103).
THEOREM NobodyIsStranded == PeerSpec => []NothingStranded
<1>1. Strung => NothingStranded
  <2> SUFFICES ASSUME Strung, ~shutDown, NEW u \in Peers, Wants(u) PROVE Way(u)
    BY DEF NothingStranded, Wants
  <2>1. IF Registered(u) THEN Tended(u) ELSE Sought(u)
    BY DEF Strung, StrandInv, WayInv
  <2>2. CASE Registered(u)
    <3>1. Tended(u) /\ actors[registry[u]].user = u
      BY <2>1, <2>2 DEF Strung, PeerInv, Tables, Registered
    <3>2. ASSUME Fails(operations, registry[u]) PROVE Way(u)
      <4>1. PICK k \in DOMAIN operations : IsError(operations[k]) /\ operations[k].id = registry[u]
        BY <3>2 DEF Fails
      <4>2. operations[k].user = u
        BY <3>1, <4>1 DEF Strung, PeerInv, ReportInv, IsReport, IsError
      <4> QED BY <4>1, <4>2 DEF Way, IsError
    <3>3. Mentions(operations, "PeerConnected", u) \/ Comes(arriving, u, TRUE) => Way(u)
      BY DEF Mentions, Comes, Way
    <3>4. \/ actors[registry[u]].conn = "connecting"
          \/ actors[registry[u]].conn = "connected" /\ Asking(actors[registry[u]])
          => Way(u)
      BY <2>2 DEF Asking, Way
    <3> QED BY <3>1, <3>2, <3>3, <3>4 DEF Tended
  <2>3. CASE ~Registered(u)
    <3>1. Sought(u)
      BY <2>1, <2>3
    <3> QED BY <3>1 DEF Sought, Token, Comes, Mentions, Way
  <2> QED BY <2>2, <2>3
<1> QED BY <1>1, StrungHolds, PTL

\* Every table of the peers keeps its type, and a name leads to an actor of the
\* user it names.
THEOREM ConnectionsTyped == PeerSpec => []PeerTypeOK
<1>1. Strung => PeerTypeOK
  <2> SUFFICES ASSUME Strung PROVE PeerTypeOK
    OBVIOUS
  <2>1. \A i \in DOMAIN actors : actors[i] \in Actor
    BY DEF Strung, PeerInv, Tables, Worker, Box, Actor
  <2>2. \A k \in DOMAIN operations : operations[k] \in Operation
    BY DEF Strung, PeerInv, World
  <2> QED BY <2>1, <2>2 DEF Strung, PeerInv, Tables, World, Rested, StrandInv, DownloadInv,
                            PeerTypeOK
<1> QED BY <1>1, StrungHolds, PTL
=============================================================================
