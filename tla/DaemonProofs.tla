---------------------------- MODULE DaemonProofs ----------------------------
(***************************************************************************)
(* Proofs about the daemon's connections.  To its control clients, for any *)
(* set of them and any size of the buffers: connections are counted right  *)
(* and capped, nobody is served without its events, and those come in      *)
(* order and without a gap.  To the server, for any number of faults and   *)
(* calls: a login counts as accepted only by the server's word on this     *)
(* very connection, a session that is over says so, who was displaced does *)
(* not take the account back, and after every loss the server has us in    *)
(* the room that the daemon lists.                                         *)
(***************************************************************************)
EXTENDS MCDaemon, FiniteSetTheorems, TLAPS

USE HubConstants

CountedNow == {c \in Clients : phase[c] \in Counted}
Served     == {c \in Clients : phase[c] \in Counted \ {"refusing"}}

HubShape ==
    /\ phase \in [Clients -> Counted \cup Finished \cup {"absent"}]
    /\ client \in [Clients -> {"absent", "here", "halfClosed", "gone"}]
    /\ socket \in [Clients -> {"open", "shut"}]
    /\ pump \in [Clients -> {"none", "running", "ended"}]
    /\ writer \in [Clients -> {"none", "running", "ended"}]
    /\ subscribers \subseteq Clients

\* What each action does to the phases and to the count.
Same    == open' = open /\ \A c \in Clients :
                (phase[c] \in Counted) = (phase'[c] \in Counted)
                    /\ (phase'[c] \in Counted \ {"refusing"} => phase[c] \in Counted \ {"refusing"})
Enrols(c) == /\ open' = open + 1
             /\ phase[c] = "absent"
             /\ phase' = [phase EXCEPT ![c] = IF open + 1 > MaxConnections
                                              THEN "refusing" ELSE "authenticating"]
Strikes(c) == /\ open' = open - 1
              /\ phase[c] \in Counted
              /\ \E p \in Finished : phase' = [phase EXCEPT ![c] = p]

CountInv ==
    /\ IsFiniteSet(CountedNow)
    /\ open = Cardinality(CountedNow)
    /\ Cardinality(Served) <= MaxConnections

-----------------------------------------------------------------------------
\* The shape of the state, which no step changes.
LEMMA ShapeStep == ASSUME HubShape, [HubNext]_hubVars PROVE HubShape'
<1> USE DEF HubShape
<1>1. CASE UNCHANGED hubVars
  BY <1>1 DEF hubVars
<1>2. CASE Publish
  BY <1>2 DEF Publish
<1>3. ASSUME NEW c \in Clients, ConnectionStep(c) PROVE HubShape'
  <2> USE DEF Enters, InPhase, Counted, Finished
  <2>1. CASE Accept(c) BY <2>1 DEF Accept
  <2>2. CASE Refuse(c) BY <2>2 DEF Refuse
  <2>3. CASE Authenticate(c) BY <2>3 DEF Authenticate
  <2>4. CASE Subscribe(c) BY <2>4 DEF Subscribe
  <2>5. CASE Pump(c) BY <2>5 DEF Pump
  <2>6. CASE Write(c) BY <2>6 DEF Write
  <2>7. CASE WriterDone(c) BY <2>7 DEF WriterDone
  <2>8. CASE Serve(c) BY <2>8 DEF Serve
  <2>9. CASE HangsUp(c) BY <2>9 DEF HangsUp
  <2>10. CASE Close(c) BY <2>10 DEF Close
  <2> QED BY <1>3, <2>1, <2>2, <2>3, <2>4, <2>5, <2>6, <2>7, <2>8, <2>9, <2>10
             DEF ConnectionStep
<1>4. ASSUME NEW c \in Clients, ClientStep(c) PROVE HubShape'
  BY <1>4 DEF ClientStep, ClientReads, ClientAsks, ClientCloses
<1> QED BY <1>1, <1>2, <1>3, <1>4 DEF HubNext

\* A step counts one connection in, counts one out, or leaves the count alone.
LEMMA Counting ==
    ASSUME HubShape, [HubNext]_hubVars
    PROVE  Same \/ \E c \in Clients : Enrols(c) \/ Strikes(c)
<1> USE DEF HubShape
<1>1. CASE UNCHANGED hubVars
  BY <1>1 DEF hubVars, Same
<1>2. CASE Publish
  BY <1>2 DEF Publish, Same
<1>3. ASSUME NEW c \in Clients, ConnectionStep(c) PROVE Same \/ Enrols(c) \/ Strikes(c)
  <2> USE DEF Enters, InPhase, Counted, Finished
  <2>1. CASE Accept(c) BY <2>1 DEF Accept, Enrols
  <2>2. CASE Refuse(c) BY <2>2 DEF Refuse, Strikes
  <2>3. CASE Authenticate(c) BY <2>3 DEF Authenticate, Same
  <2>4. CASE Subscribe(c) BY <2>4 DEF Subscribe, Same
  <2>5. CASE Pump(c) BY <2>5 DEF Pump, Same
  <2>6. CASE Write(c) BY <2>6 DEF Write, Same
  <2>7. CASE WriterDone(c) BY <2>7 DEF WriterDone, Same
  <2>8. CASE Serve(c) BY <2>8 DEF Serve, Same
  <2>9. CASE HangsUp(c) BY <2>9 DEF HangsUp, Same
  <2>10. CASE Close(c) BY <2>10 DEF Close, Strikes
  <2> QED BY <1>3, <2>1, <2>2, <2>3, <2>4, <2>5, <2>6, <2>7, <2>8, <2>9, <2>10
             DEF ConnectionStep
<1>4. ASSUME NEW c \in Clients, ClientStep(c) PROVE Same
  BY <1>4 DEF ClientStep, ClientReads, ClientAsks, ClientCloses, Same
<1> QED BY <1>1, <1>2, <1>3, <1>4 DEF HubNext

\* Counting one in keeps the cap: whoever comes on top of it is refused.
LEMMA EnrolKeeps ==
    ASSUME HubShape, CountInv, NEW c \in Clients, Enrols(c) PROVE CountInv'
<1>1. c \notin CountedNow
  BY DEF Enrols, CountedNow, Counted
<1>2. CountedNow' = CountedNow \cup {c}
  BY DEF Enrols, CountedNow, Counted, HubShape
<1>3. IsFiniteSet(CountedNow') /\ Cardinality(CountedNow') = Cardinality(CountedNow) + 1
  BY <1>1, <1>2, FS_AddElement DEF CountInv
<1>4. Cardinality(CountedNow) \in Nat
  BY FS_CardinalityType DEF CountInv
<1>5. Cardinality(Served') <= MaxConnections
  <2>1. CASE open + 1 > MaxConnections
    <3>1. Served' = Served
      BY <2>1 DEF Enrols, Served, Counted, HubShape
    <3> QED BY <3>1 DEF CountInv
  <2>2. CASE ~(open + 1 > MaxConnections)
    <3>1. Served' \subseteq CountedNow'
      BY DEF Served, CountedNow
    <3>2. Cardinality(Served') <= Cardinality(CountedNow')
      BY <1>3, <3>1, FS_Subset
    <3>3. Cardinality(Served') \in Nat
      BY <1>3, <3>1, FS_Subset, FS_CardinalityType
    <3> QED BY <1>3, <1>4, <2>2, <3>2, <3>3 DEF CountInv
  <2> QED BY <2>1, <2>2
<1> QED BY <1>3, <1>4, <1>5 DEF CountInv, Enrols

\* Counting one out takes one from the count, and never below zero.
LEMMA StrikeKeeps ==
    ASSUME HubShape, CountInv, NEW c \in Clients, Strikes(c) PROVE CountInv'
<1>1. c \in CountedNow
  BY DEF Strikes, CountedNow
<1>2. CountedNow' = CountedNow \ {c}
  BY DEF Strikes, CountedNow, Counted, Finished, HubShape
<1>3. IsFiniteSet(CountedNow') /\ Cardinality(CountedNow') = Cardinality(CountedNow) - 1
  BY <1>1, <1>2, FS_RemoveElement DEF CountInv
<1>4. Served \subseteq CountedNow /\ Served' \subseteq Served
  BY DEF Strikes, Served, CountedNow, Counted, Finished, HubShape
<1>5. IsFiniteSet(Served) /\ Cardinality(Served') <= Cardinality(Served)
  BY <1>4, FS_Subset DEF CountInv
<1>6. Cardinality(Served) \in Nat /\ Cardinality(Served') \in Nat
  BY <1>4, <1>5, FS_Subset, FS_CardinalityType
<1> QED BY <1>3, <1>5, <1>6 DEF CountInv, Strikes

LEMMA SameKeeps == ASSUME CountInv, Same PROVE CountInv'
<1>1. CountedNow' = CountedNow
  BY DEF Same, CountedNow
<1>2. Served \subseteq CountedNow /\ Served' \subseteq Served
  BY DEF Same, Served, CountedNow
<1>3. IsFiniteSet(Served) /\ Cardinality(Served') <= Cardinality(Served)
  BY <1>2, FS_Subset DEF CountInv
<1>4. Cardinality(Served) \in Nat /\ Cardinality(Served') \in Nat
  BY <1>2, <1>3, FS_Subset, FS_CardinalityType
<1> QED BY <1>1, <1>3, <1>4 DEF CountInv, Same

LEMMA CountStarts == ASSUME HubInit PROVE HubShape /\ CountInv
<1>1. CountedNow = {} /\ Served = {}
  BY DEF HubInit, CountedNow, Served, Counted
<1>2. IsFiniteSet({}) /\ Cardinality({}) = 0
  BY FS_EmptySet
<1>3. CountInv
  BY <1>1, <1>2 DEF CountInv, HubInit
<1>4. HubShape
  BY DEF HubInit, HubShape, Counted, Finished
<1> QED BY <1>3, <1>4

LEMMA CountStep == ASSUME HubShape, CountInv, [HubNext]_hubVars PROVE CountInv'
BY Counting, EnrolKeeps, StrikeKeeps, SameKeeps

\* Connections are counted right and no more are served than the cap
\* (transport.rs:161-203), whatever the order in which they come and go.
THEOREM SlotsAreCounted == HubSpec => []SlotsCounted
<1>1. HubInit => HubShape /\ CountInv
  BY CountStarts
<1>2. HubShape /\ CountInv /\ [HubNext]_hubVars => HubShape' /\ CountInv'
  BY ShapeStep, CountStep
<1>3. CountInv => SlotsCounted
  BY DEF CountInv, SlotsCounted, CountedNow, Served
<1> QED BY <1>1, <1>2, <1>3, PTL DEF HubSpec
-----------------------------------------------------------------------------
\* A writer ends early only when there is nobody to write to.
WriterInv ==
    \A c \in Clients :
        /\ phase[c] = "absent" => writer[c] = "none"
        /\ writer[c] = "ended" =>
              socket[c] = "shut" \/ client[c] = "gone" \/ phase[c] \in {"leaving", "closed"}

BlindInv == HubShape /\ WriterInv /\ NoBlindClient

LEMMA WriterStep == ASSUME BlindInv, [HubNext]_hubVars PROVE WriterInv'
<1> USE DEF BlindInv, HubShape, WriterInv
<1>1. CASE UNCHANGED hubVars
  BY <1>1 DEF hubVars
<1>2. CASE Publish
  BY <1>2 DEF Publish
<1>3. ASSUME NEW c \in Clients, ConnectionStep(c) PROVE WriterInv'
  <2> USE DEF Enters, InPhase
  <2>1. CASE Accept(c) BY <2>1 DEF Accept
  <2>2. CASE Refuse(c) BY <2>2 DEF Refuse
  <2>3. CASE Authenticate(c) BY <2>3 DEF Authenticate
  <2>4. CASE Subscribe(c) BY <2>4 DEF Subscribe
  <2>5. CASE Pump(c) BY <2>5 DEF Pump
  <2>6. CASE Write(c) BY <2>6 DEF Write
  <2>7. CASE WriterDone(c) BY <2>7 DEF WriterDone
  <2>8. CASE Serve(c) BY <2>8 DEF Serve
  <2>9. CASE HangsUp(c) BY <2>9 DEF HangsUp
  <2>10. CASE Close(c) BY <2>10 DEF Close
  <2> QED BY <1>3, <2>1, <2>2, <2>3, <2>4, <2>5, <2>6, <2>7, <2>8, <2>9, <2>10
             DEF ConnectionStep
<1>4. ASSUME NEW c \in Clients, ClientStep(c) PROVE WriterInv'
  BY <1>4 DEF ClientStep, ClientReads, ClientAsks, ClientCloses
<1> QED BY <1>1, <1>2, <1>3, <1>4 DEF HubNext

LEMMA BlindStep == ASSUME BlindInv, [HubNext]_hubVars PROVE NoBlindClient'
<1> USE DEF BlindInv, HubShape, NoBlindClient
<1>1. CASE UNCHANGED hubVars
  BY <1>1 DEF hubVars
\* Whoever is dropped for a full queue has its socket shut; one with no pump
\* was blind already.
<1>2. CASE Publish
  BY <1>2 DEF Publish, Deaf, QueueFull
<1>3. ASSUME NEW c \in Clients, ConnectionStep(c) PROVE NoBlindClient'
  <2> USE DEF Enters, InPhase
  <2>1. CASE Accept(c) BY <2>1 DEF Accept
  <2>2. CASE Refuse(c) BY <2>2 DEF Refuse
  <2>3. CASE Authenticate(c) BY <2>3 DEF Authenticate
  <2>4. CASE Subscribe(c) BY <2>4 DEF Subscribe
  <2>5. CASE Pump(c)
    BY <2>5 DEF Pump, WriterInv
  <2>6. CASE Write(c) BY <2>6 DEF Write
  <2>7. CASE WriterDone(c) BY <2>7 DEF WriterDone
  <2>8. CASE Serve(c) BY <2>8 DEF Serve
  <2>9. CASE HangsUp(c) BY <2>9 DEF HangsUp
  <2>10. CASE Close(c) BY <2>10 DEF Close
  <2> QED BY <1>3, <2>1, <2>2, <2>3, <2>4, <2>5, <2>6, <2>7, <2>8, <2>9, <2>10
             DEF ConnectionStep
<1>4. ASSUME NEW c \in Clients, ClientStep(c) PROVE NoBlindClient'
  BY <1>4 DEF ClientStep, ClientReads, ClientAsks, ClientCloses
<1> QED BY <1>1, <1>2, <1>3, <1>4 DEF HubNext

\* Whoever is served over an open socket is subscribed and has its pump
\* (hub.rs:117-121): a client that fell behind is cut off, never left blind.
THEOREM NobodyIsBlind == HubSpec => []NoBlindClient
<1>1. HubInit => BlindInv
  BY DEF HubInit, BlindInv, HubShape, WriterInv, NoBlindClient, Counted, Finished
<1>2. BlindInv /\ [HubNext]_hubVars => BlindInv'
  BY ShapeStep, WriterStep, BlindStep DEF BlindInv
<1>3. BlindInv => NoBlindClient
  BY DEF BlindInv
<1> QED BY <1>1, <1>2, <1>3, PTL DEF HubSpec
-----------------------------------------------------------------------------
(* The session with the server. *)

Mail  == Seq(Requests)
Words == Seq(Verdicts \cup {"relogged"})
Wire  == [up : BOOLEAN, sent : Mail, answers : Words, accepted : BOOLEAN, inRoom : BOOLEAN]

SessionShape ==
    /\ conn \in {"connecting", "connected", "disconnected"}
    /\ wire \in Wire
    /\ queued \in Seq(Said) /\ dispatched \in Seq(Said) /\ batch \in Seq(Said)

\* An accepted login is among the messages.
Grants(s) == \E k \in DOMAIN s : s[k] = "accepted"

\* Where an accepted login can be found, the server has said so on this
\* connection, or it is what an earlier connection's batch left over.
VerdictInv ==
    /\ conn = "connecting" => loggedIn = "none"
    /\ Grants(wire.answers) => wire.accepted
    /\ conn = "connected" /\ Grants(batch) => wire.accepted \/ "leftover" \in excuses
    /\ Grants(queued) => "leftover" \in excuses
    /\ ~Grants(dispatched)

SessionInv == SessionShape /\ VerdictInv /\ VerdictIsTheServers

\* What the operations on sequences do to an accepted login among them.
LEMMA GrantsAppend ==
    ASSUME NEW S, NEW s \in Seq(S), NEW e \in S
    PROVE  Grants(Append(s, e)) => Grants(s) \/ e = "accepted"
BY DEF Grants

LEMMA GrantsTail ==
    ASSUME NEW S, NEW s \in Seq(S), s # <<>>
    PROVE  /\ Grants(Tail(s)) => Grants(s)
           /\ Head(s) = "accepted" => Grants(s)
BY DEF Grants

LEMMA GrantsConcat ==
    ASSUME NEW S, NEW s \in Seq(S), NEW t \in Seq(S)
    PROVE  Grants(s \o t) => Grants(s) \/ Grants(t)
BY DEF Grants

LEMMA GrantsNothing == ~Grants(<<>>)
BY DEF Grants

LEMMA WireTypes ==
    ASSUME NEW w \in Wire
    PROVE  w.sent \in Mail /\ w.answers \in Words /\ w.accepted \in BOOLEAN
BY DEF Wire

\* A connection v that differs from w in what the proofs do not speak of.
Like(v, w) == v \in Wire /\ v.answers = w.answers /\ v.accepted = w.accepted

LEMMA SentLike ==
    ASSUME NEW w \in Wire, NEW s \in Mail PROVE Like([w EXCEPT !.sent = s], w)
BY DEF Wire, Like

LEMMA DownLike ==
    ASSUME NEW w \in Wire, NEW s \in Mail
    PROVE  Like([w EXCEPT !.up = FALSE, !.sent = s], w)
BY DEF Wire, Like

LEMMA UpLike == ASSUME NEW w \in Wire PROVE Like([w EXCEPT !.up = TRUE], w)
BY DEF Wire, Like

LEMMA RoomLike ==
    ASSUME NEW w \in Wire, NEW b \in BOOLEAN PROVE Like([w EXCEPT !.inRoom = b], w)
BY DEF Wire, Like

LEMMA WithAnswers ==
    ASSUME NEW w \in Wire, NEW a \in Words
    PROVE  /\ [w EXCEPT !.answers = a] \in Wire
           /\ [w EXCEPT !.answers = a].answers = a
           /\ [w EXCEPT !.answers = a].accepted = w.accepted
BY DEF Wire

LEMMA WithAcceptance ==
    ASSUME NEW w \in Wire, NEW a \in Words
    PROVE  /\ [w EXCEPT !.answers = a, !.accepted = TRUE] \in Wire
           /\ [w EXCEPT !.answers = a, !.accepted = TRUE].accepted
BY DEF Wire

LEMMA Emptied == NoWire \in Wire /\ NoWire.answers = <<>> /\ <<>> \in Mail /\ <<>> \in Words
<1>1. <<>> \in Mail /\ <<>> \in Words
  BY DEF Mail, Words
<1> QED BY <1>1 DEF NoWire, Wire

\* The end of a connection takes with it all that was read of it or kept for it.
LEMMA EndOfConnection ==
    ASSUME SessionInv, conn' = "disconnected", wire' = NoWire, queued' = <<>>,
           dispatched' = <<>>, batch' \in Seq(Said)
    PROVE  SessionInv'
<1>2. SessionShape'
  BY Emptied DEF SessionShape
<1>3. VerdictInv' /\ VerdictIsTheServers'
  BY Emptied, GrantsNothing DEF VerdictInv, VerdictIsTheServers
<1> QED BY <1>2, <1>3 DEF SessionInv

\* A write leaves the answers alone, or it is the end of the connection.
LEMMA WriteKeeps ==
    ASSUME SessionInv, NEW m \in Requests, Writes(m), batch' \in Seq(Said),
           Grants(batch') => Grants(batch), UNCHANGED excuses
    PROVE  SessionInv'
<1>1. CASE /\ wire' = IF wire.up THEN [wire EXCEPT !.sent = Append(@, m)] ELSE wire
           /\ UNCHANGED <<conn, queued, dispatched, loggedIn, loss>>
  <2>1. wire \in Wire
    BY DEF SessionInv, SessionShape
  <2>2. wire.sent \in Mail
    BY <2>1, WireTypes
  <2>3. Append(wire.sent, m) \in Mail
    BY <2>2 DEF Mail
  <2>4. Like(wire', wire)
    BY <1>1, <2>1, <2>3, SentLike DEF Like
  <2> QED BY <1>1, <2>4 DEF Like, SessionInv, SessionShape, VerdictInv, VerdictIsTheServers
<1>2. CASE ~wire.up /\ Drops
  BY <1>2, EndOfConnection DEF Drops, Disconnects
<1> QED BY <1>1, <1>2 DEF Writes

LEMMA LoginKeeps == ASSUME SessionInv, HandleLogin PROVE SessionInv'
<1> USE DEF SessionInv, SessionShape
<1>1. loggedIn' = "none" /\ batch' = batch /\ excuses' = excuses /\ batch = <<>>
  BY DEF HandleLogin, Free
<1>2. Like(wire', wire)
  BY UpLike DEF HandleLogin, Like
<1>3. \/ queued' = <<>> \/ queued' = queued \/ queued' = Append(queued, "login")
  BY DEF HandleLogin
<1>4. \/ dispatched' = dispatched \/ dispatched' = Append(dispatched, "login")
  BY DEF HandleLogin
<1>5. "login" \in Said /\ conn' \in {"connecting", "connected", "disconnected"}
  BY DEF HandleLogin, Said, Requests
<1>6. queued' \in Seq(Said) /\ dispatched' \in Seq(Said)
  <2>1. queued \in Seq(Said) /\ dispatched \in Seq(Said)
    OBVIOUS
  <2>2. <<>> \in Seq(Said) /\ Append(queued, "login") \in Seq(Said)
          /\ Append(dispatched, "login") \in Seq(Said)
    BY <1>5, <2>1
  <2>3. queued' \in Seq(Said)
    BY <1>3, <2>1, <2>2
  <2>4. dispatched' \in Seq(Said)
    BY <1>4, <2>1, <2>2
  <2> QED BY <2>3, <2>4
<1>7. (Grants(queued') => Grants(queued)) /\ (Grants(dispatched') => Grants(dispatched))
  BY <1>3, <1>4, <1>5, GrantsAppend, GrantsNothing
<1> QED BY <1>1, <1>2, <1>5, <1>6, <1>7, GrantsNothing
        DEF Like, VerdictInv, VerdictIsTheServers

LEMMA RequestKeeps == ASSUME SessionInv, HandleRequest PROVE SessionInv'
<1>1. Head(inbox) \in Requests /\ batch' = batch /\ excuses' = excuses
  BY DEF HandleRequest
<1>2. CASE conn = "connected"
  BY <1>1, <1>2, WriteKeeps DEF HandleRequest, SessionInv, SessionShape
<1>3. CASE conn # "connected"
  <2>1. queued' = Append(queued, Head(inbox))
          /\ UNCHANGED <<conn, wire, dispatched, loggedIn>>
    BY <1>3 DEF HandleRequest
  <2>2. Head(inbox) \in Said /\ Head(inbox) # "accepted"
    BY <1>1 DEF Said, Requests
  <2>3. queued' \in Seq(Said) /\ (Grants(queued') => Grants(queued))
    BY <2>1, <2>2, GrantsAppend DEF SessionInv, SessionShape
  <2> QED BY <1>1, <2>1, <2>3
          DEF SessionInv, SessionShape, VerdictInv, VerdictIsTheServers
<1> QED BY <1>2, <1>3

\* A new connection starts from what was queued and from no login.
LEMMA EstablishedKeeps == ASSUME SessionInv, Established PROVE SessionInv'
BY GrantsNothing
   DEF Established, SessionInv, SessionShape, VerdictInv, VerdictIsTheServers

LEMMA ReadKeeps == ASSUME SessionInv, ProcessRead PROVE SessionInv'
<1> USE DEF SessionInv, SessionShape
<1>1. wire \in Wire /\ wire.answers \in Seq(Said)
  <2>1. wire.answers \in Words
    BY WireTypes
  <2> QED BY <2>1 DEF Words, Said
<1>2. batch' = dispatched \o wire.answers /\ dispatched' = <<>>
        /\ wire' = [wire EXCEPT !.answers = <<>>]
        /\ UNCHANGED <<conn, queued, loggedIn, excuses>>
  BY DEF ProcessRead
<1>3. wire' \in Wire /\ wire'.answers = <<>> /\ wire'.accepted = wire.accepted
  BY <1>1, <1>2, WithAnswers, Emptied
<1>4. batch' \in Seq(Said) /\ (Grants(batch') => wire.accepted)
  BY <1>1, <1>2, GrantsConcat DEF VerdictInv
<1> QED BY <1>2, <1>3, <1>4, GrantsNothing DEF VerdictInv, VerdictIsTheServers

\* One message of the batch: what is left over for the next connection is
\* marked, an accepted login is one the server gave, anything else gives none.
LEMMA BatchKeeps == ASSUME SessionInv, HandleBatch PROVE SessionInv'
<1> DEFINE m == Head(batch)
<1>1. batch \in Seq(Said) /\ batch # <<>> /\ batch' = Tail(batch)
  BY DEF HandleBatch, SessionInv, SessionShape
<1>2. m \in Said /\ batch' \in Seq(Said)
        /\ (Grants(batch') => Grants(batch)) /\ (m = "accepted" => Grants(batch))
  BY <1>1, GrantsTail
<1>3. CASE /\ conn # "connected"
           /\ queued' = Append(queued, m)
           /\ Excuse("leftover", m \in Verdicts)
           /\ UNCHANGED <<conn, wire, dispatched, loggedIn, loss>>
  <2>1. queued' \in Seq(Said) /\ (Grants(queued') => Grants(queued) \/ m = "accepted")
    BY <1>2, <1>3, GrantsAppend DEF SessionInv, SessionShape
  <2>2. excuses \subseteq excuses' /\ (m = "accepted" => "leftover" \in excuses')
    BY <1>3 DEF Excuse, Verdicts
  <2> QED BY <1>2, <1>3, <2>1, <2>2
          DEF SessionInv, SessionShape, VerdictInv, VerdictIsTheServers
<1>4. CASE conn = "connected" /\ m \in Requests /\ Writes(m) /\ UNCHANGED excuses
  BY <1>2, <1>4, WriteKeeps
<1>5. CASE conn = "connected" /\ m = "accepted" /\ LoginAccepted
  <2>1. excuses \subseteq excuses'
    BY <1>5 DEF LoginAccepted
  <2>2. wire.accepted \/ "leftover" \in excuses
    BY <1>2, <1>5 DEF SessionInv, VerdictInv
  <2>3. CASE UNCHANGED <<conn, wire, queued, dispatched>>
    BY <1>2, <1>5, <2>1, <2>2, <2>3
       DEF SessionInv, SessionShape, VerdictInv, VerdictIsTheServers
  <2>4. CASE /\ conn' = "disconnected" /\ wire' = NoWire
             /\ queued' = <<>> /\ dispatched' = <<>>
    BY <1>2, <2>4, EndOfConnection
  <2> QED BY <1>5, <2>3, <2>4 DEF LoginAccepted
<1>6. CASE /\ conn = "connected" /\ m = "rejected"
           /\ loggedIn' = "no"
           /\ UNCHANGED <<conn, wire, queued, dispatched, loss, excuses>>
  BY <1>2, <1>6 DEF SessionInv, SessionShape, VerdictInv, VerdictIsTheServers
<1>7. CASE conn = "connected" /\ m = "relogged" /\ Disconnects("displaced") /\ UNCHANGED excuses
  BY <1>2, <1>7, EndOfConnection DEF Disconnects
<1> QED BY <1>3, <1>4, <1>5, <1>6, <1>7 DEF HandleBatch

\* The server answers a login only on the connection it was sent on.
LEMMA ServerKeeps ==
    ASSUME SessionInv, ServerReads \/ Relogged \/ ConnectionBreaks PROVE SessionInv'
<1> USE DEF SessionInv, SessionShape
<1>1. UNCHANGED <<conn, queued, dispatched, batch, loggedIn, excuses>>
  BY DEF ServerReads, Relogged, ConnectionBreaks
<1>2. wire' \in Wire /\ (wire.accepted => wire'.accepted)
        /\ (Grants(wire'.answers) => wire'.accepted)
  <2>1. CASE ServerReads
    <3> DEFINE m == Head(wire.sent)
               w == [wire EXCEPT !.sent = Tail(@)]
    <3>1. wire \in Wire /\ wire.sent \in Mail /\ wire.sent # <<>>
      BY <2>1, WireTypes DEF ServerReads
    <3>2. Tail(wire.sent) \in Mail
      BY <3>1 DEF Mail
    <3>3. Like(w, wire)
      BY <3>1, <3>2, SentLike
    <3>4. w.answers \in Words
      BY <3>3, WireTypes DEF Like
    <3>5. /\ Append(w.answers, "accepted") \in Words /\ Append(w.answers, "rejected") \in Words
          /\ Grants(Append(w.answers, "rejected")) => Grants(w.answers)
      BY <3>4, GrantsAppend DEF Words, Verdicts
    <3>6. CASE wire' = [w EXCEPT !.answers = Append(@, "accepted"), !.accepted = TRUE]
      BY <3>3, <3>5, <3>6, WithAcceptance DEF Like
    <3>7. CASE wire' = [w EXCEPT !.answers = Append(@, "rejected")]
      BY <3>3, <3>5, <3>7, WithAnswers DEF Like, VerdictInv
    <3>8. CASE wire' = w \/ wire' = [w EXCEPT !.inRoom = (m = "join")]
      BY <3>3, <3>8, RoomLike DEF Like, VerdictInv
    <3> QED BY <2>1, <3>6, <3>7, <3>8 DEF ServerReads
  \* Who is displaced is told behind all that was said before.
  <2>2. CASE Relogged
    <3> DEFINE w == [wire EXCEPT !.up = FALSE, !.sent = <<>>]
    <3>1. wire \in Wire
      OBVIOUS
    <3>2. Like(w, wire)
      BY <3>1, DownLike, Emptied
    <3>3. w.answers \in Words
      BY <3>2, WireTypes DEF Like
    <3>4. Append(w.answers, "relogged") \in Words
      BY <3>3 DEF Words
    <3>5. wire' = [w EXCEPT !.answers = Append(w.answers, "relogged")] /\ wire.accepted
      BY <2>2, <3>1, <3>2 DEF Relogged, Like, Wire
    <3> QED BY <3>2, <3>4, <3>5, WithAnswers DEF Like
  <2>3. CASE ConnectionBreaks
    <3>1. wire \in Wire
      OBVIOUS
    <3>2. Like(wire', wire)
      BY <2>3, <3>1, DownLike, Emptied DEF ConnectionBreaks
    <3> QED BY <3>2 DEF Like, VerdictInv
  <2> QED BY <2>1, <2>2, <2>3
<1> QED BY <1>1, <1>2 DEF VerdictInv, VerdictIsTheServers

\* The daemon's own steps touch no connection.
LEMMA DaemonKeeps ==
    ASSUME SessionInv, DaemonStep \/ \E kind \in {"join", "leave"} : RoomCall(kind)
    PROVE  SessionInv'
<1>1. UNCHANGED <<conn, wire, queued, dispatched, batch, loggedIn>> /\ excuses \subseteq excuses'
  BY DEF DaemonStep, WaiterSees, WaiterTimesOut, Decide, Relogin, LoginReturns, Rejoin,
         BackoffPasses, RoomListed, RoomCall, Excuse, serverActorVars
<1> QED BY <1>1 DEF SessionInv, SessionShape, VerdictInv, VerdictIsTheServers

LEMMA SessionStarts == ASSUME SessionInit PROVE SessionInv
<1>1. wire \in Wire /\ wire.answers = <<>> /\ wire.accepted
  <2>1. listed \in BOOLEAN
          /\ wire = [NoWire EXCEPT !.up = TRUE, !.accepted = TRUE, !.inRoom = listed]
    BY DEF SessionInit
  <2> QED BY <2>1, Emptied DEF Wire, NoWire
<1>2. SessionShape
  BY <1>1 DEF SessionInit, SessionShape
<1> QED BY <1>1, <1>2, GrantsNothing DEF SessionInit, SessionInv, VerdictInv, VerdictIsTheServers

LEMMA SessionStep == ASSUME SessionInv, [SessionNext]_sessionVars PROVE SessionInv'
<1>1. CASE UNCHANGED sessionVars
  BY <1>1 DEF sessionVars, serverActorVars, SessionInv, SessionShape, VerdictInv,
              VerdictIsTheServers
<1>2. CASE ReadFails \/ NotEstablished
  BY <1>2, EndOfConnection
     DEF ReadFails, NotEstablished, Drops, Disconnects, SessionInv, SessionShape
<1>3. CASE Asks
  <2>1. dispatched' = <<"ask">> /\ UNCHANGED <<conn, wire, queued, batch, loggedIn, excuses>>
    BY <1>3 DEF Asks
  <2>2. dispatched' \in Seq(Said) /\ ~Grants(dispatched')
    BY <2>1 DEF Said, Requests, Grants
  <2> QED BY <2>1, <2>2 DEF SessionInv, SessionShape, VerdictInv, VerdictIsTheServers
<1> QED BY <1>1, <1>2, <1>3, LoginKeeps, RequestKeeps, EstablishedKeeps, ReadKeeps,
           BatchKeeps, ServerKeeps, DaemonKeeps DEF SessionNext, SessionActorStep

\* A login counts as accepted only by the server's word on this connection
\* (handlers.rs), whatever was queued, retried or came late; the rest of a batch
\* whose connection was dropped under it is the one exception.
THEOREM VerdictsAreTheServers == SessionSpec => []VerdictIsTheServers
<1>1. SessionInit => SessionInv
  BY SessionStarts
<1>2. SessionInv /\ [SessionNext]_sessionVars => SessionInv'
  BY SessionStep
<1>3. SessionInv => VerdictIsTheServers
  BY DEF SessionInv
<1> QED BY <1>1, <1>2, <1>3, PTL DEF SessionSpec
-----------------------------------------------------------------------------
(* What else the session keeps, typed. *)

Post == Requests \cup {"relogin"}

DaemonShape ==
    /\ inbox \in Seq(Post)
    /\ loggedIn \in {"none", "yes", "no"} /\ loss \in {"live", "disconnected", "displaced"}
    /\ waiter \in {"none", "posted", "polling", "ok", "rejected", "timeout", "refused"}
    /\ loop \in {"watching", "relogin", "calling", "rejoining", "backoff"}
    /\ listed \in BOOLEAN /\ snapshot \in BOOLEAN
    /\ call \in {"none", "join", "leave"} /\ calls \in 0..MaxCalls /\ faults \in 0..MaxFaults
    /\ excuses \subseteq {"late", "muted", "leftover", "torn"}

\* A fault is counted, or there is none.
LEMMA FaultsBounded ==
    ASSUME faults \in 0..MaxFaults, Fault \/ NoFault PROVE faults' \in 0..MaxFaults
BY SessionConstants DEF Fault, NoFault

LEMMA MailTail ==
    ASSUME NEW S, NEW s \in Seq(S), s # <<>> PROVE Tail(s) \in Seq(S) /\ Head(s) \in S
OBVIOUS

LEMMA MailAppend ==
    ASSUME NEW S, NEW s \in Seq(S), NEW e \in S PROVE Append(s, e) \in Seq(S)
OBVIOUS

\* What the end of a connection does to the watch and to the verdict.
LEMMA EndTyped ==
    ASSUME DaemonShape, NEW how \in {"live", "disconnected", "displaced"}, Disconnects(how)
    PROVE  loggedIn' \in {"none", "yes", "no"} /\ loss' \in {"live", "disconnected", "displaced"}
BY DEF Disconnects, DaemonShape

LEMMA DropTyped ==
    ASSUME DaemonShape, Drops
    PROVE  loggedIn' \in {"none", "yes", "no"} /\ loss' \in {"live", "disconnected", "displaced"}
<1>1. loss \in {"live", "disconnected", "displaced"}
  BY DEF DaemonShape
<1> QED BY <1>1, EndTyped DEF Drops

LEMMA WriteTyped ==
    ASSUME DaemonShape, NEW m, Writes(m)
    PROVE  loggedIn' \in {"none", "yes", "no"} /\ loss' \in {"live", "disconnected", "displaced"}
BY DropTyped DEF Writes, DaemonShape

LEMMA DaemonShapeStep == ASSUME DaemonShape, [SessionNext]_sessionVars PROVE DaemonShape'
<1> USE DEF DaemonShape
<1>1. CASE UNCHANGED sessionVars
  BY <1>1 DEF sessionVars, serverActorVars, daemonVars
<1>2. CASE HandleLogin
  <2>1. inbox' \in Seq(Post)
    BY <1>2, MailTail DEF HandleLogin
  <2>2. faults' \in 0..MaxFaults
    BY <1>2, FaultsBounded DEF HandleLogin
  <2>3. waiter' \in {waiter, "refused", "polling"} /\ loggedIn' = "none"
    BY <1>2 DEF HandleLogin
  <2> QED BY <1>2, <2>1, <2>2, <2>3 DEF HandleLogin
<1>3. CASE HandleRequest
  <2>1. inbox' \in Seq(Post)
    BY <1>3, MailTail DEF HandleRequest
  <2>2. loggedIn' \in {"none", "yes", "no"} /\ loss' \in {"live", "disconnected", "displaced"}
    BY <1>3, WriteTyped DEF HandleRequest
  <2> QED BY <1>3, <2>1, <2>2 DEF HandleRequest, daemonVars
<1>4. CASE Established \/ ProcessRead \/ Asks
  <2>1. faults' \in 0..MaxFaults
    BY <1>4, FaultsBounded DEF Established, ProcessRead, Asks, NoFault
  <2> QED BY <1>4, <2>1 DEF Established, ProcessRead, Asks, daemonVars
<1>5. CASE ReadFails \/ NotEstablished
  <2>1. faults' \in 0..MaxFaults
    BY <1>5, FaultsBounded DEF ReadFails, NotEstablished, NoFault
  <2>2. loggedIn' \in {"none", "yes", "no"} /\ loss' \in {"live", "disconnected", "displaced"}
    BY <1>5, DropTyped DEF ReadFails, NotEstablished
  <2> QED BY <1>5, <2>1, <2>2 DEF ReadFails, NotEstablished, daemonVars
<1>6. CASE HandleBatch
  <2>1. loggedIn' \in {"none", "yes", "no"} /\ loss' \in {"live", "disconnected", "displaced"}
    BY <1>6, WriteTyped, EndTyped DEF HandleBatch, LoginAccepted
  <2>2. excuses' \subseteq {"late", "muted", "leftover", "torn"}
    BY <1>6 DEF HandleBatch, LoginAccepted, Excuse
  <2> QED BY <1>6, <2>1, <2>2 DEF HandleBatch, daemonVars
<1>7. CASE ServerReads \/ Relogged \/ ConnectionBreaks
  <2>1. faults' \in 0..MaxFaults
    BY <1>7, FaultsBounded DEF ServerReads, Relogged, ConnectionBreaks
  <2>2. UNCHANGED <<inbox, loggedIn, loss, daemonVars, excuses>>
    BY <1>7 DEF ServerReads, Relogged, ConnectionBreaks
  <2> QED BY <2>1, <2>2 DEF daemonVars
<1>8. CASE DaemonStep
  <2>1. faults' \in 0..MaxFaults
    BY <1>8, FaultsBounded DEF DaemonStep, WaiterSees, WaiterTimesOut, Decide, Relogin,
       LoginReturns, Rejoin, BackoffPasses, RoomListed, NoFault
  <2>2. inbox' \in Seq(Post)
    <3>1. inbox' \in {inbox, Append(inbox, "relogin"), Append(inbox, "join")}
      BY <1>8 DEF DaemonStep, WaiterSees, WaiterTimesOut, Decide, Relogin, LoginReturns,
                  Rejoin, BackoffPasses, RoomListed, serverActorVars
    <3>2. "join" \in Post /\ "relogin" \in Post
      BY DEF Post, Requests
    <3>3. Append(inbox, "relogin") \in Seq(Post) /\ Append(inbox, "join") \in Seq(Post)
      BY <3>2, MailAppend
    <3> QED BY <3>1, <3>3
  <2> QED BY <1>8, <2>1, <2>2 DEF DaemonStep, WaiterSees, WaiterTimesOut, Decide, Relogin,
             LoginReturns, Rejoin, BackoffPasses, RoomListed, serverActorVars, Excuse
<1>9. ASSUME NEW kind \in {"join", "leave"}, RoomCall(kind) PROVE DaemonShape'
  <2>1. inbox' \in Seq(Post)
    BY <1>9, MailAppend DEF RoomCall, Post, Requests
  <2>2. calls' \in 0..MaxCalls
    BY <1>9, SessionConstants DEF RoomCall
  <2> QED BY <1>9, <2>1, <2>2 DEF RoomCall, Excuse
<1> QED BY <1>1, <1>2, <1>3, <1>4, <1>5, <1>6, <1>7, <1>8, <1>9 DEF SessionNext, SessionActorStep

LEMMA DaemonStarts == ASSUME SessionInit PROVE DaemonShape
<1>1. 0 \in 0..MaxCalls /\ 0 \in 0..MaxFaults
  BY SessionConstants
<1>2. <<>> \in Seq(Post)
  OBVIOUS
<1> QED BY <1>1, <1>2 DEF SessionInit, DaemonShape
-----------------------------------------------------------------------------
\* A session that is over says so, from the moment its connection ends.
LossInv == conn # "connected" => loss # "live" \/ "muted" \in excuses

LEMMA EndSeen ==
    ASSUME LossInv, NEW how, Disconnects(how), conn = "connected" => how # "live",
           excuses \subseteq excuses'
    PROVE  LossInv'
BY DEF LossInv, Disconnects

LEMMA DropSeen == ASSUME LossInv, Drops, excuses \subseteq excuses' PROVE LossInv'
BY DEF LossInv, Drops, Disconnects

LEMMA WriteSeen ==
    ASSUME LossInv, NEW m, Writes(m), excuses \subseteq excuses' PROVE LossInv'
BY DropSeen DEF LossInv, Writes

LEMMA LossStep == ASSUME LossInv, [SessionNext]_sessionVars PROVE LossInv'
<1>1. CASE UNCHANGED sessionVars
  BY <1>1 DEF sessionVars, serverActorVars, LossInv
<1>2. CASE HandleLogin \/ Established \/ ProcessRead
  BY <1>2 DEF HandleLogin, Established, ProcessRead, LossInv
<1>3. CASE HandleRequest
  BY <1>3, WriteSeen DEF HandleRequest, LossInv
<1>4. CASE ReadFails \/ NotEstablished
  BY <1>4, DropSeen DEF ReadFails, NotEstablished
<1>5. CASE HandleBatch
  <2> DEFINE m == Head(batch)
  <2>1. excuses \subseteq excuses'
    BY <1>5 DEF HandleBatch, LoginAccepted, Excuse
  <2>2. CASE UNCHANGED <<conn, loss>>
    BY <2>1, <2>2 DEF LossInv
  <2>3. CASE Writes(m)
    BY <2>1, <2>3, WriteSeen
  <2>4. CASE conn = "connected" /\ LoginAccepted
    BY <2>4 DEF LoginAccepted, LossInv
  <2>5. CASE Disconnects("displaced")
    BY <2>1, <2>5, EndSeen
  <2> QED BY <1>5, <2>2, <2>3, <2>4, <2>5 DEF HandleBatch
<1>6. CASE ServerReads \/ Relogged \/ ConnectionBreaks \/ Asks
  BY <1>6 DEF ServerReads, Relogged, ConnectionBreaks, Asks, LossInv
<1>7. CASE DaemonStep \/ \E kind \in {"join", "leave"} : RoomCall(kind)
  <2>1. UNCHANGED <<conn, loss>> /\ excuses \subseteq excuses'
    BY <1>7 DEF DaemonStep, WaiterSees, WaiterTimesOut, Decide, Relogin, LoginReturns, Rejoin,
       BackoffPasses, RoomListed, RoomCall, Excuse, serverActorVars
  <2> QED BY <2>1 DEF LossInv
<1> QED BY <1>1, <1>2, <1>3, <1>4, <1>5, <1>6, <1>7 DEF SessionNext, SessionActorStep

\* A session that is over says so (client/mod.rs:720-723): who asks the watch is
\* never told that a session lives which ended, but for one whose loss fell into
\* the writes after an accepted login and was cleared with the old one.
THEOREM LossesAreSeen == SessionSpec => []LossIsSeen
<1>1. SessionInit => LossInv
  BY DEF SessionInit, LossInv
<1>2. LossInv /\ [SessionNext]_sessionVars => LossInv'
  BY LossStep
<1>3. LossInv => LossIsSeen
  BY DEF LossInv, LossIsSeen
<1> QED BY <1>1, <1>2, <1>3, PTL DEF SessionSpec
-----------------------------------------------------------------------------
(* No login is repeated after the one that succeeded. *)

Relogs(s) == \E k \in DOMAIN s : s[k] = "relogin"

\* A repeated login is on its way only while the session is lost, unless one that
\* was given up came late, and nobody polls while another login is to come.
RetryInv ==
    /\ "late" \notin excuses /\ loss # "disconnected" => ~Relogs(inbox) /\ loop # "relogin"
    /\ waiter = "polling" => ~Relogs(inbox)
    /\ waiter \in {"posted", "polling"} => loop = "calling"
    /\ loss = "displaced" /\ "late" \notin excuses => conn = "disconnected"

LEMMA RelogsAppend ==
    ASSUME NEW S, NEW s \in Seq(S), NEW e \in S
    PROVE  Relogs(Append(s, e)) => Relogs(s) \/ e = "relogin"
BY DEF Relogs

LEMMA RelogsTail ==
    ASSUME NEW S, NEW s \in Seq(S), s # <<>>
    PROVE  /\ Relogs(Tail(s)) => Relogs(s)
           /\ Head(s) = "relogin" => Relogs(s)
           /\ Relogs(Tail(s)) => \E k \in 2..Len(s) : s[k] = "relogin"
<1>1. ASSUME NEW k \in DOMAIN Tail(s), Tail(s)[k] = "relogin"
      PROVE  k + 1 \in 2..Len(s) /\ s[k + 1] = "relogin"
  BY <1>1
<1>2. 2..Len(s) \subseteq DOMAIN s
  OBVIOUS
<1> QED BY <1>1, <1>2 DEF Relogs

\* Whatever the connection does, a loss that was another login's stays one, and a
\* loss ends only by an accepted login.
LEMMA EndRetry ==
    ASSUME RetryInv, LossInv, NEW how, Disconnects(how),
           UNCHANGED <<loop, waiter, excuses>>, Relogs(inbox') => Relogs(inbox)
    PROVE  RetryInv'
BY DEF RetryInv, Disconnects

LEMMA DropRetry ==
    ASSUME RetryInv, LossInv, Drops,
           UNCHANGED <<loop, waiter, excuses>>, Relogs(inbox') => Relogs(inbox)
    PROVE  RetryInv'
BY EndRetry DEF Drops

LEMMA WriteRetry ==
    ASSUME RetryInv, LossInv, NEW m, Writes(m),
           UNCHANGED <<loop, waiter, excuses>>, Relogs(inbox') => Relogs(inbox)
    PROVE  RetryInv'
BY DropRetry DEF Writes, RetryInv

LEMMA LoginRetry == ASSUME RetryInv, DaemonShape, HandleLogin PROVE RetryInv'
<1>1. inbox \in Seq(Post) /\ inbox # <<>> /\ inbox' = Tail(inbox) /\ Relogs(inbox)
  BY RelogsTail DEF HandleLogin, DaemonShape
<1>2. Relogs(inbox') => ~Awaited
  BY <1>1, RelogsTail DEF Awaited
<1>3. waiter' = waiter \/ (Awaited /\ waiter' \in {"refused", "polling"})
  BY DEF HandleLogin
<1>4. Awaited => waiter = "posted"
  BY DEF Awaited
<1> QED BY <1>1, <1>2, <1>3, <1>4 DEF HandleLogin, RetryInv

LEMMA RequestRetry ==
    ASSUME RetryInv, LossInv, DaemonShape, HandleRequest PROVE RetryInv'
<1>1. Relogs(inbox') => Relogs(inbox)
  BY RelogsTail DEF HandleRequest, DaemonShape
<1> QED BY <1>1, WriteRetry DEF HandleRequest, RetryInv, daemonVars

LEMMA BatchRetry == ASSUME RetryInv, LossInv, HandleBatch PROVE RetryInv'
<1> DEFINE m == Head(batch)
<1>1. UNCHANGED <<inbox, loop, waiter>>
  BY DEF HandleBatch, daemonVars
<1>2. CASE UNCHANGED <<conn, loss>> /\ excuses \subseteq excuses'
  BY <1>1, <1>2 DEF RetryInv
<1>3. CASE Writes(m) /\ UNCHANGED excuses
  BY <1>1, <1>3, WriteRetry
<1>4. CASE LoginAccepted
  BY <1>1, <1>4 DEF LoginAccepted, RetryInv
<1>5. CASE Disconnects("displaced") /\ UNCHANGED excuses
  BY <1>1, <1>5, EndRetry
<1> QED BY <1>2, <1>3, <1>4, <1>5 DEF HandleBatch, Excuse

LEMMA DaemonRetry ==
    ASSUME RetryInv, DaemonShape,
           DaemonStep \/ \E kind \in {"join", "leave"} : RoomCall(kind)
    PROVE  RetryInv'
<1>1. inbox \in Seq(Post) /\ {"join", "leave", "relogin"} \subseteq Post
  BY DEF DaemonShape, Post, Requests
<1>2. CASE WaiterSees \/ WaiterTimesOut \/ LoginReturns \/ BackoffPasses \/ RoomListed \/ Decide
  BY <1>2 DEF WaiterSees, WaiterTimesOut, LoginReturns, BackoffPasses, RoomListed, Decide,
              RetryInv, serverActorVars, Excuse
<1>3. CASE Relogin
  BY <1>3 DEF Relogin, RetryInv
<1>4. CASE Rejoin \/ \E kind \in {"join", "leave"} : RoomCall(kind)
  <2>1. inbox' \in {inbox, Append(inbox, "join"), Append(inbox, "leave")}
    BY <1>4 DEF Rejoin, RoomCall
  <2>2. /\ Relogs(Append(inbox, "join")) => Relogs(inbox)
        /\ Relogs(Append(inbox, "leave")) => Relogs(inbox)
    BY <1>1, RelogsAppend
  <2>3. Relogs(inbox') => Relogs(inbox)
    BY <2>1, <2>2
  <2> QED BY <1>4, <2>3 DEF Rejoin, RoomCall, RetryInv, Excuse
<1> QED BY <1>2, <1>3, <1>4 DEF DaemonStep

LEMMA RetryStep ==
    ASSUME RetryInv, LossInv, DaemonShape, [SessionNext]_sessionVars PROVE RetryInv'
<1>1. CASE UNCHANGED sessionVars
  BY <1>1 DEF sessionVars, serverActorVars, daemonVars, RetryInv
<1>2. CASE Established \/ ProcessRead
  BY <1>2 DEF Established, ProcessRead, RetryInv, daemonVars
<1>3. CASE ReadFails \/ NotEstablished
  BY <1>3, DropRetry DEF ReadFails, NotEstablished, daemonVars
<1>4. CASE ServerReads \/ Relogged \/ ConnectionBreaks \/ Asks
  BY <1>4 DEF ServerReads, Relogged, ConnectionBreaks, Asks, RetryInv, daemonVars
<1> QED BY <1>1, <1>2, <1>3, <1>4, LoginRetry, RequestRetry, BatchRetry, DaemonRetry
        DEF SessionNext, SessionActorStep

\* Only an accepted login ends a loss, and while the connection is gone there is
\* none to be accepted.
LEMMA LossEnds ==
    ASSUME [SessionNext]_sessionVars, loss = "displaced", loss' # "displaced"
    PROVE  conn = "connected" /\ LoginAccepted
<1>1. CASE UNCHANGED sessionVars
  BY <1>1 DEF sessionVars, serverActorVars
<1>2. CASE HandleLogin \/ HandleRequest \/ Established \/ ProcessRead \/ ReadFails \/ NotEstablished
  BY <1>2 DEF HandleLogin, HandleRequest, Established, ProcessRead, ReadFails, NotEstablished,
              Writes, Drops, Disconnects
<1>3. CASE HandleBatch
  BY <1>3 DEF HandleBatch, Writes, Drops, Disconnects
<1>4. CASE ServerReads \/ Relogged \/ ConnectionBreaks \/ Asks
  BY <1>4 DEF ServerReads, Relogged, ConnectionBreaks, Asks
<1>5. CASE DaemonStep \/ \E kind \in {"join", "leave"} : RoomCall(kind)
  BY <1>5 DEF DaemonStep, WaiterSees, WaiterTimesOut, Decide, Relogin, LoginReturns, Rejoin,
              BackoffPasses, RoomListed, RoomCall, serverActorVars
<1> QED BY <1>1, <1>2, <1>3, <1>4, <1>5 DEF SessionNext, SessionActorStep

SessionKept == DaemonShape /\ LossInv /\ RetryInv

LEMMA SessionKeptStarts == ASSUME SessionInit PROVE SessionKept
<1>1. ~Relogs(<<>>)
  BY DEF Relogs
<1> QED BY <1>1, DaemonStarts DEF SessionInit, SessionKept, LossInv, RetryInv

LEMMA SessionKeptStep == ASSUME SessionKept, [SessionNext]_sessionVars PROVE SessionKept'
BY DaemonShapeStep, LossStep, RetryStep DEF SessionKept

\* Who was displaced by another login does not take the account back
\* (daemon/mod.rs:320-322): of the logins under way when the session was lost none
\* is left, unless one was given up and its answer came late.
THEOREM TheDisplacedStay == SessionSpec => DisplacedStays
<1>1. SessionInit => SessionKept
  BY SessionKeptStarts
<1>2. SessionKept /\ [SessionNext]_sessionVars => SessionKept'
  BY SessionKeptStep
<1>3. SessionKept /\ [SessionNext]_sessionVars
        => [loss = "displaced" => loss' = "displaced" \/ "late" \in excuses]_sessionVars
  BY LossEnds DEF SessionKept, RetryInv
<1> QED BY <1>1, <1>2, <1>3, PTL DEF SessionSpec, DisplacedStays
-----------------------------------------------------------------------------
(* What is on its way to a client. *)

Letters == 0..MaxEvents

StreamShape ==
    /\ published \in 0..MaxEvents
    /\ queue \in [Clients -> Seq(Letters)] /\ outbox \in [Clients -> Seq(Letters)]
    /\ buffered \in [Clients -> Seq(Letters)]
    /\ asked \in [Clients -> BOOLEAN] /\ got \in [Clients -> Letters]

\* What an action does to the sequences of one connection c, written once.
LEMMA LettersKept ==
    ASSUME NEW s \in Seq(Letters), s # <<>>
    PROVE  Head(s) \in Letters /\ Tail(s) \in Seq(Letters)
OBVIOUS

LEMMA LettersAppend ==
    ASSUME NEW s \in Seq(Letters), NEW e \in Letters PROVE Append(s, e) \in Seq(Letters)
OBVIOUS

LEMMA AnswerIsALetter == Answer \in Letters
BY DEF Letters, Answer

LEMMA PublishShape == ASSUME StreamShape, Publish PROVE StreamShape'
<1>1. published \in 0..MaxEvents /\ published < MaxEvents /\ published' = published + 1
        /\ MaxEvents \in Nat
  BY DEF Publish, StreamShape
<1>2. published' \in 0..MaxEvents
  BY <1>1
<1>3. ASSUME NEW c \in Clients PROVE queue[c] \in Seq(Letters)
                                      /\ Append(queue[c], published') \in Seq(Letters)
  BY <1>2, LettersAppend DEF StreamShape, Letters
<1>4. queue' \in [Clients -> Seq(Letters)]
  BY <1>3 DEF Publish
<1> QED BY <1>2, <1>4 DEF Publish, StreamShape

LEMMA StreamShapeStep == ASSUME StreamShape, [HubNext]_hubVars PROVE StreamShape'
<1>1. CASE UNCHANGED hubVars
  BY <1>1 DEF hubVars, StreamShape
<1>2. ASSUME NEW c \in Clients, ConnectionStep(c) PROVE StreamShape'
  <2>1. queue[c] \in Seq(Letters) /\ outbox[c] \in Seq(Letters) /\ buffered[c] \in Seq(Letters)
    BY DEF StreamShape
  <2>2. CASE Accept(c) \/ Refuse(c) \/ WriterDone(c) \/ HangsUp(c) \/ Close(c)
    BY <2>2 DEF Accept, Refuse, WriterDone, HangsUp, Close, StreamShape
  <2>3. CASE Authenticate(c) \/ Serve(c)
    <3>1. Append(outbox[c], Answer) \in Seq(Letters)
      BY <2>1, AnswerIsALetter, LettersAppend
    <3> QED BY <2>3, <3>1 DEF Authenticate, Serve, StreamShape
  <2>4. CASE Subscribe(c)
    BY <2>4 DEF Subscribe, StreamShape, Letters
  <2>5. CASE Pump(c)
    <3>1. CASE UNCHANGED <<queue, outbox>>
      BY <2>5, <3>1 DEF Pump, StreamShape
    <3>2. CASE /\ queue[c] # <<>>
               /\ outbox' = [outbox EXCEPT ![c] = Append(@, Head(queue[c]))]
               /\ queue' = [queue EXCEPT ![c] = Tail(@)]
      <4>1. Append(outbox[c], Head(queue[c])) \in Seq(Letters) /\ Tail(queue[c]) \in Seq(Letters)
        BY <2>1, <3>2, LettersKept, LettersAppend
      <4> QED BY <2>5, <3>2, <4>1 DEF Pump, StreamShape
    <3> QED BY <2>5, <3>1, <3>2 DEF Pump
  <2>6. CASE Write(c)
    <3>1. CASE UNCHANGED <<buffered, outbox>>
      BY <2>6, <3>1 DEF Write, StreamShape
    <3>2. CASE /\ buffered' = [buffered EXCEPT ![c] = Append(@, Head(outbox[c]))]
               /\ outbox' = [outbox EXCEPT ![c] = Tail(@)]
      <4>1. Append(buffered[c], Head(outbox[c])) \in Seq(Letters) /\ Tail(outbox[c]) \in Seq(Letters)
        BY <2>1, <2>6, LettersKept, LettersAppend DEF Write
      <4> QED BY <2>6, <3>2, <4>1 DEF Write, StreamShape
    <3> QED BY <2>6, <3>1, <3>2 DEF Write
  <2> QED BY <1>2, <2>2, <2>3, <2>4, <2>5, <2>6 DEF ConnectionStep
<1>3. ASSUME NEW c \in Clients, ClientStep(c) PROVE StreamShape'
  <2>1. CASE ClientReads(c)
    <3>1. Tail(buffered[c]) \in Seq(Letters) /\ Head(buffered[c]) \in Letters
      BY <2>1, LettersKept DEF ClientReads, StreamShape
    <3> QED BY <2>1, <3>1 DEF ClientReads, StreamShape
  <2>2. CASE ClientAsks(c) \/ ClientCloses(c)
    BY <2>2 DEF ClientAsks, ClientCloses, StreamShape
  <2> QED BY <1>3, <2>1, <2>2 DEF ClientStep
<1> QED BY <1>1, <1>2, <1>3, PublishShape DEF HubNext

LEMMA HubShapeStarts == ASSUME HubInit PROVE HubShape /\ StreamShape
<1>1. <<>> \in Seq(Letters) /\ 0 \in Letters /\ 0 \in 0..MaxEvents
  BY DEF Letters
<1>2. HubShape
  BY DEF HubInit, HubShape, Counted, Finished
<1>3. StreamShape
  BY <1>1 DEF HubInit, StreamShape
<1> QED BY <1>2, <1>3
-----------------------------------------------------------------------------
(* The three buffers of a connection, as one stream: what the operations on *)
(* sequences do to the events in them.                                      *)

\* Every event of s is older than every one of t.
Before(s, t) == \A x \in EventsOf(s) : \A y \in EventsOf(t) : x < y

LEMMA EventsAppend ==
    ASSUME NEW s \in Seq(Nat), NEW e \in Nat
    PROVE  EventsOf(Append(s, e)) = EventsOf(s) \cup ({e} \ {Answer})
<1>1. /\ DOMAIN Append(s, e) = DOMAIN s \cup {Len(s) + 1}
      /\ \A k \in DOMAIN s : Append(s, e)[k] = s[k]
      /\ Append(s, e)[Len(s) + 1] = e
  OBVIOUS
<1>2. {Append(s, e)[k] : k \in DOMAIN Append(s, e)} = {s[k] : k \in DOMAIN s} \cup {e}
  BY <1>1
<1> QED BY <1>2 DEF EventsOf

LEMMA EventsTail ==
    ASSUME NEW s \in Seq(Nat), s # <<>>
    PROVE  /\ EventsOf(s) = ({Head(s)} \ {Answer}) \cup EventsOf(Tail(s))
           /\ Head(s) \in Nat /\ Tail(s) \in Seq(Nat)
<1>1. Head(s) \in Nat /\ Tail(s) \in Seq(Nat)
  OBVIOUS
<1>2. ASSUME NEW x \in EventsOf(s) PROVE x \in ({Head(s)} \ {Answer}) \cup EventsOf(Tail(s))
  <2>1. PICK k \in DOMAIN s : x = s[k]
    BY <1>2 DEF EventsOf
  <2>2. CASE k = 1
    BY <1>2, <2>1, <2>2 DEF EventsOf
  <2>3. CASE k # 1
    <3>1. k - 1 \in DOMAIN Tail(s) /\ Tail(s)[k - 1] = x
      BY <2>1, <2>3
    <3> QED BY <1>2, <3>1 DEF EventsOf
  <2> QED BY <2>2, <2>3
<1>3. ASSUME NEW x \in EventsOf(Tail(s)) PROVE x \in EventsOf(s)
  <2>1. PICK k \in DOMAIN Tail(s) : x = Tail(s)[k]
    BY <1>3 DEF EventsOf
  <2>2. k + 1 \in DOMAIN s /\ s[k + 1] = x
    BY <2>1
  <2> QED BY <1>3, <2>2 DEF EventsOf
<1>4. 1 \in DOMAIN s /\ s[1] = Head(s)
  OBVIOUS
<1> QED BY <1>1, <1>2, <1>3, <1>4 DEF EventsOf

LEMMA EventsConcat ==
    ASSUME NEW s \in Seq(Nat), NEW t \in Seq(Nat)
    PROVE  EventsOf(s \o t) = EventsOf(s) \cup EventsOf(t)
<1>1. ASSUME NEW x \in EventsOf(s \o t) PROVE x \in EventsOf(s) \cup EventsOf(t)
  <2>1. PICK k \in DOMAIN (s \o t) : x = (s \o t)[k]
    BY <1>1 DEF EventsOf
  <2>2. (k \in DOMAIN s /\ x = s[k]) \/ (k - Len(s) \in DOMAIN t /\ x = t[k - Len(s)])
    BY <2>1
  <2> QED BY <1>1, <2>2 DEF EventsOf
<1>2. ASSUME NEW x \in EventsOf(s) PROVE x \in EventsOf(s \o t)
  <2>1. PICK k \in DOMAIN s : x = s[k]
    BY <1>2 DEF EventsOf
  <2>2. k \in DOMAIN (s \o t) /\ (s \o t)[k] = x
    BY <2>1
  <2> QED BY <1>2, <2>2 DEF EventsOf
<1>3. ASSUME NEW x \in EventsOf(t) PROVE x \in EventsOf(s \o t)
  <2>1. PICK k \in DOMAIN t : x = t[k]
    BY <1>3 DEF EventsOf
  <2>2. Len(s) + k \in DOMAIN (s \o t) /\ (s \o t)[Len(s) + k] = x
    BY <2>1
  <2> QED BY <1>3, <2>2 DEF EventsOf
<1> QED BY <1>1, <1>2, <1>3

\* A later event may be put behind, and the oldest taken away.
LEMMA AscendingAppend ==
    ASSUME NEW s \in Seq(Nat), NEW e \in Nat, Ascending(s),
           e # Answer => \A x \in EventsOf(s) : x < e
    PROVE  Ascending(Append(s, e))
<1> SUFFICES ASSUME NEW j \in DOMAIN Append(s, e), NEW k \in DOMAIN Append(s, e), j < k,
                    Answer \notin {Append(s, e)[j], Append(s, e)[k]}
             PROVE  Append(s, e)[j] < Append(s, e)[k]
  BY DEF Ascending
<1>1. j \in DOMAIN s /\ Append(s, e)[j] = s[j] /\ s[j] # Answer
  OBVIOUS
<1>2. CASE k \in DOMAIN s
  BY <1>1, <1>2 DEF Ascending
<1>3. CASE k \notin DOMAIN s
  <2>1. Append(s, e)[k] = e
    BY <1>3
  <2> QED BY <1>1, <2>1 DEF EventsOf
<1> QED BY <1>2, <1>3

LEMMA AscendingTail ==
    ASSUME NEW s \in Seq(Nat), s # <<>>, Ascending(s)
    PROVE  /\ Ascending(Tail(s))
           /\ Head(s) # Answer => \A x \in EventsOf(Tail(s)) : Head(s) < x
<1>1. ASSUME NEW k \in DOMAIN Tail(s) PROVE k + 1 \in DOMAIN s /\ Tail(s)[k] = s[k + 1] /\ k >= 1
  OBVIOUS
<1>2. DOMAIN s \subseteq Int /\ DOMAIN Tail(s) \subseteq Int /\ 1 \in DOMAIN s /\ Head(s) = s[1]
  OBVIOUS
<1>3. Ascending(Tail(s))
  BY <1>1, <1>2 DEF Ascending
<1>4. Head(s) # Answer => \A x \in EventsOf(Tail(s)) : Head(s) < x
  BY <1>1, <1>2 DEF Ascending, EventsOf
<1> QED BY <1>3, <1>4

LEMMA AscendingConcat ==
    ASSUME NEW s \in Seq(Nat), NEW t \in Seq(Nat), Ascending(s), Ascending(t), Before(s, t)
    PROVE  Ascending(s \o t)
<1> SUFFICES ASSUME NEW j \in DOMAIN (s \o t), NEW k \in DOMAIN (s \o t), j < k,
                    Answer \notin {(s \o t)[j], (s \o t)[k]}
             PROVE  (s \o t)[j] < (s \o t)[k]
  BY DEF Ascending
<1>1. CASE k \in DOMAIN s
  <2>1. j \in DOMAIN s /\ (s \o t)[j] = s[j] /\ (s \o t)[k] = s[k]
    BY <1>1
  <2> QED BY <1>1, <2>1 DEF Ascending
<1>2. CASE j \in DOMAIN s /\ k \notin DOMAIN s
  <2>1. (s \o t)[j] = s[j] /\ k - Len(s) \in DOMAIN t /\ (s \o t)[k] = t[k - Len(s)]
    BY <1>2
  <2>2. s[j] \in EventsOf(s) /\ t[k - Len(s)] \in EventsOf(t)
    BY <1>2, <2>1 DEF EventsOf
  <2> QED BY <2>1, <2>2 DEF Before
<1>3. CASE j \notin DOMAIN s
  <2>1. /\ j - Len(s) \in DOMAIN t /\ (s \o t)[j] = t[j - Len(s)]
        /\ k - Len(s) \in DOMAIN t /\ (s \o t)[k] = t[k - Len(s)]
        /\ j - Len(s) < k - Len(s)
    BY <1>3
  <2> QED BY <2>1 DEF Ascending
<1> QED BY <1>1, <1>2, <1>3
LEMMA LettersAreNumbers ==
    ASSUME NEW s \in Seq(Letters) PROVE s \in Seq(Nat)
BY DEF Letters

\* Three buffers that together hold the events from g + 1 to l, each once and in
\* order.
Flows(b, o, q, g, l) ==
    /\ Ascending(b) /\ Ascending(o) /\ Ascending(q)
    /\ Before(b, o) /\ Before(b, q) /\ Before(o, q)
    /\ EventsOf(b) \cup EventsOf(o) \cup EventsOf(q) = (g + 1)..l

\* The pump hands the oldest event of the queue on to the outbox.
LEMMA PumpFlows ==
    ASSUME NEW b \in Seq(Nat), NEW o \in Seq(Nat), NEW q \in Seq(Nat), NEW g \in Nat,
           NEW l \in Nat, Flows(b, o, q, g, l), q # <<>>
    PROVE  Flows(b, Append(o, Head(q)), Tail(q), g, l)
<1> DEFINE h == Head(q)
<1>1. /\ EventsOf(q) = ({h} \ {Answer}) \cup EventsOf(Tail(q)) /\ h \in Nat
      /\ EventsOf(Append(o, h)) = EventsOf(o) \cup ({h} \ {Answer})
  BY EventsTail, EventsAppend
<1>2. Ascending(Tail(q)) /\ (h # Answer => \A x \in EventsOf(Tail(q)) : h < x)
  BY AscendingTail DEF Flows
<1>3. h # Answer => h \in EventsOf(q)
  BY <1>1
<1>4. Ascending(Append(o, h))
  <2>1. h # Answer => \A x \in EventsOf(o) : x < h
    BY <1>3 DEF Flows, Before
  <2> QED BY <1>1, <2>1, AscendingAppend DEF Flows
<1>5. Before(b, Append(o, h)) /\ Before(b, Tail(q)) /\ Before(Append(o, h), Tail(q))
  <2> HIDE DEF h
  <2> QED BY <1>1, <1>2, <1>3 DEF Flows, Before
<1>6. EventsOf(b) \cup EventsOf(Append(o, h)) \cup EventsOf(Tail(q))
        = EventsOf(b) \cup EventsOf(o) \cup EventsOf(q)
  BY <1>1
<1> QED BY <1>2, <1>4, <1>5, <1>6 DEF Flows

\* The writer hands the oldest of the outbox on to the socket.
LEMMA WriteFlows ==
    ASSUME NEW b \in Seq(Nat), NEW o \in Seq(Nat), NEW q \in Seq(Nat), NEW g \in Nat,
           NEW l \in Nat, Flows(b, o, q, g, l), o # <<>>
    PROVE  Flows(Append(b, Head(o)), Tail(o), q, g, l)
<1> DEFINE h == Head(o)
<1>1. /\ EventsOf(o) = ({h} \ {Answer}) \cup EventsOf(Tail(o)) /\ h \in Nat
      /\ EventsOf(Append(b, h)) = EventsOf(b) \cup ({h} \ {Answer})
  BY EventsTail, EventsAppend
<1>2. Ascending(Tail(o)) /\ (h # Answer => \A x \in EventsOf(Tail(o)) : h < x)
  BY AscendingTail DEF Flows
<1>3. h # Answer => h \in EventsOf(o)
  BY <1>1
<1>4. Ascending(Append(b, h))
  <2>1. h # Answer => \A x \in EventsOf(b) : x < h
    BY <1>3 DEF Flows, Before
  <2> QED BY <1>1, <2>1, AscendingAppend DEF Flows
<1>5. Before(Append(b, h), Tail(o)) /\ Before(Append(b, h), q) /\ Before(Tail(o), q)
  <2> HIDE DEF h
  <2> QED BY <1>1, <1>2, <1>3 DEF Flows, Before
<1>6. EventsOf(Append(b, h)) \cup EventsOf(Tail(o)) \cup EventsOf(q)
        = EventsOf(b) \cup EventsOf(o) \cup EventsOf(q)
  BY <1>1
<1> QED BY <1>2, <1>4, <1>5, <1>6 DEF Flows

\* An answer between the events changes nothing about them.
LEMMA AnswerFlows ==
    ASSUME NEW b \in Seq(Nat), NEW o \in Seq(Nat), NEW q \in Seq(Nat), NEW g \in Nat,
           NEW l \in Nat, Flows(b, o, q, g, l)
    PROVE  Flows(b, Append(o, Answer), q, g, l)
<1>1. Answer \in Nat
  BY DEF Answer
<1>2. EventsOf(Append(o, Answer)) = EventsOf(o)
  <2>1. EventsOf(Append(o, Answer)) = EventsOf(o) \cup ({Answer} \ {Answer})
    BY <1>1, EventsAppend
  <2> QED BY <2>1
<1>3. Ascending(Append(o, Answer))
  BY <1>1, AscendingAppend DEF Flows
<1> QED BY <1>2, <1>3 DEF Flows, Before

\* What the client reads next is the event after the last it has.
LEMMA ReadFlows ==
    ASSUME NEW b \in Seq(Nat), NEW o \in Seq(Nat), NEW q \in Seq(Nat), NEW g \in Nat,
           NEW l \in Nat, Flows(b, o, q, g, l), b # <<>>, Head(b) # Answer
    PROVE  Head(b) = g + 1 /\ g < l /\ Flows(Tail(b), o, q, Head(b), l)
<1> DEFINE h == Head(b)
           Rest == EventsOf(Tail(b)) \cup EventsOf(o) \cup EventsOf(q)
<1>1. EventsOf(b) = {h} \cup EventsOf(Tail(b)) /\ h \in Nat /\ h # Answer
  BY EventsTail
<1>2. Ascending(Tail(b)) /\ \A x \in EventsOf(Tail(b)) : h < x
  BY AscendingTail DEF Flows
<1>3. Before(Tail(b), o) /\ Before(Tail(b), q) /\ \A x \in Rest : h < x
  BY <1>1, <1>2 DEF Flows, Before
<1>4. {h} \cup Rest = (g + 1)..l
  BY <1>1 DEF Flows
<1> HIDE DEF h, Rest
<1>5. h \in (g + 1)..l /\ g + 1 \in (g + 1)..l
  BY <1>1, <1>4
<1>6. h = g + 1
  BY <1>1, <1>3, <1>4, <1>5
<1>7. Rest = (h + 1)..l
  <2>1. ASSUME NEW x \in Rest PROVE x \in (h + 1)..l
    <3>1. x \in (g + 1)..l /\ h < x
      BY <1>3, <1>4
    <3> QED BY <1>1, <3>1
  <2>2. ASSUME NEW x \in (h + 1)..l PROVE x \in Rest
    <3>1. x \in (g + 1)..l /\ x # h
      BY <1>1, <1>6
    <3> QED BY <1>4, <3>1
  <2> QED BY <2>1, <2>2
<1> QED BY <1>2, <1>3, <1>5, <1>6, <1>7 DEF Flows, h, Rest

LEMMA SkipFlows ==
    ASSUME NEW b \in Seq(Nat), NEW o \in Seq(Nat), NEW q \in Seq(Nat), NEW g \in Nat,
           NEW l \in Nat, Flows(b, o, q, g, l), b # <<>>, Head(b) = Answer
    PROVE  Flows(Tail(b), o, q, g, l)
<1>1. EventsOf(b) = EventsOf(Tail(b))
  BY EventsTail
<1>2. Ascending(Tail(b))
  BY AscendingTail DEF Flows
<1> QED BY <1>1, <1>2 DEF Flows, Before

\* The next event goes behind all that are on their way.
LEMMA PublishFlows ==
    ASSUME NEW b \in Seq(Nat), NEW o \in Seq(Nat), NEW q \in Seq(Nat), NEW g \in Nat,
           NEW l \in Nat, g <= l, Flows(b, o, q, g, l)
    PROVE  Flows(b, o, Append(q, l + 1), g, l + 1)
<1>1. l + 1 \in Nat /\ l + 1 # Answer
  BY DEF Answer
<1>2. EventsOf(Append(q, l + 1)) = EventsOf(q) \cup {l + 1}
  BY <1>1, EventsAppend
<1>3. \A x \in EventsOf(b) \cup EventsOf(o) \cup EventsOf(q) : x < l + 1
  <2>1. \A x \in (g + 1)..l : x < l + 1
    OBVIOUS
  <2> QED BY <2>1 DEF Flows
<1>4. Ascending(Append(q, l + 1))
  BY <1>1, <1>3, AscendingAppend DEF Flows
<1>5. Before(b, Append(q, l + 1)) /\ Before(o, Append(q, l + 1))
  BY <1>2, <1>3 DEF Flows, Before
<1>6. (g + 1)..(l + 1) = ((g + 1)..l) \cup {l + 1}
  OBVIOUS
<1> QED BY <1>2, <1>4, <1>5, <1>6 DEF Flows

LEMMA FlowsJoined ==
    ASSUME NEW b \in Seq(Nat), NEW o \in Seq(Nat), NEW q \in Seq(Nat), NEW g \in Nat,
           NEW l \in Nat, Flows(b, o, q, g, l)
    PROVE  Ascending(b \o o \o q) /\ EventsOf(b \o o \o q) = (g + 1)..l
<1>1. b \o o \in Seq(Nat) /\ EventsOf(b \o o) = EventsOf(b) \cup EventsOf(o)
  BY EventsConcat
<1>2. EventsOf(b \o o \o q) = EventsOf(b \o o) \cup EventsOf(q)
  BY <1>1, EventsConcat
<1>3. Ascending(b \o o)
  BY AscendingConcat DEF Flows
<1>4. Before(b \o o, q)
  BY <1>1 DEF Flows, Before
<1>5. Ascending(b \o o \o q)
  BY <1>1, <1>3, <1>4, AscendingConcat DEF Flows
<1> QED BY <1>1, <1>2, <1>5 DEF Flows
Early == {"absent", "authenticating", "attaching"}

\* On the way to a client are the events after the last it has, up to the last
\* published while it is subscribed; before it is there are none.
FlowTo(c) ==
    /\ \E last \in got[c]..published :
            /\ Flows(buffered[c], outbox[c], queue[c], got[c], last)
            /\ c \in subscribers => last = published
    /\ phase[c] \in Early =>
            /\ c \notin subscribers
            /\ EventsOf(buffered[c]) \cup EventsOf(outbox[c]) \cup EventsOf(queue[c]) = {}

FlowInv == HubShape /\ StreamShape /\ \A c \in Clients : FlowTo(c)

\* The buffers of a client hold numbers.
LEMMA StreamNumbers ==
    ASSUME StreamShape, NEW c \in Clients
    PROVE  /\ buffered[c] \in Seq(Nat) /\ outbox[c] \in Seq(Nat) /\ queue[c] \in Seq(Nat)
           /\ got[c] \in Nat /\ published \in Nat
<1>1. buffered[c] \in Seq(Letters) /\ outbox[c] \in Seq(Letters) /\ queue[c] \in Seq(Letters)
        /\ got[c] \in Letters /\ published \in 0..MaxEvents
  BY DEF StreamShape
<1>2. got[c] \in Nat /\ published \in Nat
  BY <1>1 DEF Letters
<1> QED BY <1>1, <1>2, LettersAreNumbers

\* Nothing happens to the stream of a client, or it is no longer subscribed.
LEMMA FlowRests ==
    ASSUME NEW c \in Clients, FlowTo(c), StreamShape,
           buffered'[c] = buffered[c], outbox'[c] = outbox[c], queue'[c] = queue[c],
           got'[c] = got[c], published' \in Nat, published <= published',
           c \in subscribers' => c \in subscribers /\ published' = published,
           phase'[c] \in Early => phase[c] \in Early
    PROVE  FlowTo(c)'
<1>1. PICK last \in got[c]..published :
            /\ Flows(buffered[c], outbox[c], queue[c], got[c], last)
            /\ c \in subscribers => last = published
  BY DEF FlowTo
<1>2. got[c] \in Nat /\ published \in Nat
  BY StreamNumbers
<1>3. last \in got[c]..published'
  BY <1>2
<1>4. \E l \in got'[c]..published' :
            /\ Flows(buffered'[c], outbox'[c], queue'[c], got'[c], l)
            /\ c \in subscribers' => l = published'
  BY <1>1, <1>3
<1>5. phase'[c] \in Early =>
            /\ c \notin subscribers'
            /\ EventsOf(buffered'[c]) \cup EventsOf(outbox'[c]) \cup EventsOf(queue'[c]) = {}
  BY DEF FlowTo
<1> QED BY <1>4, <1>5 DEF FlowTo

\* An event or an answer moves on, or an answer joins: the events stay the same.
LEMMA FlowMoves ==
    ASSUME NEW c \in Clients, FlowTo(c), StreamShape,
           \A l \in Nat : Flows(buffered[c], outbox[c], queue[c], got[c], l)
                            => Flows(buffered'[c], outbox'[c], queue'[c], got'[c], l),
           got'[c] = got[c], UNCHANGED <<published, subscribers>>,
           phase'[c] \in Early => phase[c] \in Early
    PROVE  FlowTo(c)'
<1>1. PICK last \in got[c]..published :
            /\ Flows(buffered[c], outbox[c], queue[c], got[c], last)
            /\ c \in subscribers => last = published
  BY DEF FlowTo
<1>2. got[c] \in Nat /\ published \in Nat
  BY StreamNumbers
<1>3. last \in Nat
  BY <1>2
<1>4. Flows(buffered'[c], outbox'[c], queue'[c], got'[c], last)
  BY <1>1, <1>3
<1>5. /\ EventsOf(buffered[c]) \cup EventsOf(outbox[c]) \cup EventsOf(queue[c]) = (got[c] + 1)..last
      /\ EventsOf(buffered'[c]) \cup EventsOf(outbox'[c]) \cup EventsOf(queue'[c])
            = (got[c] + 1)..last
  BY <1>1, <1>4 DEF Flows
<1>6. \E l \in got'[c]..published' :
            /\ Flows(buffered'[c], outbox'[c], queue'[c], got'[c], l)
            /\ c \in subscribers' => l = published'
  BY <1>1, <1>4
<1>7. phase'[c] \in Early =>
            /\ c \notin subscribers'
            /\ EventsOf(buffered'[c]) \cup EventsOf(outbox'[c]) \cup EventsOf(queue'[c]) = {}
  BY <1>5 DEF FlowTo
<1> QED BY <1>6, <1>7 DEF FlowTo

\* Who still has room gets the event, and everyone else is subscribed no more.
LEMMA PublishFlow ==
    ASSUME HubShape, StreamShape, Publish, NEW c \in Clients, FlowTo(c) PROVE FlowTo(c)'
<1>1. /\ buffered'[c] = buffered[c] /\ outbox'[c] = outbox[c] /\ got'[c] = got[c]
      /\ phase'[c] = phase[c] /\ published' = published + 1
  BY DEF Publish
<1>2. got[c] \in Nat /\ published \in Nat
  BY StreamNumbers
<1>3. CASE c \in subscribers /\ ~Deaf(c) /\ ~QueueFull(c)
  <2>1. queue'[c] = Append(queue[c], published + 1)
    BY <1>1, <1>3 DEF Publish
  <2>2. Flows(buffered[c], outbox[c], queue[c], got[c], published) /\ got[c] <= published
    BY <1>2, <1>3 DEF FlowTo
  <2>3. Flows(buffered[c], outbox[c], Append(queue[c], published + 1), got[c], published + 1)
    BY <1>2, <2>2, StreamNumbers, PublishFlows
  <2>4. published + 1 \in got[c]..(published + 1)
    BY <1>2, <2>2
  <2>5. \E l \in got'[c]..published' :
            /\ Flows(buffered'[c], outbox'[c], queue'[c], got'[c], l)
            /\ c \in subscribers' => l = published'
    BY <1>1, <2>1, <2>3, <2>4
  <2>6. phase'[c] \notin Early
    BY <1>1, <1>3 DEF FlowTo
  <2> QED BY <2>5, <2>6 DEF FlowTo
<1>4. CASE ~(c \in subscribers /\ ~Deaf(c) /\ ~QueueFull(c))
  <2>1. queue'[c] = queue[c] /\ c \notin subscribers'
    BY <1>4 DEF Publish
  <2>2. published' \in Nat /\ published <= published'
    BY <1>1, <1>2
  <2> QED BY <1>1, <2>1, <2>2, FlowRests
<1> QED BY <1>3, <1>4

LEMMA SubscribeFlow ==
    ASSUME HubShape, StreamShape, NEW c \in Clients, Subscribe(c), FlowTo(c) PROVE FlowTo(c)'
<1>1. /\ buffered'[c] = buffered[c] /\ outbox'[c] = outbox[c] /\ queue'[c] = queue[c]
      /\ got'[c] = published /\ published' = published /\ phase[c] = "attaching"
      /\ phase'[c] = "serving"
  BY DEF Subscribe, InPhase, Enters, HubShape, StreamShape
<1>2. got[c] \in Nat /\ published \in Nat
  BY StreamNumbers
<1>3. EventsOf(buffered[c]) \cup EventsOf(outbox[c]) \cup EventsOf(queue[c]) = {}
  BY <1>1 DEF FlowTo, Early
<1>4. (published + 1)..published = {} /\ published \in published..published
  BY <1>2
<1>5. Flows(buffered[c], outbox[c], queue[c], published, published)
  BY <1>3, <1>4 DEF FlowTo, Flows
<1>6. phase'[c] \notin Early
  BY <1>1 DEF Early
<1>7. \E l \in got'[c]..published' :
            /\ Flows(buffered'[c], outbox'[c], queue'[c], got'[c], l)
            /\ c \in subscribers' => l = published'
  BY <1>1, <1>4, <1>5
<1> QED BY <1>6, <1>7 DEF FlowTo

\* The client reads the oldest: an event is the one after the last it has.
LEMMA ReadFlow ==
    ASSUME HubShape, StreamShape, NEW c \in Clients, ClientReads(c), FlowTo(c) PROVE FlowTo(c)'
<1>1. /\ outbox'[c] = outbox[c] /\ queue'[c] = queue[c] /\ buffered[c] # <<>>
      /\ buffered'[c] = Tail(buffered[c]) /\ phase' = phase
      /\ published' = published /\ subscribers' = subscribers
      /\ got'[c] = IF Head(buffered[c]) = Answer THEN got[c] ELSE Head(buffered[c])
  BY DEF ClientReads, StreamShape
<1>2. /\ buffered[c] \in Seq(Nat) /\ outbox[c] \in Seq(Nat) /\ queue[c] \in Seq(Nat)
      /\ got[c] \in Nat /\ published \in Nat
  BY StreamNumbers
<1>3. CASE Head(buffered[c]) = Answer
  <2>1. \A l \in Nat : Flows(buffered[c], outbox[c], queue[c], got[c], l)
                         => Flows(buffered'[c], outbox'[c], queue'[c], got'[c], l)
    BY <1>1, <1>2, <1>3, SkipFlows
  <2> QED BY <1>1, <1>3, <2>1, FlowMoves
<1>4. CASE Head(buffered[c]) # Answer
  <2>1. PICK last \in got[c]..published :
            /\ Flows(buffered[c], outbox[c], queue[c], got[c], last)
            /\ c \in subscribers => last = published
    BY DEF FlowTo
  <2>2. last \in Nat
    BY <1>2
  <2>3. Head(buffered[c]) = got[c] + 1 /\ got[c] < last
          /\ Flows(Tail(buffered[c]), outbox[c], queue[c], Head(buffered[c]), last)
    BY <1>1, <1>2, <1>4, <2>1, <2>2, ReadFlows
  <2>4. got'[c] = got[c] + 1
    BY <1>1, <1>4, <2>3
  <2>5. last \in got'[c]..published'
    BY <1>1, <1>2, <2>2, <2>3, <2>4
  <2>6. \E l \in got'[c]..published' :
            /\ Flows(buffered'[c], outbox'[c], queue'[c], got'[c], l)
            /\ c \in subscribers' => l = published'
    BY <1>1, <2>1, <2>3, <2>4, <2>5
  <2>7. EventsOf(buffered[c]) # {}
    BY <1>1, <1>2, <1>4, EventsTail
  <2>8. phase'[c] \notin Early
    BY <1>1, <2>7 DEF FlowTo
  <2> QED BY <2>6, <2>8 DEF FlowTo
<1> QED BY <1>3, <1>4

\* A connection's own threads only pass on what is there, or answer.
LEMMA ConnectionFlow ==
    ASSUME HubShape, StreamShape, NEW c \in Clients, ConnectionStep(c), FlowTo(c) PROVE FlowTo(c)'
<1>1. /\ buffered[c] \in Seq(Nat) /\ outbox[c] \in Seq(Nat) /\ queue[c] \in Seq(Nat)
      /\ got[c] \in Nat /\ published \in Nat
  BY StreamNumbers
<1>2. CASE Accept(c) \/ Refuse(c) \/ WriterDone(c) \/ HangsUp(c) \/ Close(c)
  <2>1. /\ buffered'[c] = buffered[c] /\ outbox'[c] = outbox[c] /\ queue'[c] = queue[c]
        /\ got'[c] = got[c] /\ published' = published /\ subscribers' \subseteq subscribers
    BY <1>2 DEF Accept, Refuse, WriterDone, HangsUp, Close
  <2>2. phase'[c] \in Early => phase[c] \in Early
    BY <1>2 DEF Accept, Refuse, WriterDone, HangsUp, Close, Enters, InPhase, Early, HubShape
  <2> QED BY <1>1, <2>1, <2>2, FlowRests
<1>3. CASE Subscribe(c)
  BY <1>3, SubscribeFlow
<1>4. ASSUME outbox' = [outbox EXCEPT ![c] = Append(@, Answer)],
             UNCHANGED <<published, subscribers, queue, buffered, got>>,
             phase'[c] \in Early => phase[c] \in Early
      PROVE  FlowTo(c)'
  <2>1. outbox'[c] = Append(outbox[c], Answer)
    BY <1>4 DEF StreamShape
  <2>2. \A l \in Nat : Flows(buffered[c], outbox[c], queue[c], got[c], l)
                         => Flows(buffered'[c], outbox'[c], queue'[c], got'[c], l)
    BY <1>1, <1>4, <2>1, AnswerFlows
  <2> QED BY <1>4, <2>2, FlowMoves
<1>5. CASE Authenticate(c) \/ Serve(c)
  <2>1. phase'[c] \in Early => phase[c] \in Early
    BY <1>5 DEF Authenticate, Serve, Enters, InPhase, Early, HubShape
  <2>2. UNCHANGED <<published, queue, buffered, got>> /\ subscribers' \subseteq subscribers
    BY <1>5 DEF Authenticate, Serve
  <2>3. CASE outbox' = outbox
    BY <1>1, <2>1, <2>2, <2>3, FlowRests
  <2>4. CASE outbox' = [outbox EXCEPT ![c] = Append(@, Answer)] /\ subscribers' = subscribers
    BY <1>4, <2>1, <2>2, <2>4
  <2> QED BY <1>5, <2>3, <2>4 DEF Authenticate, Serve
<1>6. CASE Pump(c)
  <2>1. UNCHANGED <<phase, published, subscribers, buffered, got>>
    BY <1>6 DEF Pump
  <2>2. CASE UNCHANGED <<queue, outbox>>
    BY <1>1, <2>1, <2>2, FlowRests
  <2>3. CASE /\ queue[c] # <<>>
             /\ outbox' = [outbox EXCEPT ![c] = Append(@, Head(queue[c]))]
             /\ queue' = [queue EXCEPT ![c] = Tail(@)]
    <3>1. outbox'[c] = Append(outbox[c], Head(queue[c])) /\ queue'[c] = Tail(queue[c])
      BY <2>3 DEF StreamShape
    <3>2. \A l \in Nat : Flows(buffered[c], outbox[c], queue[c], got[c], l)
                           => Flows(buffered'[c], outbox'[c], queue'[c], got'[c], l)
      <4> SUFFICES ASSUME NEW l \in Nat, Flows(buffered[c], outbox[c], queue[c], got[c], l)
                   PROVE  Flows(buffered'[c], outbox'[c], queue'[c], got'[c], l)
        OBVIOUS
      <4>1. Flows(buffered[c], Append(outbox[c], Head(queue[c])), Tail(queue[c]), got[c], l)
        BY <1>1, <2>3, PumpFlows
      <4> QED BY <2>1, <3>1, <4>1
    <3> QED BY <2>1, <3>2, FlowMoves
  <2> QED BY <1>6, <2>2, <2>3 DEF Pump
<1>7. CASE Write(c)
  <2>1. UNCHANGED <<phase, published, subscribers, queue, got>> /\ outbox[c] # <<>>
    BY <1>7 DEF Write
  <2>2. CASE UNCHANGED <<buffered, outbox>>
    BY <1>1, <2>1, <2>2, FlowRests
  <2>3. CASE /\ buffered' = [buffered EXCEPT ![c] = Append(@, Head(outbox[c]))]
             /\ outbox' = [outbox EXCEPT ![c] = Tail(@)]
    <3>1. buffered'[c] = Append(buffered[c], Head(outbox[c])) /\ outbox'[c] = Tail(outbox[c])
      BY <2>3 DEF StreamShape
    <3>2. \A l \in Nat : Flows(buffered[c], outbox[c], queue[c], got[c], l)
                           => Flows(buffered'[c], outbox'[c], queue'[c], got'[c], l)
      BY <1>1, <2>1, <3>1, WriteFlows
    <3> QED BY <2>1, <3>2, FlowMoves
  <2> QED BY <1>7, <2>2, <2>3 DEF Write
<1> QED BY <1>2, <1>3, <1>5, <1>6, <1>7 DEF ConnectionStep

\* One connection's steps leave the streams of the others alone.
LEMMA OthersFlow ==
    ASSUME HubShape, StreamShape, NEW c \in Clients, NEW d \in Clients, c # d,
           ConnectionStep(c) \/ ClientStep(c), FlowTo(d)
    PROVE  FlowTo(d)'
<1>1. /\ buffered'[d] = buffered[d] /\ outbox'[d] = outbox[d] /\ queue'[d] = queue[d]
      /\ got'[d] = got[d] /\ published' = published
  BY DEF ConnectionStep, ClientStep, StreamShape, Accept, Refuse, Authenticate, Subscribe, Pump,
         Write, WriterDone, Serve, HangsUp, Close, ClientReads, ClientAsks, ClientCloses
<1>2. phase'[d] = phase[d] /\ (d \in subscribers' => d \in subscribers)
  BY DEF ConnectionStep, ClientStep, HubShape, Accept, Refuse, Authenticate, Subscribe, Pump,
         Write, WriterDone, Serve, HangsUp, Close, ClientReads, ClientAsks, ClientCloses,
         Enters
<1>3. published \in Nat
  BY StreamNumbers
<1> QED BY <1>1, <1>2, <1>3, FlowRests

LEMMA FlowStep == ASSUME FlowInv, [HubNext]_hubVars PROVE FlowInv'
<1>1. HubShape' /\ StreamShape'
  BY ShapeStep, StreamShapeStep DEF FlowInv
<1>2. ASSUME NEW d \in Clients PROVE FlowTo(d)'
  <2>0. HubShape /\ StreamShape /\ FlowTo(d)
    BY DEF FlowInv
  <2>1. CASE UNCHANGED hubVars
    BY <2>0, <2>1 DEF hubVars, FlowTo
  <2>2. CASE Publish
    BY <2>0, <2>2, PublishFlow
  <2>3. ASSUME NEW c \in Clients, ConnectionStep(c) \/ ClientStep(c), c # d PROVE FlowTo(d)'
    BY <2>0, <2>3, OthersFlow
  <2>4. CASE ConnectionStep(d)
    BY <2>0, <2>4, ConnectionFlow
  <2>5. CASE ClientReads(d)
    BY <2>0, <2>5, ReadFlow
  <2>6. CASE ClientAsks(d) \/ ClientCloses(d)
    BY <2>0, <2>6 DEF ClientAsks, ClientCloses, FlowTo
  <2> QED BY <2>1, <2>2, <2>3, <2>4, <2>5, <2>6 DEF HubNext, ClientStep
<1> QED BY <1>1, <1>2 DEF FlowInv

LEMMA FlowStarts == ASSUME HubInit PROVE FlowInv
<1>1. EventsOf(<<>>) = {} /\ Ascending(<<>>) /\ (0 + 1)..0 = {} /\ 0 \in 0..0
  BY DEF EventsOf, Ascending
<1>2. Flows(<<>>, <<>>, <<>>, 0, 0)
  BY <1>1 DEF Flows, Before
<1>3. ASSUME NEW c \in Clients PROVE FlowTo(c)
  <2>1. buffered[c] = <<>> /\ outbox[c] = <<>> /\ queue[c] = <<>> /\ got[c] = 0
          /\ published = 0 /\ subscribers = {}
    BY DEF HubInit
  <2> QED BY <1>1, <1>2, <2>1 DEF FlowTo
<1> QED BY <1>3, HubShapeStarts DEF FlowInv

\* A client's events come in order and without a gap from where it subscribed, up
\* to the last published while it is subscribed (hub.rs:105-128), through any
\* number of connections, buffers of any size and whoever falls behind or leaves.
THEOREM StreamsAreWhole == HubSpec => []NoGaps
<1>1. HubInit => FlowInv
  BY FlowStarts
<1>2. FlowInv /\ [HubNext]_hubVars => FlowInv'
  BY FlowStep
<1>3. FlowInv => NoGaps
  <2> SUFFICES ASSUME FlowInv, NEW c \in Clients
               PROVE  /\ Ascending(Stream(c))
                      /\ \E last \in 0..published :
                            /\ EventsOf(Stream(c)) = (got[c] + 1)..last
                            /\ c \in subscribers => last = published
    BY DEF NoGaps
  <2>1. PICK last \in got[c]..published :
            /\ Flows(buffered[c], outbox[c], queue[c], got[c], last)
            /\ c \in subscribers => last = published
    BY DEF FlowInv, FlowTo
  <2>2. /\ buffered[c] \in Seq(Nat) /\ outbox[c] \in Seq(Nat) /\ queue[c] \in Seq(Nat)
        /\ got[c] \in Nat /\ published \in Nat
    BY StreamNumbers DEF FlowInv
  <2>3. last \in Nat /\ last \in 0..published
    BY <2>2
  <2>4. Ascending(Stream(c)) /\ EventsOf(Stream(c)) = (got[c] + 1)..last
    BY <2>1, <2>2, <2>3, FlowsJoined DEF Stream
  <2> QED BY <2>1, <2>3, <2>4
<1> QED BY <1>1, <1>2, <1>3, PTL DEF HubSpec
-----------------------------------------------------------------------------
(* The hub implements the feed. *)

\* The last event handed to a client is where its stream ends.
LEMMA StreamEnds ==
    ASSUME NEW b \in Seq(Nat), NEW o \in Seq(Nat), NEW q \in Seq(Nat), NEW g \in Nat,
           NEW l \in Nat, g <= l, Flows(b, o, q, g, l)
    PROVE  Newest(EventsOf(b \o o \o q) \cup {g}) = l
<1>1. EventsOf(b \o o \o q) \cup {g} = ((g + 1)..l) \cup {g}
  BY FlowsJoined
<1>2. ((g + 1)..l) \cup {g} = g..l
  OBVIOUS
<1>3. Newest(g..l) = l
  <2>1. l \in g..l /\ \A f \in g..l : f <= l
    OBVIOUS
  <2>2. \A e \in g..l : l <= e => e = l
    OBVIOUS
  <2> QED BY <2>1, <2>2, Zenon DEF Newest
<1> QED BY <1>1, <1>2, <1>3

LEMMA LastIs ==
    ASSUME StreamShape, NEW c \in Clients, NEW l \in got[c]..published,
           Flows(buffered[c], outbox[c], queue[c], got[c], l)
    PROVE  LastOf(c) = l
<1>1. /\ buffered[c] \in Seq(Nat) /\ outbox[c] \in Seq(Nat) /\ queue[c] \in Seq(Nat)
      /\ got[c] \in Nat /\ published \in Nat
  BY StreamNumbers
<1>2. l \in Nat /\ got[c] <= l
  BY <1>1
<1>3. Newest(EventsOf(buffered[c] \o outbox[c] \o queue[c]) \cup {got[c]}) = l
  <2>1. PICK b, o, q, g : b = buffered[c] /\ o = outbox[c] /\ q = queue[c] /\ g = got[c]
    OBVIOUS
  <2>2. b \in Seq(Nat) /\ o \in Seq(Nat) /\ q \in Seq(Nat) /\ g \in Nat /\ g <= l
    BY <1>1, <1>2, <2>1
  <2>3. Flows(b, o, q, g, l)
    BY <2>1
  <2>4. Newest(EventsOf(b \o o \o q) \cup {g}) = l
    BY ONLY <1>2, <2>2, <2>3, StreamEnds
  <2> QED BY <2>1, <2>4
<1> QED BY <1>3, Zenon DEF LastOf, Stream

LEMMA LastWillBe ==
    ASSUME StreamShape', NEW c \in Clients, NEW l \in got'[c]..published',
           Flows(buffered'[c], outbox'[c], queue'[c], got'[c], l)
    PROVE  LastOf(c)' = l
<1>1. /\ buffered'[c] \in Seq(Nat) /\ outbox'[c] \in Seq(Nat) /\ queue'[c] \in Seq(Nat)
      /\ got'[c] \in Nat /\ published' \in Nat
  BY LettersAreNumbers DEF StreamShape, Letters
<1>2. l \in Nat /\ got'[c] <= l
  BY <1>1
<1>3. Newest(EventsOf(buffered'[c] \o outbox'[c] \o queue'[c]) \cup {got'[c]}) = l
  <2>1. PICK b, o, q, g : b = buffered'[c] /\ o = outbox'[c] /\ q = queue'[c] /\ g = got'[c]
    OBVIOUS
  <2>2. b \in Seq(Nat) /\ o \in Seq(Nat) /\ q \in Seq(Nat) /\ g \in Nat /\ g <= l
    BY <1>1, <1>2, <2>1
  <2>3. Flows(b, o, q, g, l)
    BY <2>1
  <2>4. Newest(EventsOf(b \o o \o q) \cup {g}) = l
    BY ONLY <1>2, <2>2, <2>3, StreamEnds
  <2> QED BY <2>1, <2>4
<1> QED BY <1>3, Zenon DEF LastOf, Stream

\* The same events on their way, or one of them read.
Handed(c)  == EventsOf(buffered[c]) \cup EventsOf(outbox[c]) \cup EventsOf(queue[c])
Keeps(c)   == Handed(c)' = Handed(c) /\ got'[c] = got[c]

LEMMA LastStays ==
    ASSUME FlowInv, FlowInv', NEW c \in Clients, Keeps(c) PROVE LastOf(c)' = LastOf(c)
<1>1. PICK l \in got[c]..published : Flows(buffered[c], outbox[c], queue[c], got[c], l)
  BY DEF FlowInv, FlowTo
<1>2. PICK m \in got'[c]..published' : Flows(buffered'[c], outbox'[c], queue'[c], got'[c], m)
  BY DEF FlowInv, FlowTo
<1>3. (got[c] + 1)..l = (got[c] + 1)..m
  BY <1>1, <1>2 DEF Flows, Keeps, Handed
<1>4. got[c] \in Nat /\ l \in Nat /\ m \in Nat /\ got[c] <= l /\ got[c] <= m
  <2>1. got[c] \in Nat /\ published \in Nat
    BY StreamNumbers DEF FlowInv
  <2>2. published' \in Nat
    BY DEF FlowInv, StreamShape
  <2> QED BY <1>1, <1>2, <2>1, <2>2 DEF Keeps
<1>5. l = m
  <2>1. CASE l < m
    <3>1. m \in (got[c] + 1)..m /\ m \notin (got[c] + 1)..l
      BY <1>4, <2>1
    <3> QED BY <1>3, <3>1
  <2>2. CASE m < l
    <3>1. l \in (got[c] + 1)..l /\ l \notin (got[c] + 1)..m
      BY <1>4, <2>2
    <3> QED BY <1>3, <3>1
  <2> QED BY <1>4, <2>1, <2>2
<1>6. LastOf(c) = l
  BY <1>1, LastIs DEF FlowInv
<1>7. LastOf(c)' = m
  BY <1>2, LastWillBe DEF FlowInv
<1> QED BY <1>5, <1>6, <1>7

\* Whoever is subscribed has been handed all there is, and nobody has been handed
\* less than it read.
LEMMA LastOfFollower ==
    ASSUME FlowInv, NEW c \in Clients
    PROVE  LastOf(c) \in got[c]..published /\ (c \in subscribers => LastOf(c) = published)
<1>1. PICK l \in got[c]..published :
          /\ Flows(buffered[c], outbox[c], queue[c], got[c], l)
          /\ c \in subscribers => l = published
  BY DEF FlowInv, FlowTo
<1> QED BY <1>1, LastIs DEF FlowInv

LEMMA LastOfFollowerNext ==
    ASSUME FlowInv', NEW c \in Clients
    PROVE  c \in subscribers' => LastOf(c)' = published'
<1>1. PICK l \in got'[c]..published' :
          /\ Flows(buffered'[c], outbox'[c], queue'[c], got'[c], l)
          /\ c \in subscribers' => l = published'
  BY DEF FlowInv, FlowTo
<1> QED BY <1>1, LastWillBe DEF FlowInv

\* Who stands before the feed, and what each client has been handed.
Outside == {c \in Clients : phase[c] \in Early}
Dues    == [c \in Clients |-> LastOf(c)]

Unmoved == UNCHANGED <<published, subscribers, got>> /\ \A c \in Clients : LastOf(c)' = LastOf(c)

LEMMA DuesStay == ASSUME \A c \in Clients : LastOf(c)' = LastOf(c) PROVE Dues' = Dues
BY Zenon DEF Dues

LEMMA OutsideStays ==
    ASSUME \A c \in Clients : (phase'[c] \in Early) = (phase[c] \in Early)
    PROVE  Outside' = Outside
BY Zenon DEF Outside

\* The steps of a connection but its subscription: events stay where they are or
\* move on among the buffers.
LEMMA ConnectionKeeps ==
    ASSUME FlowInv, NEW c \in Clients, ConnectionStep(c), ~Subscribe(c), NEW d \in Clients
    PROVE  Keeps(d)
<1>1. /\ buffered[c] \in Seq(Nat) /\ outbox[c] \in Seq(Nat) /\ queue[c] \in Seq(Nat)
  BY StreamNumbers DEF FlowInv
<1>2. StreamShape
  BY DEF FlowInv
<1>3. got' = got
  BY DEF ConnectionStep, Accept, Refuse, Authenticate, Pump, Write, WriterDone, Serve, HangsUp,
         Close
<1>4. CASE d # c
  <2>1. buffered'[d] = buffered[d] /\ outbox'[d] = outbox[d] /\ queue'[d] = queue[d]
    BY <1>2, <1>4 DEF ConnectionStep, StreamShape, Accept, Refuse, Authenticate, Pump, Write,
       WriterDone, Serve, HangsUp, Close
  <2> QED BY <1>3, <2>1 DEF Keeps, Handed
<1>5. CASE d = c
  <2>1. CASE UNCHANGED <<buffered, outbox, queue>>
    BY <1>3, <2>1 DEF Keeps, Handed
  <2>2. CASE outbox' = [outbox EXCEPT ![c] = Append(@, Answer)] /\ UNCHANGED <<buffered, queue>>
    <3>1. outbox'[c] = Append(outbox[c], Answer) /\ Answer \in Nat
      BY <1>2, <2>2 DEF StreamShape, Answer
    <3>2. EventsOf(outbox'[c]) = EventsOf(outbox[c]) \cup ({Answer} \ {Answer})
      BY <1>1, <3>1, EventsAppend
    <3> QED BY <1>3, <1>5, <2>2, <3>2 DEF Keeps, Handed
  <2>3. CASE /\ queue[c] # <<>> /\ outbox' = [outbox EXCEPT ![c] = Append(@, Head(queue[c]))]
             /\ queue' = [queue EXCEPT ![c] = Tail(@)] /\ UNCHANGED buffered
    <3>1. outbox'[c] = Append(outbox[c], Head(queue[c])) /\ queue'[c] = Tail(queue[c])
      BY <1>2, <2>3 DEF StreamShape
    <3>2. /\ EventsOf(queue[c]) = ({Head(queue[c])} \ {Answer}) \cup EventsOf(Tail(queue[c]))
          /\ Head(queue[c]) \in Nat
      BY <1>1, <2>3, EventsTail
    <3>3. EventsOf(outbox'[c]) = EventsOf(outbox[c]) \cup ({Head(queue[c])} \ {Answer})
      BY <1>1, <3>1, <3>2, EventsAppend
    <3>4. Handed(c)' = Handed(c)
      BY <2>3, <3>1, <3>2, <3>3 DEF Handed
    <3> QED BY <1>3, <1>5, <3>4 DEF Keeps
  <2>4. CASE /\ outbox[c] # <<>> /\ buffered' = [buffered EXCEPT ![c] = Append(@, Head(outbox[c]))]
             /\ outbox' = [outbox EXCEPT ![c] = Tail(@)] /\ UNCHANGED queue
    <3>1. buffered'[c] = Append(buffered[c], Head(outbox[c])) /\ outbox'[c] = Tail(outbox[c])
      BY <1>2, <2>4 DEF StreamShape
    <3>2. /\ EventsOf(outbox[c]) = ({Head(outbox[c])} \ {Answer}) \cup EventsOf(Tail(outbox[c]))
          /\ Head(outbox[c]) \in Nat
      BY <1>1, <2>4, EventsTail
    <3>3. EventsOf(buffered'[c]) = EventsOf(buffered[c]) \cup ({Head(outbox[c])} \ {Answer})
      BY <1>1, <3>1, <3>2, EventsAppend
    <3>4. Handed(c)' = Handed(c)
      BY <2>4, <3>1, <3>2, <3>3 DEF Handed
    <3> QED BY <1>3, <1>5, <3>4 DEF Keeps
  <2>5. \/ UNCHANGED <<buffered, outbox, queue>>
        \/ outbox' = [outbox EXCEPT ![c] = Append(@, Answer)] /\ UNCHANGED <<buffered, queue>>
        \/ /\ queue[c] # <<>> /\ outbox' = [outbox EXCEPT ![c] = Append(@, Head(queue[c]))]
           /\ queue' = [queue EXCEPT ![c] = Tail(@)] /\ UNCHANGED buffered
        \/ /\ outbox[c] # <<>> /\ buffered' = [buffered EXCEPT ![c] = Append(@, Head(outbox[c]))]
           /\ outbox' = [outbox EXCEPT ![c] = Tail(@)] /\ UNCHANGED queue
    BY DEF ConnectionStep, Accept, Refuse, Authenticate, Pump, Write, WriterDone, Serve, HangsUp,
           Close
  <2> QED BY <2>1, <2>2, <2>3, <2>4, <2>5
<1> QED BY <1>4, <1>5

\* A step of a connection moves it past the door, if anything.
LEMMA ConnectionDoor ==
    ASSUME HubShape, NEW c \in Clients, ConnectionStep(c)
    PROVE  /\ \A d \in Clients \ {c} : phase'[d] = phase[d]
           /\ phase'[c] \in Early => phase[c] \in Early
           /\ published' = published
<1> USE DEF HubShape, Enters, InPhase, Early
<1>1. CASE Accept(c) \/ Refuse(c) \/ Authenticate(c) \/ Subscribe(c)
  BY <1>1 DEF Accept, Refuse, Authenticate, Subscribe
<1>2. CASE Pump(c) \/ Write(c) \/ WriterDone(c) \/ Serve(c) \/ HangsUp(c) \/ Close(c)
  BY <1>2 DEF Pump, Write, WriterDone, Serve, HangsUp, Close
<1> QED BY <1>1, <1>2 DEF ConnectionStep

LEMMA FeedConnection ==
    ASSUME FlowInv, FlowInv', NEW c \in Clients, ConnectionStep(c)
    PROVE  \/ Feed!Join(c) \/ Feed!TurnAway(c) \/ Feed!Leave(c)
           \/ UNCHANGED Feed!feedVars
<1>1. HubShape /\ StreamShape
  BY DEF FlowInv
<1>2. /\ \A d \in Clients \ {c} : phase'[d] = phase[d]
      /\ phase'[c] \in Early => phase[c] \in Early
      /\ published' = published
  BY <1>1, ConnectionDoor
<1>3. CASE Subscribe(c)
  <2>1. /\ subscribers' = subscribers \cup {c} /\ got' = [got EXCEPT ![c] = published]
        /\ phase[c] = "attaching" /\ phase'[c] = "serving"
        /\ UNCHANGED <<buffered, outbox, queue>>
    BY <1>1, <1>3 DEF Subscribe, InPhase, Enters, HubShape
  <2>2. c \in Outside /\ Outside' = Outside \ {c}
    <3>1. phase[c] \in Early /\ phase'[c] \notin Early
      BY <2>1 DEF Early
    <3> QED BY <1>2, <3>1 DEF Outside
  <2>3. \A d \in Clients \ {c} : LastOf(d)' = LastOf(d)
    <3> SUFFICES ASSUME NEW d \in Clients \ {c} PROVE LastOf(d)' = LastOf(d)
      OBVIOUS
    <3>1. Keeps(d)
      BY <1>1, <2>1 DEF Keeps, Handed, StreamShape
    <3> QED BY <3>1, LastStays
  <2>4. LastOf(c)' = published
    BY <1>2, <2>1, LastOfFollowerNext
  <2>5. Dues' = [Dues EXCEPT ![c] = published]
    BY <2>3, <2>4, Zenon DEF Dues
  <2> QED BY <1>2, <2>1, <2>2, <2>5 DEF Feed!Join, Outside, Dues, Early
<1>4. CASE ~Subscribe(c)
  <2>1. \A d \in Clients : LastOf(d)' = LastOf(d)
    BY <1>4, ConnectionKeeps, LastStays
  <2>2. got' = got
    BY <1>4 DEF ConnectionStep, Accept, Refuse, Authenticate, Pump, Write, WriterDone, Serve,
                HangsUp, Close
  <2>3. Dues' = Dues
    BY <2>1, DuesStay
  <2>4. subscribers' = subscribers \/ (subscribers' = subscribers \ {c} /\ phase[c] \notin Early)
    BY <1>4 DEF ConnectionStep, Accept, Refuse, Authenticate, Pump, Write, WriterDone, Serve,
                HangsUp, Close, InPhase, Early
  <2>5. CASE phase[c] \in Early /\ phase'[c] \notin Early
    <3>1. c \in Outside /\ Outside' = Outside \ {c} /\ subscribers' = subscribers
      BY <1>2, <2>4, <2>5 DEF Outside
    <3> QED BY <1>2, <2>2, <2>3, <3>1 DEF Feed!TurnAway, Outside, Dues, Early
  <2>6. CASE ~(phase[c] \in Early /\ phase'[c] \notin Early)
    <3>1. Outside' = Outside
      BY <1>2, <2>6 DEF Outside
    <3>2. CASE subscribers' = subscribers
      BY <1>2, <2>2, <2>3, <3>1, <3>2 DEF Feed!feedVars, Outside, Dues, Early
    <3>3. CASE subscribers' = subscribers \ {c} /\ c \in subscribers
      BY <1>2, <2>2, <2>3, <3>1, <3>3 DEF Feed!Leave, Outside, Dues, Early
    <3> QED BY <2>4, <3>2, <3>3
  <2> QED BY <2>5, <2>6
<1> QED BY <1>3, <1>4

LEMMA FeedPublish ==
    ASSUME FlowInv, FlowInv', Publish PROVE Feed!Emit
<1>1. /\ published' = published + 1 /\ subscribers' \subseteq subscribers
      /\ UNCHANGED <<phase, got, buffered, outbox>>
  BY DEF Publish
<1>2. ASSUME NEW c \in Clients, c \notin subscribers' PROVE LastOf(c)' = LastOf(c)
  <2>1. queue'[c] = queue[c]
    BY <1>2 DEF Publish
  <2> QED BY <1>1, <2>1, LastStays DEF Keeps, Handed
<1>3. \A c \in Clients : c \in subscribers' => LastOf(c)' = published'
  BY LastOfFollowerNext
<1>4. Dues' = [c \in Clients |-> IF c \in subscribers' THEN published' ELSE Dues[c]]
  BY <1>2, <1>3 DEF Dues
<1>5. Outside' = Outside
  BY <1>1 DEF Outside
<1> QED BY <1>1, <1>4, <1>5 DEF Feed!Emit, Dues, Outside, Early

\* What the client reads is the next event, or an answer.
LEMMA FeedReads ==
    ASSUME FlowInv, FlowInv', NEW c \in Clients, ClientReads(c)
    PROVE  Feed!Read(c) \/ UNCHANGED Feed!feedVars
<1>1. HubShape /\ StreamShape /\ StreamShape'
  BY DEF FlowInv
<1>2. /\ UNCHANGED <<outbox, queue, phase, published, subscribers>> /\ buffered[c] # <<>>
      /\ buffered' = [buffered EXCEPT ![c] = Tail(@)]
      /\ got' = [got EXCEPT ![c] = IF Head(buffered[c]) = Answer THEN @ ELSE Head(buffered[c])]
  BY DEF ClientReads
<1>3. /\ buffered[c] \in Seq(Nat) /\ outbox[c] \in Seq(Nat) /\ queue[c] \in Seq(Nat)
      /\ got[c] \in Nat /\ published \in Nat
  BY <1>1, StreamNumbers
<1>4. buffered'[c] = Tail(buffered[c]) /\ \A d \in Clients \ {c} : buffered'[d] = buffered[d]
  BY <1>1, <1>2 DEF StreamShape
<1>5. \A d \in Clients \ {c} : LastOf(d)' = LastOf(d)
  <2> SUFFICES ASSUME NEW d \in Clients \ {c} PROVE LastOf(d)' = LastOf(d)
    OBVIOUS
  <2>1. got'[d] = got[d]
    BY <1>1, <1>2 DEF StreamShape
  <2>2. Keeps(d)
    BY <1>2, <1>4, <2>1 DEF Keeps, Handed
  <2> QED BY <2>2, LastStays
<1>6. Outside' = Outside
  BY <1>2 DEF Outside
<1>7. CASE Head(buffered[c]) = Answer
  <2>1. got' = got
    BY <1>1, <1>2, <1>7 DEF StreamShape
  <2>2. EventsOf(buffered'[c]) = EventsOf(buffered[c])
    <3>1. EventsOf(buffered[c]) = ({Head(buffered[c])} \ {Answer}) \cup EventsOf(Tail(buffered[c]))
      BY <1>2, <1>3, EventsTail
    <3> QED BY <1>4, <1>7, <3>1
  <2>3. Keeps(c)
    BY <1>2, <2>1, <2>2 DEF Keeps, Handed
  <2>4. \A d \in Clients : LastOf(d)' = LastOf(d)
    BY <1>5, <2>3, LastStays
  <2>5. Dues' = Dues
    BY <2>4, DuesStay
  <2> QED BY <1>2, <1>6, <2>1, <2>5 DEF Feed!feedVars, Dues, Outside, Early
<1>8. CASE Head(buffered[c]) # Answer
  <2>1. PICK l \in got[c]..published : Flows(buffered[c], outbox[c], queue[c], got[c], l)
    BY DEF FlowInv, FlowTo
  <2>2. l \in Nat
    BY <1>3, <2>1
  <2>3. Head(buffered[c]) = got[c] + 1 /\ got[c] < l
          /\ Flows(Tail(buffered[c]), outbox[c], queue[c], Head(buffered[c]), l)
    BY <1>2, <1>3, <1>8, <2>1, <2>2, ReadFlows
  <2>4. got' = [got EXCEPT ![c] = @ + 1] /\ got'[c] = got[c] + 1
    BY <1>1, <1>2, <1>8, <2>3 DEF StreamShape
  <2>5. l \in got'[c]..published'
    BY <1>2, <1>3, <2>1, <2>2, <2>3, <2>4
  <2>6. Flows(buffered'[c], outbox'[c], queue'[c], got'[c], l)
    BY <1>2, <1>4, <2>3, <2>4
  <2>7. LastOf(c) = l /\ LastOf(c)' = l
    BY <1>1, <2>1, <2>5, <2>6, LastIs, LastWillBe
  <2>8. \A d \in Clients : LastOf(d)' = LastOf(d)
    BY <1>5, <2>7
  <2>9. Dues' = Dues /\ got[c] < Dues[c]
    BY <2>3, <2>7, <2>8, DuesStay DEF Dues
  <2> QED BY <1>2, <1>6, <2>4, <2>9 DEF Feed!Read, Dues, Outside, Early
<1> QED BY <1>7, <1>8

LEMMA FeedRests ==
    ASSUME FlowInv, FlowInv',
           UNCHANGED <<phase, published, subscribers, queue, outbox, buffered, got>>
    PROVE  UNCHANGED Feed!feedVars
<1>1. \A c \in Clients : LastOf(c)' = LastOf(c)
  BY LastStays DEF Keeps, Handed
<1>2. Dues' = Dues /\ Outside' = Outside
  BY <1>1, DuesStay DEF Outside
<1> QED BY <1>2 DEF Feed!feedVars, Dues, Outside, Early

LEMMA FeedStep ==
    ASSUME FlowInv, FlowInv', [HubNext]_hubVars
    PROVE  [Feed!FeedNext]_(Feed!feedVars)
<1>1. CASE UNCHANGED hubVars
  BY <1>1, FeedRests DEF hubVars
<1>2. CASE Publish
  BY <1>2, FeedPublish DEF Feed!FeedNext
<1>3. ASSUME NEW c \in Clients, ConnectionStep(c) PROVE [Feed!FeedNext]_(Feed!feedVars)
  BY <1>3, FeedConnection DEF Feed!FeedNext
<1>4. ASSUME NEW c \in Clients, ClientReads(c) PROVE [Feed!FeedNext]_(Feed!feedVars)
  BY <1>4, FeedReads DEF Feed!FeedNext
<1>5. ASSUME NEW c \in Clients, ClientAsks(c) \/ ClientCloses(c)
      PROVE  [Feed!FeedNext]_(Feed!feedVars)
  BY <1>5, FeedRests DEF ClientAsks, ClientCloses
<1> QED BY <1>1, <1>2, <1>3, <1>4, <1>5 DEF HubNext, ClientStep

\* The hub implements EventFeed (hub.rs:4-11): whatever fills up, blocks or ends, a
\* client joins once and then reads every event in its turn until it is dropped.
THEOREM HubIsAFeed == HubSpec => ImplementsEventFeed
<1>1. HubInit => Feed!FeedInit
  <2> SUFFICES ASSUME HubInit PROVE Feed!FeedInit
    OBVIOUS
  <2>1. FlowInv /\ published = 0 /\ got = [c \in Clients |-> 0] /\ subscribers = {}
          /\ phase = [c \in Clients |-> "absent"]
    BY FlowStarts DEF HubInit
  <2>2. \A c \in Clients : LastOf(c) = 0
    <3> SUFFICES ASSUME NEW c \in Clients PROVE LastOf(c) = 0
      OBVIOUS
    <3>1. LastOf(c) \in got[c]..published
      BY <2>1, LastOfFollower
    <3> QED BY <2>1, <3>1
  <2>3. [c \in Clients |-> LastOf(c)] = [c \in Clients |-> 0]
    BY <2>2, Zenon
  <2>4. {c \in Clients : phase[c] \in {"absent", "authenticating", "attaching"}} = Clients
    BY <2>1
  <2> QED BY <2>1, <2>3, <2>4 DEF Feed!FeedInit
<1>2. HubInit => FlowInv
  BY FlowStarts
<1>3. FlowInv /\ [HubNext]_hubVars => FlowInv'
  BY FlowStep
<1>4. FlowInv /\ FlowInv' /\ [HubNext]_hubVars => [Feed!FeedNext]_(Feed!feedVars)
  BY FeedStep
<1> QED BY <1>1, <1>2, <1>3, <1>4, PTL DEF HubSpec, ImplementsEventFeed, Feed!FeedSpec
-----------------------------------------------------------------------------
(* Both parts together. *)

HubKept == HubShape /\ StreamShape /\ CountInv

LEMMA HubKeptStarts == ASSUME HubInit PROVE HubKept
BY HubShapeStarts, CountStarts DEF HubKept

LEMMA HubKeptStep == ASSUME HubKept, [HubNext]_hubVars PROVE HubKept'
BY ShapeStep, StreamShapeStep, CountStep DEF HubKept

LEMMA HubKeptTyped == ASSUME HubKept PROVE HubTypeOK
<1>1. open \in Nat
  BY FS_CardinalityType DEF HubKept, CountInv
<1>2. \A c \in Clients : \A s \in {queue[c], outbox[c], buffered[c]} : s \in Seq(0..MaxEvents)
  BY DEF HubKept, StreamShape, Letters
<1> QED BY <1>1, <1>2 DEF HubKept, HubShape, StreamShape, HubTypeOK, Letters

LEMMA SessionKeptTyped == ASSUME SessionInv, DaemonShape PROVE SessionTypeOK
BY DEF SessionInv, SessionShape, DaemonShape, SessionTypeOK, Wire, Mail, Words, Post

\* The state of the daemon's connections is well typed, to its clients and to the
\* server, and the count of its connections never falls below zero.
THEOREM DaemonTyped == FairSpec => []DaemonTypeOK
<1> DEFINE Kept == HubKept /\ SessionInv /\ DaemonShape
<1>1. Init => Kept
  BY HubKeptStarts, SessionStarts, DaemonStarts DEF Init
<1>2. [Next]_mcVars => [HubNext]_hubVars /\ [SessionNext]_sessionVars
  BY DEF Next, mcVars
<1>3. Kept /\ [Next]_mcVars => Kept'
  BY <1>2, HubKeptStep, SessionStep, DaemonShapeStep
<1>4. Kept => DaemonTypeOK
  BY HubKeptTyped, SessionKeptTyped DEF DaemonTypeOK
<1> HIDE DEF Kept
<1> QED BY <1>1, <1>3, <1>4, PTL DEF FairSpec
-----------------------------------------------------------------------------
(* The room: what is said about it between the daemon and the server.  The  *)
(* messages a call or a rejoining sends pass the mailbox, the batch and     *)
(* then the queue or the connection, and whatever is dropped on the way is  *)
(* older than all that is kept.                                             *)

Rooms == {"join", "leave"}

\* Nothing in s is about the room; the last in s about the room is w.
Mute(s) == \A k \in DOMAIN s : s[k] \notin Rooms
Says(s, w) ==
    \A k \in DOMAIN s :
        s[k] \in Rooms /\ (\A j \in DOMAIN s : j > k => s[j] \notin Rooms) => s[k] = w

\* No rejection in s is the last verdict.
EndsWell(s) ==
    \A k \in DOMAIN s : s[k] = "rejected" => \E j \in DOMAIN s : j > k /\ s[j] = "accepted"

LEMMA NothingSaid ==
    ASSUME NEW w PROVE Mute(<<>>) /\ Says(<<>>, w) /\ EndsWell(<<>>) /\ ~Grants(<<>>)
BY DEF Mute, Says, EndsWell, Grants

LEMMA MuteSays == ASSUME NEW s, NEW w, Mute(s) PROVE Says(s, w)
BY DEF Mute, Says

LEMMA AppendParts ==
    ASSUME NEW S, NEW s \in Seq(S), NEW e \in S
    PROVE  /\ DOMAIN Append(s, e) = DOMAIN s \cup {Len(s) + 1}
           /\ \A k \in DOMAIN s : Append(s, e)[k] = s[k] /\ k \in Int /\ k < Len(s) + 1
           /\ Append(s, e)[Len(s) + 1] = e /\ Len(s) + 1 \in Int
OBVIOUS

LEMMA MuteAppend ==
    ASSUME NEW S, NEW s \in Seq(S), NEW e \in S
    PROVE  Mute(Append(s, e)) <=> Mute(s) /\ e \notin Rooms
BY AppendParts DEF Mute

LEMMA SaysAppend ==
    ASSUME NEW S, NEW s \in Seq(S), NEW e \in S, NEW w,
           e \in Rooms => e = w, e \notin Rooms => Says(s, w)
    PROVE  Says(Append(s, e), w)
<1> DEFINE t == Append(s, e)
<1> SUFFICES ASSUME NEW k \in DOMAIN t, t[k] \in Rooms,
                    \A j \in DOMAIN t : j > k => t[j] \notin Rooms
             PROVE  t[k] = w
  BY DEF Says
<1>1. /\ DOMAIN t = DOMAIN s \cup {Len(s) + 1}
      /\ \A j \in DOMAIN s : t[j] = s[j] /\ j \in Int /\ j < Len(s) + 1
      /\ t[Len(s) + 1] = e /\ Len(s) + 1 \in Int
  BY AppendParts
<1> HIDE DEF t
<1>2. CASE k = Len(s) + 1
  BY <1>1, <1>2
<1>3. CASE k \in DOMAIN s
  <2>1. e \notin Rooms
    BY <1>1, <1>3
  <2>2. \A j \in DOMAIN s : j > k => s[j] \notin Rooms
    BY <1>1
  <2> QED BY <1>1, <1>3, <2>1, <2>2 DEF Says
<1> QED BY <1>1, <1>2, <1>3

LEMMA TailParts ==
    ASSUME NEW S, NEW s \in Seq(S), s # <<>>
    PROVE  /\ \A k \in DOMAIN Tail(s) : k \in Int /\ k + 1 \in DOMAIN s /\ Tail(s)[k] = s[k + 1]
           /\ \A k \in DOMAIN s : k = 1 \/ (k - 1 \in DOMAIN Tail(s) /\ Tail(s)[k - 1] = s[k])
           /\ 1 \in DOMAIN s /\ Head(s) = s[1]
           /\ \A k \in DOMAIN s : k \in Int /\ k >= 1
OBVIOUS

LEMMA MuteTail ==
    ASSUME NEW S, NEW s \in Seq(S), s # <<>>
    PROVE  Mute(s) <=> Mute(Tail(s)) /\ Head(s) \notin Rooms
BY TailParts DEF Mute

LEMMA SaysTail ==
    ASSUME NEW S, NEW s \in Seq(S), s # <<>>, NEW w, Says(s, w)
    PROVE  /\ Says(Tail(s), w)
           /\ Mute(Tail(s)) /\ Head(s) \in Rooms => Head(s) = w
<1> DEFINE t == Tail(s)
<1>1. /\ \A k \in DOMAIN t : k \in Int /\ k + 1 \in DOMAIN s /\ t[k] = s[k + 1]
      /\ \A k \in DOMAIN s : k = 1 \/ (k - 1 \in DOMAIN t /\ t[k - 1] = s[k])
      /\ 1 \in DOMAIN s /\ Head(s) = s[1]
      /\ \A k \in DOMAIN s : k \in Int /\ k >= 1
  BY TailParts
<1> HIDE DEF t
<1>2. ASSUME NEW k \in DOMAIN t, t[k] \in Rooms,
             \A j \in DOMAIN t : j > k => t[j] \notin Rooms
      PROVE  t[k] = w
  <2>1. k + 1 \in DOMAIN s /\ s[k + 1] \in Rooms
    BY <1>1, <1>2
  <2>2. ASSUME NEW j \in DOMAIN s, j > k + 1 PROVE s[j] \notin Rooms
    <3>1. j # 1 /\ j - 1 > k /\ k >= 0
      BY <1>1, <2>1, <2>2
    <3> QED BY <1>1, <1>2, <3>1
  <2>3. s[k + 1] = w
    BY <2>1, <2>2 DEF Says
  <2> QED BY <1>1, <2>3
<1>3. ASSUME Mute(t), Head(s) \in Rooms PROVE Head(s) = w
  <2>1. ASSUME NEW j \in DOMAIN s, j > 1 PROVE s[j] \notin Rooms
    BY <1>1, <1>3, <2>1 DEF Mute
  <2> QED BY <1>1, <1>3, <2>1 DEF Says
<1>4. Says(t, w)
  BY <1>2 DEF Says
<1> QED BY <1>3, <1>4 DEF t

LEMMA MuteConcat ==
    ASSUME NEW S, NEW s \in Seq(S), NEW t \in Seq(S), Mute(s), Mute(t) PROVE Mute(s \o t)
<1>1. ASSUME NEW k \in DOMAIN (s \o t) PROVE (s \o t)[k] \notin Rooms
  <2>1. (k \in DOMAIN s /\ (s \o t)[k] = s[k])
          \/ (k - Len(s) \in DOMAIN t /\ (s \o t)[k] = t[k - Len(s)])
    OBVIOUS
  <2> QED BY <2>1 DEF Mute
<1> QED BY <1>1 DEF Mute

\* The same of the verdicts.
LEMMA GrantsKept ==
    ASSUME NEW S, NEW s \in Seq(S), NEW e \in S
    PROVE  Grants(Append(s, e)) <=> Grants(s) \/ e = "accepted"
BY AppendParts DEF Grants

LEMMA GrantsLeft ==
    ASSUME NEW S, NEW s \in Seq(S), s # <<>>
    PROVE  Grants(s) <=> Head(s) = "accepted" \/ Grants(Tail(s))
<1> DEFINE t == Tail(s)
<1>1. /\ \A k \in DOMAIN t : k + 1 \in DOMAIN s /\ t[k] = s[k + 1]
      /\ \A k \in DOMAIN s : k = 1 \/ (k - 1 \in DOMAIN t /\ t[k - 1] = s[k])
      /\ 1 \in DOMAIN s /\ Head(s) = s[1]
  BY TailParts
<1> HIDE DEF t
<1>2. ASSUME Grants(s) PROVE Head(s) = "accepted" \/ Grants(t)
  <2>1. PICK k \in DOMAIN s : s[k] = "accepted"
    BY <1>2 DEF Grants
  <2> QED BY <1>1, <2>1 DEF Grants
<1>3. ASSUME Grants(t) PROVE Grants(s)
  <2>1. PICK k \in DOMAIN t : t[k] = "accepted"
    BY <1>3 DEF Grants
  <2> QED BY <1>1, <2>1 DEF Grants
<1>4. Head(s) = "accepted" => Grants(s)
  BY <1>1 DEF Grants
<1> QED BY <1>2, <1>3, <1>4 DEF t

LEMMA GrantsJoined ==
    ASSUME NEW S, NEW s \in Seq(S), NEW t \in Seq(S), Grants(t) PROVE Grants(s \o t)
<1>1. PICK k \in DOMAIN t : t[k] = "accepted"
  BY DEF Grants
<1>2. Len(s) + k \in DOMAIN (s \o t) /\ (s \o t)[Len(s) + k] = "accepted"
  BY <1>1
<1> QED BY <1>2 DEF Grants

LEMMA EndsAppend ==
    ASSUME NEW S, NEW s \in Seq(S), NEW e \in S, e = "accepted" \/ (e # "rejected" /\ EndsWell(s))
    PROVE  EndsWell(Append(s, e))
BY AppendParts DEF EndsWell

LEMMA EndsTail ==
    ASSUME NEW S, NEW s \in Seq(S), s # <<>>, EndsWell(s)
    PROVE  EndsWell(Tail(s)) /\ (Head(s) = "rejected" => Grants(Tail(s)))
<1> DEFINE t == Tail(s)
<1>1. /\ \A k \in DOMAIN t : k \in Int /\ k + 1 \in DOMAIN s /\ t[k] = s[k + 1]
      /\ \A k \in DOMAIN s : k = 1 \/ (k - 1 \in DOMAIN t /\ t[k - 1] = s[k])
      /\ 1 \in DOMAIN s /\ Head(s) = s[1]
      /\ \A k \in DOMAIN s : k \in Int /\ k >= 1
  BY TailParts
<1> HIDE DEF t
<1>2. ASSUME NEW k \in DOMAIN t, t[k] = "rejected"
      PROVE  \E j \in DOMAIN t : j > k /\ t[j] = "accepted"
  <2>1. PICK j \in DOMAIN s : j > k + 1 /\ s[j] = "accepted"
    BY <1>1, <1>2 DEF EndsWell
  <2>2. j # 1 /\ j - 1 > k
    BY <1>1, <1>2, <2>1
  <2> QED BY <1>1, <2>1, <2>2
<1>3. ASSUME Head(s) = "rejected" PROVE Grants(t)
  <2>1. PICK j \in DOMAIN s : j > 1 /\ s[j] = "accepted"
    BY <1>1, <1>3 DEF EndsWell
  <2> QED BY <1>1, <2>1 DEF Grants
<1>4. EndsWell(t)
  BY <1>2 DEF EndsWell
<1> QED BY <1>3, <1>4 DEF t

LEMMA EndsConcat ==
    ASSUME NEW S, NEW s \in Seq(S), NEW t \in Seq(S), EndsWell(s), EndsWell(t)
    PROVE  EndsWell(s \o t)
<1> DEFINE u == s \o t
<1>1. /\ \A k \in DOMAIN u : (k \in DOMAIN s /\ u[k] = s[k])
                               \/ (k - Len(s) \in DOMAIN t /\ u[k] = t[k - Len(s)])
      /\ \A k \in DOMAIN s : k \in DOMAIN u /\ u[k] = s[k]
      /\ \A k \in DOMAIN t : k + Len(s) \in DOMAIN u /\ u[k + Len(s)] = t[k]
      /\ DOMAIN u \subseteq Int /\ DOMAIN s \subseteq Int /\ DOMAIN t \subseteq Int /\ Len(s) \in Int
  OBVIOUS
<1> HIDE DEF u
<1>2. ASSUME NEW k \in DOMAIN u, u[k] = "rejected"
      PROVE  \E j \in DOMAIN u : j > k /\ u[j] = "accepted"
  <2>1. CASE k \in DOMAIN s /\ u[k] = s[k]
    <3>1. PICK j \in DOMAIN s : j > k /\ s[j] = "accepted"
      BY <1>2, <2>1 DEF EndsWell
    <3> QED BY <1>1, <3>1
  <2>2. CASE k - Len(s) \in DOMAIN t /\ u[k] = t[k - Len(s)]
    <3>1. PICK j \in DOMAIN t : j > k - Len(s) /\ t[j] = "accepted"
      BY <1>2, <2>2 DEF EndsWell
    <3>2. j + Len(s) \in DOMAIN u /\ u[j + Len(s)] = "accepted" /\ j + Len(s) > k
      BY <1>1, <3>1
    <3> QED BY <3>2
  <2> QED BY <1>1, <2>1, <2>2
<1>3. EndsWell(u)
  BY <1>2 DEF EndsWell
<1> QED BY <1>3 DEF u
\* The parts of a connection after one of them changes.
LEMMA SetSent ==
    ASSUME NEW v \in Wire, NEW s \in Mail, NEW u, u = [v EXCEPT !.sent = s]
    PROVE  /\ u \in Wire /\ u.up = v.up /\ u.sent = s /\ u.answers = v.answers
           /\ u.accepted = v.accepted /\ u.inRoom = v.inRoom
BY DEF Wire

LEMMA SetUp ==
    ASSUME NEW v \in Wire, NEW u, u = [v EXCEPT !.up = TRUE]
    PROVE  /\ u \in Wire /\ u.up /\ u.sent = v.sent /\ u.answers = v.answers
           /\ u.accepted = v.accepted /\ u.inRoom = v.inRoom
BY DEF Wire

LEMMA SetAnswers ==
    ASSUME NEW v \in Wire, NEW a \in Words, NEW u, u = [v EXCEPT !.answers = a]
    PROVE  /\ u \in Wire /\ u.up = v.up /\ u.sent = v.sent /\ u.answers = a
           /\ u.accepted = v.accepted /\ u.inRoom = v.inRoom
BY DEF Wire

LEMMA SetAccepted ==
    ASSUME NEW v \in Wire, NEW a \in Words, NEW u,
           u = [v EXCEPT !.answers = a, !.accepted = TRUE]
    PROVE  /\ u \in Wire /\ u.up = v.up /\ u.sent = v.sent /\ u.answers = a
           /\ u.accepted /\ u.inRoom = v.inRoom
BY DEF Wire

LEMMA NoWireParts ==
    /\ NoWire \in Wire /\ ~NoWire.up /\ NoWire.sent = <<>> /\ NoWire.answers = <<>>
    /\ ~NoWire.accepted /\ ~NoWire.inRoom
BY Emptied DEF NoWire

\* What the daemon wants of the server: what its client's call says, or the list.
RoomWord == IF call # "none" THEN call ELSE IF listed THEN "join" ELSE "leave"

\* What other threads send through the dispatcher is no verdict and of no room.
Asides == Seq({"login", "ask"})

LEMMA AsidesQuiet ==
    ASSUME NEW s \in Asides
    PROVE  s \in Seq(Said) /\ Mute(s) /\ EndsWell(s) /\ ~Grants(s)
BY DEF Asides, Said, Requests, Mute, EndsWell, Grants, Rooms

LEMMA WordsMute == ASSUME NEW s \in Words PROVE s \in Seq(Said) /\ Mute(s)
BY DEF Words, Verdicts, Said, Mute, Rooms

\* Where messages can be at all, and what the last verdict is of a connection
\* whose login was accepted.
Lines ==
    /\ dispatched \in Asides
    /\ conn = "connected" => queued = <<>>
    /\ conn # "connected" => ~wire.accepted /\ wire.sent = <<>> /\ wire.answers = <<>>
    /\ wire.inRoom => wire.accepted
    /\ ~wire.up => wire.sent = <<>>
    /\ wire.accepted =>
          EndsWell(wire.answers) /\ (EndsWell(batch) \/ Grants(wire.answers))

\* The newest message about the room says what the daemon wants, wherever it has
\* got to, and the server, once it has read it, has us in no room not wanted.
Told(i, b, q, v, w) ==
    /\ Says(i, w)
    /\ Mute(i) =>
        /\ Says(b, w)
        /\ Mute(b) =>
            /\ Says(q, w) /\ Says(v.sent, w)
            /\ Mute(v.sent) /\ v.inRoom /\ v.up => w = "join"

ToldInv == "torn" \notin excuses => Told(inbox, batch, queued, wire, RoomWord)

\* The copy of the list is the list until the rooms are rejoined.
CopyInv ==
    loop = "rejoining" /\ "torn" \notin excuses => call = "none" /\ snapshot = listed

\* The session lives by a login the server accepted on this connection.
LoggedIn ==
    /\ "late" \notin excuses /\ loss = "live" /\ conn = "connected"
    /\ wire.accepted /\ ~Grants(batch) /\ ~Grants(wire.answers)

\* Who still waits for that login is about to learn of it.
AboutToRejoin ==
    LoggedIn /\ loop = "calling" => waiter = "ok" \/ (waiter = "polling" /\ loggedIn = "yes")

\* When the rooms were rejoined the server has us in the room wanted, or a
\* message that says so is on its way.
Rejoined ==
    LoggedIn /\ wire.up /\ "torn" \notin excuses /\ loop \notin {"calling", "rejoining"}
        /\ RoomWord = "join"
      => wire.inRoom \/ ~Mute(inbox) \/ ~Mute(batch) \/ ~Mute(wire.sent)

RoomInv == Lines /\ ToldInv /\ CopyInv /\ AboutToRejoin /\ Rejoined

RoomKept == SessionInv /\ SessionKept /\ RoomInv

\* The types the steps below rely on.
LEMMA KeptTypes ==
    ASSUME RoomKept
    PROVE  /\ inbox \in Seq(Post) /\ batch \in Seq(Said) /\ queued \in Seq(Said)
           /\ dispatched \in Seq(Said) /\ dispatched \in Asides
           /\ wire \in Wire /\ wire.sent \in Mail /\ wire.answers \in Words
           /\ wire.up \in BOOLEAN /\ wire.accepted \in BOOLEAN /\ wire.inRoom \in BOOLEAN
BY DEF RoomKept, SessionInv, SessionShape, SessionKept, DaemonShape, RoomInv, Lines, Wire

\* The message m leaves the mail of the actor: the batch, or behind it the mailbox.
Passes(m) ==
    \/ /\ batch # <<>> /\ batch' = Tail(batch) /\ m = Head(batch) /\ inbox' = inbox
    \/ /\ batch = <<>> /\ batch' = <<>>
       /\ inbox # <<>> /\ inbox' = Tail(inbox) /\ m = Head(inbox)

LEMMA PassesOn ==
    ASSUME RoomKept, NEW m, Passes(m)
    PROVE  /\ \A w : Says(inbox, w) /\ (Mute(inbox) => Says(batch, w))
                => /\ Says(inbox', w) /\ (Mute(inbox') => Says(batch', w))
                   /\ Mute(inbox') /\ Mute(batch') /\ m \in Rooms => m = w
           /\ Mute(inbox') /\ Mute(batch') /\ m \notin Rooms => Mute(inbox) /\ Mute(batch)
           /\ Grants(batch') => Grants(batch)
           /\ m # "accepted" /\ Grants(batch) => Grants(batch')
           /\ EndsWell(batch) => EndsWell(batch')
<1>1. inbox \in Seq(Post) /\ batch \in Seq(Said)
  BY KeptTypes
<1>2. CASE batch # <<>> /\ batch' = Tail(batch) /\ m = Head(batch) /\ inbox' = inbox
  BY <1>1, <1>2, MuteTail, SaysTail, GrantsLeft, EndsTail
<1>3. CASE /\ batch = <<>> /\ batch' = <<>>
           /\ inbox # <<>> /\ inbox' = Tail(inbox) /\ m = Head(inbox)
  BY <1>1, <1>3, MuteTail, SaysTail, NothingSaid
<1> QED BY <1>2, <1>3 DEF Passes

\* The end of a connection: what was queued for it or sent is older than what
\* stays, and the server has us in no room.
LEMMA EndRooms ==
    ASSUME RoomKept, conn' = "disconnected", wire' = NoWire, queued' = <<>>, dispatched' = <<>>,
           UNCHANGED daemonVars, excuses \subseteq excuses',
           UNCHANGED <<inbox, batch>> \/ \E m : Passes(m)
    PROVE  RoomInv'
<1>1. <<>> \in Asides
  BY DEF Asides
<1>2. Lines' /\ ~LoggedIn'
  BY <1>1, NoWireParts DEF Lines, LoggedIn
<1>3. CopyInv'
  BY DEF CopyInv, daemonVars, RoomKept, RoomInv
<1>4. ToldInv'
  <2> SUFFICES ASSUME "torn" \notin excuses'
               PROVE  Told(inbox', batch', <<>>, NoWire, RoomWord)
    BY DEF ToldInv, RoomWord, daemonVars
  <2>1. Says(inbox, RoomWord) /\ (Mute(inbox) => Says(batch, RoomWord))
    BY DEF RoomKept, RoomInv, ToldInv, Told
  <2>2. Says(inbox', RoomWord) /\ (Mute(inbox') => Says(batch', RoomWord))
    BY <2>1, PassesOn
  <2> QED BY <2>2, NoWireParts, NothingSaid DEF Told
<1> QED BY <1>2, <1>3, <1>4 DEF RoomInv, AboutToRejoin, Rejoined

\* A message goes to the server, or vanishes in a connection that has broken.
LEMMA SendRooms ==
    ASSUME RoomKept, conn = "connected", NEW m \in Requests, Passes(m), Writes(m),
           UNCHANGED <<daemonVars, excuses>>
    PROVE  RoomInv'
<1>1. CASE Drops
  BY <1>1, EndRooms DEF Drops, Disconnects
<1>2. CASE /\ wire' = IF wire.up THEN [wire EXCEPT !.sent = Append(@, m)] ELSE wire
           /\ UNCHANGED <<conn, queued, dispatched, loggedIn, loss>>
  <2>1. /\ wire \in Wire /\ wire.sent \in Seq(Requests) /\ Append(wire.sent, m) \in Mail
        /\ m # "accepted"
    BY KeptTypes DEF Mail, Requests
  <2>2. /\ wire' \in Wire /\ wire'.up = wire.up /\ wire'.answers = wire.answers
        /\ wire'.accepted = wire.accepted /\ wire'.inRoom = wire.inRoom
        /\ wire'.sent = IF wire.up THEN Append(wire.sent, m) ELSE wire.sent
    <3>1. CASE wire.up
      <4> DEFINE s == Append(wire.sent, m)
      <4>1. wire \in Wire /\ s \in Mail /\ wire' = [wire EXCEPT !.sent = s]
        BY <1>2, <2>1, <3>1
      <4> HIDE DEF s
      <4>2. /\ wire' \in Wire /\ wire'.up = wire.up /\ wire'.sent = s
            /\ wire'.answers = wire.answers /\ wire'.accepted = wire.accepted
            /\ wire'.inRoom = wire.inRoom
        BY <4>1, SetSent
      <4> QED BY <3>1, <4>2 DEF s
    <3>2. CASE ~wire.up
      BY <1>2, <2>1, <3>2
    <3> QED BY <3>1, <3>2
  <2>3. Lines'
    BY <1>2, <2>2, PassesOn DEF Lines, RoomKept, RoomInv
  <2>4. LoggedIn' => LoggedIn
    BY <1>2, <2>1, <2>2, PassesOn DEF LoggedIn
  <2>5. ToldInv'
    <3> SUFFICES ASSUME "torn" \notin excuses
                 PROVE  Told(inbox', batch', queued, wire', RoomWord)
      BY <1>2 DEF ToldInv, RoomWord, daemonVars
    <3>1. /\ Says(inbox, RoomWord) /\ (Mute(inbox) => Says(batch, RoomWord))
          /\ Mute(inbox) /\ Mute(batch) =>
                /\ Says(wire.sent, RoomWord)
                /\ Mute(wire.sent) /\ wire.inRoom /\ wire.up => RoomWord = "join"
      BY DEF RoomKept, RoomInv, ToldInv, Told
    <3>2. Says(queued, RoomWord) /\ (~wire.up => wire.sent = <<>>)
      BY NothingSaid DEF RoomKept, RoomInv, Lines
    <3>3. /\ Says(inbox', RoomWord) /\ (Mute(inbox') => Says(batch', RoomWord))
          /\ Mute(inbox') /\ Mute(batch') /\ m \in Rooms => m = RoomWord
          /\ Mute(inbox') /\ Mute(batch') /\ m \notin Rooms => Mute(inbox) /\ Mute(batch)
      BY <3>1, PassesOn
    <3>4. Mute(inbox') /\ Mute(batch') => Says(wire'.sent, RoomWord)
      BY <2>1, <2>2, <3>1, <3>2, <3>3, SaysAppend, NothingSaid
    <3>5. Mute(inbox') /\ Mute(batch') /\ Mute(wire'.sent) /\ wire'.inRoom /\ wire'.up
            => RoomWord = "join"
      BY <2>1, <2>2, <3>1, <3>3, MuteAppend
    <3> QED BY <3>2, <3>3, <3>4, <3>5 DEF Told
  <2>6. Rejoined'
    <3>1. wire.up /\ Mute(inbox') /\ Mute(batch') /\ Mute(wire'.sent)
            => Mute(inbox) /\ Mute(batch) /\ Mute(wire.sent)
      BY <2>1, <2>2, PassesOn, MuteAppend
    <3> QED BY <2>2, <2>4, <3>1 DEF Rejoined, RoomKept, RoomInv, RoomWord, daemonVars
  <2>7. CopyInv' /\ AboutToRejoin'
    BY <1>2, <2>4 DEF CopyInv, AboutToRejoin, daemonVars, RoomKept, RoomInv
  <2> QED BY <2>3, <2>5, <2>6, <2>7 DEF RoomInv
<1> QED BY <1>1, <1>2 DEF Writes

\* A message waits for the next connection.
LEMMA QueueRooms ==
    ASSUME RoomKept, conn # "connected", NEW m \in Said, Passes(m),
           queued' = Append(queued, m), UNCHANGED <<conn, wire, dispatched, daemonVars>>,
           excuses \subseteq excuses'
    PROVE  RoomInv'
<1>1. queued \in Seq(Said)
  BY KeptTypes
<1>2. Lines' /\ ~LoggedIn' /\ ~wire.inRoom /\ wire.sent = <<>>
  BY DEF Lines, LoggedIn, RoomKept, RoomInv
<1>3. CopyInv'
  BY DEF CopyInv, daemonVars, RoomKept, RoomInv
<1>4. ToldInv'
  <2> SUFFICES ASSUME "torn" \notin excuses'
               PROVE  Told(inbox', batch', queued', wire, RoomWord)
    BY DEF ToldInv, RoomWord, daemonVars
  <2>1. /\ Says(inbox, RoomWord) /\ (Mute(inbox) => Says(batch, RoomWord))
        /\ Mute(inbox) /\ Mute(batch) => Says(queued, RoomWord)
    BY DEF RoomKept, RoomInv, ToldInv, Told
  <2>2. /\ Says(inbox', RoomWord) /\ (Mute(inbox') => Says(batch', RoomWord))
        /\ Mute(inbox') /\ Mute(batch') /\ m \in Rooms => m = RoomWord
        /\ Mute(inbox') /\ Mute(batch') /\ m \notin Rooms => Mute(inbox) /\ Mute(batch)
    BY <2>1, PassesOn
  <2>3. Mute(inbox') /\ Mute(batch') => Says(queued', RoomWord)
    BY <1>1, <2>1, <2>2, SaysAppend
  <2> QED BY <1>2, <2>2, <2>3, NothingSaid DEF Told
<1> QED BY <1>2, <1>3, <1>4 DEF RoomInv, AboutToRejoin, Rejoined
\* A login that is repeated is of a session that is lost, or it is late.
LEMMA LoginRooms == ASSUME RoomKept, HandleLogin PROVE RoomInv'
<1>1. /\ inbox \in Seq(Post) /\ inbox # <<>> /\ Head(inbox) = "relogin" /\ inbox' = Tail(inbox)
      /\ batch' = batch /\ batch = <<>> /\ loss' = loss /\ excuses' = excuses
      /\ UNCHANGED <<loop, listed, snapshot, call, calls>>
      /\ queued \in Seq(Said) /\ "login" \in Said /\ "login" \notin Rooms
  BY KeptTypes DEF HandleLogin, Free, Said, Requests, Rooms
<1>2. /\ wire \in Wire /\ wire' \in Wire
      /\ wire'.sent = wire.sent /\ wire'.answers = wire.answers
      /\ wire'.accepted = wire.accepted /\ wire'.inRoom = wire.inRoom
      /\ wire'.up = wire.up \/ (wire'.up /\ conn = "disconnected")
  BY KeptTypes, SetUp DEF HandleLogin
<1>3. ~LoggedIn'
  <2>1. Relogs(inbox)
    BY <1>1, RelogsTail
  <2> QED BY <1>1, <2>1 DEF LoggedIn, RoomKept, SessionKept, RetryInv
<1>4. /\ queued' \in {<<>>, queued, Append(queued, "login")}
      /\ dispatched' \in {dispatched, Append(dispatched, "login")}
      /\ conn' = "connected" => conn = "connected" /\ queued' = queued
      /\ conn' # "connected" => conn # "connected"
  BY DEF HandleLogin
<1>5. Lines'
  <2>1. dispatched \in Asides
    BY KeptTypes
  <2>2. dispatched' \in Asides
    BY <1>4, <2>1 DEF Asides
  <2> QED BY <1>1, <1>2, <1>4, <2>2 DEF Lines, RoomKept, RoomInv
<1>6. CopyInv'
  BY <1>1 DEF CopyInv, RoomKept, RoomInv
<1>7. ToldInv'
  <2> SUFFICES ASSUME "torn" \notin excuses
               PROVE  Told(inbox', batch, queued', wire', RoomWord)
    BY <1>1 DEF ToldInv, RoomWord
  <2>1. /\ Says(inbox, RoomWord) /\ (Mute(inbox) => Says(batch, RoomWord))
        /\ Mute(inbox) /\ Mute(batch) =>
              /\ Says(queued, RoomWord) /\ Says(wire.sent, RoomWord)
              /\ Mute(wire.sent) /\ wire.inRoom /\ wire.up => RoomWord = "join"
    BY DEF RoomKept, RoomInv, ToldInv, Told
  <2>2. Says(inbox', RoomWord) /\ (Mute(inbox') => Mute(inbox))
    <3>1. "relogin" \notin Rooms
      BY DEF Rooms
    <3> QED BY <1>1, <2>1, <3>1, SaysTail, MuteTail
  <2>3. Says(queued, RoomWord) => Says(queued', RoomWord)
    <3>1. Says(queued, RoomWord) => Says(Append(queued, "login"), RoomWord)
      BY <1>1, SaysAppend
    <3> QED BY <1>4, <3>1, NothingSaid
  <2>4. wire'.inRoom => wire'.up = wire.up
    BY <1>2 DEF RoomKept, RoomInv, Lines
  <2> QED BY <1>2, <2>1, <2>2, <2>3, <2>4 DEF Told
<1> QED BY <1>3, <1>5, <1>6, <1>7 DEF RoomInv, AboutToRejoin, Rejoined

LEMMA RequestRooms == ASSUME RoomKept, HandleRequest PROVE RoomInv'
<1>1. Head(inbox) \in Requests /\ Passes(Head(inbox)) /\ UNCHANGED <<daemonVars, excuses>>
  BY DEF HandleRequest, Passes, Free
<1>2. CASE conn = "connected"
  BY <1>1, <1>2, SendRooms DEF HandleRequest
<1>3. CASE conn # "connected"
  <2>1. Head(inbox) \in Said
    BY <1>1 DEF Said
  <2> QED BY <1>1, <1>3, <2>1, QueueRooms DEF HandleRequest
<1> QED BY <1>2, <1>3

\* What was queued for the connection goes before all that is to come.
LEMMA EstablishedRooms == ASSUME RoomKept, Established PROVE RoomInv'
<1>1. /\ batch = <<>> /\ inbox = <<>> /\ conn = "connecting"
      /\ batch' = queued /\ queued' = <<>> /\ dispatched' = <<>> /\ conn' = "connected"
      /\ UNCHANGED <<wire, inbox, loggedIn, loss, daemonVars, faults, excuses>>
  BY DEF Established, Ticks, Free
<1>2. /\ ~wire.accepted /\ ~wire.inRoom /\ wire.sent = <<>> /\ wire.answers = <<>>
  BY <1>1 DEF RoomKept, RoomInv, Lines
<1>3. Lines' /\ ~LoggedIn'
  <2>1. <<>> \in Asides
    BY DEF Asides
  <2> QED BY <1>1, <1>2, <2>1 DEF Lines, LoggedIn
<1>4. ToldInv'
  <2> SUFFICES ASSUME "torn" \notin excuses
               PROVE  Told(<<>>, queued, <<>>, wire, RoomWord)
    BY <1>1 DEF ToldInv, RoomWord, daemonVars
  <2>1. Says(queued, RoomWord)
    BY <1>1, NothingSaid DEF RoomKept, RoomInv, ToldInv, Told
  <2> QED BY <1>2, <2>1, NothingSaid DEF Told
<1>5. CopyInv'
  BY <1>1 DEF CopyInv, RoomKept, RoomInv, daemonVars
<1> QED BY <1>3, <1>4, <1>5 DEF RoomInv, AboutToRejoin, Rejoined

\* What is read of the connection says nothing of the room, and its last verdict
\* is the server's last.
LEMMA ReadRooms == ASSUME RoomKept, ProcessRead PROVE RoomInv'
<1>1. /\ batch = <<>> /\ inbox = <<>> /\ conn = "connected"
      /\ batch' = dispatched \o wire.answers /\ dispatched' = <<>>
      /\ wire' = [wire EXCEPT !.answers = <<>>]
      /\ UNCHANGED <<conn, inbox, queued, loggedIn, loss, daemonVars, faults, excuses>>
  BY DEF ProcessRead, Ticks, Free
<1>2. /\ dispatched \in Asides /\ dispatched \in Seq(Said)
      /\ wire.answers \in Words /\ wire.answers \in Seq(Said)
      /\ Mute(dispatched) /\ EndsWell(dispatched) /\ Mute(wire.answers)
  BY KeptTypes, AsidesQuiet, WordsMute
<1>3. /\ wire' \in Wire /\ wire'.up = wire.up /\ wire'.sent = wire.sent
      /\ wire'.answers = <<>> /\ wire'.accepted = wire.accepted /\ wire'.inRoom = wire.inRoom
  BY <1>1, KeptTypes, Emptied, SetAnswers
<1>4. /\ Mute(batch') /\ (Grants(wire.answers) => Grants(batch'))
      /\ EndsWell(wire.answers) => EndsWell(batch')
  BY <1>1, <1>2, MuteConcat, GrantsJoined, EndsConcat
<1>5. Lines'
  <2>1. <<>> \in Asides
    BY DEF Asides
  <2> QED BY <1>1, <1>3, <1>4, <2>1, NothingSaid DEF Lines, RoomKept, RoomInv
<1>6. LoggedIn' => LoggedIn
  BY <1>1, <1>3, <1>4, NothingSaid DEF LoggedIn
<1>7. ToldInv'
  <2> SUFFICES ASSUME "torn" \notin excuses
               PROVE  Told(inbox, batch', queued, wire', RoomWord)
    BY <1>1 DEF ToldInv, RoomWord, daemonVars
  <2>1. Says(batch', RoomWord)
    BY <1>4, MuteSays
  <2> QED BY <1>1, <1>3, <2>1, NothingSaid DEF Told, RoomKept, RoomInv, ToldInv
<1>8. CopyInv' /\ AboutToRejoin'
  BY <1>1, <1>6 DEF CopyInv, AboutToRejoin, RoomKept, RoomInv, daemonVars
<1>9. Rejoined'
  BY <1>1, <1>3, <1>6, NothingSaid DEF Rejoined, RoomKept, RoomInv, RoomWord, daemonVars
<1> QED BY <1>5, <1>7, <1>8, <1>9 DEF RoomInv

\* One message of the batch.
LEMMA BatchRooms == ASSUME RoomKept, HandleBatch PROVE RoomInv'
<1> DEFINE m == Head(batch)
<1>1. /\ batch # <<>> /\ batch' = Tail(batch) /\ inbox' = inbox /\ UNCHANGED daemonVars
      /\ batch \in Seq(Said) /\ Passes(m) /\ m \in Said
  BY KeptTypes DEF HandleBatch, Passes
<1>2. CASE /\ conn # "connected"
           /\ queued' = Append(queued, m)
           /\ Excuse("leftover", m \in Verdicts)
           /\ UNCHANGED <<conn, wire, dispatched, loggedIn, loss>>
  <2>1. excuses \subseteq excuses'
    BY <1>2 DEF Excuse
  <2> QED BY <1>1, <1>2, <2>1, QueueRooms
<1>3. CASE conn = "connected" /\ m \in Requests /\ Writes(m) /\ UNCHANGED excuses
  BY <1>1, <1>3, SendRooms
<1>4. ASSUME m \notin Rooms, UNCHANGED <<conn, wire, queued, dispatched>>, conn = "connected",
             excuses \subseteq excuses', AboutToRejoin', Rejoined'
      PROVE  RoomInv'
  <2>1. Lines'
    BY <1>1, <1>4, EndsTail, GrantsLeft DEF Lines, RoomKept, RoomInv
  <2>2. ToldInv'
    <3> SUFFICES ASSUME "torn" \notin excuses'
                 PROVE  Told(inbox, batch', queued, wire, RoomWord)
      BY <1>1, <1>4 DEF ToldInv, RoomWord, daemonVars
    <3>1. "torn" \notin excuses
      BY <1>4
    <3>2. /\ Says(inbox, RoomWord) /\ (Mute(inbox) => Says(batch, RoomWord))
          /\ Mute(inbox) /\ Mute(batch) =>
                /\ Says(queued, RoomWord) /\ Says(wire.sent, RoomWord)
                /\ Mute(wire.sent) /\ wire.inRoom /\ wire.up => RoomWord = "join"
      BY <3>1 DEF RoomKept, RoomInv, ToldInv, Told
    <3>3. (Says(batch, RoomWord) => Says(batch', RoomWord)) /\ (Mute(batch') => Mute(batch))
      BY <1>1, <1>4, SaysTail, MuteTail
    <3> QED BY <3>2, <3>3 DEF Told
  <2>3. CopyInv'
    BY <1>1, <1>4 DEF CopyInv, RoomKept, RoomInv, daemonVars
  <2> QED BY <1>4, <2>1, <2>2, <2>3 DEF RoomInv
\* The server's word is heard by who waits for it, or it comes late.
<1>5. CASE conn = "connected" /\ m = "accepted" /\ LoginAccepted
  <2>1. CASE /\ conn' = "disconnected" /\ wire' = NoWire
             /\ queued' = <<>> /\ dispatched' = <<>>
    <3>1. excuses \subseteq excuses'
      BY <1>5 DEF LoginAccepted
    <3> QED BY <1>1, <2>1, <3>1, EndRooms
  <2>2. CASE UNCHANGED <<conn, wire, queued, dispatched>>
    <3>1. excuses \subseteq excuses' /\ m \notin Rooms /\ loggedIn' = "yes"
      BY <1>5 DEF LoginAccepted, Rooms
    <3>2. LoggedIn' => waiter = "polling" /\ loop = "calling"
      BY <1>5 DEF LoginAccepted, LoggedIn, RoomKept, SessionKept, RetryInv
    <3>3. AboutToRejoin' /\ Rejoined'
      BY <1>1, <3>1, <3>2 DEF AboutToRejoin, Rejoined, daemonVars
    <3> QED BY <1>4, <1>5, <2>2, <3>1, <3>3
  <2> QED BY <1>5, <2>1, <2>2 DEF LoginAccepted
\* A rejection is never the last word of a connection that accepted the login.
<1>6. CASE /\ conn = "connected" /\ m = "rejected"
           /\ loggedIn' = "no"
           /\ UNCHANGED <<conn, wire, queued, dispatched, loss, excuses>>
  <2>1. ~LoggedIn'
    BY <1>1, <1>6, EndsTail DEF LoggedIn, RoomKept, RoomInv, Lines
  <2> QED BY <1>4, <1>6, <2>1 DEF AboutToRejoin, Rejoined, Rooms
<1>7. CASE conn = "connected" /\ m = "relogged" /\ Disconnects("displaced") /\ UNCHANGED excuses
  BY <1>1, <1>7, EndRooms DEF Disconnects
<1> QED BY <1>2, <1>3, <1>5, <1>6, <1>7 DEF HandleBatch
\* The server does what it is told about the room once the login is accepted.
LEMMA ServerRooms == ASSUME RoomKept, ServerReads PROVE RoomInv'
<1> DEFINE m == Head(wire.sent)
           w == [wire EXCEPT !.sent = Tail(@)]
<1>1. /\ wire.up /\ wire.sent # <<>> /\ wire \in Wire /\ wire.sent \in Seq(Requests)
      /\ UNCHANGED <<conn, inbox, queued, dispatched, batch, loggedIn, loss, daemonVars, excuses>>
  BY KeptTypes DEF ServerReads, Mail
<1>2. m \in Requests /\ Tail(wire.sent) \in Mail
  BY <1>1 DEF Mail
<1>3. /\ w \in Wire /\ w.up /\ w.sent = Tail(wire.sent) /\ w.answers = wire.answers
      /\ w.accepted = wire.accepted /\ w.inRoom = wire.inRoom
  BY <1>1, <1>2 DEF Wire
<1>4. /\ conn = "connected" /\ wire.answers \in Words /\ wire.accepted \in BOOLEAN
      /\ wire.inRoom \in BOOLEAN /\ (wire.inRoom => wire.accepted)
  BY <1>1, KeptTypes DEF RoomKept, RoomInv, Lines
\* What the server has of us after it read the message.
<1>5. /\ wire' \in Wire /\ wire'.up /\ wire'.sent = Tail(wire.sent)
      /\ \/ /\ m \in Rooms /\ wire.accepted /\ wire'.inRoom = (m = "join")
         \/ (m \in Rooms => ~wire.accepted) /\ wire'.inRoom = wire.inRoom
      /\ \/ /\ wire'.answers = wire.answers /\ wire'.accepted = wire.accepted
         \/ /\ wire'.answers = Append(wire.answers, "accepted") /\ wire'.accepted
         \/ /\ wire'.answers = Append(wire.answers, "rejected")
            /\ ~wire.accepted /\ ~wire'.accepted
  <2>1. Append(wire.answers, "accepted") \in Words /\ Append(wire.answers, "rejected") \in Words
    BY <1>4 DEF Words, Verdicts
  <2>2. CASE m = "login" /\ wire' = [w EXCEPT !.answers = Append(@, "accepted"), !.accepted = TRUE]
    <3>1. wire' = [w EXCEPT !.answers = Append(wire.answers, "accepted"), !.accepted = TRUE]
      BY <1>3, <2>2 DEF Wire
    <3> HIDE DEF w
    <3>2. /\ wire' \in Wire /\ wire'.up = w.up /\ wire'.sent = w.sent /\ wire'.accepted
          /\ wire'.answers = Append(wire.answers, "accepted") /\ wire'.inRoom = w.inRoom
      BY <1>3, <2>1, <3>1, SetAccepted
    <3> QED BY <1>3, <2>2, <3>2 DEF Rooms
  <2>3. CASE m = "login" /\ ~wire.accepted /\ wire' = [w EXCEPT !.answers = Append(@, "rejected")]
    <3>1. wire' = [w EXCEPT !.answers = Append(wire.answers, "rejected")]
      BY <1>3, <2>3 DEF Wire
    <3> HIDE DEF w
    <3>2. /\ wire' \in Wire /\ wire'.up = w.up /\ wire'.sent = w.sent
          /\ wire'.accepted = w.accepted
          /\ wire'.answers = Append(wire.answers, "rejected") /\ wire'.inRoom = w.inRoom
      BY <1>3, <2>1, <3>1, SetAnswers
    <3> QED BY <1>3, <2>3, <3>2 DEF Rooms
  <2>4. CASE /\ m # "login"
             /\ wire' = IF wire.accepted /\ m # "ask"
                        THEN [w EXCEPT !.inRoom = (m = "join")] ELSE w
    <3>1. CASE wire.accepted /\ m # "ask"
      <4>1. wire' = [w EXCEPT !.inRoom = (m = "join")] /\ (m = "join") \in BOOLEAN
        BY <2>4, <3>1
      <4>2. m \in Rooms
        BY <1>2, <2>4, <3>1 DEF Requests, Rooms
      <4> HIDE DEF w
      <4>3. /\ wire' \in Wire /\ wire'.up = w.up /\ wire'.sent = w.sent
            /\ wire'.answers = w.answers /\ wire'.accepted = w.accepted
            /\ wire'.inRoom = (m = "join")
        BY <1>3, <4>1 DEF Wire
      <4> QED BY <1>3, <3>1, <4>2, <4>3
    <3>2. CASE ~(wire.accepted /\ m # "ask")
      BY <1>3, <2>4, <3>2 DEF Rooms
    <3> QED BY <3>1, <3>2
  <2> QED BY <2>2, <2>3, <2>4 DEF ServerReads
<1> HIDE DEF m, w
<1>6. m = Head(wire.sent)
  BY DEF m
<1>7. Lines'
  <2>1. EndsWell(Append(wire.answers, "accepted")) /\ Grants(Append(wire.answers, "accepted"))
    BY <1>4, EndsAppend, GrantsKept DEF Words, Verdicts
  <2> QED BY <1>1, <1>4, <1>5, <2>1 DEF Lines, RoomKept, RoomInv
<1>8. LoggedIn' => LoggedIn
  <2>1. Grants(Append(wire.answers, "accepted"))
    BY <1>4, GrantsKept DEF Words, Verdicts
  <2> QED BY <1>1, <1>5, <2>1 DEF LoggedIn
<1>9. ASSUME "torn" \notin excuses
      PROVE  /\ Says(inbox, RoomWord) /\ (Mute(inbox) => Says(batch, RoomWord))
             /\ Mute(inbox) /\ Mute(batch) =>
                   /\ Says(queued, RoomWord) /\ Says(wire.sent, RoomWord)
                   /\ Mute(wire.sent) /\ wire.inRoom => RoomWord = "join"
  BY <1>1, <1>9 DEF RoomKept, RoomInv, ToldInv, Told
<1>10. /\ \A r : Says(wire.sent, r) => /\ Says(wire'.sent, r)
                                       /\ Mute(wire'.sent) /\ m \in Rooms => m = r
       /\ Mute(wire'.sent) /\ m \notin Rooms => Mute(wire.sent)
  BY <1>1, <1>5, <1>6, SaysTail, MuteTail
<1>11. ToldInv'
  <2> SUFFICES ASSUME "torn" \notin excuses
               PROVE  Told(inbox, batch, queued, wire', RoomWord)
    BY <1>1 DEF ToldInv, RoomWord, daemonVars
  <2>1. Mute(inbox) /\ Mute(batch) /\ Mute(wire'.sent) /\ wire'.inRoom => RoomWord = "join"
    BY <1>4, <1>5, <1>9, <1>10
  <2> QED BY <1>9, <1>10, <2>1 DEF Told
<1>12. Rejoined'
  <2> SUFFICES ASSUME LoggedIn', "torn" \notin excuses, loop \notin {"calling", "rejoining"},
                      RoomWord = "join", Mute(inbox), Mute(batch), Mute(wire'.sent)
               PROVE  wire'.inRoom
    BY <1>1 DEF Rejoined, RoomWord, daemonVars
  <2>1. LoggedIn /\ wire.accepted
    BY <1>8 DEF LoggedIn
  <2>2. CASE m \in Rooms
    BY <1>5, <1>9, <1>10, <2>1, <2>2
  <2>3. CASE m \notin Rooms
    <3>1. Mute(wire.sent)
      BY <1>10, <2>3
    <3>2. wire.inRoom
      BY <1>1, <2>1, <3>1 DEF Rejoined, RoomKept, RoomInv
    <3> QED BY <1>5, <2>3, <3>2
  <2> QED BY <2>2, <2>3
<1>13. CopyInv' /\ AboutToRejoin'
  BY <1>1, <1>8 DEF CopyInv, AboutToRejoin, RoomKept, RoomInv, daemonVars
<1> QED BY <1>7, <1>11, <1>12, <1>13 DEF RoomInv

\* Who is cut off is in no room that still counts.
LEMMA CutRooms == ASSUME RoomKept, Relogged \/ ConnectionBreaks PROVE RoomInv'
<1>1. /\ wire \in Wire /\ wire.answers \in Words /\ Append(wire.answers, "relogged") \in Words
      /\ "relogged" # "accepted"
  BY KeptTypes DEF Words
<1>2. \E a \in {wire.answers, Append(wire.answers, "relogged")} :
          wire' = [wire EXCEPT !.up = FALSE, !.sent = <<>>, !.answers = a]
  BY <1>1 DEF Relogged, ConnectionBreaks, Wire
<1>3. PICK a \in {wire.answers, Append(wire.answers, "relogged")} :
          wire' = [wire EXCEPT !.up = FALSE, !.sent = <<>>, !.answers = a]
  BY <1>2
<1>4. /\ wire' \in Wire /\ ~wire'.up /\ wire'.sent = <<>> /\ wire'.answers = a
      /\ wire'.accepted = wire.accepted /\ wire'.inRoom = wire.inRoom
  BY <1>1, <1>3, Emptied DEF Wire
<1>5. (EndsWell(wire.answers) => EndsWell(a)) /\ (Grants(wire.answers) <=> Grants(a))
  <2>1. CASE a = Append(wire.answers, "relogged")
    BY <1>1, <2>1, EndsAppend, GrantsKept DEF Words
  <2> QED BY <1>3, <2>1
<1>6. UNCHANGED <<conn, inbox, queued, dispatched, batch, loggedIn, loss, daemonVars, excuses>>
        /\ wire.up
  BY DEF Relogged, ConnectionBreaks
<1>7. conn # "connected" => a = <<>>
  <2>1. conn # "connected" => ~wire.accepted /\ wire.answers = <<>>
    BY DEF RoomKept, RoomInv, Lines
  <2>2. CASE Relogged
    BY <1>4, <2>1, <2>2 DEF Relogged
  <2>3. CASE ConnectionBreaks
    <3>1. wire'.answers = wire.answers
      BY <1>1, <2>3 DEF ConnectionBreaks, Wire
    <3> QED BY <1>4, <2>1, <3>1
  <2> QED BY <2>2, <2>3
<1>8. Lines'
  BY <1>4, <1>5, <1>6, <1>7 DEF Lines, RoomKept, RoomInv
<1>9. LoggedIn' => LoggedIn
  BY <1>4, <1>5, <1>6 DEF LoggedIn
<1>10. ToldInv'
  BY <1>4, <1>6, NothingSaid DEF ToldInv, Told, RoomWord, daemonVars, RoomKept, RoomInv
<1>11. CopyInv' /\ AboutToRejoin' /\ Rejoined'
  BY <1>4, <1>6, <1>9 DEF CopyInv, AboutToRejoin, Rejoined, RoomKept, RoomInv, daemonVars
<1> QED BY <1>8, <1>10, <1>11 DEF RoomInv

LEMMA AskRooms == ASSUME RoomKept, Asks PROVE RoomInv'
<1>1. dispatched' = <<"ask">> /\ conn = "connected"
        /\ UNCHANGED <<conn, wire, inbox, queued, batch, loggedIn, loss, daemonVars, excuses>>
  BY DEF Asks
<1>2. dispatched' \in Asides
  BY <1>1 DEF Asides
<1> QED BY <1>1, <1>2 DEF RoomKept, RoomInv, Lines, ToldInv, Told, RoomWord, daemonVars, CopyInv,
           LoggedIn, AboutToRejoin, Rejoined

\* Steps of the daemon that post nothing.
LEMMA QuietRooms ==
    ASSUME RoomKept, WaiterSees \/ WaiterTimesOut \/ Decide \/ BackoffPasses \/ RoomListed
    PROVE  RoomInv'
<1>1. UNCHANGED <<serverActorVars, excuses, snapshot>>
  BY DEF WaiterSees, WaiterTimesOut, Decide, BackoffPasses, RoomListed
<1>2. RoomWord' = RoomWord
  <2>1. CASE RoomListed
    BY <2>1 DEF RoomListed, RoomWord, RoomKept, SessionKept, DaemonShape
  <2>2. CASE UNCHANGED <<call, listed>>
    BY <2>2 DEF RoomWord
  <2> QED BY <2>1, <2>2 DEF WaiterSees, WaiterTimesOut, Decide, BackoffPasses
<1>3. Lines' /\ ToldInv' /\ (LoggedIn' <=> LoggedIn)
  BY <1>1, <1>2 DEF Lines, ToldInv, LoggedIn, RoomKept, RoomInv, serverActorVars
<1>4. CopyInv'
  BY <1>1 DEF CopyInv, RoomKept, RoomInv, WaiterSees, WaiterTimesOut, Decide, BackoffPasses,
              RoomListed
\* Nobody gives up on a login that was accepted.
<1>5. AboutToRejoin'
  <2>1. CASE WaiterTimesOut
    BY <1>3, <2>1 DEF AboutToRejoin, WaiterTimesOut, RoomKept, RoomInv, SessionKept, RetryInv
  <2>2. CASE WaiterSees
    BY <1>3, <2>2 DEF AboutToRejoin, WaiterSees, RoomKept, RoomInv
  <2>3. CASE Decide \/ BackoffPasses \/ RoomListed
    BY <1>1, <1>3, <2>3 DEF AboutToRejoin, Decide, BackoffPasses, RoomListed, RoomKept, RoomInv,
                            serverActorVars
  <2> QED BY <2>1, <2>2, <2>3
<1>6. Rejoined'
  <2>1. loop \in {"calling", "rejoining"} => loop' = loop
    BY DEF WaiterSees, WaiterTimesOut, Decide, BackoffPasses, RoomListed
  <2> QED BY <1>1, <1>2, <1>3, <2>1 DEF Rejoined, RoomKept, RoomInv, serverActorVars
<1> QED BY <1>3, <1>4, <1>5, <1>6 DEF RoomInv

\* Who returns from an accepted login goes on to rejoin.
LEMMA ReturnRooms == ASSUME RoomKept, LoginReturns PROVE RoomInv'
<1>1. /\ UNCHANGED <<serverActorVars, listed, call>> /\ excuses \subseteq excuses'
      /\ loop = "calling" /\ loop' = (IF waiter = "ok" THEN "rejoining" ELSE "backoff")
      /\ snapshot' = listed /\ waiter \in {"ok", "rejected", "timeout", "refused"}
      /\ waiter = "ok" /\ call # "none" => "torn" \in excuses'
  BY DEF LoginReturns, Excuse
<1>2. Lines'
  BY <1>1 DEF Lines, RoomKept, RoomInv, serverActorVars
<1>3. ToldInv'
  BY <1>1 DEF ToldInv, RoomWord, RoomKept, RoomInv, serverActorVars
<1>4. LoggedIn' => LoggedIn
  BY <1>1 DEF LoggedIn, serverActorVars
<1>5. CopyInv' /\ AboutToRejoin' /\ Rejoined'
  BY <1>1, <1>4 DEF CopyInv, AboutToRejoin, Rejoined, RoomKept, RoomInv
<1> QED BY <1>2, <1>3, <1>5 DEF RoomInv

\* What the daemon posts goes behind all that is on its way.
LEMMA PostRooms ==
    ASSUME RoomKept, Relogin \/ Rejoin \/ \E kind \in {"join", "leave"} : RoomCall(kind)
    PROVE  RoomInv'
<1>1. /\ UNCHANGED <<conn, wire, queued, dispatched, batch, loggedIn, loss, listed, snapshot>>
      /\ excuses \subseteq excuses' /\ inbox \in Seq(Post)
      /\ {"join", "leave", "relogin"} \subseteq Post /\ "relogin" \notin Rooms
  BY KeptTypes DEF Relogin, Rejoin, RoomCall, Excuse, Post, Requests, Rooms
<1>2. Lines' /\ (LoggedIn' => LoggedIn)
  BY <1>1 DEF Lines, LoggedIn, RoomKept, RoomInv
\* A login is repeated only for a session that is lost.
<1>3. CASE Relogin
  <2>1. /\ loop = "relogin" /\ loop' = "calling" /\ inbox' = Append(inbox, "relogin")
        /\ excuses' = excuses /\ call' = call /\ loss' = loss
    BY <1>3 DEF Relogin
  <2>2. ~LoggedIn'
    BY <1>2, <2>1 DEF LoggedIn, RoomKept, SessionKept, RetryInv
  <2>3. \A w : Says(inbox, w) => Says(inbox', w)
    BY <1>1, <2>1, SaysAppend
  <2>4. Mute(inbox') => Mute(inbox)
    BY <1>1, <2>1, MuteAppend
  <2>5. RoomWord' = RoomWord
    BY <1>1, <2>1 DEF RoomWord
  <2>6. ToldInv'
    BY <1>1, <2>1, <2>3, <2>4, <2>5 DEF ToldInv, Told, RoomKept, RoomInv
  <2> QED BY <1>2, <2>1, <2>2, <2>6 DEF RoomInv, CopyInv, AboutToRejoin, Rejoined
\* The copy of the list is what is wanted, unless a call was torn from it.
<1>4. CASE Rejoin
  <2>1. /\ loop = "rejoining" /\ loop' = "watching" /\ excuses' = excuses /\ call' = call
        /\ inbox' = IF snapshot THEN Append(inbox, "join") ELSE inbox
    BY <1>4 DEF Rejoin
  <2>2. "torn" \notin excuses => (snapshot <=> RoomWord = "join")
    BY <2>1 DEF RoomKept, RoomInv, CopyInv, RoomWord, SessionKept, DaemonShape
  <2>3. RoomWord' = RoomWord
    BY <1>1, <2>1 DEF RoomWord
  <2>4. Says(Append(inbox, "join"), "join") /\ ~Mute(Append(inbox, "join"))
    BY <1>1, SaysAppend, MuteAppend DEF Rooms
  <2>5. ToldInv'
    <3> SUFFICES ASSUME "torn" \notin excuses
                 PROVE  Told(inbox', batch, queued, wire, RoomWord)
      BY <1>1, <2>1, <2>3 DEF ToldInv
    <3>1. CASE snapshot
      BY <2>1, <2>2, <2>4, <3>1 DEF Told
    <3>2. CASE ~snapshot
      BY <2>1, <3>2 DEF RoomKept, RoomInv, ToldInv
    <3> QED BY <3>1, <3>2
  <2>6. Rejoined'
    BY <2>1, <2>2, <2>3, <2>4 DEF Rejoined
  <2> QED BY <1>2, <2>1, <2>5, <2>6 DEF RoomInv, CopyInv, AboutToRejoin
\* A call changes what is wanted and says so.
<1>5. ASSUME NEW kind \in {"join", "leave"}, RoomCall(kind) PROVE RoomInv'
  <2>1. /\ call' = kind /\ inbox' = Append(inbox, kind) /\ loop' = loop /\ waiter' = waiter
        /\ loop = "rejoining" => "torn" \in excuses'
    BY <1>5 DEF RoomCall, Excuse
  <2>2. RoomWord' = kind
    BY <2>1 DEF RoomWord
  <2>3. Says(Append(inbox, kind), kind) /\ ~Mute(Append(inbox, kind))
    BY <1>1, SaysAppend, MuteAppend DEF Rooms
  <2>4. ToldInv' /\ Rejoined'
    BY <2>1, <2>2, <2>3 DEF ToldInv, Told, Rejoined
  <2>5. CopyInv' /\ AboutToRejoin'
    BY <1>1, <1>2, <2>1 DEF CopyInv, AboutToRejoin, RoomKept, RoomInv
  <2> QED BY <1>2, <2>4, <2>5 DEF RoomInv
<1> QED BY <1>3, <1>4, <1>5

LEMMA RoomStep == ASSUME RoomKept, [SessionNext]_sessionVars PROVE RoomKept'
<1>1. SessionInv' /\ SessionKept'
  BY SessionStep, SessionKeptStep DEF RoomKept
<1> SUFFICES RoomInv'
  BY <1>1 DEF RoomKept
<1>2. CASE UNCHANGED sessionVars
  BY <1>2 DEF sessionVars, serverActorVars, daemonVars, RoomKept, RoomInv, Lines, ToldInv, Told,
              RoomWord, CopyInv, LoggedIn, AboutToRejoin, Rejoined
<1>3. CASE ReadFails \/ NotEstablished
  BY <1>3, EndRooms DEF ReadFails, NotEstablished, Drops, Disconnects
<1>4. CASE DaemonStep \/ \E kind \in {"join", "leave"} : RoomCall(kind)
  BY <1>4, QuietRooms, ReturnRooms, PostRooms DEF DaemonStep
<1> QED BY <1>2, <1>3, <1>4, LoginRooms, RequestRooms, EstablishedRooms, ReadRooms, BatchRooms,
           ServerRooms, CutRooms, AskRooms DEF SessionNext, SessionActorStep

LEMMA RoomStarts == ASSUME SessionInit PROVE RoomKept
<1>1. SessionInv /\ SessionKept
  BY SessionStarts, SessionKeptStarts
<1>2. /\ inbox = <<>> /\ queued = <<>> /\ dispatched = <<>> /\ batch = <<>>
      /\ conn = "connected" /\ call = "none" /\ loop = "watching" /\ listed \in BOOLEAN
      /\ wire = [NoWire EXCEPT !.up = TRUE, !.accepted = TRUE, !.inRoom = listed]
  BY DEF SessionInit
<1>3. wire.up /\ wire.accepted /\ wire.inRoom = listed /\ wire.sent = <<>> /\ wire.answers = <<>>
  BY <1>2 DEF NoWire
<1>4. Lines
  <2>1. <<>> \in Asides
    BY DEF Asides
  <2> QED BY <1>2, <1>3, <2>1, NothingSaid DEF Lines
<1>5. RoomWord = "join" <=> listed
  BY <1>2 DEF RoomWord
<1>6. ToldInv
  BY <1>2, <1>3, <1>5, NothingSaid DEF ToldInv, Told
<1>7. CopyInv /\ AboutToRejoin /\ Rejoined
  BY <1>2, <1>3, <1>5 DEF CopyInv, AboutToRejoin, Rejoined
<1> QED BY <1>1, <1>4, <1>6, <1>7 DEF RoomKept, RoomInv

\* When nothing is under way any more the server has us in the room that the
\* daemon lists (daemon/mod.rs:386-401), through any number of broken connections,
\* repeated logins and calls, but for a call that fell between the copy of the
\* list and the rejoining, and for a login accepted after it was given up.
THEOREM RoomsAreRejoined == SessionSpec => []RoomsRejoined
<1>1. SessionInit => RoomKept
  BY RoomStarts
<1>2. RoomKept /\ [SessionNext]_sessionVars => RoomKept'
  BY RoomStep
<1>3. RoomKept => RoomsRejoined
  <2> SUFFICES ASSUME RoomKept, Settled, conn = "connected", wire.up, loss = "live", wire.accepted,
                      "torn" \notin excuses, "late" \notin excuses
               PROVE  wire.inRoom = listed
    BY DEF RoomsRejoined
  <2>1. /\ loop = "watching" /\ call = "none" /\ inbox = <<>> /\ queued = <<>> /\ batch = <<>>
        /\ wire.sent = <<>> /\ wire.answers = <<>>
    BY DEF Settled
  <2>2. LoggedIn /\ (RoomWord = "join" <=> listed)
    BY <2>1, NothingSaid DEF LoggedIn, RoomWord
  <2>3. listed => wire.inRoom
    BY <2>1, <2>2, NothingSaid DEF RoomKept, RoomInv, Rejoined
  <2>4. wire.inRoom => listed
    BY <2>1, <2>2, NothingSaid DEF RoomKept, RoomInv, ToldInv, Told
  <2>5. wire.inRoom \in BOOLEAN /\ listed \in BOOLEAN
    BY KeptTypes DEF RoomKept, SessionKept, DaemonShape
  <2> QED BY <2>3, <2>4, <2>5
<1> QED BY <1>1, <1>2, <1>3, PTL DEF SessionSpec
=============================================================================
