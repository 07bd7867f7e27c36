------------------------ MODULE RemoteSessionProofs ------------------------
(***************************************************************************)
(* Proofs about a client of the daemon, for any set of callers and titles  *)
(* and however many messages are on their way: every call is told how it   *)
(* went, nothing stays registered behind it, and a download that was       *)
(* started has its caller listening.                                       *)
(***************************************************************************)
EXTENDS RemoteSession, SequenceTheorems, TLAPS

USE RemoteConstants

Request == [from : Callers, result : {"none", "started", "failed"}]
Reply   == [kind : {"answer"}, to : Callers, result : {"started", "failed"}]
             \cup [kind : {"verdict"}, of : Titles]

RemoteShape ==
    /\ at \in [Callers -> {"idle", "calling", "registering", "writing", "waiting",
                          "failing", "returned"}]
    /\ title \in [Callers -> Titles]
    /\ answers \in [Callers -> {"none", "started", "failed"}]
    /\ outcome \in [Callers -> {"none", "started", "failed", "closed", "timeout"}]
    /\ waiting \subseteq Callers /\ heard \subseteq Callers
    /\ requests \in Seq(Request) /\ replies \in Seq(Reply)
    /\ connected \in BOOLEAN
    /\ reader \in {"reading", "hungUp", "failedAll", "done"}
    /\ mirror \in [Titles -> Callers \cup {NoCaller}]

\* A call is pending from its registration until it is settled or given up.
PendingInv ==
    \A t \in Callers :
        /\ at[t] \in {"idle", "calling", "registering"} => answers[t] = "none"
        /\ t \in waiting => answers[t] = "none" /\ at[t] \in {"writing", "waiting"}
        /\ at[t] = "writing" /\ answers[t] = "none" =>
              t \in waiting /\ (t \in late \/ reader \in {"reading", "hungUp"})

\* The reader goes on reading for as long as there is a connection.
ReaderInv == connected => reader = "reading"

\* When all is over, what is registered belongs to a call that will forget it.
LeftInv ==
    reader = "done" =>
        \A f \in Titles :
            mirror[f] # NoCaller =>
                title[mirror[f]] = f /\ at[mirror[f]] \in {"calling", "failing"}

Alone(t) == \A s \in Callers \ {t} : at[s] = "idle" \/ title[s] # title[t]

\* Nobody's download is taken from its caller while the call is under way.
HearInv ==
    \A t \in Callers :
        /\ outcome[t] = "started" => at[t] = "returned"
        /\ /\ reader = "reading" /\ Alone(t)
           /\ \/ at[t] \in {"calling", "registering", "writing", "waiting"}
              \/ outcome[t] = "started"
           => mirror[title[t]] = t \/ t \in heard

ToldInv == RemoteShape /\ PendingInv /\ ReaderInv /\ CallsAreTold

-----------------------------------------------------------------------------
\* The shape of the state, which no step changes.
LEMMA RemoteShapeStep == ASSUME RemoteShape, [RemoteNext]_remoteVars PROVE RemoteShape'
<1> USE DEF RemoteShape, Moves
<1>1. CASE UNCHANGED remoteVars
  BY <1>1 DEF remoteVars, callVars
<1>2. ASSUME NEW t \in Callers, CallStep(t) PROVE RemoteShape'
  <2>1. CASE ExpectDownload(t) BY <2>1 DEF ExpectDownload
  <2>2. CASE CheckClosed(t) BY <2>2 DEF CheckClosed
  <2>3. CASE Register(t) BY <2>3 DEF Register
  <2>4. CASE WriteRequest(t)
    <3> DEFINE r == [from |-> t, result |-> "none"]
    <3>1. r \in Request
      BY DEF Request
    <3>2. requests' \in Seq(Request)
      <4>1. requests' = requests \/ requests' = Append(requests, r)
        BY <2>4 DEF WriteRequest
      <4> QED BY <3>1, <4>1
    <3>3. at' \in [Callers -> {"idle", "calling", "registering", "writing", "waiting",
                               "failing", "returned"}]
            /\ waiting' \subseteq Callers
      BY <2>4 DEF WriteRequest
    <3>4. outcome' \in [Callers -> {"none", "started", "failed", "closed", "timeout"}]
      BY <2>4 DEF WriteRequest
    <3> QED BY <2>4, <3>2, <3>3, <3>4 DEF WriteRequest
  <2>5. CASE ReturnAnswer(t) BY <2>5 DEF ReturnAnswer
  <2>6. CASE ReturnTimeout(t) BY <2>6 DEF ReturnTimeout
  <2>7. CASE ForgetDownload(t) BY <2>7 DEF ForgetDownload, Forget
  <2> QED BY <1>2, <2>1, <2>2, <2>3, <2>4, <2>5, <2>6, <2>7 DEF CallStep
<1>3. CASE ReadReply
  <2>1. Head(replies) \in Reply /\ replies' \in Seq(Reply)
    BY <1>3 DEF ReadReply
  <2>2. CASE Head(replies).kind = "answer"
    <3>1. Head(replies).to \in Callers /\ Head(replies).result \in {"started", "failed"}
      BY <2>1, <2>2 DEF Reply
    <3>2. answers' \in [Callers -> {"none", "started", "failed"}] /\ waiting' \subseteq Callers
      BY <1>3, <2>2, <3>1 DEF ReadReply, Settles
    <3>3. mirror' = mirror /\ heard' = heard
      BY <1>3, <2>2 DEF ReadReply
    <3> QED BY <1>3, <2>1, <3>2, <3>3 DEF ReadReply
  <2>3. CASE Head(replies).kind = "verdict"
    <3>1. Head(replies).of \in Titles
      BY <2>1, <2>3 DEF Reply
    <3>2. mirror' \in [Titles -> Callers \cup {NoCaller}] /\ heard' \subseteq Callers
      BY <1>3, <2>3, <3>1 DEF ReadReply, Routes, Forget
    <3>3. answers' = answers /\ waiting' = waiting
      BY <1>3, <2>3 DEF ReadReply
    <3> QED BY <1>3, <2>1, <3>2, <3>3 DEF ReadReply
  <2> QED BY <1>3, <2>2, <2>3 DEF ReadReply
<1>4. CASE ReaderEnds BY <1>4 DEF ReaderEnds, callVars
<1>5. CASE FailAll BY <1>5 DEF FailAll
<1>6. CASE AbandonDownloads BY <1>6 DEF AbandonDownloads, callVars
<1>7. CASE DaemonStarts
  <2>1. requests[1] \in Request /\ 1 \in DOMAIN requests
    BY <1>7 DEF DaemonStarts
  <2>2. PICK result \in {"started", "failed"} :
              requests' = [requests EXCEPT ![1].result = result]
    BY <1>7 DEF DaemonStarts
  <2>3. [requests[1] EXCEPT !.result = result] \in Request
    BY <2>1 DEF Request
  <2>4. requests' \in Seq(Request)
    BY <2>1, <2>2, <2>3
  <2> QED BY <1>7, <2>4 DEF DaemonStarts, callVars
<1>8. CASE DaemonAnswers
  <2>1. requests[1] \in Request
    BY <1>8 DEF DaemonAnswers
  <2>2. [kind |-> "answer", to |-> requests[1].from, result |-> requests[1].result] \in Reply
    BY <1>8, <2>1 DEF DaemonAnswers, Request, Reply
  <2> QED BY <1>8, <2>2 DEF DaemonAnswers, callVars
<1>9. CASE Disconnect
  <2>1. PICK n \in 0..Len(replies) : replies' = SubSeq(replies, 1, n)
    BY <1>9 DEF Disconnect
  <2>2. replies' \in Seq(Reply)
    BY <2>1
  <2>3. requests' = <<>> /\ requests' \in Seq(Request)
    BY <1>9 DEF Disconnect
  <2> QED BY <1>9, <2>2, <2>3 DEF Disconnect, callVars
<1>10. ASSUME NEW f \in Titles, DaemonReports(f) PROVE RemoteShape'
  <2>1. [kind |-> "verdict", of |-> f] \in Reply
    BY DEF Reply
  <2> QED BY <1>10, <2>1 DEF DaemonReports, callVars
<1> QED BY <1>1, <1>2, <1>3, <1>4, <1>5, <1>6, <1>7, <1>8, <1>9, <1>10 DEF RemoteNext

-----------------------------------------------------------------------------
\* A call is in the table of pending calls exactly while it should be.
LEMMA PendingStep ==
    ASSUME ToldInv, [RemoteNext]_remoteVars PROVE PendingInv' /\ ReaderInv'
<1> USE DEF ToldInv, RemoteShape, PendingInv, ReaderInv, Moves
<1>1. CASE UNCHANGED remoteVars
  BY <1>1 DEF remoteVars, callVars
<1>2. ASSUME NEW t \in Callers, CallStep(t) PROVE PendingInv' /\ ReaderInv'
  <2>1. CASE ExpectDownload(t) BY <2>1 DEF ExpectDownload
  <2>2. CASE CheckClosed(t) BY <2>2 DEF CheckClosed
  <2>3. CASE Register(t) BY <2>3 DEF Register
  <2>4. CASE WriteRequest(t) BY <2>4 DEF WriteRequest
  <2>5. CASE ReturnAnswer(t) BY <2>5 DEF ReturnAnswer
  <2>6. CASE ReturnTimeout(t) BY <2>6 DEF ReturnTimeout
  <2>7. CASE ForgetDownload(t) BY <2>7 DEF ForgetDownload
  <2> QED BY <1>2, <2>1, <2>2, <2>3, <2>4, <2>5, <2>6, <2>7 DEF CallStep
<1>3. CASE ReadReply
  <2>1. Head(replies) \in Reply
    BY <1>3 DEF ReadReply
  <2> QED BY <1>3, <2>1 DEF ReadReply, Settles, Reply
<1>4. CASE ReaderEnds BY <1>4 DEF ReaderEnds, callVars
<1>5. CASE FailAll BY <1>5 DEF FailAll
<1>6. CASE AbandonDownloads BY <1>6 DEF AbandonDownloads, callVars
<1>7. CASE DaemonStarts BY <1>7 DEF DaemonStarts, callVars
<1>8. CASE DaemonAnswers BY <1>8 DEF DaemonAnswers, callVars
<1>9. CASE Disconnect BY <1>9 DEF Disconnect, callVars
<1>10. ASSUME NEW f \in Titles, DaemonReports(f) PROVE PendingInv' /\ ReaderInv'
  BY <1>10 DEF DaemonReports, callVars
<1> QED BY <1>1, <1>2, <1>3, <1>4, <1>5, <1>6, <1>7, <1>8, <1>9, <1>10 DEF RemoteNext

\* What is on its way for a caller, in one direction or the other.
OnTheWay(t) ==
    \/ \E k \in DOMAIN requests : requests[k].from = t
    \/ \E k \in DOMAIN replies : replies[k].kind = "answer" /\ replies[k].to = t

\* What is added behind a message leaves it where it is.
LEMMA StillThere ==
    ASSUME NEW S, NEW s \in Seq(S), NEW e \in S
    PROVE  /\ \A k \in DOMAIN s : k \in DOMAIN Append(s, e) /\ Append(s, e)[k] = s[k]
           /\ Len(s) + 1 \in DOMAIN Append(s, e) /\ Append(s, e)[Len(s) + 1] = e
OBVIOUS

\* Whoever is not the first is found one place further on.
LEMMA MovesUp ==
    ASSUME NEW S, NEW s \in Seq(S), s # <<>>, NEW k \in DOMAIN s, k # 1
    PROVE  k - 1 \in DOMAIN Tail(s) /\ Tail(s)[k - 1] = s[k]
OBVIOUS

LEMMA ToldStep ==
    ASSUME ToldInv, [RemoteNext]_remoteVars PROVE CallsAreTold'
<1> SUFFICES ASSUME NEW t \in Callers, at'[t] = "waiting", answers'[t] = "none"
             PROVE  /\ t \in waiting'
                    /\ \/ t \in late'
                       \/ ~connected' /\ reader' \in {"reading", "hungUp"}
                       \/ OnTheWay(t)'
  BY DEF CallsAreTold, OnTheWay
<1> DEFINE Told == /\ t \in waiting
                   /\ \/ t \in late
                      \/ ~connected /\ reader \in {"reading", "hungUp"}
                      \/ OnTheWay(t)
<1>0. at[t] = "waiting" /\ answers[t] = "none" => Told
  BY DEF ToldInv, CallsAreTold, OnTheWay
<1> USE DEF ToldInv, RemoteShape, PendingInv, ReaderInv, Moves
<1>1. CASE UNCHANGED remoteVars
  BY <1>0, <1>1 DEF remoteVars, callVars, OnTheWay
<1>2. ASSUME NEW s \in Callers, CallStep(s) PROVE Told'
  <2>1. CASE ExpectDownload(s) BY <1>0, <2>1 DEF ExpectDownload, OnTheWay
  <2>2. CASE CheckClosed(s) BY <1>0, <2>2 DEF CheckClosed, OnTheWay
  <2>3. CASE Register(s) BY <1>0, <2>3 DEF Register, OnTheWay
  <2>4. CASE WriteRequest(s)
    <3> DEFINE r == [from |-> s, result |-> "none"]
    <3>1. r \in Request
      BY DEF Request
    <3>2. CASE s = t
      <4>1. at[t] = "writing" /\ at'[t] = "waiting"
        BY <2>4, <3>2 DEF WriteRequest
      <4>2. t \in waiting' /\ (t \in late' \/ reader' \in {"reading", "hungUp"})
        BY <2>4, <3>2, <4>1 DEF WriteRequest
      <4>3. CASE ~connected
        BY <2>4, <4>2, <4>3 DEF WriteRequest
      <4>4. CASE connected
        <5>1. requests' = Append(requests, r)
          BY <2>4, <3>2, <4>1, <4>4 DEF WriteRequest
        <5>2. Len(requests) + 1 \in DOMAIN requests' /\ requests'[Len(requests) + 1].from = t
          BY <3>1, <3>2, <5>1, StillThere
        <5> QED BY <4>2, <5>2 DEF OnTheWay
      <4> QED BY <4>3, <4>4
    <3>3. CASE s # t
      <4>1. at[t] = "waiting" /\ answers[t] = "none" /\ t \in waiting'
        BY <1>0, <2>4, <3>3 DEF WriteRequest
      <4>2. OnTheWay(t) => OnTheWay(t)'
        <5>1. requests' = requests \/ requests' = Append(requests, r)
          BY <2>4 DEF WriteRequest
        <5>2. \A k \in DOMAIN requests : k \in DOMAIN requests' /\ requests'[k] = requests[k]
          BY <3>1, <5>1, StillThere
        <5>3. replies' = replies
          BY <2>4 DEF WriteRequest
        <5> QED BY <5>2, <5>3 DEF OnTheWay
      <4> QED BY <1>0, <2>4, <4>1, <4>2 DEF WriteRequest
    <3> QED BY <3>2, <3>3
  <2>5. CASE ReturnAnswer(s) BY <1>0, <2>5 DEF ReturnAnswer, OnTheWay
  <2>6. CASE ReturnTimeout(s) BY <1>0, <2>6 DEF ReturnTimeout, OnTheWay
  <2>7. CASE ForgetDownload(s) BY <1>0, <2>7 DEF ForgetDownload, OnTheWay
  <2> QED BY <1>2, <2>1, <2>2, <2>3, <2>4, <2>5, <2>6, <2>7 DEF CallStep
\* The first reply is read; if it was the answer to this call it is settled.
<1>3. CASE ReadReply
  <2>1. Head(replies) = replies[1] /\ replies[1] \in Reply /\ 1 \in DOMAIN replies
    BY <1>3 DEF ReadReply
  <2>2. at[t] = "waiting" /\ answers[t] = "none"
    BY <1>3, <2>1 DEF ReadReply, Settles
  <2>3. ~(replies[1].kind = "answer" /\ replies[1].to = t)
    BY <1>0, <1>3, <2>1, <2>2 DEF ReadReply, Settles, Reply
  <2>4. t \in waiting'
    BY <1>0, <1>3, <2>1, <2>2, <2>3 DEF ReadReply, Settles, Reply
  <2>5. OnTheWay(t) => OnTheWay(t)'
    <3>1. CASE \E k \in DOMAIN requests : requests[k].from = t
      BY <1>3, <3>1 DEF ReadReply, OnTheWay
    <3>2. ASSUME NEW k \in DOMAIN replies, replies[k].kind = "answer", replies[k].to = t
          PROVE  OnTheWay(t)'
      <4>1. k # 1
        BY <2>3, <3>2
      <4>2. k - 1 \in DOMAIN replies' /\ replies'[k - 1] = replies[k]
        BY <1>3, <4>1, MovesUp DEF ReadReply
      <4> QED BY <3>2, <4>2 DEF OnTheWay
    <3> QED BY <3>1, <3>2 DEF OnTheWay
  <2> QED BY <1>0, <1>3, <2>2, <2>4, <2>5 DEF ReadReply
<1>4. CASE ReaderEnds BY <1>0, <1>4 DEF ReaderEnds, callVars, OnTheWay
<1>5. CASE FailAll BY <1>0, <1>5 DEF FailAll
<1>6. CASE AbandonDownloads BY <1>0, <1>6 DEF AbandonDownloads, callVars, OnTheWay
<1>7. CASE DaemonStarts
  <2>1. at[t] = "waiting" /\ answers[t] = "none" /\ t \in waiting'
    BY <1>0, <1>7 DEF DaemonStarts, callVars
  <2>2. OnTheWay(t) => OnTheWay(t)'
    <3>1. PICK result \in {"started", "failed"} :
                requests' = [requests EXCEPT ![1].result = result]
      BY <1>7 DEF DaemonStarts
    <3>2. \A k \in DOMAIN requests : requests[k] \in Request
      OBVIOUS
    <3>3. DOMAIN requests' = DOMAIN requests
            /\ \A k \in DOMAIN requests : requests'[k].from = requests[k].from
      BY <3>1, <3>2 DEF Request
    <3> QED BY <1>7, <3>3 DEF DaemonStarts, OnTheWay
  <2> QED BY <1>0, <1>7, <2>1, <2>2 DEF DaemonStarts, callVars
\* The first request becomes a reply.
<1>8. CASE DaemonAnswers
  <2> DEFINE r == [kind |-> "answer", to |-> requests[1].from, result |-> requests[1].result]
  <2>1. requests[1] \in Request
    BY <1>8 DEF DaemonAnswers
  <2>2. r \in Reply /\ replies' = Append(replies, r) /\ requests' = Tail(requests)
    BY <1>8, <2>1 DEF DaemonAnswers, Request, Reply
  <2>3. at[t] = "waiting" /\ answers[t] = "none" /\ t \in waiting'
    BY <1>0, <1>8 DEF DaemonAnswers, callVars
  <2>4. OnTheWay(t) => OnTheWay(t)'
    <3>1. ASSUME NEW k \in DOMAIN requests, requests[k].from = t PROVE OnTheWay(t)'
      <4>1. CASE k = 1
        <5>1. Len(replies) + 1 \in DOMAIN replies' /\ replies'[Len(replies) + 1] = r
          BY <2>2, StillThere
        <5> QED BY <3>1, <4>1, <5>1 DEF OnTheWay
      <4>2. CASE k # 1
        <5>1. k - 1 \in DOMAIN requests' /\ requests'[k - 1] = requests[k]
          BY <1>8, <2>2, <4>2, MovesUp DEF DaemonAnswers
        <5> QED BY <3>1, <5>1 DEF OnTheWay
      <4> QED BY <4>1, <4>2
    <3>2. ASSUME NEW k \in DOMAIN replies, replies[k].kind = "answer", replies[k].to = t
          PROVE  OnTheWay(t)'
      <4>1. k \in DOMAIN replies' /\ replies'[k] = replies[k]
        BY <2>2, StillThere
      <4> QED BY <3>2, <4>1 DEF OnTheWay
    <3> QED BY <3>1, <3>2 DEF OnTheWay
  <2> QED BY <1>0, <1>8, <2>3, <2>4 DEF DaemonAnswers, callVars
<1>9. CASE Disconnect BY <1>0, <1>9 DEF Disconnect, callVars
<1>10. ASSUME NEW f \in Titles, DaemonReports(f) PROVE Told'
  <2> DEFINE r == [kind |-> "verdict", of |-> f]
  <2>1. r \in Reply /\ replies' = Append(replies, r)
    BY <1>10 DEF DaemonReports, Reply
  <2>2. \A k \in DOMAIN replies : k \in DOMAIN replies' /\ replies'[k] = replies[k]
    BY <2>1, StillThere
  <2> QED BY <1>0, <1>10, <2>2 DEF DaemonReports, callVars, OnTheWay
<1> QED BY <1>1, <1>2, <1>3, <1>4, <1>5, <1>6, <1>7, <1>8, <1>9, <1>10 DEF RemoteNext

\* Every call is told how it went (remote/mod.rs:176-179): while one waits, its
\* answer is on the way or the reader has yet to fail it.
THEOREM EveryCallIsTold == RemoteSpec => []CallsAreTold
<1>1. RemoteInit => ToldInv
  BY DEF RemoteInit, ToldInv, RemoteShape, PendingInv, ReaderInv, CallsAreTold
<1>2. ToldInv /\ [RemoteNext]_remoteVars => ToldInv'
  BY RemoteShapeStep, PendingStep, ToldStep DEF ToldInv
<1>3. ToldInv => CallsAreTold
  BY DEF ToldInv
<1> QED BY <1>1, <1>2, <1>3, PTL DEF RemoteSpec
-----------------------------------------------------------------------------
LEMMA LeftStep ==
    ASSUME ToldInv, LeftInv, [RemoteNext]_remoteVars PROVE LeftInv'
<1> USE DEF ToldInv, RemoteShape, LeftInv, Moves
<1>1. CASE UNCHANGED remoteVars
  BY <1>1 DEF remoteVars, callVars
<1>2. ASSUME NEW t \in Callers, CallStep(t) PROVE LeftInv'
  <2>1. CASE ExpectDownload(t) BY <2>1 DEF ExpectDownload
  <2>2. CASE CheckClosed(t) BY <2>2 DEF CheckClosed, ClosedFlag
  <2>3. CASE Register(t) BY <2>3 DEF Register
  <2>4. CASE WriteRequest(t)
    <3>1. UNCHANGED <<title, reader, mirror, heard>> /\ at[t] = "writing"
      BY <2>4 DEF WriteRequest
    <3>2. at' = [at EXCEPT ![t] = "waiting"] \/ at' = [at EXCEPT ![t] = "failing"]
      BY <2>4 DEF WriteRequest
    <3> QED BY <3>1, <3>2
  <2>5. CASE ReturnAnswer(t) BY <2>5 DEF ReturnAnswer
  <2>6. CASE ReturnTimeout(t) BY <2>6 DEF ReturnTimeout
  <2>7. CASE ForgetDownload(t) BY <2>7 DEF ForgetDownload, Forget
  <2> QED BY <1>2, <2>1, <2>2, <2>3, <2>4, <2>5, <2>6, <2>7 DEF CallStep
<1>3. CASE ReadReply BY <1>3 DEF ReadReply
<1>4. CASE ReaderEnds BY <1>4 DEF ReaderEnds
<1>5. CASE FailAll BY <1>5 DEF FailAll
<1>6. CASE AbandonDownloads BY <1>6 DEF AbandonDownloads
<1>7. CASE DaemonStarts BY <1>7 DEF DaemonStarts, callVars
<1>8. CASE DaemonAnswers BY <1>8 DEF DaemonAnswers, callVars
<1>9. CASE Disconnect BY <1>9 DEF Disconnect, callVars
<1>10. ASSUME NEW f \in Titles, DaemonReports(f) PROVE LeftInv'
  BY <1>10 DEF DaemonReports, callVars
<1> QED BY <1>1, <1>2, <1>3, <1>4, <1>5, <1>6, <1>7, <1>8, <1>9, <1>10 DEF RemoteNext

\* When the connection and all calls on it are over no call is pending and no
\* download registered (mirror.rs), whichever way each of the calls went.
THEOREM NothingIsLeft == RemoteSpec => []NothingLeftBehind
<1> DEFINE Inv == ToldInv /\ LeftInv
<1>1. RemoteInit => Inv
  BY DEF RemoteInit, ToldInv, RemoteShape, PendingInv, ReaderInv, CallsAreTold, LeftInv
<1>2. Inv /\ [RemoteNext]_remoteVars => Inv'
  BY RemoteShapeStep, PendingStep, ToldStep, LeftStep DEF ToldInv
<1>3. Inv => NothingLeftBehind
  BY DEF ToldInv, RemoteShape, PendingInv, LeftInv, NothingLeftBehind
<1> QED BY <1>1, <1>2, <1>3, PTL DEF RemoteSpec
-----------------------------------------------------------------------------
LEMMA HearStep ==
    ASSUME RemoteShape, HearInv, [RemoteNext]_remoteVars PROVE HearInv'
<1> USE DEF RemoteShape, HearInv, Moves, Alone
<1>1. CASE UNCHANGED remoteVars
  BY <1>1 DEF remoteVars, callVars
<1>2. ASSUME NEW t \in Callers, CallStep(t) PROVE HearInv'
  <2>1. CASE ExpectDownload(t) BY <2>1 DEF ExpectDownload
  <2>2. CASE CheckClosed(t) BY <2>2 DEF CheckClosed
  <2>3. CASE Register(t) BY <2>3 DEF Register
  <2>4. CASE WriteRequest(t) BY <2>4 DEF WriteRequest
  <2>5. CASE ReturnAnswer(t) BY <2>5 DEF ReturnAnswer
  <2>6. CASE ReturnTimeout(t) BY <2>6 DEF ReturnTimeout
  <2>7. CASE ForgetDownload(t) BY <2>7 DEF ForgetDownload, Forget
  <2> QED BY <1>2, <2>1, <2>2, <2>3, <2>4, <2>5, <2>6, <2>7 DEF CallStep
\* A verdict takes its download from the mirror and gives it to its caller.
<1>3. CASE ReadReply
  <2>1. at' = at /\ title' = title /\ outcome' = outcome /\ reader' = reader
    BY <1>3 DEF ReadReply
  <2>2. heard \subseteq heard'
          /\ \A t \in Callers : mirror[title[t]] = t => mirror'[title[t]] = t \/ t \in heard'
    BY <1>3 DEF ReadReply, Routes, Forget
  <2> QED BY <2>1, <2>2
<1>4. CASE ReaderEnds BY <1>4 DEF ReaderEnds, callVars
<1>5. CASE FailAll BY <1>5 DEF FailAll
<1>6. CASE AbandonDownloads BY <1>6 DEF AbandonDownloads, callVars
<1>7. CASE DaemonStarts BY <1>7 DEF DaemonStarts, callVars
<1>8. CASE DaemonAnswers BY <1>8 DEF DaemonAnswers, callVars
<1>9. CASE Disconnect BY <1>9 DEF Disconnect, callVars
<1>10. ASSUME NEW f \in Titles, DaemonReports(f) PROVE HearInv'
  BY <1>10 DEF DaemonReports, callVars
<1> QED BY <1>1, <1>2, <1>3, <1>4, <1>5, <1>6, <1>7, <1>8, <1>9, <1>10 DEF RemoteNext

\* Whoever started a download hears its verdict or is registered for it
\* (mirror.rs), since it registered before it asked.
THEOREM StartedIsHeard == RemoteSpec => []CallerHears
<1> DEFINE Inv == RemoteShape /\ HearInv
<1>1. RemoteInit => Inv
  BY DEF RemoteInit, RemoteShape, HearInv
<1>2. Inv /\ [RemoteNext]_remoteVars => Inv'
  BY RemoteShapeStep, HearStep
<1>3. Inv => CallerHears
  BY DEF HearInv, Alone, CallerHears
<1> QED BY <1>1, <1>2, <1>3, PTL DEF RemoteSpec
-----------------------------------------------------------------------------
(* The types of the state, in the terms of the runs. *)

\* What the daemon runs, and who registered late.
Behind == running \subseteq Titles /\ late \subseteq Callers

LEMMA BehindStep == ASSUME RemoteShape, Behind, [RemoteNext]_remoteVars PROVE Behind'
<1>1. CASE UNCHANGED remoteVars
  BY <1>1 DEF remoteVars, callVars, Behind
<1>2. ASSUME NEW t \in Callers, CallStep(t) PROVE Behind'
  BY <1>2 DEF CallStep, ExpectDownload, CheckClosed, Register, WriteRequest, ReturnAnswer,
              ReturnTimeout, ForgetDownload, Behind
<1>3. CASE ReadReply BY <1>3 DEF ReadReply, Behind
<1>4. CASE DaemonStarts
  <2>1. requests[1] \in Request /\ title \in [Callers -> Titles]
    BY <1>4 DEF DaemonStarts, RemoteShape
  <2>2. title[requests[1].from] \in Titles
    BY <2>1 DEF Request
  <2>3. late' = late /\ running' \subseteq running \cup {title[requests[1].from]}
    BY <1>4 DEF DaemonStarts, callVars
  <2> QED BY <2>2, <2>3 DEF Behind
<1>5. CASE ReaderEnds \/ FailAll \/ AbandonDownloads \/ DaemonAnswers \/ Disconnect
  BY <1>5 DEF ReaderEnds, FailAll, AbandonDownloads, DaemonAnswers, Disconnect, callVars, Behind
<1>6. ASSUME NEW f \in Titles, DaemonReports(f) PROVE Behind'
  BY <1>6 DEF DaemonReports, callVars, Behind
<1> QED BY <1>1, <1>2, <1>3, <1>4, <1>5, <1>6 DEF RemoteNext

\* The state of a client is well typed (remote/mod.rs).
THEOREM RemoteTyped == RemoteSpec => []RemoteTypeOK
<1>1. RemoteInit => RemoteShape /\ Behind
  BY DEF RemoteInit, RemoteShape, Behind
<1>2. RemoteShape /\ Behind /\ [RemoteNext]_remoteVars => RemoteShape' /\ Behind'
  BY RemoteShapeStep, BehindStep
<1>3. RemoteShape /\ Behind => RemoteTypeOK
  <2> SUFFICES ASSUME RemoteShape, Behind PROVE RemoteTypeOK
    OBVIOUS
  <2>1. \A k \in DOMAIN requests : requests[k] \in Request
    BY DEF RemoteShape
  <2>2. \A k \in DOMAIN replies : replies[k] \in Reply
    BY DEF RemoteShape
  <2> QED BY <2>1, <2>2 DEF RemoteShape, Behind, RemoteTypeOK, Request, Reply
<1> QED BY <1>1, <1>2, <1>3, PTL DEF RemoteSpec
=============================================================================
