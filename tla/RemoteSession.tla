--------------------------- MODULE RemoteSession ---------------------------
(***************************************************************************)
(* A client of the daemon: calls that wait for their reply, the reader     *)
(* thread that routes what the daemon sends (remote/mod.rs), and the       *)
(* mirror in which a download's caller is registered (remote/mirror.rs).   *)
(*                                                                         *)
(* Concurrent parties: one thread per call, the reader, and the daemon at  *)
(* the other end of a connection that may break at any moment, losing what *)
(* was on its way.  Each thread makes one call, to start a download; what  *)
(* any other call does is a part of that.  A call's id is its thread.      *)
(***************************************************************************)
EXTENDS Integers, FiniteSets, Sequences

CONSTANTS
    Callers,  \* threads that call
    Titles,   \* what may be downloaded: (username, filename)
    NoCaller  \* nobody is registered for a title

ASSUME RemoteConstants == NoCaller \notin Callers

VARIABLES
    at,        \* where a caller is
    title,     \* what it downloads, from the start
    late,      \* history: callers that registered after FailAll
    answers,   \* its call's channel: the outcome put there, or "none"
    outcome,   \* what its call returned
    waiting,   \* Pending: the calls a reply may settle
    requests,  \* on their way to the daemon
    replies,   \* on their way to the client: answers and download events
    running,   \* titles the daemon is downloading
    connected, \* the socket
    reader,    \* the reader thread; `closed` is set from "hungUp" on
    mirror,    \* Mirror.downloads: title -> the caller who gets its events
    heard      \* callers whose receiver got a verdict

callVars   == <<at, title, late, answers, outcome>>
remoteVars == <<callVars, waiting, requests, replies, running, connected, reader,
                mirror, heard>>

Moves(t, p) == at' = [at EXCEPT ![t] = p]
ClosedFlag  == reader # "reading"

Forget(f) == [mirror EXCEPT ![f] = NoCaller]
-----------------------------------------------------------------------------
(* A caller. *)

\* Mutant: it asks without having registered.
ExpectNothing(t) ==
    /\ at[t] = "idle"
    /\ Moves(t, "calling")
    /\ UNCHANGED <<title, late, answers, outcome, waiting, requests, replies, running,
                   connected, reader, mirror, heard>>

\* start_download registers with the mirror before it asks.
ExpectDownload(t) ==
    /\ at[t] = "idle"
    /\ Moves(t, "calling")
    /\ mirror' = [mirror EXCEPT ![title[t]] = t]
    /\ UNCHANGED <<title, late, answers, outcome, waiting, requests, replies, running,
                   connected, reader, heard>>

\* call: a connection known to be closed fails at once.
CheckClosed(t) ==
    /\ at[t] = "calling"
    /\ IF ClosedFlag
       THEN Moves(t, "failing") /\ outcome' = [outcome EXCEPT ![t] = "closed"]
       ELSE Moves(t, "registering") /\ UNCHANGED outcome
    /\ UNCHANGED <<title, late, answers, waiting, requests, replies, running, connected,
                   reader, mirror, heard>>

Register(t) ==
    /\ at[t] = "registering"
    /\ late' = IF reader \in {"failedAll", "done"} THEN late \cup {t} ELSE late
    /\ waiting' = waiting \cup {t}
    /\ Moves(t, "writing")
    /\ UNCHANGED <<title, answers, outcome, requests, replies, running,
                   connected, reader, mirror, heard>>

\* A write into a connection that has just broken may succeed and go nowhere.
WriteRequest(t) ==
    /\ at[t] = "writing"
    /\ \/ /\ Moves(t, "waiting")
          /\ requests' = IF connected THEN Append(requests, [from |-> t, result |-> "none"]) ELSE requests
          /\ UNCHANGED <<waiting, outcome>>
       \/ /\ ~connected
          /\ Moves(t, "failing")
          /\ waiting' = waiting \ {t}
          /\ outcome' = [outcome EXCEPT ![t] = "closed"]
          /\ UNCHANGED requests
    /\ UNCHANGED <<title, late, answers, replies, running, connected, reader, mirror, heard>>

ReturnAnswer(t) ==
    /\ at[t] = "waiting" /\ answers[t] # "none"
    /\ outcome' = [outcome EXCEPT ![t] = answers[t]]
    /\ Moves(t, IF answers[t] = "started" THEN "returned" ELSE "failing")
    /\ UNCHANGED <<title, late, answers, waiting, requests, replies, running,
                   connected, reader, mirror, heard>>

\* CALL_TIMEOUT.
ReturnTimeout(t) ==
    /\ at[t] = "waiting" /\ answers[t] = "none"
    /\ outcome' = [outcome EXCEPT ![t] = "timeout"]
    /\ waiting' = waiting \ {t}
    /\ Moves(t, "failing")
    /\ UNCHANGED <<title, late, answers, requests, replies, running, connected,
                   reader, mirror, heard>>

\* Mutant: a call that met a closed connection leaves its download registered.
ForgetUnlessClosed(t) ==
    /\ at[t] = "failing"
    /\ mirror' = IF outcome[t] = "closed" THEN mirror ELSE Forget(title[t])
    /\ Moves(t, "returned")
    /\ UNCHANGED <<title, late, answers, outcome, waiting, requests, replies, running,
                   connected, reader, heard>>

\* inspect_err: forget_download goes by the title.
ForgetDownload(t) ==
    /\ at[t] = "failing"
    /\ mirror' = Forget(title[t])
    /\ Moves(t, "returned")
    /\ UNCHANGED <<title, late, answers, outcome, waiting, requests, replies, running,
                   connected, reader, heard>>
-----------------------------------------------------------------------------
(* The reader. *)

\* settle: the first outcome for a call is the one, a call given up has none.
Settles(t, result) ==
    /\ answers' = IF t \in waiting THEN [answers EXCEPT ![t] = result] ELSE answers
    /\ waiting' = waiting \ {t}

\* route: a verdict is the last a caller hears of its download.
Routes(f) ==
    IF mirror[f] = NoCaller THEN UNCHANGED <<mirror, heard>>
    ELSE heard' = heard \cup {mirror[f]} /\ mirror' = Forget(f)

ReadReply ==
    /\ reader = "reading" /\ replies # <<>>
    /\ LET r == Head(replies) IN
       \/ r.kind = "answer" /\ Settles(r.to, r.result) /\ UNCHANGED <<mirror, heard>>
       \/ r.kind = "verdict" /\ Routes(r.of) /\ UNCHANGED <<answers, waiting>>
    /\ replies' = Tail(replies)
    /\ UNCHANGED <<at, title, late, outcome, requests, running, connected, reader>>

\* The reader thread's end: the flag, then the calls, then the downloads.
ReaderEnds ==
    /\ reader = "reading" /\ ~connected
    /\ reader' = "hungUp"
    /\ UNCHANGED <<callVars, waiting, requests, replies, running, connected, mirror, heard>>

\* Mutant: a call that is registered but still writing is overlooked.
FailAllWritten ==
    /\ reader = "hungUp"
    /\ reader' = "failedAll"
    /\ answers' = [t \in Callers |-> IF t \in waiting /\ at[t] = "waiting" THEN "failed" ELSE answers[t]]
    /\ waiting' = {t \in waiting : at[t] # "waiting"}
    /\ UNCHANGED <<at, title, late, outcome, requests, replies, running, connected,
                   mirror, heard>>

FailAll ==
    /\ reader = "hungUp"
    /\ reader' = "failedAll"
    /\ answers' = [t \in Callers |-> IF t \in waiting THEN "failed" ELSE answers[t]]
    /\ waiting' = {}
    /\ UNCHANGED <<at, title, late, outcome, requests, replies, running, connected,
                   mirror, heard>>

AbandonDownloads ==
    /\ reader = "failedAll"
    /\ reader' = "done"
    /\ mirror' = [f \in Titles |-> NoCaller]
    /\ UNCHANGED <<callVars, waiting, requests, replies, running, connected, heard>>
-----------------------------------------------------------------------------
(* The daemon, which answers in order and reports a download's verdict once. *)

\* start_download hands the transfer to the drainer before the reply is sent.
DaemonStarts ==
    /\ connected /\ requests # <<>> /\ requests[1].result = "none"
    /\ \E result \in {"started", "failed"} :
          /\ requests' = [requests EXCEPT ![1].result = result]
          /\ running' = IF result = "started"
                        THEN running \cup {title[requests[1].from]} ELSE running
    /\ UNCHANGED <<callVars, waiting, replies, connected, reader, mirror, heard>>

DaemonAnswers ==
    /\ connected /\ requests # <<>> /\ requests[1].result # "none"
    /\ replies' = Append(replies, [kind |-> "answer", to |-> requests[1].from,
                                   result |-> requests[1].result])
    /\ requests' = Tail(requests)
    /\ UNCHANGED <<callVars, waiting, running, connected, reader, mirror, heard>>

DaemonReports(f) ==
    /\ connected /\ f \in running
    /\ running' = running \ {f}
    /\ replies' = Append(replies, [kind |-> "verdict", of |-> f])
    /\ UNCHANGED <<callVars, waiting, requests, connected, reader, mirror, heard>>

Disconnect ==
    /\ connected
    /\ connected' = FALSE
    /\ requests' = <<>>
    /\ \E n \in 0..Len(replies) : replies' = SubSeq(replies, 1, n)
    /\ UNCHANGED <<callVars, waiting, running, reader, mirror, heard>>
-----------------------------------------------------------------------------
RemoteInit ==
    /\ at = [t \in Callers |-> "idle"] /\ title \in [Callers -> Titles]
    /\ late = {}
    /\ answers = [t \in Callers |-> "none"] /\ outcome = answers
    /\ waiting = {} /\ requests = <<>> /\ replies = <<>> /\ running = {}
    /\ connected = TRUE /\ reader = "reading"
    /\ mirror = [f \in Titles |-> NoCaller] /\ heard = {}

CallStep(t) ==
    \/ ExpectDownload(t)
    \/ CheckClosed(t) \/ Register(t) \/ WriteRequest(t)
    \/ ReturnAnswer(t) \/ ReturnTimeout(t) \/ ForgetDownload(t)

RemoteNext ==
    \/ \E t \in Callers : CallStep(t)
    \/ ReadReply \/ ReaderEnds \/ FailAll \/ AbandonDownloads
    \/ DaemonStarts \/ DaemonAnswers \/ Disconnect
    \/ \E f \in Titles : DaemonReports(f)

RemoteSpec == RemoteInit /\ [][RemoteNext]_remoteVars
-----------------------------------------------------------------------------
(* Correctness. *)

\* The types of the state.
RemoteTypeOK ==
    /\ at \in [Callers -> {"idle", "calling", "registering", "writing", "waiting",
                          "failing", "returned"}]
    /\ title \in [Callers -> Titles] /\ late \subseteq Callers
    /\ answers \in [Callers -> {"none", "started", "failed"}]
    /\ outcome \in [Callers -> {"none", "started", "failed", "closed", "timeout"}]
    /\ waiting \subseteq Callers /\ running \subseteq Titles /\ heard \subseteq Callers
    /\ \A k \in DOMAIN requests :
            requests[k] \in [from : Callers, result : {"none", "started", "failed"}]
    /\ \A k \in DOMAIN replies :
            replies[k] \in [kind : {"answer"}, to : Callers, result : {"started", "failed"}]
                             \cup [kind : {"verdict"}, of : Titles]
    /\ connected \in BOOLEAN
    /\ reader \in {"reading", "hungUp", "failedAll", "done"}
    /\ mirror \in [Titles -> Callers \cup {NoCaller}]

\* No call is left to discover a dead connection by timing out, and no reply
\* goes astray: while a call waits its answer is on the way, or its connection
\* has broken and the reader has yet to fail it; but for a call that saw the
\* flag unset and registered after all others were failed (remote/mod.rs:176-179).
CallsAreTold ==
    \A t \in Callers :
        at[t] = "waiting" /\ answers[t] = "none" =>
            /\ t \in waiting
            /\ \/ t \in late
               \/ ~connected /\ reader \in {"reading", "hungUp"}
               \/ \E k \in DOMAIN requests : requests[k].from = t
               \/ \E k \in DOMAIN replies : replies[k].kind = "answer" /\ replies[k].to = t

\* A download the daemon started has its caller listening, or has told it the
\* verdict, as long as nobody else asked for the same title.
CallerHears ==
    reader = "reading" =>
        \A t \in Callers :
            outcome[t] = "started"
              /\ (\A s \in Callers \ {t} : at[s] = "idle" \/ title[s] # title[t])
                => mirror[title[t]] = t \/ t \in heard

\* When the connection and every call on it are over nothing stays registered.
NothingLeftBehind ==
    reader = "done" /\ (\A t \in Callers : at[t] \in {"idle", "returned"}) =>
        waiting = {} /\ \A f \in Titles : mirror[f] = NoCaller
=============================================================================
