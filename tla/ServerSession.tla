--------------------------- MODULE ServerSession ---------------------------
(***************************************************************************)
(* The session with the server: the actor that owns the connection         *)
(* (actor/server_actor.rs and server_actor/handlers.rs), the login that    *)
(* waits for its verdict (client/connection.rs), the watch that remembers  *)
(* how the session ended (types.rs), and the daemon's loop that logs in    *)
(* again and rejoins the rooms (daemon/mod.rs, daemon/server/mod.rs).      *)
(*                                                                         *)
(* Concurrent parties: the actor, the thread that polls for a verdict, the *)
(* daemon's reconnect loop, a client of the daemon that joins and leaves   *)
(* one room, and the server.  The daemon runs only once it is logged in,   *)
(* which is where a behaviour starts.                                      *)
(***************************************************************************)
EXTENDS Integers, Sequences

CONSTANTS
    MaxFaults, \* bound: broken connections, failed dials, refusals, silences
    MaxCalls   \* bound: rooms joined or left by the daemon's client

ASSUME SessionConstants == {MaxFaults, MaxCalls} \subseteq Nat

VARIABLES
    conn,       \* connection_state; there is a stream unless disconnected
    wire,       \* the connection as the network and the server see it
    inbox,      \* the actor's mailbox
    queued,     \* queued_messages, kept for the next connection
    dispatched, \* the dispatcher's channel, what other threads put there
    batch,      \* messages the actor has taken and handles one by one
    loggedIn,   \* Context.logged_in
    loss,       \* SessionWatch
    waiter,     \* the latest login, as its caller sees it
    loop,       \* the reconnect loop
    listed,     \* Daemon.rooms holds the room
    snapshot,   \* the loop's copy of it
    call,       \* the client's call: sent to the server, not yet listed
    calls,      \* calls made
    faults,     \* faults so far
    excuses     \* history: what went wrong that the code does not repair

serverActorVars   == <<conn, wire, inbox, queued, dispatched, batch, loggedIn, loss>>
daemonVars  == <<waiter, loop, listed, snapshot, call, calls>>
sessionVars == <<serverActorVars, daemonVars, faults, excuses>>

\* accepted, inRoom: the server took this connection's login, has us in the room.
NoWire == [up |-> FALSE, sent |-> <<>>, answers |-> <<>>,
           accepted |-> FALSE, inRoom |-> FALSE]

Verdicts == {"accepted", "rejected"}
Requests == {"join", "leave", "ask", "login"}

\* The actor loop comes back to its mailbox, and ticks when that is empty.
Free == batch = <<>>
Ticks == Free /\ inbox = <<>>

Fault == faults < MaxFaults /\ faults' = faults + 1
NoFault == UNCHANGED faults

Excuse(e, cond) == excuses' = IF cond THEN excuses \cup {e} ELSE excuses
-----------------------------------------------------------------------------
(* The actor. *)

\* Mutant: what was read of the old connection is kept for the next.
DisconnectsKeepingReader(how) ==
    /\ conn' = "disconnected" /\ wire' = [NoWire EXCEPT !.answers = wire.answers]
    /\ queued' = <<>> /\ dispatched' = <<>>
    /\ loggedIn' = "none"
    /\ loss' = IF loss = "live" THEN how ELSE loss

\* disconnect; disconnect_with_error records the loss of a connected session,
\* and the first loss recorded is the one.
Disconnects(how) ==
    /\ conn' = "disconnected" /\ wire' = NoWire
    /\ queued' = <<>> /\ dispatched' = <<>>
    /\ loggedIn' = "none"
    /\ loss' = IF loss = "live" THEN how ELSE loss

\* Mutant: the loss is not recorded.
DropsSilently == Disconnects(loss)

Drops == Disconnects(IF conn = "connected" THEN "disconnected" ELSE loss)

\* A write into a connection that has broken may still vanish before one fails.
Writes(m) ==
    \/ /\ wire' = IF wire.up THEN [wire EXCEPT !.sent = Append(@, m)] ELSE wire
       /\ UNCHANGED <<conn, queued, dispatched, loggedIn, loss>>
    \/ ~wire.up /\ Drops

\* The login at the head of the mailbox is the one its caller still waits for.
Awaited ==
    waiter = "posted" /\ \A k \in 2..Len(inbox) : inbox[k] # "relogin"

\* handle_login, with the dial it makes when there is no stream; the login
\* itself goes to the dispatcher or waits for the connection.
HandleLogin ==
    /\ Free /\ inbox # <<>> /\ Head(inbox) = "relogin"
    /\ inbox' = Tail(inbox)
    /\ loggedIn' = "none"
    /\ \/ /\ conn = "disconnected"
          /\ Fault
          /\ waiter' = IF Awaited THEN "refused" ELSE waiter
          /\ queued' = <<>>
          /\ UNCHANGED <<conn, wire, dispatched>>
       \/ /\ conn' = IF conn = "disconnected" THEN "connecting" ELSE conn
          /\ wire' = IF conn = "disconnected" THEN [wire EXCEPT !.up = TRUE] ELSE wire
          /\ IF conn = "connected"
             THEN dispatched' = Append(dispatched, "login") /\ UNCHANGED queued
             ELSE queued' = Append(queued, "login") /\ UNCHANGED dispatched
          /\ waiter' = IF Awaited THEN "polling" ELSE waiter
          /\ NoFault
    /\ UNCHANGED <<batch, loss, loop, listed, snapshot, call, calls, excuses>>

\* Anything else waits for a connection, or is written to the one there is.
HandleRequest ==
    /\ Free /\ inbox # <<>> /\ Head(inbox) \in Requests
    /\ inbox' = Tail(inbox)
    /\ IF conn = "connected" THEN Writes(Head(inbox))
       ELSE queued' = Append(queued, Head(inbox))
            /\ UNCHANGED <<conn, wire, dispatched, loggedIn, loss>>
    /\ UNCHANGED <<batch, daemonVars, faults, excuses>>

\* check_connection_status: the connection is up, and what was queued for it is
\* handled first; or it cannot be made.
Established ==
    /\ Ticks /\ conn = "connecting"
    /\ conn' = "connected"
    /\ batch' = queued /\ queued' = <<>> /\ dispatched' = <<>>
    /\ UNCHANGED <<wire, inbox, loggedIn, loss, daemonVars, faults, excuses>>

NotEstablished ==
    /\ Ticks /\ conn = "connecting"
    /\ Fault
    /\ Drops
    /\ UNCHANGED <<inbox, batch, daemonVars, excuses>>

\* process_read: what the server said follows what other threads put into the
\* dispatcher's channel.
ProcessRead ==
    /\ Ticks /\ conn = "connected" /\ dispatched \o wire.answers # <<>>
    /\ batch' = dispatched \o wire.answers
    /\ dispatched' = <<>>
    /\ wire' = [wire EXCEPT !.answers = <<>>]
    /\ UNCHANGED <<conn, inbox, queued, loggedIn, loss, daemonVars, faults, excuses>>

ReadFails ==
    /\ Ticks /\ conn = "connected" /\ ~wire.up
    /\ Drops
    /\ UNCHANGED <<inbox, batch, daemonVars, faults, excuses>>

\* handle_login_status: what follows a login is written, the watch is cleared
\* and the verdict is there for the waiter to see, whether a write failed or not.
LoginAccepted ==
    /\ loss' = "live" /\ loggedIn' = "yes"
    /\ LET late == IF waiter = "polling" THEN {} ELSE {"late"} IN
       \/ /\ UNCHANGED <<conn, wire, queued, dispatched>>
          /\ excuses' = excuses \cup late
       \/ /\ ~wire.up
          /\ conn' = "disconnected" /\ wire' = NoWire
          /\ queued' = <<>> /\ dispatched' = <<>>
          /\ excuses' = excuses \cup late \cup {"muted"}

\* The rest of a batch whose connection was dropped on the way waits, verdicts
\* included, for the next connection.
HandleBatch ==
    /\ batch # <<>>
    /\ batch' = Tail(batch)
    /\ LET m == Head(batch) IN
       \/ /\ conn # "connected"
          /\ queued' = Append(queued, m)
          /\ Excuse("leftover", m \in Verdicts)
          /\ UNCHANGED <<conn, wire, dispatched, loggedIn, loss>>
       \/ /\ conn = "connected" /\ m \in Requests
          /\ Writes(m)
          /\ UNCHANGED excuses
       \/ conn = "connected" /\ m = "accepted" /\ LoginAccepted
       \/ /\ conn = "connected" /\ m = "rejected"
          /\ loggedIn' = "no"
          /\ UNCHANGED <<conn, wire, queued, dispatched, loss, excuses>>
       \/ /\ conn = "connected" /\ m = "relogged"
          /\ Disconnects("displaced")
          /\ UNCHANGED excuses
    /\ UNCHANGED <<inbox, daemonVars, faults>>
-----------------------------------------------------------------------------
(* The server and the network. *)

\* A connection that has not logged in gets nothing done.
ServerReads ==
    /\ wire.up /\ wire.sent # <<>>
    /\ LET m == Head(wire.sent)
           w == [wire EXCEPT !.sent = Tail(@)] IN
       \/ /\ m = "login"
          /\ wire' = [w EXCEPT !.answers = Append(@, "accepted"), !.accepted = TRUE]
          /\ NoFault
       \/ /\ m = "login" /\ ~wire.accepted
          /\ Fault
          /\ wire' = [w EXCEPT !.answers = Append(@, "rejected")]
       \/ /\ m # "login"
          /\ wire' = IF wire.accepted /\ m # "ask" THEN [w EXCEPT !.inRoom = (m = "join")] ELSE w
          /\ NoFault
    /\ UNCHANGED <<conn, inbox, queued, dispatched, batch, loggedIn, loss, daemonVars, excuses>>

\* The same account logs in elsewhere: we are told, and cut off.
Relogged ==
    /\ wire.up /\ wire.accepted
    /\ Fault
    /\ wire' = [wire EXCEPT !.up = FALSE, !.sent = <<>>, !.answers = Append(@, "relogged")]
    /\ UNCHANGED <<conn, inbox, queued, dispatched, batch, loggedIn, loss, daemonVars, excuses>>

\* The connection breaks; what had arrived may still be read.
ConnectionBreaks ==
    /\ wire.up
    /\ Fault
    /\ wire' = [wire EXCEPT !.up = FALSE, !.sent = <<>>]
    /\ UNCHANGED <<conn, inbox, queued, dispatched, batch, loggedIn, loss, daemonVars, excuses>>

\* The operations loop asks for an address by the sender it was given; one of a
\* connection that is gone leads nowhere (bound: one at a time).
Asks ==
    /\ conn = "connected" /\ dispatched = <<>>
    /\ Fault
    /\ dispatched' = <<"ask">>
    /\ UNCHANGED <<conn, wire, inbox, queued, batch, loggedIn, loss, daemonVars, excuses>>
-----------------------------------------------------------------------------
(* A login's wait. *)

WaiterSees ==
    /\ waiter = "polling" /\ loggedIn # "none"
    /\ waiter' = IF loggedIn = "yes" THEN "ok" ELSE "rejected"
    /\ UNCHANGED <<serverActorVars, loop, listed, snapshot, call, calls, faults, excuses>>

\* Nothing is under way that a verdict could come of.
Silence ==
    \/ conn = "disconnected"
    \/ /\ conn = "connected" /\ wire.up
       /\ \A s \in {dispatched, batch, wire.sent, wire.answers} : s = <<>>

\* Mutant: a login the actor has taken is waited for without end.
WaitsForever ==
    /\ waiter = "posted" /\ loggedIn = "none"
    /\ Fault
    /\ waiter' = "timeout"
    /\ UNCHANGED <<serverActorVars, loop, listed, snapshot, call, calls, excuses>>

\* LOGIN_VERDICT_TIMEOUT, or LOGIN_RESPONSE_TIMEOUT of a caller whose login the
\* actor has not come to; both are far longer than a tick, so that while
\* something is under way it takes a fault for them to pass.
WaiterTimesOut ==
    /\ waiter \in {"posted", "polling"} /\ loggedIn = "none"
    /\ IF waiter = "polling" /\ Silence THEN NoFault ELSE Fault
    /\ waiter' = "timeout"
    /\ UNCHANGED <<serverActorVars, loop, listed, snapshot, call, calls, excuses>>
-----------------------------------------------------------------------------
(* The daemon. *)

\* Mutant: any loss is repaired.
DecideAnyLoss ==
    /\ loop = "watching" /\ loss # "live"
    /\ loop' = "relogin"
    /\ UNCHANGED <<serverActorVars, waiter, listed, snapshot, call, calls, faults, excuses>>

\* should_reconnect: only a dropped connection, never another login's.
Decide ==
    /\ loop = "watching" /\ loss = "disconnected"
    /\ loop' = "relogin"
    /\ UNCHANGED <<serverActorVars, waiter, listed, snapshot, call, calls, faults, excuses>>

Relogin ==
    /\ loop = "relogin"
    /\ loop' = "calling"
    /\ waiter' = "posted"
    /\ inbox' = Append(inbox, "relogin")
    /\ UNCHANGED <<conn, wire, queued, dispatched, batch, loggedIn, loss, listed, snapshot,
                   call, calls, faults, excuses>>

LoginReturns ==
    /\ loop = "calling" /\ waiter \in {"ok", "rejected", "timeout", "refused"}
    /\ loop' = IF waiter = "ok" THEN "rejoining" ELSE "backoff"
    /\ snapshot' = listed
    /\ Excuse("torn", waiter = "ok" /\ call # "none")
    /\ waiter' = "none"
    /\ UNCHANGED <<serverActorVars, listed, call, calls, faults>>

\* Mutant: logging in again is taken to be enough.
RejoinNothing ==
    /\ loop = "rejoining"
    /\ loop' = "watching"
    /\ UNCHANGED <<serverActorVars, waiter, listed, snapshot, call, calls, faults, excuses>>

Rejoin ==
    /\ loop = "rejoining"
    /\ loop' = "watching"
    /\ inbox' = IF snapshot THEN Append(inbox, "join") ELSE inbox
    /\ UNCHANGED <<conn, wire, queued, dispatched, batch, loggedIn, loss, waiter,
                   listed, snapshot, call, calls, faults, excuses>>

BackoffPasses ==
    /\ loop = "backoff"
    /\ loop' = "watching"
    /\ UNCHANGED <<serverActorVars, waiter, listed, snapshot, call, calls, faults, excuses>>

\* RoomJoin and RoomLeave: the server is asked first, the list follows.
RoomCall(kind) ==
    /\ call = "none" /\ calls < MaxCalls
    /\ calls' = calls + 1
    /\ call' = kind
    /\ inbox' = Append(inbox, kind)
    /\ Excuse("torn", loop = "rejoining")
    /\ UNCHANGED <<conn, wire, queued, dispatched, batch, loggedIn, loss, waiter,
                   loop, listed, snapshot, faults>>

RoomListed ==
    /\ call # "none"
    /\ listed' = (call = "join")
    /\ call' = "none"
    /\ UNCHANGED <<serverActorVars, waiter, loop, snapshot, calls, faults, excuses>>
-----------------------------------------------------------------------------
\* The first login went well and restore joined the rooms there were.
SessionInit ==
    /\ listed \in BOOLEAN
    /\ conn = "connected" /\ wire = [NoWire EXCEPT !.up = TRUE, !.accepted = TRUE, !.inRoom = listed]
    /\ inbox = <<>> /\ queued = <<>> /\ dispatched = <<>> /\ batch = <<>>
    /\ loggedIn = "yes" /\ loss = "live"
    /\ waiter = "none" /\ loop = "watching" /\ snapshot = FALSE
    /\ call = "none" /\ calls = 0 /\ faults = 0 /\ excuses = {}

SessionActorStep ==
    \/ HandleLogin \/ HandleRequest \/ Established \/ ProcessRead \/ ReadFails \/ HandleBatch

DaemonStep ==
    \/ WaiterSees \/ WaiterTimesOut
    \/ Decide \/ Relogin \/ LoginReturns \/ Rejoin \/ BackoffPasses \/ RoomListed

SessionNext ==
    \/ SessionActorStep \/ DaemonStep \/ NotEstablished
    \/ ServerReads \/ Relogged \/ ConnectionBreaks \/ Asks
    \/ \E kind \in {"join", "leave"} : RoomCall(kind)

SessionSpec == SessionInit /\ [][SessionNext]_sessionVars

\* Every thread goes on, the server reads what it is sent, and a verdict that
\* cannot come any more is not waited for.
SessionFairness ==
    /\ WF_sessionVars(SessionActorStep) /\ SF_sessionVars(ReadFails) /\ WF_sessionVars(ServerReads)
    /\ WF_sessionVars(WaiterSees) /\ WF_sessionVars(WaiterTimesOut)
    /\ WF_sessionVars(Decide \/ Relogin \/ LoginReturns \/ Rejoin \/ BackoffPasses)
-----------------------------------------------------------------------------
(* Correctness. *)

Said == Requests \cup Verdicts \cup {"relogged"}

\* The types of the state.
SessionTypeOK ==
    /\ conn \in {"connecting", "connected", "disconnected"}
    /\ wire \in [up : BOOLEAN, sent : Seq(Requests), answers : Seq(Verdicts \cup {"relogged"}),
                 accepted : BOOLEAN, inRoom : BOOLEAN]
    /\ inbox \in Seq(Requests \cup {"relogin"})
    /\ {queued, dispatched, batch} \subseteq Seq(Said)
    /\ loggedIn \in {"none", "yes", "no"} /\ loss \in {"live", "disconnected", "displaced"}
    /\ waiter \in {"none", "posted", "polling", "ok", "rejected", "timeout", "refused"}
    /\ loop \in {"watching", "relogin", "calling", "rejoining", "backoff"}
    /\ {listed, snapshot} \subseteq BOOLEAN
    /\ call \in {"none", "join", "leave"} /\ calls \in 0..MaxCalls /\ faults \in 0..MaxFaults
    /\ excuses \subseteq {"late", "muted", "leftover", "torn"}

\* A login counts as accepted only when the server accepted it on this very
\* connection, whatever was queued, retried or came late.
VerdictIsTheServers ==
    loggedIn = "yes" /\ conn = "connected" => wire.accepted \/ "leftover" \in excuses

\* Who was displaced by another login does not take the account back
\* (daemon/mod.rs:320-322), unless an attempt given up as late was retried.
DisplacedStays ==
    [][loss = "displaced" => loss' = "displaced" \/ "late" \in excuses]_sessionVars

Settled ==
    /\ loop = "watching" /\ call = "none"
    /\ \A s \in {inbox, queued, dispatched, batch, wire.sent, wire.answers} : s = <<>>

\* When nothing is under way any more the server has us in the room that the
\* daemon lists, whatever was lost and logged in again meanwhile
\* (daemon/mod.rs:386-401), unless a call fell between the copy of the list and
\* the rejoining, or a login that was given up was accepted late.
RoomsRejoined ==
    Settled /\ conn = "connected" /\ wire.up /\ loss = "live" /\ wire.accepted =>
        wire.inRoom = listed \/ excuses \cap {"torn", "late"} # {}

\* A session that is over says so (client/mod.rs:720-723), but for one that ended in
\* the writes that follow an accepted login: its loss is recorded and cleared.
LossIsSeen ==
    conn = "disconnected" /\ batch = <<>> => loss # "live" \/ "muted" \in excuses

\* A lost session does not stay lost: a verdict comes or the wait for one ends,
\* and the loop tries again until a login is accepted.
LossIsRepaired == loss = "disconnected" ~> loss # "disconnected"
=============================================================================
