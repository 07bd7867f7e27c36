----------------------------- MODULE MCDaemon ------------------------------
(***************************************************************************)
(* The daemon's connections, to its control clients and to the server,     *)
(* checked side by side under fairness: a behaviour is of one part, and    *)
(* the other rests.                                                        *)
(***************************************************************************)
EXTENDS EventHub, ServerSession

VARIABLE part

mcVars == <<part, hubVars, sessionVars>>

\* What a resting part chooses at the start makes no difference.
Init ==
    /\ part \in {"hub", "session"} /\ HubInit /\ SessionInit
    /\ part = "hub" => listed

Next ==
    /\ UNCHANGED part
    /\ \/ part = "hub" /\ HubNext /\ UNCHANGED sessionVars
       \/ part = "session" /\ SessionNext /\ UNCHANGED hubVars

\* A resting part has nothing enabled at its start that fairness speaks of.
FairSpec == Init /\ [][Next]_mcVars /\ HubFairness /\ SessionFairness
-----------------------------------------------------------------------------
\* The state of both parts is well typed, and the count of connections is
\* never below zero.
DaemonTypeOK == HubTypeOK /\ SessionTypeOK
=============================================================================
