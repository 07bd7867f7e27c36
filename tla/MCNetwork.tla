----------------------------- MODULE MCNetwork -----------------------------
(***************************************************************************)
(* The connections to peers, the distributed tree and a client of the      *)
(* daemon, checked side by side: a behaviour is of one part, and the       *)
(* others rest.  The parts share no state; the first two share the thread  *)
(* of the operations loop.                                                 *)
(***************************************************************************)
EXTENDS PeerNetwork, DistributedTree, RemoteSession

CONSTANTS p1, p2

VARIABLE part

mcVars == <<part, peerVars, treeVars, remoteVars>>

-----------------------------------------------------------------------------
(* Constants. *)

Scene(wanted, searchers, callers, capacities, n, stops) ==
    [wanted |-> wanted, searchers |-> searchers, callers |-> callers,
     capacities |-> capacities, actors |-> n, stops |-> stops]

\* A download while its peer and another dial in and only one of them fits; a
\* search to answer meanwhile; a download while somebody else dials in, the
\* capacity moves and the client stops.
Scenes ==
    {Scene({p1}, {}, {p1, p2}, {0}, 2, FALSE),
     Scene({}, {p1}, {p1, p2}, {1}, 2, FALSE),
     Scene({p1}, {}, {p2}, {1, 2}, 2, TRUE)}

\* A claim below zero is nonsense the code has to refuse.
ClaimedLevels == {-2, 0}
-----------------------------------------------------------------------------
\* What a resting part chooses at the start makes no difference.
Init ==
    /\ part \in {"peers", "tree", "remote"}
    /\ PeerInit /\ TreeInit /\ RemoteInit
    /\ part # "peers" => scenario.searchers # {} /\ capacity = 1
    /\ part # "tree" => limit = 1
    /\ part # "remote" => title = [t \in Callers |-> CHOOSE f \in Titles : TRUE]

Next ==
    /\ UNCHANGED part
    /\ \/ part = "peers" /\ PeerNext /\ UNCHANGED <<treeVars, remoteVars>>
       \/ part = "tree" /\ TreeNext /\ UNCHANGED <<peerVars, remoteVars>>
       \/ part = "remote" /\ RemoteNext /\ UNCHANGED <<peerVars, treeVars>>

Spec == Init /\ [][Next]_mcVars
-----------------------------------------------------------------------------
\* The state of every part is well typed, and a registry entry leads to an actor
\* of the user it names.
NetworkTypeOK == PeerTypeOK /\ TreeTypeOK /\ RemoteTypeOK
=============================================================================
