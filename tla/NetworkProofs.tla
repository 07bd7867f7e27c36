---------------------------- MODULE NetworkProofs ----------------------------
(***************************************************************************)
(* What the parts beside each other keep: a behaviour of them all is one   *)
(* of each, so that what is proved of a part holds of the composition.     *)
(***************************************************************************)
EXTENDS MCNetwork, PeerNetworkProofs, DistributedTreeProofs, RemoteSessionProofs

\* Every step is a step of one part that leaves the others alone, and so a
\* step or a stutter of each.
LEMMA StepOfEach ==
    ASSUME [Next]_mcVars
    PROVE  [PeerNext]_peerVars /\ [TreeNext]_treeVars /\ [RemoteNext]_remoteVars
BY Zenon DEF Next, mcVars

LEMMA StartOfEach == Init => PeerInit /\ TreeInit /\ RemoteInit
BY DEF Init

LEMMA SpecOfEach == Spec => PeerSpec /\ TreeSpec /\ RemoteSpec
BY StepOfEach, StartOfEach, PTL DEF Spec, PeerSpec, TreeSpec, RemoteSpec

\* The state of every part is well typed, and a registry entry leads to an
\* actor of the user it names (client/mod.rs, peer_registry.rs).
THEOREM NetworkTyped == Spec => []NetworkTypeOK
BY SpecOfEach, ConnectionsTyped, TreeTyped, RemoteTyped, PTL DEF NetworkTypeOK
=============================================================================
