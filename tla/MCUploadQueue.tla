--------------------------- MODULE MCUploadQueue ---------------------------
(* Small instances of UploadQueue for TLC. *)
EXTENDS UploadRefinement, TLC

\* Peers are alike: safety runs may treat them as interchangeable.
UserSymmetry == Permutations(Users)
=============================================================================
