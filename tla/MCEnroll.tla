------------------------------ MODULE MCEnroll ------------------------------
(***************************************************************************)
(* Instances of Enroll for TLC.  Requests are interchangeable, and so are  *)
(* node names; the liveness runs do not use the symmetry.                  *)
(***************************************************************************)
EXTENDS Enroll, TLC

Symmetry == Permutations(Requests) \cup Permutations(Nodes)
=============================================================================
