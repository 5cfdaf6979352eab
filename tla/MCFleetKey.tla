----------------------------- MODULE MCFleetKey -----------------------------
(***************************************************************************)
(* Instances of FleetKey for TLC.  Commands are interchangeable; the nodes *)
(* are not, one of them being the founder.                                 *)
(***************************************************************************)
EXTENDS FleetKey, TLC

Symmetry == Permutations(Procs)
=============================================================================
