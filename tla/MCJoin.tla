------------------------------- MODULE MCJoin -------------------------------
(***************************************************************************)
(* Instances of Join for TLC.  The node names are interchangeable, so the  *)
(* first join runs on a fixed one; TLC checks liveness, hence no SYMMETRY. *)
(***************************************************************************)
EXTENDS Join

CONSTANTS FirstJoin, FirstNode

CanonicalHosts == {h \in [Requests -> Nodes] : h[FirstJoin] = FirstNode}
=============================================================================
