------------------------------- MODULE MCServe -------------------------------
(* Instances of Serve for TLC; no symmetry, because of the liveness. *)
EXTENDS Serve
=============================================================================
