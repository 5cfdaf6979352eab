------------------------------- MODULE MCKms --------------------------------
(***************************************************************************)
(* The service together with the codec of the envelopes it hands out and   *)
(* takes back, checked without symmetry because of the liveness.  The two  *)
(* share no state: an envelope's life is followed while the service is     *)
(* idle, which adds their state spaces instead of multiplying them.        *)
(*                                                                         *)
(* For Envelope: public areas written in unary, so that none begins        *)
(* another, up to a length beyond what two base-Base digits can announce,  *)
(* and all private areas of up to MaxPrivate bytes.                        *)
(***************************************************************************)
EXTENDS Kms, Envelope

CONSTANT MaxPublic   \* longest public area

Unary(n) == [i \in 1..n |-> IF i = n THEN 0 ELSE 1]

AllPublics == {Unary(n) : n \in 1..MaxPublic}

AllPrivates == UNION {[1..n -> Byte] : n \in 0..MaxPrivate}

MCInit == Init /\ EnvelopeInit

MCNext ==
    \/ state = "none" /\ Next /\ UNCHANGED envelope
    \/ Init /\ EnvelopeNext /\ UNCHANGED vars

MCSpec == MCInit /\ [][MCNext]_<<vars, envelope>> /\ Fairness
=============================================================================
