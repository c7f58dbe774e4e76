--------------------------- MODULE MCOutboxRelay ---------------------------
(***************************************************************************)
(* Instances of OutboxRelay for TLC: no symmetry, for the run checks       *)
(* liveness.                                                               *)
(***************************************************************************)
EXTENDS OutboxRelay, TLC

ThreeEvents == 1..3
===========================================================================
