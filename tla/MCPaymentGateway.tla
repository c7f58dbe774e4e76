-------------------------- MODULE MCPaymentGateway --------------------------
(***************************************************************************)
(* Instances of PaymentGateway for TLC: no symmetry, for the runs check    *)
(* liveness.                                                               *)
(***************************************************************************)
EXTENDS PaymentGateway, TLC
===========================================================================
