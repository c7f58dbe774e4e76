---------------------------- MODULE MCCashierSync ----------------------------
(***************************************************************************)
(* Instances of CashierSync for TLC.                                       *)
(***************************************************************************)
EXTENDS CashierSync, TLC

TwoKeys == 1..2
==============================================================================
