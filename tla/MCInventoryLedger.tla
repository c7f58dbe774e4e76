------------------------- MODULE MCInventoryLedger -------------------------
(***************************************************************************)
(* Instances of InventoryLedger for TLC.                                   *)
(***************************************************************************)
EXTENDS InventoryLedger, TLC

\* Lines that use one unit, or two, of one ingredient; or one unit of each.
MixedNeeds == {n \in [Ingredients -> 0..2] :
                 MapThenSumSet(LAMBDA i : n[i], Ingredients) \in 1..2}

LedgerSymmetry == Permutations(Slots) \cup Permutations(Ingredients)
===========================================================================
