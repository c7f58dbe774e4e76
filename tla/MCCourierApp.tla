----------------------------- MODULE MCCourierApp -----------------------------
(***************************************************************************)
(* Instances of CourierApp for TLC.                                        *)
(***************************************************************************)
EXTENDS CourierApp

\* No property names a courier or a flush.
Interchangeable == Permutations(Couriers) \cup Permutations(Flushes)
===============================================================================
