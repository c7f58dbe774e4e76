---------------------------- MODULE MCDishReviews ----------------------------
(***************************************************************************)
(* Instances of DishReviews for TLC.                                       *)
(***************************************************************************)
EXTENDS DishReviews, TLC

\* No property names an order or a slot.
Interchangeable == Permutations(Orders) \cup Permutations(Slots)
===============================================================================
