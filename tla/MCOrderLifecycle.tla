------------------------- MODULE MCOrderLifecycle -------------------------
(***************************************************************************)
(* Instances of OrderLifecycle for TLC: the mixes of freshly created       *)
(* orders a run starts from.                                               *)
(***************************************************************************)
EXTENDS OrderLifecycle, TLC

\* Every row the two front ends can create.
AllRows == Placement

\* One online takeaway, one scheduled cash delivery, one prepaid and one
\* pay-later order of the counter: every handler is enabled on one of them,
\* and every guard on method, channel, marker or time is met both ways.
RaceRows ==
  { r \in ClientPlacements :
      \/ r.method = "payhere" /\ r.ftype = "takeaway" /\ ~r.gated
      \/ r.method = "cash" /\ r.ftype = "delivery" /\ r.gated }
  \cup { CashierPlacement("cash", "dine_in", "immediate"),
         CashierPlacement("card", "takeaway", "at_collection") }

\* Slots are interchangeable.
SlotSymmetry == Permutations(Slots)
===========================================================================
