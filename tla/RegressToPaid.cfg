\* A collection that read a placed order commits after the kitchen took it.
SPECIFICATION Spec
CONSTANTS
  Orders = {o1}
  Slots = {s1, s2}
  Couriers = {c1}
  NoCourier = NoCourier
  MaxEdits = 0
  Placements <- RaceRows
INVARIANT NeverPaidAfterKitchen
CHECK_DEADLOCK FALSE
