\* Two handlers at once on one order.
SPECIFICATION Spec
CONSTANTS
  Orders = {o1}
  Slots = {s1, s2}
  Couriers = {c1}
  NoCourier = NoCourier
  MaxEdits = 0
  Placements <- RaceRows
INVARIANTS
  TypeOK
  PreparedImpliesTicketed
  SettledHasEvidence
PROPERTIES
  KitchenEntryOnce
  AbortSparesPaid
SYMMETRY SlotSymmetry
CHECK_DEADLOCK FALSE
