\* One request at a time, on every order the front ends can create.
SPECIFICATION Spec
CONSTANTS
  Orders = {o1}
  Slots = {s1}
  Couriers = {c1, c2}
  NoCourier = NoCourier
  MaxEdits = 1
  Placements <- AllRows
INVARIANTS
  CollectedOnce
  
PROPERTIES
  TerminalIsFinal
  DeliveredOnlyWhenPaid
  PaidLinesNeedOverride
  BoardRefinement
CHECK_DEADLOCK FALSE
