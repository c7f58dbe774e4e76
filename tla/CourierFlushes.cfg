\* Two couriers, an order to be paid at the door, two flushes at once.
SPECIFICATION Spec
CONSTANTS
  Couriers = {a, b}
  NoCourier = NoCourier
  Orders = {o1}
  Unpaid = {o1}
  Flushes = {f1, f2}
  MaxQueued = 2
  MaxFaults = 2
INVARIANTS
  
  QueuedIsKept
SYMMETRY Interchangeable
CHECK_DEADLOCK FALSE
