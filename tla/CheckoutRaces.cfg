\* Two carts, four presses, two faults.
SPECIFICATION Spec
CONSTANTS
  Attempts <- FourAttempts
  MaxCarts = 2
  MaxFaults = 2
INVARIANTS
  TypeOK
  
  VoidedNeverCharged
CHECK_DEADLOCK FALSE
