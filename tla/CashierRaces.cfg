\* Two tabs, one of which takes orders; a phone order for delivery, with a discount.
SPECIFICATION FairSpec
CONSTANTS
  Keys <- TwoKeys
  Carts = {c1}
  Phoned = {c1}
  Delivered = {c1}
  Tokens = {e1}
  Tabs = {t1, t2}
  Tills = {t1}
  Slots = {r1, r2}
  None = None
  MaxEvents = 2
INVARIANTS
  ElevationUsedOnce
  NoSilentLoss
  ToldTheTruth
  PhonedCartOnce
PROPERTIES
  QueueDrains
  KeepsOneBook
CHECK_DEADLOCK FALSE
