\* A handler dies after its claim.
SPECIFICATION FairSpec
CONSTANTS
  Payments = {p1, p2}
  NoPayment = NoPayment
  Slots = {s1, s2}
  Codes = {"success", "failed"}
  Tills = {}
  MaxFaults = 1
PROPERTY EveryChargeLands
CHECK_DEADLOCK FALSE
