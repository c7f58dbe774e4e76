\* Two payments, every status code, a till, and a handler that dies.
SPECIFICATION FairSpec
CONSTANTS
  Payments = {p1, p2}
  NoPayment = NoPayment
  Slots = {s1, s2}
  Codes = {"success", "pending", "failed"}
  Tills = {t1}
  MaxFaults = 1
INVARIANTS
  RecordedOnce
  CompletedWasPaid
PROPERTIES
  ChargeLands
  
CHECK_DEADLOCK FALSE
