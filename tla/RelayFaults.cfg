\* Two relays on one table, with processes dying, database calls failing and
\* Redis refusing any job.
SPECIFICATION FairSpec
CONSTANTS
  Events <- ThreeEvents
  Relays = {w1, w2}
  BatchSize = 2
  Threshold = 2
  MaxFaults = 1
INVARIANTS
  HeldByOne
  PublishedHasJob
PROPERTIES
  EventuallySettled
  RelaysDeliver
CHECK_DEADLOCK FALSE
