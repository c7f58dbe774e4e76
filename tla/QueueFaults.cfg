\* One screen with two requests at once, two API processes.
SPECIFICATION FairSpec
CONSTANTS
  Procs = {p1, p2}
  Slots = {1, 2}
  Screens = {c1}
  MaxChanges = 1
  Frail = {p1}
  MaxEvents = 1
  None = None
INVARIANTS
  Fresh
PROPERTIES
  EventuallyFresh
  ScreensSeeOneQueue
CHECK_DEADLOCK FALSE
