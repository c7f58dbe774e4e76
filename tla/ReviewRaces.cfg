\* Two orders of the dish, one reader, two requests at once.
SPECIFICATION ReviewsSpec
CONSTANTS
  Orders = {o1, o2}
  Readers = {c1}
  Ratings = {1, 2}
  Slots = {s1, s2}
  MaxEvents = 4
INVARIANTS
  ReviewsTypeOK
  StatsMatchPublic
  HelpfulParity
SYMMETRY Interchangeable
CHECK_DEADLOCK FALSE
