\* Two transactions at once, jobs that are run twice, lines that are edited.
SPECIFICATION Spec
CONSTANTS
  Ingredients = {i1, i2}
  NoIngredient = NoIngredient
  Orders = {o1}
  NoOrder = NoOrder
  Slots = {s1, s2}
  Needs <- MixedNeeds
  Opening = 2
  MaxEdits = 1
  MaxMoves = 2
  Stalls = TRUE
INVARIANTS
  StockMatchesMovements
  
PROPERTIES
  MovedOnce
  EntriesAreAtomic
SYMMETRY LedgerSymmetry
CHECK_DEADLOCK FALSE
