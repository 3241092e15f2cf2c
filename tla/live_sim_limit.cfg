SPECIFICATION Spec
CONSTANTS
  None = None
  b1 = b1  b2 = b2  s1 = s1  s2 = s2  r1 = r1  r2 = r2
  Buys <- TwoBuys
  Sells <- OneSell
  Runners <- OneRunner
  Q = 1
  MaxActive = 1
  ScaleIn = FALSE
  ChejanFeed = FALSE
  MaxFaults = 1
INVARIANTS BooksMatchBroker ActiveLimitHolds
SYMMETRY Symmetry
CHECK_DEADLOCK FALSE
