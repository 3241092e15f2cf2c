SPECIFICATION Spec
CONSTANTS
  None = None
  b1 = b1  b2 = b2  s1 = s1  s2 = s2  r1 = r1  r2 = r2
  Buys <- OneBuy
  Sells <- TwoSells
  Runners <- TwoRunners
  Q = 2
  MaxActive = 1
  ScaleIn = FALSE
  ChejanFeed = FALSE
  MaxFaults = 0
INVARIANTS TypeOK NeverSellsMoreThanHeld LiveOrdersCounted
SYMMETRY ExitSymmetry
CHECK_DEADLOCK FALSE
