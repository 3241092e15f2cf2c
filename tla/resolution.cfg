CONSTANTS
  c1 = c1
  o1 = o1
  o2 = o2
  Orders = {c1}
  Operators = {o1, o2}
  MaxAsked = 4
  MaxVersion = 3
  MaxDay = 2
SPECIFICATION Spec
CHECK_DEADLOCK FALSE
SYMMETRY Symmetry
INVARIANTS
  LedgersValid
PROPERTIES
  ClaimOnlyWithoutDoubt
  ReleaseNeverRevives
