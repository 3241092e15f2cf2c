CONSTANTS
  s1 = s1
  s2 = s2
  x1 = x1
  k1 = k1
  Commands = {s1, s2}
  SendOrders = {s1, s2}
  KeyOf <- SameKey
  MaxAttempts = 2
  MaxCrashes = 1
  MaxJournalFaults = 1
SPECIFICATION FairSpec
CHECK_DEADLOCK FALSE
INVARIANTS
  AtMostOneCallPerKey
  BoundaryRowsComplete
PROPERTIES
  AcceptedOrderSurfaces
