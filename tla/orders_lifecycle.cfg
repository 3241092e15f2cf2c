CONSTANTS
  s1 = s1
  s2 = s2
  x1 = x1
  k1 = k1
  Commands = {s1, x1}
  SendOrders = {s1}
  KeyOf <- OwnKey
  MaxAttempts = 2
  MaxCrashes = 1
  MaxJournalFaults = 0
SPECIFICATION Spec
CHECK_DEADLOCK FALSE
INVARIANTS
  CallOnlyAfterDurablePreAck
  AcceptedOrderStaysVisible
  SingleClaim
PROPERTIES
  BoundaryNeverRegresses
