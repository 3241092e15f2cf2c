SPECIFICATION FairSpec
CONSTANTS
  None = None
  c1 = c1  c2 = c2  e1 = e1  w1 = w1  w2 = w2
  Cands <- OneCand
  Enqueuers <- OneEnqueuer
  Workers <- TwoWorkers
  RetryLimit = 2
  MaxTicks = 2
  MaxActions = 3
  MaxFaults = 1
INVARIANTS TypeOK NoTickForgotten
PROPERTY QueueDrains
CHECK_DEADLOCK FALSE
