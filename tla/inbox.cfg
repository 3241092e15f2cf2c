CONSTANTS
  w1 = w1
  w2 = w2
  None = None
  Workers = {w1, w2}
  N = 2
  RetryLimit = 2
  MaxUnresolved = 1
  MaxFaults = 1
SPECIFICATION FairSpec
CHECK_DEADLOCK FALSE
INVARIANTS
  AnsweredEventInInbox
  AppliedOnce
  InlineAnswerIsApplied
PROPERTIES
  RowidOrder
  InboxSettles
