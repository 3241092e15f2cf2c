CONSTANTS
  e1 = e1
  e2 = e2
  e3 = e3
  e4 = e4
  w1 = w1
  w2 = w2
  Events = {e1, e2, e3, e4}
  Ts <- Stamps
  Kind <- Kinds
  Workers = {w1, w2}
  Modes = {"apply", "verify", "disabled"}
  RetryLimit = 3
  MaxRuns = 2
  MaxFaults = 1
SPECIFICATION MCSpec
CHECK_DEADLOCK FALSE
SYMMETRY Symmetry
INVARIANTS
  TypeOK
  VolumeCountedOnce
  LatestIsNewest
  AnsweredEventHasJob
  AppliedTickIsEvaluated
  SettledJobLeavesTrace
PROPERTIES
  SettledJobStays
