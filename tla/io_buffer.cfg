CONSTANTS
  k1 = k1
  k2 = k2
  Types = {"command_event", "tr_response", "price_tick", "heartbeat", "condition_event"}
  Keys = {k1}
  CoalesceAfter = 2
  MaxBuffer = 2
  BatchSize = 2
  PriorityShare = 1
  MarketShare = 1
  MaxEvents = 4
  MaxFailures = 1
SPECIFICATION FairSpec
CHECK_DEADLOCK FALSE
INVARIANTS
  TypeOK
  ProtectedNeverLost
  CriticalInOrder
  NewestSurvives
PROPERTIES
  QueuedEventLeaves
