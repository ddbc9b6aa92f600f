SPECIFICATION FairSpec
CONSTANTS
  g1 = g1
  stale = stale
  Groups <- MCGroups
  Handled <- MCHandled
  BatchSize = 2
  MaxAttempts = 2
  MaxTasks = 3
  MaxFaults = 2
INVARIANTS
  TypeOK
  NoLostUpdate
  RetriesBounded
PROPERTIES
  EffectMonotone
  TasksSettle
  Converges
  KeepsPromise
CHECK_DEADLOCK FALSE
