SPECIFICATION Spec
CONSTANTS
  Groups <- Tasks
  Handled <- Tasks
  BatchSize = 3
  MaxAttempts = 2
  MaxTasks = 4
  MaxFaults = 1
  MaxPosts = 2
INVARIANTS
  ClosedDropsButtons
CHECK_DEADLOCK FALSE
