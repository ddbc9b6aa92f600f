SPECIFICATION FairSpec
CONSTANTS
  Groups <- Tasks
  Handled <- Tasks
  BatchSize = 3
  MaxAttempts = 2
  MaxTasks = 3
  MaxFaults = 1
  MaxPosts = 2
INVARIANTS
  TypeOK
  PostShowsContract
  PostIsComing
  OneLivePost
  OpenPostsGetLocked
PROPERTIES
  PostConverges
CHECK_DEADLOCK FALSE
