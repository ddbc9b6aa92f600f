SPECIFICATION Spec
CONSTANTS
  i1 = i1
  i2 = i2
  u1 = u1
  u2 = u2
  Items <- MCItems
  Users <- MCUsers
  MaxQty = 2
  MaxItems = 2
  Scopes <- MCScopes
SYMMETRY Symmetric
INVARIANTS
  TypeOK
  LedgerSound
  PostFollows
PROPERTIES
  CompletesWhenDelivered
CHECK_DEADLOCK FALSE
