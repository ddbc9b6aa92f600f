SPECIFICATION Spec
CONSTANTS
  i1 = i1
  i2 = i2
  i3 = i3
  u1 = u1
  u2 = u2
  Items <- MCItems
  Users <- MCUsers
  MaxQty = 3
  MaxItems = 2
SYMMETRY Symmetric
INVARIANTS
  TypeOK
  WithinCapacity
  RowsMeanPledges
  CompletedInFull
  ClosedOnce
PROPERTIES
  ClosedIsFinal
  DeliveriesKept
CHECK_DEADLOCK FALSE
