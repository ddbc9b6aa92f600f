SPECIFICATION FairSpec
CONSTANTS
  i1 = i1
  i2 = i2
  u1 = u1
  u2 = u2
  Items <- MCItems
  Users <- MCUsers
  MaxQty = 3
  Deliveries <- MCDeliveries
  Reward = 7
  Releases <- MCReleases
  MaxMessages = 3
  MaxFaults = 2
INVARIANTS
  TypeOK
  FiguresAddUp
  ReportsAgree
  PaidIsShown

  
CHECK_DEADLOCK FALSE
