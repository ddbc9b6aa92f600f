SPECIFICATION TxSpec
CONSTANTS
  i1 = i1
  u1 = u1
  u2 = u2
  c1 = c1
  c2 = c2
  Items <- MCItems
  Users <- MCUsers
  Clients <- MCClients
  MaxQty = 2
  MaxItems = 1
PROPERTIES
  SetsWhatWasAsked
