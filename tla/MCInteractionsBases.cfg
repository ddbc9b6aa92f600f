SPECIFICATION Spec
CONSTANTS
  i1 = i1
  i2 = i2
  r1 = r1
  r2 = r2
  c1 = c1
  c2 = c2
  Clients <- MCClients
  Roles <- MCRoles
  RolesOf <- MCRolesOf
  Mixes <- MCBaseMixes
  DefaultLimit = 1
  MaxLimit = 2
  Items <- MCItems
  Library <- MCLibrary
  BaseLimit = 1
  GearLimit = 1
  MaxBases = 3
SYMMETRY Symmetric
INVARIANT
  BasesWithinLimit
