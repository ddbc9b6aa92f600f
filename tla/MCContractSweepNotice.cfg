SPECIFICATION Spec
CONSTANTS
  s1 = s1
  s2 = s2
  c1 = c1
  u1 = u1
  Sweepers <- MCSweepers
  Clients <- MCClients
  Users <- MCUsers
  Within = 1
  MaxTime = 2
  MaxFaults = 1
PROPERTIES
  NoticeIsWarranted
CHECK_DEADLOCK FALSE
