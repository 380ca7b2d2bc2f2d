\* A node whose id does not fit a signed byte.
SPECIFICATION FairSpec
CONSTANTS
  a = 1
  b = 2
  c = 200
  Node = {1, 2, 200}
  Routes <- LineRoutes
  Ttls = {10}
  MaxChats = 1
  MaxHops = 258
  MaxFaults = 0
PROPERTIES
  RouteDelivers
CHECK_DEADLOCK FALSE
