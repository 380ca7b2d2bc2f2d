\* Loops, dead ends, tables that change under way, and times to live around
\* the ends of a signed byte.
SPECIFICATION FairSpec
CONSTANTS
  a = 1
  b = 2
  c = 3
  Node = {1, 2, 3}
  Routes <- AllRoutes
  Ttls = {0, 1, 2, 130, 257}
  MaxChats = 1
  MaxHops = 132
  MaxFaults = 1
INVARIANTS
  TypeOK
  WalkBounded
PROPERTIES
  EveryWalkEnds
  RouteDelivers
  StaysInReach
CHECK_DEADLOCK FALSE
