\* Triangle with a slow side, one fault or command of any kind.
SPECIFICATION Spec
CONSTANTS
  N = 3
  Infinity = 3
  QueueCap <- OneAtATime
  MaxFaults = 1
  FaultKinds <- AllFaults
  Cost <- TriangleCost
INVARIANTS
  TypeOK
  NextHopIsNeighbour
  DistanceIsBest
  RoutingInv
  HopsOffer
  DistancesAreWalks
  SettledConverged
  SettledRoutesReach
PROPERTIES
  RestLasts
  EstrangedStay
