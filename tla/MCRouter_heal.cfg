\* One link that fails and is repaired.
SPECIFICATION FairSpec
CONSTANTS
  N = 2
  Infinity = 4
  QueueCap <- OneAtATime
  MaxFaults = 1
  FaultKinds = {"cut", "repair"}
  Cost <- PairCost
PROPERTY
  NeighboursRedetected
