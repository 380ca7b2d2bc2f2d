\* Diamond at rest, one link fails: two next hops of equal cost.
SPECIFICATION RestSpec
CONSTANTS
  N = 4
  Infinity = 4
  QueueCap <- OneAtATime
  MaxFaults = 1
  FaultKinds = {"cut"}
  Cost <- DiamondCost
INVARIANT
  SettledRoutesReach
