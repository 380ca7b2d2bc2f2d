\* Line of three nodes: convergence, the end of counting to infinity, and
\* that it goes upwards only.
\* Vectors of node 0 overtake one another, those sent before a failure or a
\* restart those sent after it.
SPECIFICATION FairSpec
CONSTANTS
  N = 3
  Infinity = 4
  QueueCap <- TwoFromFirst
  MaxFaults = 1
  FaultKinds = {"late", "loss", "cut", "sleep", "restart", "drop"}
  Cost <- LineCost
PROPERTIES
  EventuallyConverged
  RumoursGrow
