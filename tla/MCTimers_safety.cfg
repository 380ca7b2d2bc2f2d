\* Three nodes in a line; the unit of time is two seconds.
SPECIFICATION Spec
SYMMETRY Ends
CONSTANTS
  a = a
  b = b
  c = c
  Node <- ThreeNodes
  Links <- Line
  HeartbeatTime = 1
  HeartcheckTime = 3
  Second = 0
  Poll <- LateMiddle
  Delay = 0
  IntMax = 100
  FirstReadings = {0}
  Operated = {b}
  Orders = {"sleep", "wake", "stall", "hb", "hc"}
  Broadcast = {"sleep", "hc"}
  MaxTime = 8
  MaxEvents = 2
INVARIANTS
  TypeOK
  BeatsInTime
  SleeperDropped
  TimersInv
PROPERTIES
  ImplementsDetector
  OnlyMissedAreDropped
  StalledKeepsLatest
