\* A number that is no node, typed at one of two neighbours.
SPECIFICATION FairSpec
CONSTANTS
  N = 2
  Links <- PairLinks
  Typed = {2, 9000}
  MaxDatagram = 65507
  MaxPacket = 4096
PROPERTY
  NeighboursKeepHearing
