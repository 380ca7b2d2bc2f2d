SPECIFICATION Spec
CONSTANTS
  Junk = 65
  MaxPacket = 24
  Ids = {1, 2}
  Seqs <- MCSeqs
  Ttls <- MCTtls
  Texts <- MCTexts
  Dists <- MCDists
  MaxNodes = 4
  MaxPackets = 2
  MaxRelays = 2
CHECK_DEADLOCK FALSE
INVARIANTS VectorsHeard PacketsInv
PROPERTIES ShownAsSent RelayedWhole
