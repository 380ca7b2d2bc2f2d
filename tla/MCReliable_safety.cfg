\* One talker and two others, of which one restarts.
SPECIFICATION FairSpec
CONSTANTS
  a = a
  b = b
  c = c
  Node <- ThreeNodes
  Talker = {a}
  Restarter = {b}
  RAttempts = 2
  MaxMessages = 3
  MaxRestarts = 2
INVARIANTS
  TypeOK
  SuccessImpliesHeard
  HeardInOrderOnce
  SendingInv
PROPERTIES
  ImplementsService
  EveryMessageAnswered
CHECK_DEADLOCK FALSE
