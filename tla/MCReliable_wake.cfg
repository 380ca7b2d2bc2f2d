\* The sender itself is put to sleep and woken.
SPECIFICATION Spec
CONSTANTS
  a = a
  b = b
  c = c
  Node <- TwoNodes
  Talker = {a}
  Restarter = {a}
  RAttempts = 1
  MaxMessages = 2
  MaxRestarts = 2
INVARIANT
  SuccessImpliesHeard
CHECK_DEADLOCK FALSE
