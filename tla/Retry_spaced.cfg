\* Two attempts, four units of time apart; a turn may be two late.
SPECIFICATION Spec
CONSTANTS
  RTimeout = 4
  RAttempts = 2
  Poll = 2
  MaxTime = 18
  IntMax = 100
CHECK_DEADLOCK FALSE
INVARIANTS
  AnswerInTime
  RetryInv
PROPERTIES
  AttemptsSpaced
