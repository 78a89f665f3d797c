SPECIFICATION Spec
CONSTANTS
  MaxThread = 3
  c1 = c1
  Chan <- MCChan
  NULL = NULL
  IdleCond = IdleCond
  IdleMutex = IdleMutex
  NTurns <- MCNTurns
  Forever = 9
  SpuriousWakeups = TRUE
CHECK_DEADLOCK FALSE
INVARIANT FiredAtDeadline
