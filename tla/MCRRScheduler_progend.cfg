SPECIFICATION FairSpec
CONSTANTS
  MaxThread = 3
  c1 = c1
  Chan = {}
  NULL = NULL
  IdleCond = IdleCond
  IdleMutex = IdleMutex
  NTurns = {0}
  Forever = 9
  SpuriousWakeups = FALSE
CHECK_DEADLOCK FALSE
PROPERTY ProgEndReturns
