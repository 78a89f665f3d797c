SPECIFICATION ForkSpec
CONSTANTS
  None = None
  NThread = 3
  Bound = 2
  WakeOrder <- MCWakeOrder
  ClockBounds = {FALSE}
  MaxThreads <- MCMaxThreads
INVARIANT ChildIsReset
CHECK_DEADLOCK FALSE
