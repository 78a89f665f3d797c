SPECIFICATION Spec
CONSTANTS
  None = None
  NThread = 3
  Bound = 2
  WakeOrder <- MCWakeOrder
  ClockBounds = {FALSE}
  MaxThreads <- MCMaxThreads
PROPERTY StartWhenPaused
CHECK_DEADLOCK FALSE
