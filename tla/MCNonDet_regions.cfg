SPECIFICATION FairSpec
CONSTANTS
  None = None
  NThread = 4
  Bound = 1
  WakeOrder <- MCWakeOrder
  ClockBounds = {TRUE, FALSE}
  MaxThreads <- MCMaxThreads
INVARIANT NonDetConsistent BoundHolds RegionsFirst
PROPERTY RegionStarts TurnComesBack
CHECK_DEADLOCK FALSE
