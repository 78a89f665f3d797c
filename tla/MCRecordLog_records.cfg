SPECIFICATION Spec
CONSTANTS
  None = None
  MaxThread = 2
  MaxTurn = 4
  MaxRecords = 3
  TrunkRecords = 6
  MaxArgs = 7
  Options <- MCOptions
  AppInsids <- MCAppInsids
INVARIANT LogReadsBack MergeIsSchedule StopsAtItsLimits
CHECK_DEADLOCK FALSE
