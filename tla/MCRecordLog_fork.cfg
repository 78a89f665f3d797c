SPECIFICATION Spec
CONSTANTS
  None = None
  MaxThread = 2
  MaxTurn = 4
  MaxRecords = 3
  TrunkRecords = 6
  MaxArgs = 7
  Options <- MCBinOptions
  AppInsids <- MCSmallInsids
INVARIANT CutIsUnused
CHECK_DEADLOCK FALSE
