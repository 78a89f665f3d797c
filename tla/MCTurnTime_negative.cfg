SPECIFICATION Spec
CONSTANTS
  Giga = 10
  Kilo = 5
  NanosecPerTurn = 3
  MAX_REL = 16
  Word64 = 1024
  Word32 = 128
  Clock <- MCClock
  Usecs <- MCUsecs
  MaxThread = 2
  MaxTurn = 40
CHECK_DEADLOCK FALSE
INVARIANT NegativeIsShort
