SPECIFICATION ListSpec
CONSTANTS
  MaxThread = 4
  NULL = NULL
INVARIANTS Represents
PROPERTIES IsFifo
