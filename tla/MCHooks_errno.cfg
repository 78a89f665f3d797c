SPECIFICATION Spec
CONSTANTS
  t1 = t1
  t2 = t2
  None = None
  Threads = {t1, t2}
  First = t1
  Calls <- MCCalls
  Options <- MCOptions
PROPERTY ErrnoIsTheCalls
CHECK_DEADLOCK FALSE
