SPECIFICATION FairSpec
CONSTANTS
  t1 = t1
  t2 = t2
  None = None
  Threads = {t1, t2}
  First = t1
  Calls <- MCCalls
  Options <- MCOptions
INVARIANT RuntimeInSys TurnStaysInside DbugAssertsHold
PROPERTY ErrnoDelivered PromptCallReturns
CHECK_DEADLOCK FALSE
