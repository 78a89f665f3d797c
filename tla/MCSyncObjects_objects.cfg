SPECIFICATION FairSpec
CONSTANTS
  t1 = t1
  t2 = t2
  t3 = t3
  t4 = t4
  m = m
  cv = cv
  s = s
  rw = rw
  b = b
  None = None
  Thread <- MCThread
  Queue <- MCQueue
  Programs <- MCPrograms
  Mutex = {m}
  Cond = {cv}
  Sem = {s}
  RWLock = {rw}
  Barrier = {b}
  OpaqueType = {5}
  UintSize = 4
  BarrierCount = 3
  LineupCount = 3
  MaxSem = 2
CHECK_DEADLOCK FALSE
INVARIANTS NoLostWakeup ArrivedAreAsleep LineupConsistent
PROPERTIES BarrierOpensForAll LineupOpensForAReason LineupStartReturns
