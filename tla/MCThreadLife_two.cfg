SPECIFICATION Spec
CONSTANTS
  main = main
  p1 = p1
  p2 = p2
  p3 = p3
  Pthread <- ThreeIds
  Creators = {main, p1}
  MaxTid = 5
CHECK_DEADLOCK FALSE
INVARIANT SelfMapped
