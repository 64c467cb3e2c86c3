CONSTANTS
  c1 = c1
  c2 = c2
  c3 = c3
  p1 = p1
  p2 = p2
  p3 = p3
  Lockers = {c1, c2, c3}
  Processes = {p1, p2, p3}
  ProcessOf <- OneEach
  NoOwner = none
  Depth = 2
  MaxLockFaults = 2
SPECIFICATION FairLocks
INVARIANTS MutualExclusion
PROPERTIES LiveLockIsKept Progress
CHECK_DEADLOCK FALSE
