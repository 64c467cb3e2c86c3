CONSTANTS
  Callers = {c1, c2, c3}
  Length = 2
  MaxFaults = 2
SPECIFICATION FairSpec
INVARIANTS AcquiredIsWhole
PROPERTIES PublishesOnlyWhole EventuallyAcquired
CHECK_DEADLOCK FALSE
