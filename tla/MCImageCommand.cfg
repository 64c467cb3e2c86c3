CONSTANTS
  Mountpoints = {"media"}
  MaxSwaps = 3
SPECIFICATION FairSpec
INVARIANTS ReportIsHonest SuccessIsComplete LeftoversAreReported
PROPERTIES MountsAreSpared OnlyVerifiedIsCustomized Ends
CHECK_DEADLOCK FALSE
