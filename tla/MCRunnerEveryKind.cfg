CONSTANTS
  StepCount = 6
  Kind <- EveryKind
  Executors <- AllExecutors
  MaxAttempts = 2
  MaxLaunchAttempts = 2
  Pids = {1, 2, 3, 4, 5, 6, 7}
  Disturbances = {"cancel", "crash", "reboot", "storage", "host"}
  MaxDisturbances = 2
SPECIFICATION FairSpec
INVARIANTS SuccessSkipsNothing
PROPERTIES ExecutesOnce ReachesTerminal
