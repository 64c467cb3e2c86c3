CONSTANTS
  StepCount = 2
  Kind <- TwoServices
  Executors <- AllExecutors
  MaxAttempts = 2
  MaxLaunchAttempts = 2
  Pids = {1, 2, 3, 4, 5, 6, 7}
  Disturbances = {"cancel", "crash", "reboot", "storage", "host"}
  MaxDisturbances = 2
SPECIFICATION Spec
INVARIANTS ServicesAreSupervised LiveChildIsRecorded RunLeavesNoChild CheckpointIsRecoverable
PROPERTIES TerminalIsFinal
