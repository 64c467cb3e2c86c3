CONSTANTS
  StepCount = 2
  Kind <- TwoServices
  Executors <- AllExecutors
  MaxAttempts = 2
  MaxLaunchAttempts = 2
  Pids = {1, 2, 3, 4, 5, 6, 7}
  Disturbances = {"cancel", "crash"}
  MaxDisturbances = 3
SPECIFICATION Spec
INVARIANTS CancellationStopsChildren
