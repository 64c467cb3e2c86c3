SPECIFICATION MCSpec
CONSTANTS
  Job = {a, b}
  Group = {g}
  GroupOf <- MCGroupOf
  MaxJobs = 2
  NoJob = nobody
  NoUnit = none
  MaxCommands = 2
  MaxRuns = 2
  MaxActivities = 2
  MaxFaults = 2
  MaxDisturbances = 1
  MaxTroubles = 2
SYMMETRY JobSymmetry
INVARIANTS SuccessIsExact FailureRestores NothingIsLost GroupRunsAlone ExitIsRecorded
CHECK_DEADLOCK FALSE
