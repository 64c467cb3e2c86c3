CONSTANTS
  Secrets = {s1, s2}
  Old = old
  Nothing = nothing
  Disturbances = {"kill"}
  MaxDisturbances = 1
SPECIFICATION MCSpec
INVARIANTS CommittedRemovalIsDurable
