CONSTANTS
  Secrets = {s1, s2}
  Old = old
  Nothing = nothing
  Disturbances = {"kill", "power", "fault", "replace"}
  MaxDisturbances = 6
SPECIFICATION MCSpec
INVARIANTS DoneMeansInstalled SecretSurvives RemovalIsDurable
PROPERTIES RemovesOnlyInstalled EndsInstalled
CHECK_DEADLOCK FALSE
