CONSTANTS
  StepCount = 1
  Identities = {p1, p2}
  NoIdentity = none
  Exits = {status}
  NoExit = noexit
  Diagnostics = {"failed"}
  Callers = {c1, c2}
  MaxAttempt = 2
  MaxGeneration = 2
SPECIFICATION Spec
INVARIANTS ReturnedIsDurable
PROPERTIES ReturnedIsHistory
SYMMETRY Symmetry
