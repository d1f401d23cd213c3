\* A retry that arrives while the first attempt runs.
SPECIFICATION Spec
CONSTANTS
  Clients = {c1, c2}
  Keys = {k1}
  Jobs = {j1}
  NoKey = NoKey
  NoJob = NoJob
  IdemLimit = 2
  MaxDrain = 2
  SameTick = FALSE
  RetriesOverlap = TRUE
  HasCommitTurn = TRUE
  Faults = {}
  MaxSubmits = 2
  MaxCrashes = 0
  MaxSaves = 0
INVARIANT
  ActionCommitsAtMostOnce
CHECK_DEADLOCK FALSE
