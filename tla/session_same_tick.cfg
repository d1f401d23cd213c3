\* Two callers of one tick.
SPECIFICATION Spec
CONSTANTS
  Clients = {c1, c2}
  Keys = {k1, k2}
  Jobs = {j1}
  NoKey = NoKey
  NoJob = NoJob
  IdemLimit = 2
  MaxDrain = 2
  SameTick = TRUE
  RetriesOverlap = TRUE
  HasCommitTurn = TRUE
  Faults = {}
  MaxSubmits = 2
  MaxCrashes = 0
  MaxSaves = 0
INVARIANT
  OneTurnAtATime
CHECK_DEADLOCK FALSE
