\* A save() that overlaps a turn.
SPECIFICATION Spec
CONSTANTS
  Clients = {c1}
  Keys = {k1}
  Jobs = {j1}
  NoKey = NoKey
  NoJob = NoJob
  IdemLimit = 2
  MaxDrain = 2
  SameTick = FALSE
  RetriesOverlap = FALSE
  HasCommitTurn = TRUE
  Faults = {}
  MaxSubmits = 1
  MaxCrashes = 0
  MaxSaves = 1
PROPERTY
  StoreNeverLosesTurns
CHECK_DEADLOCK FALSE
