\* A rejected background turn.
SPECIFICATION FairSpec
CONSTANTS
  Clients = {c1}
  Keys = {k1, k2}
  Jobs = {j1, j2}
  NoKey = NoKey
  NoJob = NoJob
  IdemLimit = 2
  MaxDrain = 2
  SameTick = FALSE
  RetriesOverlap = TRUE
  HasCommitTurn = TRUE
  Faults = {"systemReject"}
  MaxSubmits = 2
  MaxCrashes = 0
  MaxSaves = 0
PROPERTY
  SessionBecomesIdle
CHECK_DEADLOCK FALSE
