\* Liveness without rejected system turns, timeouts or crashes.
SPECIFICATION FairSpec
CONSTANTS
  Clients = {c1, c2}
  Keys = {k1, k2}
  Jobs = {j1, j2}
  NoKey = NoKey
  NoJob = NoJob
  IdemLimit = 1
  MaxDrain = 2
  SameTick = FALSE
  RetriesOverlap = TRUE
  HasCommitTurn = TRUE
  Faults = {"playerReject", "playerThrow"}
  MaxSubmits = 3
  MaxCrashes = 0
  MaxSaves = 0
INVARIANT
  AnswersAreBounded
PROPERTIES
  SessionBecomesIdle
  BackgroundJobCommits
CHECK_DEADLOCK FALSE
