\* Two clients in separate ticks, the host, the pump; failing stages, a failing
\* store and a crash.
SPECIFICATION Spec
CONSTANTS
  Clients = {c1, c2}
  Keys = {k1, k2}
  Jobs = {j1, j2}
  NoKey = NoKey
  NoJob = NoJob
  IdemLimit = 2
  MaxDrain = 1
  SameTick = FALSE
  RetriesOverlap = FALSE
  HasCommitTurn = TRUE
  Faults = {"playerReject", "systemReject", "playerThrow", "systemThrow", "persistFail"}
  MaxSubmits = 4
  MaxCrashes = 1
  MaxSaves = 0
SYMMETRY Symmetric
INVARIANTS
  TypeOK
  OneTurnAtATime
  DraftIsOwn
  MemoryFollowsStore
  JournalIsHistory
  ActionRepeatsOnlyUnanswered
  JobCommitsAtMostOnce
PROPERTIES
  StoreNeverLosesTurns
  ImplementsSerialHistory
CHECK_DEADLOCK FALSE
