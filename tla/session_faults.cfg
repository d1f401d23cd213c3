\* Everything that can go wrong at once: shared ticks, timeouts, stale saves, a port without commitTurn.
SPECIFICATION FairSpec
CONSTANTS
  Clients = {c1, c2}
  Keys = {k1}
  Jobs = {}
  NoKey = NoKey
  NoJob = NoJob
  IdemLimit = 1
  MaxDrain = 1
  SameTick = TRUE
  RetriesOverlap = TRUE
  HasCommitTurn = FALSE
  Faults = {"playerThrow", "systemThrow", "persistFail", "timeout"}
  MaxSubmits = 2
  MaxCrashes = 0
  MaxSaves = 1
PROPERTIES
  KernelNeverLosesTurns
  EveryCallAnswered
CHECK_DEADLOCK FALSE
