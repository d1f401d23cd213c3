SPECIFICATION PlaySpec
CONSTANTS
  u1 = u1
  o1 = o1
  s1 = s1
  Submits = {u1, o1}
  Others = {o1}
  SystemTurns = {s1}
  None = None
  MaxConcurrent = 1
  MaxDeltas = 1
  MaxFaults = 1
INVARIANTS
  PlayTypeOK
  JobsTellTheOutcome
  TranscriptKeepsOrder
PROPERTIES
  TranscriptKeepsPassages
  PlayerIsReleased
CHECK_DEADLOCK FALSE
