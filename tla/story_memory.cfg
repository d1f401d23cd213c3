\* Three turns of a story and a restart; then nothing is left to do.
SPECIFICATION StorySpec
CONSTANTS
  None = None
  Window = 1
  Interval = 1
  HistoryCap = 2
  ClimaxBeats = 1
  HardBeats = 2
  Verdicts <- MCVerdicts
  MaxTurns = 3
  MaxRestarts = 1
INVARIANTS
  JobsAreFresh
  SummariesAreComplete
  ScenesArePressed
CHECK_DEADLOCK FALSE
