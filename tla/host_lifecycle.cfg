SPECIFICATION LifecycleSpec
CONSTANTS
  None = None
  HostConfigs <- MCHosts
  MaxBoots = 2
  Sessions = {s1}
  Slices = {"working_memory", "scene_controller", "world_canon", "doors"}
  Calls = {c1, c2}
  MaxSessions = 1
  MaxTurns = 2
SYMMETRY MCSymmetry
CHECK_DEADLOCK FALSE
INVARIANTS
  BootIsSound
  StopsWhatItStarted
  SlicesKeepTheirData
  ServedSessionsAreLive
