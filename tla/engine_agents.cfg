SPECIFICATION EngineSpec
CONSTANTS
  a1 = a1
  a2 = a2
  b1 = b1
  t1 = t1
  t2 = t2
  t3 = t3
  t4 = t4
  Turns = {a1, a2, b1}
  NoTurn = NoTurn
  Tasks = {t1, t2, t3, t4}
  NoTask = NoTask
  TurnOf <- MCTurnOf
  PathOf <- MCPathOf
  Before <- MCBefore
  Denied = {t4}
  MaxRepairs = 1
  MaxRounds = 2
  FollowUps = {a2, b1}
  MaxParallel = 2
  WriteOnReject = FALSE
INVARIANTS
  EngineTypeOK
  TasksEndOnce
  
  
PROPERTIES
  DossierOnlyGrows
CONSTRAINT MCBound
CHECK_DEADLOCK FALSE
