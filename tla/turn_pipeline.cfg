SPECIFICATION TurnSpec
CONSTANTS
  c1 = c1
  c2 = c2
  bad = bad
  t1 = t1
  t2 = t2
  m1 = m1
  e1 = e1
  Kinds = {"player", "system", "restore"}
  Commands <- MCCommands
  Permitted <- MCPermitted
  ConflictKeys <- MCKeys
  Tasks = {t1, t2}
  Required = {t1}
  Catalog = {"speak"}
  Configs <- MCConfigs
  Events = {e1}
  Modules = {m1}
  Subscribers <- MCSubscribers
  MaxDepth = 0
  MaxBurst = 2
  MaxEmits = 2
INVARIANTS
  TurnTypeOK
  PublishedIsAccepted
  RejectedLeavesNothing
  OnlyLateWorkIsLost
  NoClashUnseen
  KindsKeepTheirRights
  CriticsDecide
  EventCapsHold
PROPERTIES
  TurnEnds
CHECK_DEADLOCK FALSE
