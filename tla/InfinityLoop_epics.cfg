CONSTANTS
  e1 = e1
  e2 = e2
  Epics = {e1, e2}
  DependsOn <- Chain
  Sessions = {1, 2, 3}
  Scripts <- AllScripts
  Bounds <- AllBounds

SPECIFICATION Spec
CHECK_DEADLOCK FALSE
INVARIANTS
  TypeOK
  NoForgottenSession
  EpicsDecidedOnce
  EndIsOnRecord
PROPERTIES
  NoUnmergedWorkRemoved
  MergedWorkIsReported
  NoEpicUnreviewed
  LoopEnds
