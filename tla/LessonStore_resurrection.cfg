CONSTANTS
  Procs = {v, w}
  Writers = {v, w}
  a = a
  b = b
  x = x
  Ids = {a}
  Insights = {x}
  NoInsight = NoInsight
  Absent = Absent
  NoProc = NoProc
  TombstoneThreshold = 1
  InitialLogs <- FreshLogs
  ImportFiles <- NoImports
  CoarseClock = FALSE
  MaxCommands = 2

SYMMETRY AnyProc
SPECIFICATION Spec
PROPERTY
  UpdateFailsIfDeleted
