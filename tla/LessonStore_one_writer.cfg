CONSTANTS
  Procs = {w, r}
  Writers = {w}
  a = a
  b = b
  x = x
  Ids = {a, b}
  Insights = {x, y}
  NoInsight = NoInsight
  Absent = Absent
  NoProc = NoProc
  TombstoneThreshold = 1
  InitialLogs <- FreshLogs
  ImportFiles <- RawImports
  CoarseClock = FALSE
  MaxCommands = 2

SPECIFICATION Spec
INVARIANTS
  TypeOK
PROPERTIES
  IsALessonBook
