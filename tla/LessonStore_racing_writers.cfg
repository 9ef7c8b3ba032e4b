CONSTANTS
  Procs = {v, w}
  Writers = {v, w}
  a = a
  b = b
  x = x
  Ids = {a}
  Insights = {x}
  NoInsight = NoInsight
  Absent = Absent
  NoProc = NoProc
  TombstoneThreshold = 1
  InitialLogs <- FreshLogs
  ImportFiles <- NoImports
  CoarseClock = FALSE
  MaxCommands = 2

SPECIFICATION FairSpec
INVARIANTS
  StaleIndexIsNoticed
  SearchSeesEarlierWrites
PROPERTIES
  CompactKeepsBook
  IsASharedBook
  EveryCommandEnds
