SPECIFICATION FairSpec
CONSTANTS
  Commands = {c, d}
  NoCommand = NoCommand
  Slow = TRUE
  MaxDaemons = 3
  MaxRequests = 3
PROPERTY EveryRequestEnds
PROPERTY EveryDaemonEnds
CHECK_DEADLOCK FALSE
