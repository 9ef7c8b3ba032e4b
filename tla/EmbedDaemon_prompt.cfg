SPECIFICATION Spec
CONSTANTS
  Commands = {c, d, e}
  NoCommand = NoCommand
  Slow = FALSE
  MaxDaemons = 5
  MaxRequests = 5
INVARIANT TypeOK
INVARIANT OneDaemon
PROPERTY OnlyStaleSocketsAreCleaned
PROPERTY LeftoversDoNotMatter
SYMMETRY AnyCommand
CHECK_DEADLOCK FALSE
