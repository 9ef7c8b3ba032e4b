CONSTANTS
  Files = {f1}
  RangesOf <- Cuts
  Commands = {c1, c2}
  Jobs <- MixedJobs
  MaxDbs = 3
  MaxFailures = 1

SPECIFICATION Spec
CHECK_DEADLOCK FALSE
INVARIANTS
  TypeOK
  HashVouches
  VectorsAreLabelled
PROPERTIES
  OnlyOldSchemasAreRemoved
  CommandsEnd
