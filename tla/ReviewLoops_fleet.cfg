CONSTANTS
  sonnet = sonnet
  opus = opus
  agy = agy
  codex = codex
  security = security
  Reviewers = {sonnet, opus, agy, codex, security}
  Kind <- Kinds5
  Confs <- AllConfs
  MaxCycles = 3

SPECIFICATION Spec
CHECK_DEADLOCK FALSE
INVARIANTS
  TypeOK
  NoFindingLost
  VerdictsAreFresh
PROPERTIES
  CommitsAreKept
  LoopsEnd
