CONSTANTS
  Hooks <- Specs
  EventOf <- Events
  HookRank <- Ranks
  Jobs <- AllJobs
  InitialRepos <- Repos
  MaxEdits = 1

SPECIFICATION Spec
INVARIANTS
  TypeOK
  InstalledAsAsked
  UninstallIsComplete
PROPERTIES
  ReadHooksAreKept
  NothingPrunedUnasked
