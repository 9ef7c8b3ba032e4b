SPECIFICATION Spec
CONSTANTS
  Procs = {p, q}
  Ops <- Tracked
  PhaseNames = {"review"}
  Skills = {"review", "compound"}
  Gates = {"gate-4"}
  InitialFiles <- OneSession
  MaxVisits = 2
  NoSession = NoSession
  Missing = Missing
  Empty = Empty
  Corrupt = Corrupt
INVARIANT GatesAreEarned
SYMMETRY AnyProc
