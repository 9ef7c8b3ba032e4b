SPECIFICATION Spec
CONSTANTS
  Procs = {p}
  Ops <- Operations
  PhaseNames = {"review", "compound"}
  Skills = {"review", "compound"}
  Gates = {"gate-4", "final"}
  InitialFiles <- OldFiles
  MaxVisits = 2
  NoSession = NoSession
  Missing = Missing
  Empty = Empty
  Corrupt = Corrupt
INVARIANT TypeOK
PROPERTY IsAPhaseSession
PROPERTY EditsFollowSkillRead
VIEW WithoutEarned
