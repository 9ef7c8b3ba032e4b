---------------------------- MODULE MCPhaseState ----------------------------
(* Instances of PhaseState for TLC. *)
EXTENDS PhaseState, TLC

left(phase, gates) ==
  [epic |-> 1, visit |-> 0, active |-> TRUE, phase |-> phase, skills |-> {phase},
   gates |-> gates]

Files(main, legacy) == [path \in Paths |-> CASE path = "main"   -> main
                                             [] path = "legacy" -> legacy
                                             [] OTHER           -> Missing]

\* What may be there: nothing, a session in either place or in both, one that
\* is inactive, whose final gate was kept, that is too old, or that was torn.
OldFiles ==
  LET review == left("review", {})
      final == [left("review", {"final"}) EXCEPT !.skills = {}]
      off   == [left("compound", {}) EXCEPT !.active = FALSE]
      old   == [left("review", {}) EXCEPT !.epic = 0]
  IN  {Files(main, Missing) : main \in {Missing, final, old, Empty}}
        \cup {Files(Missing, legacy) : legacy \in {review, off, old, Empty}}
        \cup {Files(off, review), Files(old, final)}

OneSession == {Files(left("review", {}), Missing)}

\* The operations that record gates and skills, or end a session.
Tracked == {"start", "gate", "read", "verify"}

\* No action and no property of the run with all operations depends on earned.
WithoutEarned == <<file, fd, pc, loc, answer, counters, cause, reads>>

AnyProc == Permutations(Procs)
=============================================================================
