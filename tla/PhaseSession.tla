---------------------------- MODULE PhaseSession ----------------------------
(***************************************************************************)
(* What the cook-it phase state promises an agent that runs one command at *)
(* a time: there is at most one session, in one phase, with the skills     *)
(* read and the gates passed since the phase began.  Each hook answers     *)
(* from it, and it ends only for one of the reasons named here.            *)
(***************************************************************************)
EXTENDS Integers, Sequences

CONSTANTS PhaseNames,  \* the phases a session can be in
          Skills,      \* the skills whose file can be read
          Gates,       \* the gates
          NoSession    \* there is no session

VARIABLES session,  \* the session
          shelved,  \* one that an older version left behind
          cause,    \* what has changed the session since a command began
          answer    \* what a hook answered since then

vars == <<session, shelved, cause, answer>>

Session == [phase: PhaseNames, active: BOOLEAN, skills: SUBSET Skills, gates: SUBSET Gates]

Fresh(phase) == [phase |-> phase, active |-> TRUE, skills |-> {}, gates |-> {}]

Init ==
  /\ session \in Session \cup {NoSession}
  /\ shelved \in Session \cup {NoSession}
  /\ cause = "none"
  /\ answer = "none"

Become(s, why) ==
  /\ session' = s
  /\ cause' = why
  /\ UNCHANGED <<shelved, answer>>

\* A command begins.
Begin == cause' = "none" /\ answer' = "none" /\ UNCHANGED <<session, shelved>>

\* init: only when there is no session; init --force: always.
Open(phase) == session = NoSession /\ Become(Fresh(phase), "init")

Reopen(phase) == Become(Fresh(phase), "force")

\* start: a phase begins with nothing read and nothing passed.
Start(phase) ==
  /\ session # NoSession
  /\ Become([session EXCEPT !.phase = phase, !.skills = {}, !.gates = {}], "start")

PassGate(gate) ==
  /\ session # NoSession
  /\ gate # "final"
  /\ Become([session EXCEPT !.gates = @ \cup {gate}], "gate")

ReadSkill(skill) ==
  /\ session # NoSession /\ session.active
  /\ Become([session EXCEPT !.skills = @ \cup {skill}], "read")

\* gate final, clean, verify-gates after a final gate that was kept, and a
\* hook killed while it rewrites the file.
End ==
  /\ session # NoSession
  /\ \E why \in {"gate", "clean", "verify", "crash"} :
       /\ why = "verify" => session.active /\ "final" \in session.gates
       /\ Become(NoSession, why)

\* Sessions last 72 hours.
Expire ==
  /\ \/ session' = NoSession /\ cause' = "expire"
     \/ UNCHANGED <<session, cause>>
  /\ shelved' \in {shelved, NoSession}
  /\ UNCHANGED answer

\* The session that an older version left is taken up, then forgotten.
Resume == session = NoSession /\ shelved # NoSession /\ Become(shelved, "resume")

Forget == session = shelved /\ shelved' = NoSession /\ UNCHANGED <<session, cause, answer>>

\* The gate a phase ends with, and the phase after it.
GateAfter(phase) == CASE phase = "plan" -> "post-plan" [] phase = "work" -> "gate-3"
                      [] phase = "review" -> "gate-4" [] phase = "compound" -> "final"
                      [] OTHER -> "none"

NextPhase(phase) == CASE phase = "plan" -> "work" [] phase = "work" -> "review"
                      [] phase = "review" -> "compound" [] OTHER -> "none"

\* The phase guard warns before an edit in a phase whose skill was not read.
Guard ==
  /\ answer' = IF /\ session # NoSession /\ session.active
                  /\ session.phase \notin session.skills
               THEN "warn" ELSE "edit"
  /\ UNCHANGED <<session, shelved, cause>>

\* The stop audit blocks a stop in the last phase, or after a look at the next
\* phase, without the gate in between.
Stop ==
  /\ answer' = IF /\ session # NoSession /\ session.active
                  /\ GateAfter(session.phase) \notin session.gates \cup {"none"}
                  /\ session.phase = "compound" \/ NextPhase(session.phase) \in session.skills
               THEN "block" ELSE "stop"
  /\ UNCHANGED <<session, shelved, cause>>

\* A stop that already follows a blocked one.
StopAgain == answer' = "stop again" /\ UNCHANGED <<session, shelved, cause>>

Next ==
  \/ \E phase \in PhaseNames : Open(phase) \/ Reopen(phase) \/ Start(phase)
  \/ \E gate \in Gates : PassGate(gate)
  \/ \E skill \in Skills : ReadSkill(skill)
  \/ Begin \/ End \/ Expire \/ Resume \/ Forget
  \/ Guard \/ Stop \/ StopAgain

Spec == Init /\ [][Next]_vars
=============================================================================
