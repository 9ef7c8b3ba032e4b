----------------------------- MODULE PhaseState -----------------------------
(***************************************************************************)
(* The cook-it phase state: one JSON file that `ca phase-check` writes,    *)
(* that the hooks of the agent harness read (phase guard, stop audit) and  *)
(* rewrite (read tracker), and that nobody locks.  Every process is one    *)
(* run of `ca`; the harness runs the hooks of parallel tool calls at the   *)
(* same time.                                                              *)
(*                                                                         *)
(* Three paths matter: the state file (main), the temporary file that all  *)
(* writers of WritePhaseState share (tmp), and the path of older versions  *)
(* (legacy).  os.WriteFile is two steps, truncation and write; a read, a   *)
(* rename and a removal are one step each.                                 *)
(***************************************************************************)
EXTENDS Integers, Sequences, FiniteSets

CONSTANTS
  Procs,         \* `ca` processes
  Ops,           \* the operations they run
  PhaseNames,    \* the phases in use, of those in phaseIndexMap
  Skills,        \* the skill files that are read
  Gates,         \* the gates in use
  NoSession,     \* nil: no state
  Missing,       \* no file at this path
  Empty,         \* a file that was truncated and not written yet
  Corrupt,       \* a file that does not parse
  InitialFiles,  \* what an earlier run or version may have left
  MaxVisits      \* bound: phases entered by init and start

Operations == {"init", "force", "start", "gate", "clean", "verify", "status",
               "guard", "stop", "read"}

Paths == {"main", "tmp", "legacy"}

\* The state that is written.  epic stands for the time it was started: it
\* numbers the sessions by age (0: too old from the start, 1: left by an
\* earlier run).  History: visit numbers the phases entered.
State == [epic: Nat, visit: Nat, active: BOOLEAN, phase: PhaseNames,
          skills: SUBSET Skills, gates: SUBSET Gates]

Content == State \cup {Empty, Corrupt}

ASSUME PhaseStateAssumption ==
  /\ Ops \subseteq Operations
  /\ PhaseNames \subseteq {"architect", "spec-dev", "plan", "work", "review", "compound"}
  /\ PhaseNames \subseteq Skills
  /\ {NoSession, Missing, Empty, Corrupt} \cap State = {}
  /\ NoSession \notin [phase: PhaseNames, active: BOOLEAN,
                      skills: SUBSET Skills, gates: SUBSET Gates]
  /\ Cardinality({NoSession, Missing, Empty, Corrupt}) = 4
  /\ InitialFiles \subseteq [Paths -> Content \cup {Missing}]
  /\ MaxVisits \in Nat

VARIABLES
  file,     \* what each path holds
  fd,       \* the path at which the file a process has open is found now
  pc,       \* where each process is
  loc,      \* what each process has in memory
  answer,   \* what a hook answered, until the next command begins
  epics,    \* sessions so far
  aged,     \* how many of them, from the oldest, are past phaseStateMaxAge
  visits,   \* phases entered so far (MaxVisits bounds it)
  \* History, read by no action's guard:
  cause,    \* what has changed the session, since a command began
  earned,   \* <<visit, gate>>: gate was recorded in that visit
  reads     \* <<visit, skill>>: skill was read since that visit began

vars == <<file, fd, pc, loc, answer, epics, aged, visits, cause, earned, reads>>

counters == <<epics, aged, visits>>
-----------------------------------------------------------------------------
(* Phases and gates. *)

Phases == <<"spec-dev", "plan", "work", "review", "compound">>

PhaseIndexOf(phase) ==
  IF phase = "architect" THEN 6 ELSE CHOOSE i \in DOMAIN Phases : Phases[i] = phase

ExpectedGateForPhase(i) ==
  CASE i = 2 -> "post-plan" [] i = 3 -> "gate-3" [] i = 4 -> "gate-4"
    [] i = 5 -> "final" [] OTHER -> "none"

\* MUTANT of HasTransitionEvidence: only the next skill is looked for.
NextSkillOnly(s) ==
  LET i == PhaseIndexOf(s.phase) IN i < Len(Phases) /\ Phases[i + 1] \in s.skills

HasTransitionEvidence(s) ==
  LET i == PhaseIndexOf(s.phase)
  IN  \/ i = Len(Phases)
      \/ i < Len(Phases) /\ Phases[i + 1] \in s.skills

GuardAnswer(s) ==
  IF s # NoSession /\ s.active /\ s.phase \notin s.skills THEN "warn" ELSE "edit"

StopAnswer(s) ==
  IF s = NoSession \/ ~s.active THEN "stop"
  ELSE LET gate == ExpectedGateForPhase(PhaseIndexOf(s.phase))
       IN  IF gate # "none" /\ gate \notin s.gates /\ HasTransitionEvidence(s)
           THEN "block" ELSE "stop"

Stale(s) == s.epic <= aged

\* The session that a file's content stands for.
Decode(content) ==
  IF content \in {Missing, Empty, Corrupt} THEN NoSession
  ELSE IF Stale(content) THEN NoSession ELSE content
-----------------------------------------------------------------------------
(* Processes and files. *)

\* A process's memory: its operation, what the operation is about and the
\* visit it would begin; the state it got, the one it will write, the list of
\* skills made from the first of two reads.
Idle == [op |-> "none", arg |-> "none", visit |-> 0, again |-> FALSE,
         got |-> NoSession, new |-> NoSession, skills |-> {}]

Goto(p, label, local) ==
  /\ pc' = [pc EXCEPT ![p] = label]
  /\ loc' = [loc EXCEPT ![p] = local]

Return(p) == Goto(p, "idle", Idle)

\* A hook ends; with a telemetry database it reads the phase once more.
HookReturn(p) == Return(p) \/ Goto(p, "get", [Idle EXCEPT !.op = "status"])

\* The session is what the state file says; a process in the middle of
\* rewriting the file has not changed it yet.
Session ==
  IF \E p \in Procs : pc[p] = "rewrite" /\ file["main"] = Empty
  THEN Decode(loc[CHOOSE p \in Procs : pc[p] = "rewrite"].got)
  ELSE Decode(file["main"])

Because(why) == cause' = IF Session' = Session THEN cause ELSE why

\* os.WriteFile, first step.
OpenTrunc(p, path) ==
  /\ file' = [file EXCEPT ![path] = Empty]
  /\ fd' = [fd EXCEPT ![p] = path]

\* os.WriteFile, second step: the text replaces the beginning of what is
\* there.  Behind a shorter text the end of a longer one stays.
WriteTo(p, content) ==
  LET path == fd[p]
  IN
  /\ IF path = "none" THEN UNCHANGED file
     ELSE \E result \in CASE content = Empty -> {file[path]}
                          [] file[path] \in {Empty, content} -> {content}
                          [] OTHER -> {content, Corrupt} :
            file' = [file EXCEPT ![path] = result]
  /\ fd' = [fd EXCEPT ![p] = "none"]

Remove(path) ==
  /\ file' = [file EXCEPT ![path] = Missing]
  /\ fd' = [q \in Procs |-> IF fd[q] = path THEN "none" ELSE fd[q]]

\* An open file keeps its identity when the path it was opened at is renamed.
Rename(from, to) ==
  /\ file' = [file EXCEPT ![to] = file[from], ![from] = Missing]
  /\ fd' = [q \in Procs |-> CASE fd[q] = to   -> "none"
                              [] fd[q] = from -> to
                              [] OTHER        -> fd[q]]
-----------------------------------------------------------------------------
(* What each operation does with the state that GetPhaseState returned. *)

AfterInit(p) ==
  /\ epics' = epics + 1
  /\ Goto(p, "mktemp",
          [loc[p] EXCEPT !.new = [epic |-> epics + 1, visit |-> loc[p].visit,
                                  active |-> TRUE, phase |-> loc[p].arg,
                                  skills |-> {}, gates |-> {}]])
  /\ UNCHANGED <<aged, visits, answer, earned>>

\* MUTANT of Started: the gates of the phase before are kept.
GatesKept(p, s) ==
  [s EXCEPT !.visit = loc[p].visit, !.phase = loc[p].arg, !.skills = {}]

\* MUTANT of Started: the skills of the phase before are kept.
SkillsKept(p, s) ==
  [s EXCEPT !.visit = loc[p].visit, !.phase = loc[p].arg, !.gates = {}]

Started(p, s) ==
  [s EXCEPT !.visit = loc[p].visit, !.phase = loc[p].arg, !.skills = {}, !.gates = {}]

AfterStart(p, s) ==
  /\ Goto(p, "mktemp", [loc[p] EXCEPT !.new = Started(p, s)])
  /\ UNCHANGED <<counters, answer, earned>>

\* MUTANT of AfterGate: the gate is put into the list of skills.
GateAmongSkills(p, s) ==
  /\ earned' = earned \cup {<<s.visit, loc[p].arg>>}
  /\ IF loc[p].arg = "final"
     THEN Goto(p, "remove", loc[p])
     ELSE Goto(p, "mktemp", [loc[p] EXCEPT !.new = [s EXCEPT !.skills = @ \cup {loc[p].arg}]])
  /\ UNCHANGED <<counters, answer>>

\* final is not kept: it removes the state, whatever the phase.
AfterGate(p, s) ==
  /\ earned' = earned \cup {<<s.visit, loc[p].arg>>}
  /\ IF loc[p].arg = "final"
     THEN Goto(p, "remove", loc[p])
     ELSE Goto(p, "mktemp", [loc[p] EXCEPT !.new = [s EXCEPT !.gates = @ \cup {loc[p].arg}]])
  /\ UNCHANGED <<counters, answer>>

\* ProcessReadTracker reads the state, then UpdatePhaseState reads it again
\* and puts the list made from the first read into the second.
AfterRead(p, s) ==
  /\ IF ~loc[p].again
     THEN IF s.active /\ loc[p].arg \notin s.skills
          THEN Goto(p, "get", [loc[p] EXCEPT !.again = TRUE,
                                            !.skills = s.skills \cup {loc[p].arg}])
          ELSE HookReturn(p)
     ELSE Goto(p, "trunc", [loc[p] EXCEPT !.got = s,
                                         !.new = [s EXCEPT !.skills = loc[p].skills]])
  /\ UNCHANGED <<counters, answer, earned>>

\* verify-gates, when all checks pass: CleanPhaseStateIfFinal.
AfterVerify(p, s) ==
  /\ IF s.active /\ "final" \in s.gates THEN Goto(p, "remove", loc[p]) ELSE Return(p)
  /\ UNCHANGED <<counters, answer, earned>>

Answers(p, a) ==
  /\ answer' = a
  /\ HookReturn(p)
  /\ UNCHANGED <<counters, earned>>

After(p, s) ==
  LET op == loc[p].op
  IN  CASE op = "guard" -> Answers(p, GuardAnswer(s))
        [] op = "stop"  -> Answers(p, StopAnswer(s))
        [] op = "init" /\ s = NoSession -> AfterInit(p)
        [] op = "start" /\ s # NoSession -> AfterStart(p, s)
        [] op = "gate" /\ s # NoSession -> AfterGate(p, s)
        [] op = "read" /\ s # NoSession -> AfterRead(p, s)
        [] op = "verify" /\ s # NoSession -> AfterVerify(p, s)
        [] OTHER ->
             /\ IF op = "read" THEN HookReturn(p) ELSE Return(p)
             /\ UNCHANGED <<counters, answer, earned>>

\* GetPhaseState, once the bytes are read: what does not parse is nil, and
\* what is too old is removed first.
Parsed(p, content) ==
  IF content \in State /\ Stale(content)
  THEN /\ Goto(p, "expire", loc[p])
       /\ UNCHANGED <<counters, answer, earned>>
  ELSE After(p, Decode(content))
-----------------------------------------------------------------------------
(* Actions. *)

Begin(p, op, arg) ==
  /\ pc[p] = "idle"
  /\ op \in Ops
  /\ op \in {"init", "force", "start"} => visits < MaxVisits
  /\ visits' = IF op \in {"init", "force", "start"} THEN visits + 1 ELSE visits
  /\ Goto(p, CASE op = "force" -> "force" [] op = "clean" -> "remove" [] OTHER -> "get",
          [Idle EXCEPT !.op = op, !.arg = arg, !.visit = visits'])
  /\ reads' = IF op = "read" THEN reads \cup {<<v, arg>> : v \in 0..visits} ELSE reads
  /\ answer' = "none"
  /\ cause' = "none"
  /\ UNCHANGED <<file, fd, epics, aged, earned>>

\* The Stop hook lets a stop pass that it has blocked before.
StopHookActive(p) ==
  /\ pc[p] = "idle"
  /\ "stop" \in Ops
  /\ answer' = "stop again"
  /\ HookReturn(p)
  /\ UNCHANGED <<file, fd, counters, cause, earned, reads>>

\* init --force does not look at the state there is.
ForceInit(p) ==
  /\ pc[p] = "force"
  /\ AfterInit(p)
  /\ UNCHANGED <<file, fd, cause, reads>>

ReadMain(p) ==
  /\ pc[p] = "get"
  /\ IF file["main"] = Missing
     THEN /\ Goto(p, "legacy", loc[p])
          /\ UNCHANGED <<counters, answer, earned>>
     ELSE Parsed(p, file["main"])
  /\ UNCHANGED <<file, fd, cause, reads>>

\* readAndMigrateLegacyPhaseState.
ReadLegacy(p) ==
  /\ pc[p] = "legacy"
  /\ IF file["legacy"] = Missing
     THEN After(p, NoSession)
     ELSE /\ Goto(p, "migrate", [loc[p] EXCEPT !.got = file["legacy"]])
          /\ UNCHANGED <<counters, answer, earned>>
  /\ UNCHANGED <<file, fd, cause, reads>>

Migrate(p) ==
  /\ pc[p] = "migrate"
  /\ OpenTrunc(p, "main")
  /\ Goto(p, "migrated", loc[p])
  /\ UNCHANGED <<answer, counters, earned, reads>>
  /\ Because("migrate")

Migrated(p) ==
  /\ pc[p] = "migrated"
  /\ WriteTo(p, loc[p].got)
  /\ Goto(p, "unlink", loc[p])
  /\ UNCHANGED <<answer, counters, earned, reads>>
  /\ Because("resume")

Unlink(p) ==
  /\ pc[p] = "unlink"
  /\ Remove("legacy")
  /\ Goto(p, "parse", loc[p])
  /\ UNCHANGED <<answer, counters, cause, earned, reads>>

ParseLegacy(p) ==
  /\ pc[p] = "parse"
  /\ Parsed(p, loc[p].got)
  /\ UNCHANGED <<file, fd, cause, reads>>

\* validatePhaseState: os.Remove of whatever is at the path by now.
RemoveStale(p) ==
  /\ pc[p] = "expire"
  /\ Remove("main")
  /\ After(p, NoSession)
  /\ UNCHANGED reads
  /\ Because("expire")

\* WritePhaseState.
MakeTemp(p) ==
  /\ pc[p] = "mktemp"
  /\ OpenTrunc(p, "tmp")
  /\ Goto(p, "fill", loc[p])
  /\ UNCHANGED <<answer, counters, cause, earned, reads>>

FillTemp(p) ==
  /\ pc[p] = "fill"
  /\ WriteTo(p, loc[p].new)
  /\ Goto(p, "rename", loc[p])
  /\ UNCHANGED <<answer, counters, earned, reads>>
  /\ Because("torn")

\* The rename fails when another process has renamed the file away.
RenameTemp(p) ==
  /\ pc[p] = "rename"
  /\ IF file["tmp"] = Missing THEN UNCHANGED <<file, fd>> ELSE Rename("tmp", "main")
  /\ Return(p)
  /\ UNCHANGED <<answer, counters, earned, reads>>
  /\ Because(loc[p].op)

\* UpdatePhaseState: a plain os.WriteFile of the state file.
TruncateMain(p) ==
  /\ pc[p] = "trunc"
  /\ OpenTrunc(p, "main")
  /\ Goto(p, "rewrite", loc[p])
  /\ UNCHANGED <<answer, counters, earned, reads>>
  /\ Because("read")

RewriteMain(p) ==
  /\ pc[p] = "rewrite"
  /\ WriteTo(p, loc[p].new)
  /\ HookReturn(p)
  /\ UNCHANGED <<answer, counters, earned, reads>>
  /\ Because("read")

\* gate final, clean, verify-gates.
RemoveMain(p) ==
  /\ pc[p] = "remove"
  /\ Remove("main")
  /\ Return(p)
  /\ UNCHANGED <<answer, counters, earned, reads>>
  /\ Because(loc[p].op)

\* The process is killed.  A temporary file that nobody will rename is
\* forgotten: the next writer truncates it.
Crash(p) ==
  /\ pc[p] # "idle"
  /\ Return(p)
  /\ file' = IF \E q \in Procs \ {p} : pc[q] \in {"fill", "rename"}
             THEN file ELSE [file EXCEPT !["tmp"] = Missing]
  /\ fd' = [fd EXCEPT ![p] = "none"]
  /\ UNCHANGED <<answer, counters, earned, reads>>
  /\ Because("crash")

\* 72 hours go by.
Age ==
  /\ aged < epics
  /\ aged' \in (aged + 1)..epics
  /\ UNCHANGED <<file, fd, pc, loc, answer, epics, visits, earned, reads>>
  /\ Because("expire")

Step(p) ==
  \/ ForceInit(p) \/ ReadMain(p) \/ ReadLegacy(p) \/ Migrate(p) \/ Migrated(p)
  \/ Unlink(p) \/ ParseLegacy(p) \/ RemoveStale(p) \/ MakeTemp(p) \/ FillTemp(p) \/ RenameTemp(p)
  \/ TruncateMain(p) \/ RewriteMain(p) \/ RemoveMain(p)

Start(p) ==
  \/ \E op \in {"init", "force", "start"}, phase \in PhaseNames : Begin(p, op, phase)
  \/ \E gate \in Gates : Begin(p, "gate", gate)
  \/ \E skill \in Skills : Begin(p, "read", skill)
  \/ \E op \in {"clean", "verify", "status", "guard", "stop"} : Begin(p, op, "none")
  \/ StopHookActive(p)

Init ==
  /\ file \in InitialFiles
  /\ fd = [p \in Procs |-> "none"]
  /\ pc = [p \in Procs |-> "idle"]
  /\ loc = [p \in Procs |-> Idle]
  /\ answer = "none"
  /\ epics = 1
  /\ aged = 0
  /\ visits = 0
  /\ cause = "none"
  /\ \E old \in {{file[path] : path \in Paths} \cap State} :
       /\ earned = UNION {{<<s.visit, gate>> : gate \in s.gates} : s \in old}
       /\ reads = UNION {{<<s.visit, skill>> : skill \in s.skills} : s \in old}

Next == Age \/ \E p \in Procs : Start(p) \/ Step(p) \/ Crash(p)

Spec == Init /\ [][Next]_vars
-----------------------------------------------------------------------------
(* Properties. *)

Labels == {"idle", "force", "get", "legacy", "migrate", "migrated", "unlink", "parse",
           "expire", "mktemp", "fill", "rename", "trunc", "rewrite", "remove"}

Local == [op: Operations \cup {"none"}, arg: Skills \cup Gates \cup {"none"},
          visit: Nat, again: BOOLEAN, got: Content \cup {NoSession},
          new: State \cup {NoSession}, skills: SUBSET Skills]

\* Every variable has its type.
TypeOK ==
  /\ file \in [Paths -> Content \cup {Missing}]
  /\ fd \in [Procs -> Paths \cup {"none"}]
  /\ pc \in [Procs -> Labels]
  /\ loc \in [Procs -> Local]
  /\ answer \in {"none", "edit", "warn", "stop", "block", "stop again"}
  /\ epics \in Nat /\ aged \in 0..epics /\ visits \in 0..MaxVisits

States == ({file[path] : path \in Paths} \cup {loc[p].got : p \in Procs}
             \cup {loc[p].new : p \in Procs}) \cap State

\* A gate counts only for the phase in which a gate command recorded it,
\* however commands and hooks race: nobody carries it over a start, and a
\* hook that rewrites the file adds none.
GatesAreEarned == \A s \in States : \A gate \in s.gates : <<s.visit, gate>> \in earned

\* The session, without its age and its number.
Project(s) == IF s = NoSession THEN NoSession
              ELSE [phase |-> s.phase, active |-> s.active,
                    skills |-> s.skills, gates |-> s.gates]

Abstract == INSTANCE PhaseSession
              WITH session <- Project(Session),
                   shelved <- Project(Decode(file["legacy"]))

\* An agent that runs one command at a time sees a PhaseSession, even when
\* commands are killed, sessions expire and older files are taken over.
IsAPhaseSession == Abstract!Spec

\* The phase guard lets an edit pass only outside of a session or when the
\* skill of the phase was read since the phase began.  Documented, and kept
\* as long as one command runs at a time.
EditsFollowSkillRead ==
  [][answer # "edit" /\ answer' = "edit" =>
       \/ Session = NoSession \/ ~Session.active
       \/ <<Session.visit, Session.phase>> \in reads]_vars
-----------------------------------------------------------------------------
(* The inductive invariant behind GatesAreEarned. *)

\* What an operation is about is of the kind it needs.
ArgFits(l) ==
  /\ l.op \in {"init", "force", "start"} => l.arg \in PhaseNames
  /\ l.op = "gate" => l.arg \in Gates
  /\ l.op = "read" => l.arg \in Skills

\* A writer has a state to write, a process that migrates a file has read it.
MemoryFits(label, l) ==
  /\ label = "force" => l.op = "force"
  /\ label \in {"mktemp", "fill", "rename", "trunc", "rewrite"} => l.new \in State
  /\ label \in {"migrate", "migrated", "unlink", "parse"} => l.got \in Content

IInv ==
  /\ TypeOK
  /\ \A p \in Procs : ArgFits(loc[p]) /\ MemoryFits(pc[p], loc[p])
  /\ GatesAreEarned

(* The one behind IsAPhaseSession and EditsFollowSkillRead. *)

\* Both are promised to an agent that runs one command at a time, and to files
\* that are numbered as those of earlier runs.
OneProcess == \A p, q \in Procs : p = q

EarlierFiles ==
  \A files \in InitialFiles, path \in Paths :
    files[path] \in State => files[path].epic <= 1 /\ files[path].visit = 0

\* A state of the sessions so far, with skills that were read.
Known(s) ==
  s \in State =>
    /\ s.epic <= epics /\ s.visit <= visits
    /\ \A skill \in s.skills : <<s.visit, skill>> \in reads

\* The state that an operation is about to put in the place of the file's.
Renewed(p, main) ==
  \/ /\ loc[p].op \in {"init", "force"}
     /\ loc[p].op = "init" => Decode(main) = NoSession
     /\ loc[p].new = [epic |-> epics, visit |-> loc[p].visit, active |-> TRUE,
                      phase |-> loc[p].arg, skills |-> {}, gates |-> {}]
  \/ /\ loc[p].op = "start"
     /\ main \in State
     /\ loc[p].new = Started(p, main)
  \/ /\ loc[p].op = "gate" /\ loc[p].arg # "final"
     /\ main \in State
     /\ loc[p].new = [main EXCEPT !.gates = @ \cup {loc[p].arg}]

\* What the files hold when p has come to each of its steps.
OnCourse(p) ==
  LET main == file["main"]
      l    == loc[p]
  IN
  /\ l.visit <= visits
  /\ l.op = "read" => \A v \in 0..visits : <<v, l.arg>> \in reads
  /\ pc[p] = "get" /\ l.again =>
       /\ l.op = "read" /\ main \in State /\ main.active
       /\ l.skills = main.skills \cup {l.arg}
  /\ pc[p] \in {"legacy", "migrate", "migrated", "unlink", "parse"} => ~l.again
  /\ pc[p] \in {"legacy", "migrate"} => main = Missing
  /\ pc[p] \in {"migrate", "migrated", "unlink"} => l.got = file["legacy"]
  /\ pc[p] = "migrated" => main = Empty /\ fd[p] = "main"
  /\ pc[p] \in {"unlink", "parse"} => main = l.got
  /\ pc[p] = "expire" => main \in State /\ Stale(main)
  /\ pc[p] \in {"mktemp", "fill", "rename"} => Renewed(p, main)
  /\ pc[p] = "fill" => file["tmp"] = Empty /\ fd[p] = "tmp"
  /\ pc[p] = "rename" => file["tmp"] = l.new
  /\ pc[p] \in {"trunc", "rewrite"} =>
       /\ l.op = "read" /\ l.got \in State /\ l.got.active /\ Known(l.got)
       /\ l.new = [l.got EXCEPT !.skills = @ \cup {l.arg}]
  /\ pc[p] = "trunc" => main = l.got
  /\ pc[p] = "rewrite" => main = Empty /\ fd[p] = "main"
  /\ pc[p] = "remove" =>
       /\ l.op \in {"gate", "clean", "verify"}
       /\ l.op = "verify" => main \in State /\ main.active /\ "final" \in main.gates

CommandInv ==
  /\ Known(file["main"]) /\ Known(file["legacy"])
  /\ \A p \in Procs : OnCourse(p)
-----------------------------------------------------------------------------
(* What the documents claim and the code does not keep. *)

\* phase_state.go, WritePhaseState: "atomically via temp+rename".  Its
\* writers share one temporary file.
WritesAreAtomic == file["main"] \notin {Empty, Corrupt}
=============================================================================
