----------------------------- MODULE ReviewLoops -----------------------------
(***************************************************************************)
(* The two scripts that drive a fleet of reviewers.  run_review_phase      *)
(* (go/internal/cli/commands_scripts_review.go), which the infinity loop   *)
(* calls between epics: review, let the implementer fix, review again, at  *)
(* most MAX_REVIEW_CYCLES times.  The polish loop                          *)
(* (commands_scripts_polish.go): audit, synthesize a report, let the       *)
(* architect make epics of it, run an inner infinity loop on them; CYCLES  *)
(* times.                                                                  *)
(***************************************************************************)
EXTENDS ReviewerFleet

DriverUnchanged == UNCHANGED <<conf, fleet, report, jobs, proc, sids, said>>

\* tasks: the reviewers whose reports the fixing session, or the architect,
\* was given; outcome: how the last review phase ended.
Init ==
  /\ conf \in Confs
  /\ run = [pc |-> "start", phase |-> 0, cycle |-> 1, avail |-> {},
            tasks |-> {}, outcome |-> "none",
            status |-> "absent"]
  /\ FleetInit

Goto(pc) == run' = [run EXCEPT !.pc = pc]

(***************************************************************************)
(* The review phase.  detect_reviewers keeps the reviewers whose command   *)
(* is there and healthy; with none, or with no commit, there is no review. *)
(***************************************************************************)
ReviewSkipped ==
  /\ conf.driver = "review"
  /\ run.pc = "start"
  /\ run.phase < conf.phases
  /\ run' = [run EXCEPT !.phase = @ + 1, !.outcome = "none"]
  /\ DriverUnchanged

ReviewStarts ==
  /\ conf.driver = "review"
  /\ run.pc = "start"
  /\ run.phase < conf.phases
  /\ \E avail \in SUBSET conf.fleet \ {{}} :
       /\ run' = [run EXCEPT !.pc = "review", !.phase = @ + 1, !.cycle = 1,
                             !.avail = avail, !.tasks = {}, !.outcome = "none"]
       /\ SentOut(avail)
  \* sessions.json is reset; init_review_sessions makes up an id for every
  \* claude reviewer of the p backend, and leaves the others to the dispatch.
  /\ sids' = IF conf.backend = "p" THEN {r \in run'.avail : Kind[r] = "claude"}
             ELSE {}
  /\ UNCHANGED <<conf, jobs>>

LoopOver ==
  /\ conf.driver = "review"
  /\ run.pc = "start"
  /\ run.phase = conf.phases
  /\ Goto("end")
  /\ DriverUnchanged

Said(r) == report[run.cycle][r].text

Verdict(r) ==
  CASE Said(r) \in {"absent", "empty", "error"} -> "errored"
    [] Said(r) = "approved" -> "approved"
    [] Said(r) \in {"changes", "noise"} -> "changes"

AllApproved == \A r \in run.avail : Verdict(r) # "changes"

Approved ==
  /\ conf.driver = "review"
  /\ run.pc = "review"
  /\ fleet.stage = "done"
  /\ AllApproved
  /\ run' = [run EXCEPT !.pc = "start", !.outcome = "approved"]
  /\ DriverUnchanged

\* The reviewers whose report is not empty.
Reporting == {r \in run.avail : Said(r) \notin {"absent", "empty"}}

\* MUTANT of CyclesLeft: one cycle too many.
CyclesLeftOne == run.cycle <= conf.cycles

CyclesLeft == run.cycle < conf.cycles

\* feed_implementer, before every cycle but the first; it runs agent_invoke
\* through portable_timeout, too.
NextCycle ==
  /\ conf.driver = "review"
  /\ run.pc = "review"
  /\ fleet.stage = "done"
  /\ ~ AllApproved
  /\ CyclesLeft
  /\ run' = [run EXCEPT !.cycle = @ + 1,
                        !.tasks = IF Invocable THEN Reporting ELSE {}]
  /\ SentOut(run.avail)
  /\ UNCHANGED <<conf, jobs, sids>>

CyclesExhausted ==
  /\ conf.driver = "review"
  /\ run.pc = "review"
  /\ fleet.stage = "done"
  /\ ~ AllApproved
  /\ ~ CyclesLeft
  /\ run' = [run EXCEPT !.pc = IF conf.blocking THEN "exit" ELSE "start",
                        !.outcome = "exhausted"]
  /\ DriverUnchanged

(***************************************************************************)
(* The polish loop.                                                        *)
(***************************************************************************)
\* The prerequisites, the preflight of the bg backend, or no reviewer.
PolishFails ==
  /\ conf.driver = "polish"
  /\ run.pc = "start"
  /\ run' = [run EXCEPT !.pc = "exit", !.status = "crashed"]
  /\ DriverUnchanged

PolishStarts ==
  /\ conf.driver = "polish"
  /\ run.pc = "start"
  /\ \E avail \in SUBSET conf.fleet \ {{}} :
       /\ run' = [run EXCEPT !.pc = "audit", !.avail = avail,
                             !.status = "running"]
       /\ SentOut(avail)
  /\ UNCHANGED <<conf, jobs, sids>>

\* The state.json of a session is polled, or collected: the script aborts, and
\* its trap writes that it has crashed.
AuditAborts ==
  /\ conf.driver = "polish"
  /\ fleet.stage = "poll"
  /\ \E j \in fleet.wait : ~ Readable(j)
  /\ run' = [run EXCEPT !.pc = "exit", !.status = "crashed"]
  /\ DriverUnchanged

\* synthesize_report: the report has a section for every reviewer, and a
\* reviewer without output is only named.
Synthesize ==
  /\ run.pc = "audit"
  /\ fleet.stage = "done"
  /\ run' = [run EXCEPT !.pc = "architect", !.tasks = Reporting]
  /\ DriverUnchanged

\* run_polish_architect: the architect, called directly, prints the epics it
\* has created, if any; it may fail, too.
Architect ==
  /\ run.pc = "architect"
  /\ run' = [run EXCEPT !.pc = "inner"]
  /\ DriverUnchanged

\* No epics, or the inner loop generated and run.  The script may not be
\* generated, and may complete no epic: the main loop goes on in any case.
InnerLoop ==
  /\ run.pc = "inner"
  /\ run' = [run EXCEPT !.pc = "next"]
  /\ DriverUnchanged

NextAudit ==
  /\ run.pc = "next"
  /\ CyclesLeft
  /\ run' = [run EXCEPT !.pc = "audit", !.cycle = @ + 1, !.tasks = {}]
  /\ SentOut(run.avail)
  /\ UNCHANGED <<conf, jobs, sids>>

PolishDone ==
  /\ run.pc = "next"
  /\ ~ CyclesLeft
  /\ run' = [run EXCEPT !.pc = "end", !.status = "completed"]
  /\ DriverUnchanged

DriverStep ==
  \/ ReviewSkipped \/ ReviewStarts \/ LoopOver
  \/ Approved \/ NextCycle \/ CyclesExhausted
  \/ PolishFails \/ PolishStarts \/ AuditAborts \/ Synthesize \/ Architect
  \/ InnerLoop \/ NextAudit \/ PolishDone

Over == run.pc \in {"end", "exit"}

ScriptStep == DriverStep \/ (~ Over /\ FleetStep)

Next == ScriptStep \/ ProcessStep \/ StrayWrites \/ JobStep

\* The script runs, and every process ends, by itself or by its timeout; a bg
\* session may go on for ever.
Spec == /\ Init /\ [][Next]_vars
        /\ WF_vars(ScriptStep)
        /\ WF_vars(ProcessStep)
-----------------------------------------------------------------------------
Driver(c) ==
  [pc : {"start", "review", "audit", "architect", "inner", "next", "end", "exit"},
   phase : 0 .. c.phases, cycle : 1 .. c.cycles, avail : SUBSET c.fleet,
   tasks : SUBSET c.fleet, outcome : {"none", "approved", "exhausted"},
   status : {"absent", "running", "completed", "crashed"}]

(* Every variable keeps its shape; a cycle beyond the configured number is  *)
(* never begun.                                                             *)
TypeOK == FleetTypeOK /\ run \in Driver(conf)

(* R-FLEET: a phase is not approved while a reviewer that was started, and   *)
(* that was not cut off by the timeout, asks for changes, or is yet to do    *)
(* so; and the architect is given what every such auditor asks for.  What    *)
(* outlived its timeout in an earlier phase may overwrite a report of this.  *)
NoFindingLost ==
  \A r \in Reviewers : said[r] = "changes" /\ ~ Outlived(r) =>
    /\ run.outcome # "approved"
    /\ run.pc \in {"architect", "inner", "next"} => r \in run.tasks

(* A report that is counted was written in this cycle, except that of codex, *)
(* which leaves an old report when it fails, that of a background session    *)
(* which could not be started, and one that an outlived process writes to.   *)
VerdictsAreFresh ==
  fleet.stage = "done" =>
    \A r \in run.avail :
      \/ report[run.cycle][r].text = "absent"
      \/ report[run.cycle][r].fresh
      \/ Kind[r] = "codex"
      \/ r \in fleet.missed
      \/ Outlived(r)

(* The T3/T4 invariant, as far as the script keeps it: a commit that claude  *)
(* rm destroys was made after the worktrees were looked at, by a session     *)
(* that claude stop did not stop; or the look failed, or another session's   *)
(* worktree had also appeared since the snapshot and was taken for its own.  *)
CommitsAreKept ==
  [][\A j \in 1 .. Len(jobs) :
       jobs'[j].state = "gone" /\ jobs[j].state # "gone"
         => jobs[j].commits # "early" \/ ~ fleet.own]_vars

(* A loop whose reviewers hang, ignore claude stop or fail comes to its end; *)
(* and a polish loop that has found its reviewers completes all of its       *)
(* cycles, whatever fails in one of them, unless it meets the state.json of  *)
(* a background session.                                                     *)
LoopsEnd ==
  /\ <>Over
  /\ [](run.status = "running" =>
          <>(\/ run.status = "completed"
             \/ run.status = "crashed" /\ \E j \in fleet.wait : ~ Readable(j)))

-----------------------------------------------------------------------------
(* The inductive invariant.                                                 *)

WaitsFor(r) == {j \in fleet.wait : jobs[j].who = r}

\* The barrier waits for one session of a reviewer, and not for the one that
\* is torn down.
FleetOK ==
  /\ fleet.stage # "spawn" => fleet.todo = {}
  /\ fleet.stage \in {"teardown", "remove"} => fleet.current # NoJob
  /\ fleet.stage = "done" => Waited
  /\ fleet.current \notin fleet.wait
  /\ \A j \in fleet.wait : /\ InBackground(jobs[j].who)
                           /\ jobs[j].who \in run.avail \ fleet.todo
                           /\ WaitsFor(jobs[j].who) = {j}

\* A reviewer that asks for changes has its report written, or its session is
\* still waited for and will give it; every other report is of this cycle when
\* its reviewer is neither waited for nor left out.
ReviewerOK(r) ==
  /\ r \in fleet.todo => r \in run.avail
  /\ proc[r] = "running" => r \in run.avail \ fleet.todo /\ ~ InBackground(r)
  /\ said[r] = "changes" =>
       /\ r \in run.avail \ fleet.todo
       /\ proc[r] # "running"
       /\ \A j \in WaitsFor(r) : jobs[j].state = "ended" /\ jobs[j].text = "changes"
       /\ WaitsFor(r) = {} /\ ~ Outlived(r) => report[run.cycle][r].text = "changes"
  /\ r \in run.avail =>
       \/ r \in fleet.todo \cup fleet.missed
       \/ WaitsFor(r) # {}
       \/ Kind[r] = "codex"
       \/ Outlived(r)
       \/ report[run.cycle][r].fresh

\* What was concluded from the reports, which no late answer can change.
DriverOK ==
  /\ run.pc \in {"audit", "architect", "inner", "next"} => conf.driver = "polish"
  /\ run.outcome # "none" => /\ conf.driver = "review"
                             /\ run.pc \in {"start", "end", "exit"}
  /\ run.outcome = "approved" =>
       fleet.stage = "done" /\ \A r \in Reviewers : said[r] = "changes" => Outlived(r)
  /\ run.pc \in {"architect", "inner", "next"} =>
       /\ fleet.stage = "done"
       /\ \A r \in Reviewers : said[r] = "changes" /\ ~ Outlived(r) => r \in run.tasks

\* The session that is to be removed had no commits when it was looked at.
LookOK == fleet.stage = "remove" /\ fleet.own => jobs[fleet.current].commits # "early"

IInv ==
  /\ TypeOK
  /\ FleetOK
  /\ DriverOK
  /\ \A r \in Reviewers : ReviewerOK(r)
-----------------------------------------------------------------------------
(* "Fall through to synchronous invocation so callers (e.g.                  *)
(* feed_implementer) work": the implementer is given every request.          *)
ImplementerWorks ==
  [][run'.cycle = run.cycle + 1 /\ run.pc = "review"
       => {r \in run.avail : Verdict(r) = "changes"} \subseteq run'.tasks]_vars

(* "claude rm is only invoked when a snapshot exists AND the worktree-commit *)
(* check confirms no commits were made": no commit of a reviewer is lost.    *)
NoCommitRemoved ==
  [][\A j \in 1 .. Len(jobs) :
       jobs'[j].state = "gone" /\ jobs[j].state # "gone"
         => jobs[j].commits = "none"]_vars
=============================================================================
