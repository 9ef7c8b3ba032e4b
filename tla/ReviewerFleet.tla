---------------------------- MODULE ReviewerFleet ----------------------------
(***************************************************************************)
(* A fleet of reviewers, as the generated review phase and polish loop     *)
(* start it (spawn_reviewers in                                            *)
(* go/internal/cli/commands_scripts_review.go, run_polish_audit in         *)
(* commands_scripts_polish.go): every available reviewer is started, the   *)
(* claude sessions of the bg backend are polled and torn down, the other   *)
(* processes are waited for, and only then are the report files read.      *)
(*                                                                         *)
(* A reviewer writes one report file per cycle, cycle-N/<reviewer>.md; the *)
(* files of an earlier review phase are still there in the next one.       *)
(* Sessions, processes and the git worktrees they make are outside of the  *)
(* repository.  What a reviewer prints is one of Texts: "error" is an API  *)
(* error, "changes" any other text without the line REVIEW_APPROVED;       *)
(* "noise" is such text that no reviewer has printed.                      *)
(***************************************************************************)
EXTENDS Naturals, FiniteSets, Sequences

CONSTANTS
  Reviewers,   \* the reviewers there are
  Kind,        \* for each of them "claude", "agy", "codex" or "goose"
  Confs,       \* the scripts that may be generated, and where they run
  MaxCycles    \* the largest number of cycles of a configuration

Kinds == {"claude", "agy", "codex", "goose"}
Texts == {"approved", "changes", "error", "empty"}
NoJob == 0

ASSUME KindAssumption == Kind \in [Reviewers -> Kinds]
\* phases: how many review phases a loop starts; timeout: the machine has a
\* timeout (or gtimeout) command; goose: goose fixes, and its fleet reviews.
ASSUME ConfsAssumption ==
  Confs \subseteq [driver : {"review", "polish"}, backend : {"bg", "p"},
                   fleet : SUBSET Reviewers, timeout : BOOLEAN,
                   goose : BOOLEAN, cycles : 1 .. MaxCycles, phases : Nat,
                   blocking : BOOLEAN]
ASSUME MaxCyclesAssumption == MaxCycles \in Nat

VARIABLES
  conf,     \* the script and its machine
  run,      \* the variables of the script that drives the fleet
  fleet,    \* the variables of spawn_reviewers or run_polish_audit
  report,   \* the report files, by cycle and reviewer
  jobs,     \* the bg sessions, in the order they were started
  proc,     \* the reviewer processes: "none", "running" or "ended"
  sids,     \* sessions.json: the reviewers whose session id is known
  said      \* what each reviewer said in this cycle before it was collected

fleetVars == <<fleet, report, jobs, proc, sids, said>>
vars == <<conf, run, fleetVars>>

NoReport == [text |-> "absent", fresh |-> FALSE]

Quiet == [r \in Reviewers |-> "none"]

\* missed: the reviewers that were not started; over: REVIEW_TIMEOUT has
\* passed; strays: the processes that outlived their timeout, by the cycle and
\* the reviewer of the report they write; own: of the worktrees that were
\* looked at, the session's was the only new one.
FleetInit ==
  /\ fleet = [stage |-> "idle", todo |-> {}, wait |-> {}, current |-> NoJob,
              missed |-> {}, over |-> FALSE, strays |-> {}, own |-> FALSE]
  /\ report = [c \in 1 .. MaxCycles |-> [r \in Reviewers |-> NoReport]]
  /\ jobs = <<>>
  /\ proc = Quiet
  /\ sids = {}
  /\ said = Quiet

\* The fleet is sent out; every driver does so at the start of a cycle.
\* fresh is TRUE of the files that are written from here on.
SentOut(avail) ==
  /\ fleet' = [fleet EXCEPT !.stage = "spawn", !.todo = avail, !.wait = {},
                            !.current = NoJob, !.missed = {}, !.over = FALSE]
  /\ report' = [c \in 1 .. MaxCycles |->
                  [r \in Reviewers |-> [report[c][r] EXCEPT !.fresh = FALSE]]]
  /\ proc' = Quiet
  /\ said' = Quiet

Written(r, text) ==
  report' = [report EXCEPT ![run.cycle][r] = [text |-> text, fresh |-> TRUE]]

(***************************************************************************)
(* Processes.  claude under the p backend, agy and goose write to the      *)
(* report, which the shell empties first; codex writes it by itself, and   *)
(* only if it succeeds.  portable_timeout passes its arguments to the      *)
(* timeout command, if there is one, and that command cannot run           *)
(* agent_invoke, a function of the shell: the report holds its complaint.  *)
(* The polish loop keeps the complaint out of the report.                  *)
(***************************************************************************)
Invocable == conf.goose \/ ~ conf.timeout

InBackground(r) == Kind[r] = "claude" /\ conf.backend = "bg"

Started(r) == fleet' = [fleet EXCEPT !.todo = @ \ {r}]

SpawnProcess(r) ==
  /\ fleet.stage = "spawn"
  /\ r \in fleet.todo
  /\ ~ InBackground(r)
  /\ Kind[r] = "claude" => Invocable
  /\ Started(r)
  /\ proc' = [proc EXCEPT ![r] = "running"]
  /\ IF Kind[r] = "codex" THEN UNCHANGED report ELSE Written(r, "empty")
  /\ UNCHANGED <<conf, run, jobs, sids, said>>

SpawnUnrunnable(r) ==
  /\ fleet.stage = "spawn"
  /\ r \in fleet.todo
  /\ ~ InBackground(r)
  /\ Kind[r] = "claude"
  /\ ~ Invocable
  /\ Started(r)
  /\ Written(r, IF conf.driver = "review" THEN "noise" ELSE "empty")
  /\ UNCHANGED <<conf, run, jobs, proc, sids, said>>

\* A process ends by itself, or because its time is over.
ProcessEnds(r) ==
  /\ proc[r] = "running"
  /\ proc' = [proc EXCEPT ![r] = "ended"]
  /\ \/ \E text \in Texts : /\ Written(r, text)
                            /\ said' = [said EXCEPT ![r] = text]
     \/ /\ Kind[r] = "codex"
        /\ UNCHANGED <<report, said>>
  /\ UNCHANGED <<conf, run, fleet, jobs, sids>>

\* Without a timeout command, portable_timeout kills the subshell that runs
\* agent_invoke, and not the claude in it.
ProcessOutlives(r) ==
  /\ proc[r] = "running"
  /\ Kind[r] = "claude"
  /\ ~ conf.timeout
  /\ proc' = [proc EXCEPT ![r] = "ended"]
  /\ fleet' = [fleet EXCEPT !.strays = @ \cup {<<run.cycle, r>>}]
  /\ UNCHANGED <<conf, run, report, jobs, sids, said>>

\* It writes to the report of its cycle, of this phase or of a later one.
StrayWrites ==
  /\ \E s \in fleet.strays, text \in Texts :
       report' = [report EXCEPT ![s[1]][s[2]] = [text |-> text, fresh |-> FALSE]]
  /\ UNCHANGED <<conf, run, fleet, jobs, proc, sids, said>>

Outlived(r) == <<run.cycle, r>> \in fleet.strays

(***************************************************************************)
(* Background sessions.  The worktrees are listed, claude --bg is started, *)
(* and the listing is stored under the id that claude printed; in later    *)
(* cycles of a review phase the session of the first cycle is resumed,     *)
(* under a new id.  Without an id there is nothing to poll, though a       *)
(* session may run.                                                        *)
(***************************************************************************)
Resumes == conf.driver = "review" /\ run.cycle > 1

Listing == {j \in 1 .. Len(jobs) : jobs[j].tree}

\* snap: the listing before the start; saved: the snapshot could be stored.
Job(r, saved) == [who |-> r, state |-> "starting", text |-> "noise",
                  commits |-> "none", tree |-> FALSE,
                  snap |-> IF saved THEN Listing ELSE {}, saved |-> saved]

SpawnSession(r) ==
  /\ fleet.stage = "spawn"
  /\ r \in fleet.todo
  /\ InBackground(r)
  /\ Resumes => r \in sids
  /\ \E saved \in BOOLEAN : jobs' = Append(jobs, Job(r, saved))
  /\ fleet' = [fleet EXCEPT !.todo = @ \ {r}, !.wait = @ \cup {Len(jobs) + 1}]
  /\ \/ UNCHANGED sids
     \/ conf.driver = "review" /\ run.cycle = 1 /\ sids' = sids \cup {r}
  /\ UNCHANGED <<conf, run, report, proc, said>>

SpawnMisses(r) ==
  /\ fleet.stage = "spawn"
  /\ r \in fleet.todo
  /\ InBackground(r)
  /\ \/ UNCHANGED jobs
     \/ /\ Resumes => r \in sids
        /\ jobs' = Append(jobs, Job(r, FALSE))
  /\ fleet' = [fleet EXCEPT !.todo = @ \ {r}, !.missed = @ \cup {r}]
  /\ UNCHANGED <<conf, run, report, proc, sids, said>>

Spawned ==
  /\ fleet.stage = "spawn"
  /\ fleet.todo = {}
  /\ fleet' = [fleet EXCEPT !.stage = "poll"]
  /\ UNCHANGED <<conf, run, report, jobs, proc, sids, said>>

\* A session begins, and makes its worktree and its state.json.
JobBegins(j) ==
  /\ jobs[j].state = "starting"
  /\ jobs' = [jobs EXCEPT ![j].state = "running", ![j].tree = TRUE]
  /\ UNCHANGED <<conf, run, fleet, report, proc, sids, said>>

LookedAt(j) == fleet.stage = "remove" /\ fleet.current = j

\* Reviewers are asked not to commit.  Its first commit is made before or
\* after its worktree is looked at.
JobCommits(j) ==
  /\ jobs[j].state = "running"
  /\ jobs[j].commits = "none"
  /\ jobs' = [jobs EXCEPT ![j].commits = IF LookedAt(j) THEN "late" ELSE "early"]
  /\ UNCHANGED <<conf, run, fleet, report, proc, sids, said>>

JobEnds(j) ==
  /\ jobs[j].state = "running"
  /\ \E text \in Texts \ {"empty"} :
       IF j \in fleet.wait
         THEN /\ jobs' = [jobs EXCEPT ![j].state = "ended", ![j].text = text]
              /\ said' = [said EXCEPT ![jobs[j].who] = text]
         ELSE /\ jobs' = [jobs EXCEPT ![j].state = "ended"]
              /\ UNCHANGED said
  /\ UNCHANGED <<conf, run, fleet, report, proc, sids>>

(***************************************************************************)
(* The barrier.  A session that has ended is collected; when the time is   *)
(* over, so are the others: the report is written, the session is told to  *)
(* stop, which may have no effect, and is then torn down.                  *)
(***************************************************************************)
\* MUTANT of TimesOut: sessions are polled until they have ended.
NeverTimesOut == FALSE /\ UNCHANGED vars

TimesOut ==
  /\ fleet.stage = "poll"
  /\ fleet.wait # {}
  /\ ~ fleet.over
  /\ fleet' = [fleet EXCEPT !.over = TRUE]
  /\ UNCHANGED <<conf, run, report, jobs, proc, sids, said>>

\* The polish script never sets HAS_JQ, which it reads, under set -u, as soon
\* as there is a state.json.
Readable(j) == conf.driver = "review" \/ jobs[j].state = "starting"

\* MUTANT of CollectReport: the report of a session that has not ended is not
\* written.
CollectReportEnded(j) ==
  /\ fleet.stage = "poll"
  /\ j \in fleet.wait
  /\ Readable(j)
  /\ jobs[j].state = "ended" \/ fleet.over
  /\ IF jobs[j].state = "ended" THEN Written(jobs[j].who, jobs[j].text)
     ELSE UNCHANGED report
  /\ \E s \in {jobs[j].state, "ended"} :
       jobs' = [jobs EXCEPT ![j].state = s, ![j].text = "noise"]
  /\ fleet' = [fleet EXCEPT !.stage = "teardown", !.current = j,
                            !.wait = @ \ {j}]
  /\ UNCHANGED <<conf, run, proc, sids, said>>

\* bg_collect_reviewer, up to claude stop; a session that has not ended is
\* read as far as it has come.
CollectReport(j) ==
  /\ fleet.stage = "poll"
  /\ j \in fleet.wait
  /\ Readable(j)
  /\ jobs[j].state = "ended" \/ fleet.over
  /\ \E text \in (IF jobs[j].state = "running" THEN Texts \ {"empty"}
                  ELSE {jobs[j].text}) : Written(jobs[j].who, text)
  /\ \E s \in {jobs[j].state, "ended"} :
       jobs' = [jobs EXCEPT ![j].state = s, ![j].text = "noise"]
  /\ fleet' = [fleet EXCEPT !.stage = "teardown", !.current = j,
                            !.wait = @ \ {j}]
  /\ UNCHANGED <<conf, run, proc, sids, said>>

\* The worktrees the snapshot does not list; the first one that git prints is
\* taken for the session's.
NewTrees(j) == Listing \ jobs[j].snap

\* MUTANT of HasCommits: only the session's exit is looked at.
HasCommitsUnchecked(j, w) == FALSE

HasCommits(j, w) == jobs[w].commits # "none"

TornDown == fleet' = [fleet EXCEPT !.stage = "poll", !.current = NoJob, !.own = FALSE]

\* Commits, or no snapshot: the session is kept for a human.
Keep ==
  /\ fleet.stage = "teardown"
  /\ LET j == fleet.current IN
       ~ jobs[j].saved \/ \E w \in NewTrees(j) : HasCommits(j, w)
  /\ TornDown
  /\ UNCHANGED <<conf, run, report, jobs, proc, sids, said>>

\* No commits, or no worktree; a listing or a log that fails says the same.
FindsNone ==
  /\ fleet.stage = "teardown"
  /\ LET j == fleet.current IN
       /\ jobs[j].saved
       /\ \E read \in BOOLEAN :
            /\ read /\ NewTrees(j) # {} => \E w \in NewTrees(j) : ~ HasCommits(j, w)
            /\ fleet' = [fleet EXCEPT !.stage = "remove",
                                      !.own = read /\ NewTrees(j) = {j}]
  /\ UNCHANGED <<conf, run, report, jobs, proc, sids, said>>

\* claude rm, which destroys the worktree as it is now; or it fails.
Removed(j) == [j EXCEPT !.state = "gone", !.tree = FALSE, !.commits = "none",
                        !.snap = {}]

Remove ==
  /\ fleet.stage = "remove"
  /\ \E j \in {Removed(jobs[fleet.current]), jobs[fleet.current]} :
       jobs' = [jobs EXCEPT ![fleet.current] = j]
  /\ TornDown
  /\ UNCHANGED <<conf, run, report, proc, sids, said>>

\* MUTANT of Waited: the pids are not waited for.
WaitedForSessions == fleet.wait = {}

Waited == fleet.wait = {} /\ \A r \in Reviewers : proc[r] # "running"

Assembled ==
  /\ fleet.stage = "poll"
  /\ Waited
  /\ fleet' = [fleet EXCEPT !.stage = "done"]
  /\ UNCHANGED <<conf, run, report, jobs, proc, sids, said>>

FleetStep ==
  \/ \E r \in Reviewers : \/ SpawnProcess(r) \/ SpawnUnrunnable(r)
                          \/ SpawnSession(r) \/ SpawnMisses(r)
  \/ Spawned \/ TimesOut
  \/ \E j \in 1 .. Len(jobs) : CollectReport(j)
  \/ Keep \/ FindsNone \/ Remove \/ Assembled

ProcessStep == \E r \in Reviewers : ProcessEnds(r) \/ ProcessOutlives(r)

JobStep ==
  \E j \in 1 .. Len(jobs) : JobBegins(j) \/ JobCommits(j) \/ JobEnds(j)
-----------------------------------------------------------------------------
\* What the variables hold, when n sessions were started.
Report == [text : Texts \cup {"absent", "noise"}, fresh : BOOLEAN]
Session(n) == [who : Reviewers, state : {"starting", "running", "ended", "gone"},
               text : Texts \cup {"noise"}, commits : {"none", "early", "late"},
               tree : BOOLEAN, snap : SUBSET (1 .. n), saved : BOOLEAN]
Fleet(n) == [stage : {"idle", "spawn", "poll", "teardown", "remove", "done"},
             todo : SUBSET Reviewers, wait : SUBSET (1 .. n), current : 0 .. n,
             missed : SUBSET Reviewers, over : BOOLEAN,
             strays : SUBSET ((1 .. MaxCycles) \X Reviewers), own : BOOLEAN]

FleetTypeOK ==
  /\ conf \in Confs
  /\ fleet \in Fleet(Len(jobs))
  /\ report \in [1 .. MaxCycles -> [Reviewers -> Report]]
  /\ jobs \in Seq(Session(Len(jobs)))
  /\ proc \in [Reviewers -> {"none", "running", "ended"}]
  /\ sids \subseteq Reviewers
  /\ said \in [Reviewers -> Texts \cup {"none"}]
=============================================================================
