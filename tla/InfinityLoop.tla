---------------------------- MODULE InfinityLoop ----------------------------
(***************************************************************************)
(* The infinity loop: the shell script `ca loop` generates                 *)
(* (go/internal/cli/commands_scripts.go), the agent sessions it starts,    *)
(* the epics of the beads tracker, and the worktrees of the git            *)
(* repository.  The loop takes one ready epic at a time, starts a session  *)
(* on it, watches the session, reads its completion marker, harvests its   *)
(* worktree, and retries, skips or stops.                                  *)
(*                                                                         *)
(* Three kinds of script are generated.  "bg": a claude background session *)
(* in a job directory, polled through its state.json, working in a         *)
(* worktree of its own.  "p": a claude process behind a background         *)
(* subshell.  "engine": goose, codex or agy behind a subshell that leads   *)
(* its own process group.  Sessions, beads and the claude command     *)
(* are outside of the repository and modelled from how the script uses     *)
(* them.  Time is not: a timeout may fire whenever what it measures has    *)
(* stopped.                                                                *)
(***************************************************************************)
EXTENDS Integers, FiniteSets, Sequences

CONSTANTS
  Epics,        \* the epics of the tracker
  DependsOn,    \* for each epic, the epics it depends on
  Sessions,     \* 1 .. n: the session ids there are
  Scripts,      \* the scripts that may be generated
  Bounds        \* for each script, bounds: how often the memory runs low, how
                \* often git, claude or a write fails silently, and how often
                \* the script is started again

NoEpic == "none"
NoSession == 0
\* The repository's own checkout: git worktree list always prints it.
Main == 0
Worktrees == {Main} \cup Sessions
\* What a listing that failed leaves in a snapshot file.
EmptyLine == -1
Lines == Worktrees \cup {EmptyLine}
Markers == {"complete", "human", "failed", "none"}

ASSUME SessionsAssumption ==
  IsFiniteSet(Sessions) /\ Sessions = 1 .. Cardinality(Sessions)
ASSUME DependsAssumption ==
  DependsOn \in [Epics -> SUBSET Epics] /\ NoEpic \notin Epics
ASSUME ScriptsAssumption ==
  Scripts \subseteq [backend : {"bg", "p", "engine"}, epicIds : Seq(Epics),
                     maxRetries : Nat, review : BOOLEAN, reviewEvery : Nat]
ASSUME BoundsAssumption ==
  Bounds \in [Scripts -> SUBSET [pressure : Nat, faults : Nat, runs : Nat]]

VARIABLES
  script,   \* the script that was generated
  loop,     \* the variables of the running script
  sess,     \* the sessions: job state, printed marker, worktree
  snap,     \* .ca-worktree-snapshots: the listing before each dispatch
  beads,    \* the status of each epic in the tracker
  status,   \* .loop-status.json
  left      \* what is left of the bounds

vars == <<script, loop, sess, snap, beads, status, left>>

bg == script.backend = "bg"
\* The epics in the order of EPIC_IDS, or of bd's ready list.
EpicIds == script.epicIds
MaxRetries == script.maxRetries

\* A script that starts knows nothing of an earlier one (the variables of
\* loopScriptPreLoop, AGENT_HANDLE="" and REVIEW_BASE_SHA=HEAD).  range: the
\* epics completed since REVIEW_BASE_SHA; reviewed: those a review has seen.
\* listed: the last listing of the worktrees; orphan: what the sweep removes.
NewLoop ==
  [pc |-> "boot", epic |-> NoEpic, attempt |-> 0, handle |-> NoSession,
   listed |-> {}, orphan |-> NoSession, marker |-> "none", processed |-> <<>>, completed |-> {},
   failed |-> 0, skipped |-> 0, since |-> 0, range |-> {}, reviewed |-> {},
   code |-> 0]

\* What is left of a script that is gone.
Gravestone(pc, code) == [NewLoop EXCEPT !.pc = pc, !.code = code]

\* astray: the session was told to stop, or the script that started it is gone.
Unborn ==
  [state |-> "unborn", epic |-> NoEpic, text |-> "none", work |-> "none",
   astray |-> FALSE]

Init ==
  /\ script \in Scripts
  /\ loop = NewLoop
  /\ sess = [s \in Sessions |-> Unborn]
  /\ snap = [s \in Sessions |-> {}]
  /\ beads = [e \in Epics |-> "open"]
  /\ status = "absent"
  /\ left \in Bounds[script]

Alive(s) == sess[s].state \in {"starting", "running", "hung"}

Listing == {Main} \cup {s \in Sessions : sess[s].work # "none"
                                         /\ sess[s].state # "gone"}

\* What the script does not notice ("|| true").
Fault == left.faults > 0 /\ left' = [left EXCEPT !.faults = @ - 1]

\* git worktree list: one that fails reads as an empty one.
Lists(cur) == \/ cur = Listing /\ UNCHANGED left
              \/ cur = {} /\ Fault

\* An absent snapshot file reads as the empty listing.
HasSnapshot(s) == snap[s] # {}
NewWorktrees(s, cur) == cur \ snap[s]

(***************************************************************************)
(* The sessions.  Those of the bg backend first write state.json           *)
(* ("running"), may create a worktree, and end; "hung" is a session whose  *)
(* state.json or output no longer changes, which may still create one.  A  *)
(* session may claim its epic, and closes it when it completes, unless it  *)
(* forgets to.                                                             *)
(***************************************************************************)
SessionUnchanged == UNCHANGED <<script, loop, snap, status, left>>

SessionWrites(s) ==
  /\ sess[s].state = "starting"
  /\ sess' = [sess EXCEPT ![s].state = "running"]
  /\ UNCHANGED beads
  /\ SessionUnchanged

\* A process may hang after it printed its marker; a job's output is there
\* only when the job has ended.
SessionHangs(s) ==
  /\ sess[s].state = "running"
  /\ \E m \in (IF bg THEN {"none"} ELSE {"none", "complete"}) :
       sess' = [sess EXCEPT ![s].state = "hung", ![s].text = m]
  /\ UNCHANGED beads
  /\ SessionUnchanged

SessionBranches(s) ==
  /\ bg
  /\ sess[s].state \in {"running", "hung"}
  /\ sess[s].work = "none"
  /\ sess' = [sess EXCEPT ![s].work = "work"]
  /\ UNCHANGED beads
  /\ SessionUnchanged

SessionClaims(s) ==
  /\ sess[s].state = "running"
  /\ beads[sess[s].epic] = "open"
  /\ beads' = [beads EXCEPT ![sess[s].epic] = "in_progress"]
  /\ UNCHANGED sess
  /\ SessionUnchanged

\* The end of a session; what it printed matters only to a script that reads it.
Stopped(s, m) == [sess EXCEPT ![s].state = "ended", ![s].text = m]

SessionEnds(s) ==
  /\ sess[s].state \in {"running", "hung"}
  /\ \E m \in Markers :
       /\ sess' = Stopped(s, IF s = loop.handle THEN m ELSE "none")
       /\ \/ UNCHANGED beads
          \/ /\ m = "complete"
             /\ beads' = [beads EXCEPT ![sess[s].epic] = "closed"]
  /\ SessionUnchanged

(***************************************************************************)
(* Orphans.  cleanup_orphans acts only on bg sessions that have a snapshot *)
(* in this repository, are not the current one, wrote a state.json that is *)
(* not terminal, and have been silent for twice the stale timeout: which   *)
(* of the hung sessions are that old is up to the clock.  A session with a *)
(* worktree its snapshot does not list is left to a human.  The sweep runs *)
(* at the head of the main loop, after the kill ladder, and before a retry *)
(* ("sweep" and a "decide" with attempts left).                            *)
(***************************************************************************)
SweepCandidates ==
  {s \in Sessions : /\ bg
                    /\ HasSnapshot(s)
                    /\ s # loop.handle
                    /\ sess[s].state = "hung"}

\* MUTANT of Removable: the harvest-safety check is left out.
RemovableUnchecked(s, cur) == HasSnapshot(s)

Removable(s, cur) == HasSnapshot(s) /\ NewWorktrees(s, cur) = {}

Removed(f, s) == [f EXCEPT ![s].state = "gone"]

\* claude stop and claude rm of session s, and rm of its snapshot.
Removes(f, s) == \/ sess' = Removed(f, s) /\ UNCHANGED left
                 \/ sess' = f /\ Fault
Forgotten(s) == [snap EXCEPT ![s] = {}]

\* MUTANT of AttemptsLeft: one attempt too many.
AttemptsLeftOne(n) == n <= MaxRetries + 1

AttemptsLeft(n) == n <= MaxRetries

WillRetry == /\ loop.pc = "decide"
             /\ loop.marker \in {"failed", "none"}
             /\ AttemptsLeft(loop.attempt)

\* cleanup_orphans up to the harvest-safety check, for a session that passes.
SweepFinds ==
  /\ loop.pc \in {"head", "sweep"} \/ WillRetry
  /\ loop.orphan = NoSession
  /\ \E s \in SweepCandidates, cur \in SUBSET Worktrees :
       /\ Lists(cur)
       /\ Removable(s, cur)
       /\ loop' = [loop EXCEPT !.orphan = s, !.listed = cur]
  /\ UNCHANGED <<script, sess, snap, beads, status>>

SweepRemoves ==
  /\ loop.orphan # NoSession
  /\ Removes(sess, loop.orphan)
  /\ snap' = Forgotten(loop.orphan)
  /\ loop' = [loop EXCEPT !.orphan = NoSession, !.listed = {}]
  /\ UNCHANGED <<script, beads, status>>

(***************************************************************************)
(* The preflight of the backend: bootstrap_preflight (the isolation        *)
(* setting, and a probe session that is removed again), and those of       *)
(* goose, codex and agy.  claude -p has none.                              *)
(***************************************************************************)
Preflight ==
  /\ loop.pc = "boot"
  /\ loop' = [loop EXCEPT !.pc = "head"]
  /\ UNCHANGED <<script, sess, snap, beads, status, left>>

PreflightFails ==
  /\ loop.pc = "boot"
  /\ script.backend # "p"
  /\ loop' = [loop EXCEPT !.pc = "exit", !.code = 1]
  /\ UNCHANGED <<script, sess, snap, beads, status, left>>

(***************************************************************************)
(* The head of the main loop: sweep, the memory gate, the next epic.       *)
(***************************************************************************)
InProcessed(e) == \E i \in 1 .. Len(loop.processed) : loop.processed[i] = e

\* MUTANT of IsReady: an epic that was already processed is taken again.
IsReadyAgain(e) ==
  /\ beads[e] = "open"
  /\ \A d \in DependsOn[e] : beads[d] = "closed"

\* get_next_epic and check_deps_closed
IsReady(e) ==
  /\ ~ InProcessed(e)
  /\ beads[e] = "open"
  /\ \A d \in DependsOn[e] : beads[d] = "closed"

NextEpic == LET ready == {i \in 1 .. Len(EpicIds) : IsReady(EpicIds[i])}
            IN IF ready = {} THEN NoEpic
               ELSE EpicIds[CHOOSE i \in ready : \A j \in ready : i <= j]

HeadLowMemory ==
  /\ loop.pc = "head"
  /\ left.pressure > 0
  /\ left' = [left EXCEPT !.pressure = @ - 1]
  /\ loop' = [loop EXCEPT !.pc = "post", !.failed = @ + 1]
  /\ UNCHANGED <<script, sess, snap, beads, status>>

HeadNoEpic ==
  /\ loop.pc = "head"
  /\ NextEpic = NoEpic
  /\ loop' = [loop EXCEPT !.pc = "post"]
  /\ UNCHANGED <<script, sess, snap, beads, status, left>>

HeadTakesEpic ==
  /\ loop.pc = "head"
  /\ NextEpic # NoEpic
  /\ loop' = [loop EXCEPT !.pc = "attempt", !.epic = NextEpic, !.attempt = 0]
  /\ status' = "running"
  /\ UNCHANGED <<script, sess, snap, beads, left>>

(***************************************************************************)
(* An attempt: agent_dispatch.  In the bg backend the worktrees are listed *)
(* first, then the session is started, and the listing is written under    *)
(* the session's id when that is known.  When no id can be read from       *)
(* claude's answer the script exits, whether or not a session started.     *)
(***************************************************************************)
Fresh == CHOOSE s \in Sessions : /\ sess[s].state = "unborn"
                                 /\ \A t \in 1 .. s - 1 : sess[t].state # "unborn"

Born(s) == [sess EXCEPT ![s] = [Unborn EXCEPT !.state = "starting",
                                              !.epic = loop.epic]]

Dispatch ==
  /\ loop.pc = "attempt"
  /\ \E s \in Sessions : sess[s].state = "unborn"
  /\ sess' = Born(Fresh)
  /\ \E cur \in SUBSET Worktrees :
       /\ IF bg THEN Lists(cur) ELSE cur = {} /\ UNCHANGED left
       /\ loop' = [loop EXCEPT !.pc = IF bg THEN "snapshot" ELSE "watch",
                               !.attempt = @ + 1,
                               !.handle = Fresh,
                               !.listed = cur]
  /\ UNCHANGED <<script, snap, beads, status>>

DispatchUnreadable ==
  /\ loop.pc = "attempt"
  /\ bg
  /\ \/ UNCHANGED sess
     \/ /\ \E s \in Sessions : sess[s].state = "unborn"
        /\ sess' = [Born(Fresh) EXCEPT ![Fresh].astray = TRUE]
  /\ loop' = [loop EXCEPT !.pc = "exit", !.attempt = @ + 1, !.code = 1]
  /\ UNCHANGED <<script, snap, beads, status, left>>

\* printf: a line for each worktree, and an empty one for an empty listing.
Stored(cur) == IF cur = {} THEN {EmptyLine} ELSE cur

WriteSnapshot ==
  /\ loop.pc = "snapshot"
  /\ \/ snap' = [snap EXCEPT ![loop.handle] = Stored(loop.listed)] /\ UNCHANGED left
     \/ UNCHANGED snap /\ Fault
  /\ loop' = [loop EXCEPT !.pc = "watch", !.listed = {}]
  /\ UNCHANGED <<script, sess, beads, status>>

(***************************************************************************)
(* Watching the session.  The bg loop polls state.json; the others wait    *)
(* for the subshell while a watchdog measures memory and output.  A bg     *)
(* session that never wrote state.json is stale after a deadline; the      *)
(* output watchdog of a process arms only once there is some output.       *)
(***************************************************************************)
SessionOver == sess[loop.handle].state = "ended"

WatchEnds ==
  /\ loop.pc = "watch"
  /\ SessionOver
  /\ loop' = [loop EXCEPT !.pc = "collect"]
  /\ UNCHANGED <<script, sess, snap, beads, status, left>>

\* MUTANT of Stale: no deadline for the first write of state.json.
StaleUnarmed(s) == sess[s].state = "hung"

Stale(s) ==
  \/ sess[s].state = "hung"
  \/ bg /\ sess[s].state = "starting"

Unresponsive ==
  \/ Stale(loop.handle) /\ UNCHANGED left
  \/ /\ Alive(loop.handle)
     /\ left.pressure > 0
     /\ left' = [left EXCEPT !.pressure = @ - 1]

Strayed(f, s) == [f EXCEPT ![s].astray = TRUE]

\* MUTANT of LadderStop: the poll loop gives up on the session, and tells it
\* nothing.
LadderSkipped ==
  /\ loop.pc = "watch"
  /\ bg
  /\ Unresponsive
  /\ loop' = [loop EXCEPT !.pc = "collect"]
  /\ UNCHANGED <<script, sess, snap, beads, status>>

\* bg_kill_ladder, stage 1: claude stop, which may have no effect.
LadderStop ==
  /\ loop.pc = "watch"
  /\ bg
  /\ Unresponsive
  /\ \/ sess' = Strayed(sess, loop.handle)
     \/ sess' = Strayed(Stopped(loop.handle, "none"), loop.handle)
  /\ loop' = [loop EXCEPT !.pc = "ladder"]
  /\ UNCHANGED <<script, snap, beads, status>>

\* Stage 2, after a pause: nothing to do for a session that has ended.
LadderOver ==
  /\ loop.pc = "ladder"
  /\ SessionOver
  /\ loop' = [loop EXCEPT !.pc = "sweep"]
  /\ UNCHANGED <<script, sess, snap, beads, status, left>>

LadderLooks ==
  /\ loop.pc = "ladder"
  /\ ~ SessionOver
  /\ \E cur \in SUBSET Worktrees :
       Lists(cur) /\ loop' = [loop EXCEPT !.pc = "stage2", !.listed = cur]
  /\ UNCHANGED <<script, sess, snap, beads, status>>

\* claude rm, where the snapshot shows that the session made no worktree.
LadderRemoves ==
  /\ loop.pc = "stage2"
  /\ Removable(loop.handle, loop.listed)
  /\ Removes(sess, loop.handle)
  /\ snap' = Forgotten(loop.handle)
  /\ loop' = [loop EXCEPT !.pc = "sweep", !.listed = {}]
  /\ UNCHANGED <<script, beads, status>>

\* Stage 3: the session is kept for a human; pkill of what names its id.
LadderKeeps ==
  /\ loop.pc = "stage2"
  /\ ~ Removable(loop.handle, loop.listed)
  /\ \/ UNCHANGED sess
     \/ Alive(loop.handle) /\ sess' = Stopped(loop.handle, "none")
  /\ loop' = [loop EXCEPT !.pc = "sweep", !.listed = {}]
  /\ UNCHANGED <<script, snap, beads, status, left>>

\* The watchdogs of the process backends: kill the group, else the subshell.
\* The subshell of goose, codex and agy leads a group; that of claude -p does
\* not, and the claude process outlives it.
WatchdogKills ==
  /\ loop.pc = "watch"
  /\ ~ bg
  /\ Unresponsive
  /\ sess' = IF script.backend = "engine"
               THEN Strayed(Stopped(loop.handle, sess[loop.handle].text),
                            loop.handle)
               ELSE Strayed(sess, loop.handle)
  /\ loop' = [loop EXCEPT !.pc = "collect"]
  /\ UNCHANGED <<script, snap, beads, status>>

(***************************************************************************)
(* The marker: agent_collect and detect_marker.  The printed marker        *)
(* counts; where there is none, the first marker word anywhere in the raw  *)
(* trace does, and what words a trace mentions is the session's choice.    *)
(* A bg job that has not ended, or is gone, has no text and no transcript. *)
(* For an engine a closed epic counts as complete.                         *)
(***************************************************************************)
Traced(s) == IF sess[s].state = "ended"
                \/ (~ bg /\ sess[s].state \in {"running", "hung"})
               THEN Markers ELSE {"none"}

Detected(s) == IF sess[s].text # "none" THEN {sess[s].text} ELSE Traced(s)

WithBdState(m) ==
  IF script.backend = "engine" /\ m = "none" /\ beads[loop.epic] = "closed"
    THEN "complete" ELSE m

Collect ==
  /\ loop.pc \in {"collect", "sweep"}
  /\ \E m \in Detected(loop.handle) :
       loop' = [loop EXCEPT !.pc = IF bg THEN "harvest" ELSE "decide",
                            !.marker = WithBdState(m)]
  /\ sess' = [sess EXCEPT ![loop.handle].text = "none"]
  /\ UNCHANGED <<script, snap, beads, status, left>>

(***************************************************************************)
(* The harvest: agent_cleanup of the bg backend (it does nothing for the   *)
(* others).  The worktrees that the snapshot does not list are the         *)
(* session's; without a snapshot that is every worktree, the main checkout *)
(* included.  One is merged when the marker is "complete" and kept         *)
(* otherwise; several are ambiguous.                                       *)
(***************************************************************************)
\* MUTANT of MayMerge: the worktree is merged whatever the marker is.
MergeAnyway(m) == TRUE

MayMerge(m) == m = "complete"

HarvestLooks ==
  /\ loop.pc = "harvest"
  /\ \E cur \in SUBSET Worktrees :
       Lists(cur) /\ loop' = [loop EXCEPT !.pc = "reap", !.listed = cur]
  /\ UNCHANGED <<script, sess, snap, beads, status>>

Outcome(s, m, cur) ==
  LET new == NewWorktrees(s, cur) IN
  CASE new = {} /\ ~ HasSnapshot(s) -> "ambiguous"
    [] new = {} /\ HasSnapshot(s) -> "teardown"
    [] Cardinality(new) > 1 -> "ambiguous"
    [] Cardinality(new) = 1 /\ ~ MayMerge(m) -> "nothing"
    [] Cardinality(new) = 1 /\ MayMerge(m) -> "merge"

Decided(outcome) ==
  /\ loop.pc = "reap"
  /\ Outcome(loop.handle, loop.marker, loop.listed) = outcome

HarvestNothing ==
  /\ Decided("nothing")
  /\ loop' = [loop EXCEPT !.pc = "decide", !.listed = {}]
  /\ UNCHANGED <<script, sess, snap, beads, status, left>>

HarvestTearsDown ==
  /\ Decided("teardown")
  /\ Removes(sess, loop.handle)
  /\ loop' = [loop EXCEPT !.pc = "decide", !.listed = {}]
  /\ UNCHANGED <<script, snap, beads, status>>

HarvestMerges ==
  /\ Decided("merge")
  /\ \E w \in NewWorktrees(loop.handle, loop.listed) \ {Main} :
       Removes([sess EXCEPT ![w].work = "merged"], loop.handle)
  /\ snap' = Forgotten(loop.handle)
  /\ loop' = [loop EXCEPT !.pc = "decide", !.listed = {}]
  /\ UNCHANGED <<script, beads, status>>

\* Ambiguous worktrees, or a merge that conflicts: a human has to look.
HarvestFails ==
  /\ Decided("ambiguous") \/ Decided("merge")
  /\ loop' = [loop EXCEPT !.pc = "decide", !.listed = {}, !.marker = "human"]
  /\ UNCHANGED <<script, sess, snap, beads, status, left>>

(***************************************************************************)
(* What follows from the marker.                                           *)
(***************************************************************************)
Retry ==
  /\ WillRetry
  /\ loop' = [loop EXCEPT !.pc = "attempt", !.marker = "none"]
  /\ UNCHANGED <<script, sess, snap, beads, status, left>>

Processed(l) == [l EXCEPT !.processed = Append(@, l.epic), !.epic = NoEpic,
                          !.marker = "none"]

EpicFailed ==
  /\ loop.pc = "decide"
  /\ loop.marker \in {"failed", "none"}
  /\ ~ AttemptsLeft(loop.attempt)
  /\ loop' = [Processed(loop) EXCEPT !.pc = "post", !.failed = @ + 1]
  /\ UNCHANGED <<script, sess, snap, beads, status, left>>

EpicSkipped ==
  /\ loop.pc = "decide"
  /\ loop.marker = "human"
  /\ loop' = [Processed(loop) EXCEPT !.pc = "head", !.skipped = @ + 1]
  /\ UNCHANGED <<script, sess, snap, beads, status, left>>

PeriodicDue(n) == /\ script.review
                  /\ script.reviewEvery > 0
                  /\ n >= script.reviewEvery

EpicCompleted ==
  /\ loop.pc = "decide"
  /\ loop.marker = "complete"
  /\ loop' = IF PeriodicDue(loop.since + 1)
               THEN [loop EXCEPT !.pc = "review", !.since = @ + 1,
                                 !.completed = @ \cup {loop.epic},
                                 !.range = @ \cup {loop.epic}]
               ELSE [Processed(loop) EXCEPT !.pc = "head", !.since = @ + 1,
                                 !.completed = @ \cup {loop.epic},
                                 !.range = @ \cup {loop.epic}]
  /\ UNCHANGED <<script, sess, snap, beads, status, left>>

(***************************************************************************)
(* Reviews.  run_review_phase looks at REVIEW_BASE_SHA..HEAD; what it may  *)
(* find is in ReviewLoops.  Unless it blocks, which ends the script, the   *)
(* loop goes on.                                                           *)
(***************************************************************************)
Reviewed == [loop EXCEPT !.reviewed = @ \cup loop.range]

ReviewPeriodic ==
  /\ loop.pc = "review"
  /\ loop' = [Processed(Reviewed) EXCEPT !.pc = "head", !.since = 0,
                                         !.range = {}]
  /\ UNCHANGED <<script, sess, snap, beads, status, left>>

\* MUTANT of FinalDue: the counter of the periodic reviews is not looked at.
FinalDueNever(l) == script.review /\ script.reviewEvery = 0 /\ l.completed # {}

FinalDue(l) ==
  /\ script.review
  /\ IF script.reviewEvery > 0 THEN l.since > 0 ELSE l.completed # {}

ReviewBlocks ==
  /\ \/ loop.pc = "review"
     \/ loop.pc = "post" /\ FinalDue(loop)
  /\ loop' = [Reviewed EXCEPT !.pc = "exit", !.code = 1]
  /\ UNCHANGED <<script, sess, snap, beads, status, left>>

Post ==
  /\ loop.pc = "post"
  /\ status' = "idle"
  /\ loop' = [(IF FinalDue(loop) THEN Reviewed ELSE loop) EXCEPT
                !.pc = "exit",
                !.code = CASE loop.failed > 0 -> 1
                           [] loop.failed = 0 /\ loop.completed = {} -> 2
                           [] OTHER -> 0]
  /\ UNCHANGED <<script, sess, snap, beads, left>>

\* MUTANT of StatusAfter: the EXIT trap is not installed.
StatusUntrapped(code) == status

\* _loop_cleanup, the EXIT trap
StatusAfter(code) == IF code # 0 THEN "crashed" ELSE status

Exit ==
  /\ loop.pc = "exit"
  /\ status' = StatusAfter(loop.code)
  /\ loop' = Gravestone("exited", loop.code)
  /\ UNCHANGED <<script, sess, snap, beads, left>>

(***************************************************************************)
(* The script is killed, without its EXIT trap, or ends; and somebody      *)
(* starts it again, while sessions may still run.                          *)
(***************************************************************************)
Gone == loop.pc \in {"exited", "killed"}

Kill ==
  /\ ~ Gone
  /\ loop' = Gravestone("killed", 0)
  /\ UNCHANGED <<script, sess, snap, beads, status, left>>

Restart ==
  /\ Gone
  /\ left.runs > 0
  /\ Cardinality({s \in Sessions : sess[s].state = "unborn"})
       >= Len(EpicIds) * (MaxRetries + 1)
  /\ left' = [left EXCEPT !.runs = @ - 1]
  /\ loop' = NewLoop
  /\ sess' = [s \in Sessions |-> [sess[s] EXCEPT !.astray = @ \/ Alive(s)]]
  /\ UNCHANGED <<script, snap, beads, status>>

\* What the script does when it is not about to remove an orphan.
MainStep ==
  \/ Preflight \/ PreflightFails
  \/ SweepFinds \/ HeadLowMemory \/ HeadNoEpic \/ HeadTakesEpic
  \/ Dispatch \/ DispatchUnreadable \/ WriteSnapshot
  \/ WatchEnds
  \/ LadderStop \/ LadderOver \/ LadderLooks \/ LadderRemoves \/ LadderKeeps
  \/ WatchdogKills \/ Collect
  \/ HarvestLooks
  \/ HarvestNothing \/ HarvestTearsDown \/ HarvestMerges \/ HarvestFails
  \/ Retry \/ EpicFailed \/ EpicSkipped \/ EpicCompleted
  \/ ReviewPeriodic \/ ReviewBlocks \/ Post \/ Exit

LoopStep == SweepRemoves \/ (loop.orphan = NoSession /\ MainStep)

SessionStops(s) == SessionHangs(s) \/ SessionEnds(s)

SessionStep(s) ==
  \/ SessionWrites(s) \/ SessionBranches(s) \/ SessionClaims(s)
  \/ SessionStops(s)

Next == LoopStep \/ (\E s \in Sessions : SessionStep(s)) \/ Kill \/ Restart

\* The script runs while it is not killed, and every session that has begun
\* to write ends or falls silent at some time.
Spec == /\ Init /\ [][Next]_vars
        /\ WF_vars(LoopStep)
        /\ WF_vars(\E s \in Sessions : SessionStops(s))
-----------------------------------------------------------------------------
\* What the variables hold.
States == {"unborn", "starting", "running", "hung", "ended", "gone"}
Session == [state : States, epic : Epics \cup {NoEpic}, text : Markers,
            work : {"none", "work", "merged"}, astray : BOOLEAN]
\* Where a session is watched, where an epic is worked on, and all steps.
Watching == {"snapshot", "watch", "ladder", "stage2", "sweep", "collect",
             "harvest", "reap"}
Working == Watching \cup {"attempt", "decide", "review"}
Steps == Working \cup {"boot", "head", "post", "exit", "exited", "killed"}
LoopMemory ==
  [pc : Steps, epic : Epics \cup {NoEpic}, attempt : Nat,
   handle : Sessions \cup {NoSession}, listed : SUBSET Worktrees,
   orphan : Sessions \cup {NoSession},
   marker : Markers, processed : Seq(Epics), completed : SUBSET Epics,
   failed : Nat, skipped : Nat, since : Nat, range : SUBSET Epics,
   reviewed : SUBSET Epics, code : 0 .. 2]

(* Every variable keeps its shape: in particular no epic is attempted more  *)
(* than MAX_RETRIES + 1 times (the while loop of attemptSetupHead).         *)
TypeOK ==
  /\ script \in Scripts
  /\ loop \in LoopMemory
  /\ loop.attempt <= MaxRetries + 1
  /\ sess \in [Sessions -> Session]
  /\ snap \in [Sessions -> SUBSET Lines]
  /\ beads \in [Epics -> {"open", "in_progress", "closed"}]
  /\ status \in {"absent", "running", "idle", "crashed"}
  /\ left \in [pressure : Nat, faults : Nat, runs : Nat]

(* R-HARVEST-FAIL: whatever sessions, watchdogs, crashes and restarts do, the *)
(* script never removes a session whose worktree holds work that was not      *)
(* merged, if the listing it looked at shows that worktree (the checks of     *)
(* cleanup_orphans, bg_kill_ladder and agent_cleanup).  A listing that failed *)
(* shows nothing, and none shows what a session makes afterwards.             *)
NoUnmergedWorkRemoved ==
  [][\A s \in Sessions :
       /\ sess'[s].state = "gone" /\ sess[s].state # "gone"
       /\ sess'[s].work = "work"
       => s \notin loop.listed]_vars

(* Work is merged only if its own session was reported complete, or if that  *)
(* session was told to stop, or outlived the script that started it: then    *)
(* its worktree can be taken for that of the session that is watched now     *)
(* (agent_cleanup tells worktrees apart by the snapshot alone).              *)
MergedWorkIsReported ==
  [][\A s \in Sessions :
       sess'[s].work = "merged" /\ sess[s].work # "merged"
         => \/ s = loop.handle /\ loop.marker = "complete"
            \/ sess[s].astray]_vars

(* Two sessions work on one epic at a time only after the elder was told to  *)
(* stop, or after the script that watched it was killed: a retry never runs  *)
(* beside an attempt the script simply lost interest in.                     *)
NoForgottenSession ==
  \A s, t \in Sessions :
    (/\ s < t
     /\ Alive(s)
     /\ Alive(t)
     /\ sess[s].epic = sess[t].epic) => sess[s].astray

(* One run of the script decides each epic once (PROCESSED), though its      *)
(* status in the tracker may still be "open" afterwards.                     *)
EpicsDecidedOnce ==
  \A i, j \in 1 .. Len(loop.processed) :
    i # j => loop.processed[i] # loop.processed[j]

(* When a run ends its main loop in an orderly way, every epic it completed  *)
(* was in the range of some review: the ranges of periodic and final reviews *)
(* leave no gap (REVIEW_BASE_SHA, COMPLETED_SINCE_REVIEW).                   *)
NoEpicUnreviewed ==
  [][loop.pc = "post" /\ loop'.pc = "exit" /\ script.review
       => loop'.completed \subseteq loop'.reviewed]_vars

(* The status file of a script that ended by itself never says "running":    *)
(* it says "idle" exactly after exit code 0, and "crashed" after any other,  *)
(* whichever of the exits of the script was taken.                           *)
EndIsOnRecord ==
  loop.pc = "exited" => /\ status # "running"
                        /\ (status = "idle") <=> (loop.code = 0)

(* The loop ends, however often sessions hang, ignore claude stop, or are    *)
(* retried; except that a process which never prints anything is waited for  *)
(* for ever, as the stale watchdog arms only after the first output.         *)
WaitsForFirstOutput ==
  /\ ~ bg
  /\ loop.pc = "watch"
  /\ sess[loop.handle].state = "starting"

LoopEnds == <>[]Gone \/ <>[]WaitsForFirstOutput

-----------------------------------------------------------------------------
(* The inductive invariant.                                                 *)

\* What the loop remembers fits where it is.
EpicOK ==
  /\ loop.pc \in Working => loop.epic \in Epics /\ ~ InProcessed(loop.epic)
  /\ loop.pc = "attempt" => AttemptsLeft(loop.attempt)
  /\ EpicsDecidedOnce

\* Every completed epic is in a range, reviewed or to be reviewed; a range
\* that is not empty is counted.
ReviewOK ==
  /\ loop.completed \subseteq loop.reviewed \cup loop.range
  /\ loop.since = 0 => loop.range = {}

\* A script exits with code 0 only after it has written "idle".
StatusOK ==
  /\ EndIsOnRecord
  /\ loop.pc = "exit" /\ loop.code = 0 => status = "idle"

\* The session that is watched was born.
HandleOK ==
  loop.pc \in Watching =>
    loop.handle \in Sessions /\ sess[loop.handle].state # "unborn"

\* Sessions are born in their order.  The script knows of every session that
\* may run: it watches it, or has told it to stop, or has found it at its
\* start; what it does not watch is none of the latest.
SessionOK(s) ==
  /\ sess[s].state = "unborn" => sess[s].work = "none" /\ snap[s] = {}
  /\ sess[s].state # "unborn" => sess[s].epic \in Epics
  /\ \A t \in Sessions : s < t /\ sess[t].state # "unborn"
       => sess[s].state # "unborn" /\ (Alive(s) => sess[s].astray)
  /\ ~ Gone /\ Alive(s) /\ ~ sess[s].astray
       => s = loop.handle /\ loop.pc \in {"snapshot", "watch"}

\* A snapshot never lists the worktree of its own session.  That of a listing
\* that did not fail lists every other one, unless a stray has made it since.
WorktreeOK(s) ==
  /\ s \notin snap[s]
  /\ loop.pc = "snapshot" =>
       IF s = loop.handle THEN s \notin loop.listed /\ snap[s] = {}
       ELSE s \in Listing /\ Main \in loop.listed
              => s \in loop.listed \/ sess[s].astray
  /\ loop.pc \in Watching \ {"snapshot"} /\ Main \in snap[loop.handle]
       => \/ s = loop.handle
          \/ s \notin NewWorktrees(loop.handle, Listing)
          \/ sess[s].astray
  /\ loop.pc = "reap" /\ s \in loop.listed => s \in Listing

\* The main checkout is in every listing that did not fail.
ListedOK == loop.listed = {} \/ Main \in loop.listed

\* The sweep removes a session that was born, and that its listing does not
\* show.
OrphanOK ==
  loop.orphan # NoSession =>
    /\ loop.pc \in {"head", "sweep", "decide"}
    /\ sess[loop.orphan].state # "unborn"
    /\ loop.orphan \notin loop.listed

IInv ==
  /\ TypeOK
  /\ EpicOK
  /\ ReviewOK
  /\ StatusOK
  /\ HandleOK
  /\ ListedOK
  /\ OrphanOK
  /\ \A s \in Sessions : SessionOK(s) /\ WorktreeOK(s)
-----------------------------------------------------------------------------
(* What agent_stop says of the p backend, that it kills the process group,   *)
(* would make this hold in one run of the script: a second session on an     *)
(* epic is started only when the first one is dead.                          *)
OneSessionAtATime ==
  \A s, t \in Sessions :
    s # t /\ Alive(s) /\ Alive(t) => sess[s].epic # sess[t].epic

(* What the comment of cleanup_orphans says of claude rm, "ONLY if the       *)
(* session has NO un-harvested worktree", and those of bg_kill_ladder and    *)
(* agent_cleanup: it would need a listing that cannot fail, and sessions     *)
(* that make no worktree between the listing and claude rm.                  *)
NoWorkRemoved ==
  \A s \in Sessions : sess[s].state = "gone" => sess[s].work # "work"

(* A session is reported complete only if it printed the marker line         *)
(* EPIC_COMPLETE.                                                            *)
CompleteWasPrinted ==
  [][loop.pc = "collect" /\ loop'.marker = "complete"
       => sess[loop.handle].text = "complete"]_vars
=============================================================================
