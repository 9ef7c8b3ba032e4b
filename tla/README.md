# A verification project for compound-agent

compound-agent is a plugin for coding agents: a Go command line program (`ca`), a
Rust embedding daemon (`ca-embed`) and the hooks that an agent harness calls
around its tools. Nothing in it is a server that serialises access to state:
**every operation is a process of its own**, `ca` processes run beside each other
(parallel tool calls, several agents, loops in several terminals), and all they
share are files, one SQLite database per repository, and one daemon behind a Unix
socket. A process can be killed at any point (hook timeouts, Ctrl-C, out of
memory). So the questions worth asking are about the order of file system calls of
several processes, about what a crash leaves behind, and about decisions taken on
state that was read earlier. The same holds for the shell scripts that `ca loop`
and `ca polish` generate: they start agent sessions that outlive them, and decide
by status files, git worktrees and an issue tracker. They are asked here with
TLA+, TLC and TLAPS.

Paths in this file are relative to `src/`; `go/` stands for `go/internal/`.

## 1. Inventory of the system

| Part | State | Operations | Source |
|---|---|---|---|
| **Lesson store** | `.claude/lessons/index.jsonl` (append-only log, source of truth); table `lessons` and `metadata.last_sync_mtime` in `lessons.sqlite` | learn, capture, detect, import, update, wrong, validate, delete, compact, rebuild, search, check-plan | `go/memory`, `go/storage/sync.go`, `go/cli/commands_crud.go`, `commands_maintenance.go`, `commands_capture.go` |
| **Cook-it phase state** | `.claude/.ca-phase-state.json`, its `.tmp`, the path of older versions | phase-check init, start, gate, status, clean; hooks phase-guard, post-read (read tracker), stop audit; verify-gates' clean-up | `go/hook`, `go/cli/commands_phase.go` |
| **Embedding daemon** | socket, PID file, lock file; the daemon process | EnsureDaemon, tryConnect, CleanStaleSocket, waitForReady; daemon start, serve, idle exit, signals | `go/embed`, `rust/embed-daemon/src/main.rs` |
| **Database opening** | schema version, lock file | lockedOpenDB: check, remove, recreate | `go/storage/sqlite.go` |
| **Embedding cache, vector search** | embedding and hash columns of `lessons` | fill, look up, score | `go/storage/cache.go`, `go/search/vector.go` |
| **Knowledge index** | chunks, file hashes, vectors in `knowledge.sqlite`; its schema version and lock file | index-docs, embed chunks, knowledge; open, remove and recreate the database | `go/knowledge`, `go/storage/knowledge_db.go`, `go/cli/commands_knowledge.go` |
| **Search and ranking** | none | chunking, FTS query, hybrid merge, ranking | `go/knowledge`, `go/search`, `go/retrieval` |
| **Failure tracker** | a counter file | post-tool-failure, post-tool-success hooks | `go/hook/failure_tracker.go` |
| **Telemetry** | one table | insert per hook, prune | `go/telemetry` |
| **Clustering** | file of patterns | compound | `go/compound` |
| **Capture quality, triggers** | none | text patterns | `go/capture` |
| **Infinity loop** | variables of the generated script; `.loop-status.json`, `.ca-worktree-snapshots`; sessions with their job files and worktrees; the tracker's epics | preflight, orphan sweep, memory gate, choice of an epic, dispatch, watch, marker, harvest, retry, review triggers, exit | `go/cli/commands_scripts.go` |
| **Review phase, polish loop** | report files per cycle and reviewer, `sessions.json`, reviewers' sessions, processes and worktrees; polish status file | detect, spawn, poll, collect, tear down, judge, fix; audit, synthesize, architect, inner loop | `go/cli/commands_scripts_review.go`, `commands_scripts_polish.go` |
| **Setup** | `.claude/settings.json`, template directories, AGENTS.md, CLAUDE.md, plugin.json, two .gitignore files, `.compound-agent/` | init, setup (profiles, harnesses), setup claude, uninstall (three tiers), doctor | `go/setup`, `go/cli/commands_setup.go` |
| **Reports, migration, packaging, helpers** | none of their own | info, health, migrate, postinstall | `go/cli`, `scripts` |

How they interact: search first synchronises the index with the log, then asks
the daemon for a vector and falls back to keyword search without one; the agent
harness calls the guard before an edit, the read tracker after a read and the
stop audit before the agent stops, all of which answer from the phase state that
`ca phase-check` writes; verify-gates removes a finished phase state; every hook
adds a row of telemetry (and reads the phase once more for it); the
infinity loop calls the review phase between epics, and a polish cycle ends
with an infinity loop over the epics it has filed; setup writes the hooks through
which the harness calls all of this.

What is hard, part by part, and what makes the part correct:

* **Lesson store.** No lock around the log: a command reads all of it, decides,
  and appends. Compaction replaces the file under writers that have it open. The
  index is brought up to date when an mtime (in milliseconds) is larger than a
  recorded one, and the recorded one is taken after the rows were read. Correct:
  one writer's commands act on the current lessons; the index always shows a
  state the log had; a stale index is noticed; a search sees what was written
  before it began; nobody waits for ever.
* **Phase state.** Plain `os.WriteFile` (truncate, then write) in one place, a
  temporary file with a fixed name in another, two reads per read tracker, a
  second path with its own life, removal by path of what was read earlier.
  Correct: one agent sees a session with a phase, the skills read and the gates
  passed in that phase; no gate without a gate command in that phase; no unwarned
  edit before the skill was read.
* **Daemon.** Commands race to start it, health checks have timeouts, a daemon
  loads for an unknown time, leftovers of dead daemons, files removed by path
  that may belong to another. Correct: at most one daemon; no live socket is
  removed; leftovers cost nobody a vector; every request and every daemon ends.
* **Infinity loop.** A session outlives its watcher, ignores `claude stop`,
  never writes its first status, or works in a worktree that is only told apart
  by a listing made before it started; the script is killed and started again
  while sessions run; git and `claude` fail without the script noticing.
  Correct: no unmerged work that the script could see is removed, nothing is merged
  that was not reported complete, a retry does not run beside an attempt that
  was merely forgotten, an epic is decided once and reviewed, every exit is on
  record, the loop ends.
* **Review phase, polish loop.** Reports are files that an earlier phase left
  at the same paths; some reviewers are processes to wait for and some are
  sessions to poll; several make worktrees at a time; a reviewer that cannot be
  started looks like one with nothing to say. Correct: no finding is lost,
  verdicts are of this cycle, commits are kept, the loops end.
* **Knowledge index.** A document's chunks are deleted, inserted and hashed in
  three transactions, vectors are set by chunk id after a round trip to the
  daemon, two commands and two versions of the program may share the file.
  Correct: what counts as indexed is; a vector is known by the text it was made
  of; a current database is not removed; nobody waits for ever.
* **Setup.** Any profile after any other, interrupted anywhere, over what older
  versions left and what the user edits in the same files. Correct: a setup
  that ends well leaves what was asked for, an uninstall leaves nothing of ours,
  the user's part stays, nothing is pruned that nobody agreed to lose.
* **Opening the lessons database, embedding cache, failure tracker**: their
  hazards are in `PROJECT.json`; section 7 says why no property covers them.

`PROJECT.json` lists every part with its status, every hazard with the
properties about it, and the source lines of every definition.

## 2. Modules

| Module | What it is |
|---|---|
| `LessonBook` | what the lesson store promises one writer: a map from ids to lessons, and an index that shows the map or an earlier one |
| `SharedBook` | what the lesson store promises any number of writers: a map that commands change from a copy they have read |
| `LessonStore` | the log, the index and the steps of every command; its properties and its inductive invariant |
| `LessonStoreProofs` | TLAPS proofs about `LessonStore` |
| `LessonBookProofs` | extends `LessonStoreProofs`: compaction, and the refinements of `LessonBook` and `SharedBook` |
| `MCLessonStore` | initial files, import files, symmetry |
| `PhaseSession` | what the phase state promises an agent that runs one command at a time |
| `PhaseState` | the three paths, file system call by file system call |
| `PhaseStateProofs` | TLAPS proofs about `PhaseState`, with the refinement of `PhaseSession` |
| `MCPhaseState` | leftover files, subsets of the operations, view, symmetry |
| `EmbedDaemon` | commands, daemons, socket, PID file and flock |
| `EmbedDaemonProofs` | TLAPS proofs about `EmbedDaemon` |
| `MCEmbedDaemon` | symmetry |
| `InfinityLoop` | the generated loop script in its three kinds, its sessions, snapshots and epics |
| `InfinityLoopProofs` | TLAPS proofs about `InfinityLoop` |
| `MCInfinityLoop` | two dependent epics, six scripts |
| `ReviewerFleet` | one cycle of reviewers or auditors: started, polled, waited for, collected, torn down |
| `ReviewLoops` | extends `ReviewerFleet` by the two scripts that drive it: the review phase and the polish loop |
| `ReviewLoopsProofs` | TLAPS proofs about `ReviewLoops`, its fleet included |
| `MCReviewLoops` | eight configurations of script, backend, fleet and machine |
| `KnowledgeIndex` | the documents, the database files and the steps of index-docs and knowledge |
| `KnowledgeIndexProofs` | TLAPS proofs about `KnowledgeIndex` |
| `MCKnowledgeIndex` | contents and their chunks, the jobs |
| `RepoSetup` | the files that setup shares with the user, and the steps of setup and uninstall |
| `RepoSetupProofs` | TLAPS proofs about `RepoSetup` |
| `MCRepoSetup` | hooks, jobs, initial repositories |

A comment `MUTANT of X` marks a wrong variant of `X`, the way a plausible bug
would make it; the model never uses it. Replacing `X` by it must break the
property that `PROJECT.json` names, which shows that the property depends on
that part of the code.

### LessonStore

`jsonl` is the log: its lines (parsed records), its mtime, and an inode that
compaction changes. `db` is the committed index; `txn` is SQLite's write lock.
Each process has a program counter and a memory, which an ending or killed
command loses.

| Action | Code |
|---|---|
| `Learn`, `Update`, `Mark`, `Delete`, `Import` | the command up to its first append: ReadItems, checks, and the lines it will write |
| `SkipLine`, `OpenLog`, `WriteLine` | the append loop and AppendItem's open and write |
| `BeginSearch`, `CheckSync` | SyncIfNeeded: stat, comparison with last_sync_mtime |
| `LoadItems`, `BeginTxn`, `BusyTimeout`, `Commit` | RebuildIndex: ReadItems, DELETE and INSERTs and stat, commit |
| `BeginCompact`, `CompactRead`, `CompactTemp`, `CompactRename` | runCompact, Compact, writeCompactedFile, then the rebuild |
| `Crash` | the process is killed; SQLite rolls back |

Decisions:

* One write(2) of a line is atomic (O_APPEND), as is one SQLite transaction. The
  statements of a rebuild's transaction are one step up to the commit, since
  nobody sees them before.
* A line written through a descriptor that was opened before compaction renamed
  its file in is lost: `fd` is an inode.
* `Insights` stands for all the text of a lesson. `NoInsight` is the empty
  insight that makes a record invalid; `arrays = FALSE` is a record with null
  arrays, which the readers normalise and which compact and import refuse.
  Import refuses such a record before it looks at its id or its deletion mark,
  as it does a bare tombstone, and takes the whole record of a deleted lesson.
  Lines that no reader parses are left out, as are the other fields of a
  tombstone.
* The clock moves only when a file is written. `CoarseClock = FALSE` gives every
  write a millisecond of its own; `TRUE` lets writes share one. The history
  variable `backdated` says that a write did not raise the mtime (a shared
  millisecond, or a compacted file stamped before the last append).
* Returns with an error that change nothing are steps that change nothing.
  `rebuild` without `--force` is a search. The order in which compaction sorts
  lines is left open.
* The database exists, is open, and has the right schema.
* `hist`, `author`, `idxVer`, `torn`, `backdated` and the fields `began`, `seen`
  and `statSeen` are history; no guard reads them.

### PhaseState

`file` is what each path holds: no file, an empty (truncated) one, one that does
not parse, or a state. `fd` follows a writer's open file through renames, so a
writer that truncated `.tmp` writes into whatever path the file has by then, or
into no path at all.

| Action | Code |
|---|---|
| `ReadMain`, `ReadLegacy`, `Migrate`, `Migrated`, `Unlink`, `ParseLegacy`, `RemoveStale` | GetPhaseState with the migration of a legacy file and the removal of a stale one |
| `After` (`AfterInit`, `AfterStart`, `AfterGate`, `AfterRead`, `AfterVerify`, `Answers`) | what each command does with the state it got |
| `MakeTemp`, `FillTemp`, `RenameTemp` | WritePhaseState |
| `TruncateMain`, `RewriteMain` | UpdatePhaseState |
| `RemoveMain` | final gate, clean, CleanPhaseStateIfFinal |
| `ForceInit` | init --force, which does not look at what is there |
| `StopHookActive`, `HookReturn` | the Stop hook's second call; telemetry's read of the phase after a hook |
| `Age` | time: the oldest sessions pass the 72 hours |

Decisions: `os.WriteFile` is truncation and write, any other call is one step. A
text written over a longer one leaves the end of the longer one: that is
`Corrupt`. A session's age is its number among the sessions started (`epic`), and
`aged` says how many of them are too old. `visit` numbers the phases entered; it
is history inside the state and no guard compares it. A temporary file that
nobody is about to rename is forgotten at a crash, because the next writer
truncates it. Of verify-gates only the final clean-up is modelled; its checks are
about the output of another tool.

### EmbedDaemon

`socket` and `pidFile` are the daemon that bound or is named by each file;
`lock` is the holder of the flock; a command is at a step (`at`) of one of its
attempts to connect (`stage`: first, fast, locked, wait), with the daemon it is
connected to (`conn`) and the one it started (`mine`). Time is open: a timeout
may fire whenever it could. The constant `Slow` says whether timeouts may be too
short. `Slow = FALSE` means: a health check of a daemon that lives is answered
in 500 ms, a daemon that lives is ready in 2 s, vectors come in time, and a
command is not killed while it waits for a daemon it started. The project states
what holds in either case.

Decisions: `Healthy` is connection, answer and return of the client in one step;
only a daemon in its accept loop answers. A daemon that died is a zombie for as
long as the command that started it runs, and a zombie passes the check whether
a PID is alive. Files are removed by path, whoever they belong to. Requests are
bounded and every request starts at most one daemon, so `MaxRequests <=
MaxDaemons` makes sure that no start fails for want of a number. Not modelled:
the texts and vectors, the batch limit, `RetryClient` (no command uses it), the
reuse of a PID by another program, a full accept queue, machines without model
files (they search by keywords and touch no state).

### InfinityLoop

`loop` is what the shell variables hold, with a program counter; `sess` are the
agent sessions, which live apart from it; `snap` is `.ca-worktree-snapshots`;
`beads` the tracker; `status` the status file. `script` is what `ca loop` was
asked to generate: the backend ("bg": claude background sessions; "p": `claude
-p` behind a subshell; "engine": goose, codex or agy in a process group), the
epics, the retries and the review options.

| Action | Code |
|---|---|
| `Preflight`, `PreflightFails` | bootstrap_preflight and those of the engines |
| `SweepFinds`, `SweepRemoves` | cleanup_orphans, at the head, after the kill ladder and before a retry: one orphan that passes the check; `claude stop`, `claude rm`, rm of its snapshot |
| `HeadLowMemory`, `HeadNoEpic`, `HeadTakesEpic` | the memory gate, get_next_epic with check_deps_closed |
| `Dispatch`, `DispatchUnreadable`, `WriteSnapshot` | agent_dispatch of each backend: list the worktrees, start, store the listing under the id |
| `WatchEnds`, `LadderStop`, `LadderOver`, `LadderLooks`, `LadderRemoves`, `LadderKeeps` | agent_wait of the bg backend and bg_kill_ladder |
| `WatchdogKills` | the memory and stale watchdogs of the process backends, agent_stop |
| `Collect` | agent_collect, detect_marker, the engines' look at the tracker |
| `HarvestLooks`, `HarvestNothing`, `HarvestTearsDown`, `HarvestMerges`, `HarvestFails` | agent_cleanup |
| `Retry`, `EpicFailed`, `EpicSkipped`, `EpicCompleted` | the case over MARKER |
| `ReviewPeriodic`, `ReviewBlocks`, `Post`, `Exit` | review triggers, final review, summary and exit code, EXIT trap |
| `Kill`, `Restart` | SIGKILL of the script (no trap runs), and the next start |
| `SessionWrites`, `SessionHangs`, `SessionBranches`, `SessionClaims`, `SessionEnds` | external: what the script assumes of a session |

Decisions: time is left open, a timeout may fire whenever what it measures has
stopped (a session silent for so long is `hung`; which of the hung ones
cleanup_orphans finds old enough is open). A session may print any marker,
or none, and may close its epic or forget to. `git worktree list` prints the
main checkout (`Main`), which is why a missing snapshot makes every worktree
look new. Listing the worktrees and `claude rm` are two steps everywhere (the
listing is `loop.listed`, the orphan of the sweep `loop.orphan`), between which
sessions work on; a listing, a removal or the write of a snapshot may fail, which
the script ignores (`|| true`): `Lists`, `Removes` and `WriteSnapshot` take one of
`left.faults`. Sessions are numbered in the order of their
start, and the script is started again only while there are numbers left for a
whole run. `astray` and `reviewed` are history.

### ReviewerFleet and ReviewLoops

`fleet` is the barrier: the reviewers still to start, the sessions waited for,
the one being torn down, and whether the time is over. `report` are the files
`cycle-N/<reviewer>.md`, with the mark `fresh` for those written in the cycle
that runs; `jobs` the background sessions with worktree, commits and the
listing that was stored for them; `proc` the processes; `sids` the known ids of
`sessions.json`. `said` is history: what a reviewer answered before it was
collected. `run` is the driver: the review phase that the infinity loop calls
between epics, or the polish loop.

| Action | Code |
|---|---|
| `SpawnProcess`, `SpawnUnrunnable`, `SpawnSession`, `SpawnMisses`, `Spawned` | spawn_reviewers, bg_dispatch_reviewer, the resume path of later cycles, run_polish_audit |
| `TimesOut`, `CollectReport`, `Keep`, `FindsNone`, `Remove`, `Assembled` | the poll loop; bg_collect_reviewer with the look at the worktrees and `claude rm`; the wait for the processes |
| `ProcessOutlives`, `StrayWrites` | the fallback of portable_timeout, which kills the subshell and not the `claude` in it |
| `ProcessEnds`, `JobBegins`, `JobCommits`, `JobEnds` | external: the reviewers |
| `ReviewSkipped`, `ReviewStarts`, `Approved`, `NextCycle`, `CyclesExhausted`, `LoopOver` | detect_reviewers, init_review_sessions, run_review_phase, feed_implementer |
| `PolishFails`, `PolishStarts`, `AuditAborts`, `Synthesize`, `Architect`, `InnerLoop`, `NextAudit`, `PolishDone` | the polish script |

Decisions: what a reviewer prints is approval, an API error, nothing, or other
text, which counts as a request for changes. `conf.timeout` says whether the
machine has a `timeout` command, `conf.goose` whether the goose fleet is used;
both decide if portable_timeout can start what it is given (`Invocable`). The look
at the worktrees (`FindsNone`, `Keep`) and `claude rm` (`Remove`) are two steps,
between which a session that ignores `claude stop` may commit; the listing or the
log may fail, which counts as no commits, and `claude rm` may fail, too. `own` is
history: the look succeeded, and the one new worktree was the session's. The
polish script reads HAS_JQ, which it never sets, under `set -u`: with background
sessions it aborts when it polls or collects one that has a state.json
(`Readable`, `AuditAborts`). The inner infinity loop of a polish cycle is one
step: `InfinityLoop` is its model, and the main loop of polish goes on whatever it
does.

### KnowledgeIndex

`dbs` are the database files (inodes) and `path` is the one that
`knowledge.sqlite` names: a command keeps the file it opened. `cmd` is the
memory of each command. `meta` is the recorded hash of each document, `rows` its
chunks with text, hash and vector. A document's content is a number that stands
for its hash, too; `RangesOf` is chunking.

| Action | Code |
|---|---|
| `Lock`, `RemoveDb`, `OpenDb` | lockedOpenKnowledgeDB: flock, version, removal, creation |
| `Walk`, `ReadError`, `Unchanged`, `ReadDoc`, `DeleteChunks`, `UpsertChunks`, `SetFileHash`, `TransactionFails`, `Indexed` | IndexDocs, indexSingleFile |
| `FindStale`, `DeleteStale`, `RemoveHashes` | syncDeletedFiles |
| `SelectMissing`, `EmbedBatch`, `EmbedEnds` | EmbedChunks |
| `ReadVectors`, `Hydrate` | SearchKnowledgeVector; a search of an empty index walks first |
| `Begin`, `Done`, `GivesUp`, `Killed`, `Edit` | start and end of a command; the user edits |

Decisions: a transaction is one step and may fail. The query for the version may
fail, too, and then says rebuild (`Checks`, `NeedsRebuild`, `unread`). A job with
`schema = "old"` is an older binary. A document may get any contents at any time,
earlier ones included (`Edit`: git checkout, undo). History: `raced` are the
documents that two commands replaced at a time; `broken` those whose chunks were
deleted by a command that did not get as far as their hash; `back` those whose
contents have come back to the recorded hash, or were replaced in spite of it.
`HashVouches` excepts what is raced, and what is both broken and back.

### RepoSetup

Each file is abstracted to the parts that somebody adds or removes: the hook
entries of settings.json with the commands in them, what each template group
holds (current, outdated or retired files, the skills index), sections of
AGENTS.md and CLAUDE.md, the lines of the two .gitignore files. Only
.gitignore keeps an order, since a block ends at the first blank line.

| Action | Code |
|---|---|
| `WriteClaudeIgnore`, `WriteRootIgnore`, `Migrate` | initDirectories |
| `ReadSettings`, `InstallHooks` | initHooks, AddHooksForProfile (upgrade of npx hooks, dedupe, downgrade) |
| `UpdateAgentsMd`, `EnsureClaudeMd`, `WritePlugin`, `Refuse`, `Agree`, `InstallGroup`, `PruneGroup`, `CompileSkillsIndex` | installTemplates, PruneForProfile |
| `InstallTarget`, `TargetsDone` | installHarnessTargets |
| `Plan`, `RemoveHooks`, `RemoveDir`, `RemovePlugin`, `RemoveRuntime`, `StripMarkers` | PlanUninstall, Uninstall, RemoveAllHooks, stripAllMarkers |
| `Killed`, `AddHook`, `AddLine`, `AddText` | a kill or an I/O error between two steps, or in the middle of os.WriteFile; the user |

Decisions: equal hook entries count as one; the path of the binary is known; a
group is installed in one step, and the four marker files are rewritten one after
the other; os.WriteFile empties a file before it writes it, so a kill may leave the
file that the next step would write (`Written`) empty; settings.json alone is
replaced by a rename; directories that are empty are as good as absent; one
command runs at a time. The user may
add a hook as an entry of its own or into an entry of ours.

## 3. Runs

| Run | Question | Bounds |
|---|---|---|
| `store_one_writer` | `TypeOK`; `IsALessonBook`: with one writing process beside a searching one, the store implements `LessonBook` | 2 ids, 2 contents, 2 writing commands, an import file with a deletion and two unusable records, one of them a tombstone, threshold 1 |
| `store_racing_writers` | `StaleIndexIsNoticed`, `SearchSeesEarlierWrites`, `CompactKeepsBook`, `EveryCommandEnds` with two processes that write, compact, rebuild and search; `IsASharedBook`: together they implement `SharedBook` | 1 id, 1 content, 2 writing commands, any number of searches and rebuilds |
| `store_resurrection` | violated: `UpdateFailsIfDeleted` | 2 writing commands |
| `phase_one_command` | `TypeOK`; `IsAPhaseSession`: one command at a time, killed anywhere, over ten kinds of leftovers; `EditsFollowSkillRead` | 2 phases entered, phases review and compound, their gates and skills |
| `phase_racing` | `GatesAreEarned` with two processes racing through start, gate, verify-gates and the read tracker | 2 phases entered, one gate, two skills |
| `embed_prompt` | `TypeOK`, `OneDaemon`, `OnlyStaleSocketsAreCleaned`, `LeftoversDoNotMatter` when no timeout is too short, and commands may be killed anywhere but in the wait for a daemon they started | 3 commands, 5 daemons, 5 requests |
| `embed_slow` | `EveryRequestEnds`, `EveryDaemonEnds` when any timeout may be too short | 2 commands, 3 daemons, 3 requests |
| `loop_epics` | `TypeOK`, `NoUnmergedWorkRemoved`, `MergedWorkIsReported`, `NoForgottenSession`, `EpicsDecidedOnce`, `NoEpicUnreviewed`, `EndIsOnRecord`, `LoopEnds` | 6 scripts (each backend with two dependent epics, bg and p with a retry, bg with one epic; each kind of review), 3 sessions; memory low once and one failing git, `claude` or write command, or one restart, and all of it for the single attempt |
| `review_fleet` | `TypeOK`, `NoFindingLost`, `VerdictsAreFresh`, `CommitsAreKept`, `LoopsEnd` | 8 configurations: both drivers, both backends, with and without a timeout command, fleets of one or two of five reviewers, up to 3 cycles and 2 phases |
| `review_unfixed` | violated: `ImplementerWorks` | as `review_fleet` |
| `knowledge_commands` | `TypeOK`, `HashVouches`, `VectorsAreLabelled`, `OnlyOldSchemasAreRemoved`, `CommandsEnd` | 1 document with 2 contents, 2 commands of four kinds, 3 database files, any number of edits, one kill, failed transaction or failed query for the version |
| `setup_commands` | `TypeOK`, `InstalledAsAsked`, `UninstallIsComplete`, `ReadHooksAreKept`, `NothingPrunedUnasked` | 2 hooks, 13 kinds of command in any number, 2 initial repositories, 1 edit by the user |

What the passing ones show:

* **The store under one writer is a map.** Appends, tombstones, last write wins,
  compaction that changes the file under a reader, imports of raw files and
  crashes at every step cannot be told from commands that act at once on a map.
  Two ids and two contents make it possible to confuse them; two commands are
  enough for every pair (write, overwrite; write, delete; delete, compact;
  learn again after a delete).
* **The index under racing writers.** Its rows are those of one state of the
  log; when they are not the current ones, the next search rebuilds, unless the
  rebuild's stat was newer than its read or two writes share an mtime
  (section 6); a search sees what was written before it began, even if another
  rebuild commits older rows in between; a rebuild never waits for ever on the
  write lock. One id is enough to tell the versions apart; two writes allow one
  before and one between the steps of a rebuild.
* **The store under racing writers is still a map**, one that commands change from
  copies. What reaches the log changes the one lesson a command names, to what
  the command made of the book as it was when the command looked. So a line
  overrides only what others did to the same lesson between look and write, be
  it a deletion. Compaction puts back the whole book it has read, and what was
  written since goes; a line may also be lost to a file that it replaced. One id
  and two commands are enough for a look, a write in between, and a write.
* **Compaction** changes no lesson if nobody wrote since it read the file and no
  record has null arrays. Both provisos are needed (section 6).
* **The phase state for one agent** is a session that changes only through the
  commands that should change it, survives the migration from the old path and
  vanishes only for a reason that `PhaseSession` names: a final gate, clean,
  verify-gates after a final gate that an old file kept, 72 hours, or a hook
  killed in the middle of a rewrite. The initial files include sessions at
  either path or both, inactive, torn, too old, or with a final gate.
* **Gates under races** are only those that a gate command recorded during that
  visit of the phase, whatever is lost or overwritten. Two visits of the same
  phase are what a carried-over gate needs.
* **The flock and the second look for a daemon under it** keep daemons unique
  as long as no timeout is too short and nobody is killed while it waits for the
  daemon it started, and then no live socket is removed and dead daemons' files
  cost nobody a vector. Three commands are one more than any
  hand-over needs (one that starts, one that waits for the lock, one that finds
  the daemon), and five daemons allow the successor of a successor.
* **With any delay** every request and every daemon still ends, daemons whose
  path was taken over included.
* **The infinity loop keeps the work it sees.** No session is removed whose
  unmerged worktree was in the listing that the script went by, not by the kill
  ladder, not by the harvest, not by the sweep of a restarted script, whatever
  happens between listing and removal. (What is made in between, or missed by a
  listing that failed, is lost: section 6.) What is merged
  was reported complete, except that the worktree of a session that was told to
  stop, or outlived its script, may be taken for that of the watched one. Three
  sessions are two attempts and a leftover. Two epics, one waiting for the
  other, let a skipped or failed epic stay ready in the tracker.
* **The loop ends and says how.** Every exit path leaves a status that agrees
  with its code; every completed epic was in the range of a review; the loop ends
  whatever sessions do, but for one case that `LoopEnds` names (section 6).
* **A review phase does not approve over a finding** of a reviewer that answered
  in time, and an architect gets all of them. Verdicts are of the current cycle,
  but for codex, for sessions that could not be started, and for reviewers that
  outlived their timeout (section 6). Commits that a reviewer made before its
  worktree was looked at are removed only where the look failed or the worktree was
  confused with another's. A polish loop completes its cycles, unless its auditors
  are background sessions: then it crashes at the first one that began.
  Two background reviewers are what such a confusion needs; two phases are what
  stale reports need.
* **A recorded hash vouches for the chunks** after any kill or failed transaction,
  unless two commands replaced the document at a time, or replacing or removing it
  was broken off and its contents are, or come back to be, those of the hash that
  was left. Vectors that were overtaken by new text carry the old text's hash. Two
  binaries that open the database at a time never remove a current one, unless one
  of them could not read its version. Each ingredient (another version, a second
  indexer, an edit, a kill) is there once; a third database file is the successor
  of a removed one that is still open.
* **Setup repairs what it finds.** From an empty repository, or one an old version
  left, after any sequence of profiles, targets, interruptions and uninstalls, a
  setup that ends well leaves exactly the managed hooks (each once) and the
  templates of its profile; a load-session hook of an old version stays. An
  uninstall leaves none, and nothing marked as the tool's; AGENTS.md, CLAUDE.md
  and the .gitignore files start empty, so only blocks of this version are tried.
  Two hooks are one of every rank and two events; the number of commands is not
  bounded.

Deadlock is checked where it can mean something: a state of `LessonStore`,
`PhaseState` or `RepoSetup` always allows a command to begin. The other models
stop when their bounded activity is used up (requests, restarts, phases, one use
of every command), so their runs do not check it; that nobody waits for ever is
a liveness property of each.

`AnyProc` and `AnyCommand` are symmetry sets in runs of safety properties only,
where the processes in them have the same role. `WithoutEarned`, the view of
`phase_one_command`, leaves out one history variable that no guard and no
property of that run reads.

Fairness: a process that was started keeps taking steps unless it is killed.
That is `WF_vars(Step(p))` for the commands of `LessonStore` and
`KnowledgeIndex`, where no command has to begin; the same for commands and
daemons of `EmbedDaemon`, where `GiveUp` is strongly fair, since waitForReady
compares an absolute deadline before every attempt, however often it dials in
between, and `Stop` is part of the fair steps of a daemon, since the five minutes
without requests go by and the number of requests is finite; `WF_vars(LoopStep)`
for the loop script, together with the assumption that a session that has begun
to write ends or falls silent at some time; and `WF_vars(ScriptStep)`
for the review and polish scripts, with `WF_vars(ProcessStep)` since
reviewer processes run under a timeout. A background reviewer may run for ever.
Nothing is assumed of crashes, of users, of who gets a lock, or of a session's
first status. `RepoSetup` states no liveness: its commands wait for nothing.

## 4. Proofs

TLAPS proves every safety property that a run checks, for every value of the
constants, and the three refinements. What the prover cannot reach is listed at the
end of this section.

| Module | Theorem | States |
|---|---|---|
| `LessonStoreProofs` | `TypeCorrect` | `TypeOK` |
| | `IndexCorrect` | `IndexIsAPastBook`, the part of both refinements that is about the index |
| | `StalenessIsNoticed` | `StaleIndexIsNoticed` |
| | `SearchesAreFresh` | `SearchSeesEarlierWrites` |
| `LessonBookProofs` | `CompactionLosesNothing` | `CompactKeepsBook` |
| | `ImplementsLessonBook` | `IsALessonBook`, with one writer |
| | `ImplementsSharedBook` | `IsASharedBook`, with any number of writers |
| `PhaseStateProofs` | `TypeCorrect`, `GatesEarned` | `TypeOK`, `GatesAreEarned` |
| | `ImplementsPhaseSession` | `IsAPhaseSession`, with one process |
| | `GuardAnswersTruly` | `EditsFollowSkillRead`, with one process |
| `EmbedDaemonProofs` | `TypeCorrect` | `TypeOK`, also with `Slow` |
| | `DaemonsAreNeverTwo`, `CleaningIsSafe`, `OnlyTroubleCostsVectors` | `OneDaemon`, `OnlyStaleSocketsAreCleaned`, `LeftoversDoNotMatter`, with `~Slow` |
| `InfinityLoopProofs` | `TypeCorrect` | `TypeOK` |
| | `WorkIsKept`, `MergesReported` | `NoUnmergedWorkRemoved`, `MergedWorkIsReported` |
| | `SessionsRemembered` | `NoForgottenSession` |
| | `DecidedOnce`, `EpicsReviewed`, `EndRecorded` | `EpicsDecidedOnce`, `NoEpicUnreviewed`, `EndIsOnRecord` |
| `ReviewLoopsProofs` | `TypeCorrect` | `TypeOK` |
| | `FindingsKept`, `FreshVerdicts`, `CommitsKept` | `NoFindingLost`, `VerdictsAreFresh`, `CommitsAreKept` |
| `KnowledgeIndexProofs` | `TypeCorrect` | `TypeOK` |
| | `HashesVouch`, `VectorsLabelled`, `OldSchemasOnly` | `HashVouches`, `VectorsAreLabelled`, `OnlyOldSchemasAreRemoved` |
| `RepoSetupProofs` | `TypeCorrect` | `TypeOK` |
| | `AsAsked`, `UninstallComplete` | `InstalledAsAsked`, `UninstallIsComplete` |
| | `HooksKept`, `PruningConfirmed` | `ReadHooksAreKept`, `NothingPrunedUnasked` |

All proofs have one shape. Few of the properties are inductive, so each
module has an inductive invariant, made of named parts (`IInv`, and where a
later theorem needs more, a second one beside it). TLC has checked each of these
invariants on the configurations of section 3. A lemma shows for every action
which parts it keeps, and how; lemmas about the helpers that actions share come
first. The theorems then follow from the invariant, state by state or step by step.

### LessonStore

Assumed: `StoreAssumption`, that is finitely many ids, initial and imported files
that are sequences of records, and names that do not collide. No proof uses
`MaxCommands` or `CoarseClock`.

The core of `TypeCorrect` is that every book is a function into valid lessons or
`Absent` (`ReadItemsType`, `CompactItemsType`): only validated records reach one.
`IndexIsAPastBook` is preserved because the items a rebuild is about to commit
are a book of the history (`SnapInv`), the rebuild that commits is the one
that holds the lock (`LockInv`), and the history ends with what the file says
(`HistInv`). `StaleIndexIsNoticed` needs `SyncInv`: as long as every write raises
the mtime, the recorded mtime and the stats of rebuilds in flight are not ahead
of the file's, and where they are equal nothing was written since. `TodoInv`
says that a process in the append loop has a line to append. `BeginFrame`,
`StepFrame` and `OtherSteps` say once what other actions and processes leave alone.

`SearchesAreFresh` adds three parts. `VersionInv`: the rows are those of the entry of
the history that `idxVer` names. `OrderInv`: a rebuild began, read and made its
stat in that order. `SearchInv` is the argument: who has found the index new
enough finds there what was written before it began (`Found`), and no rebuild
that is under way takes that back (`WillFind`), although such a rebuild may
commit an older book than the one the search has seen. That is so because a
rebuild makes its stat under the write lock: the mtime it will record is not
below the recorded one, and a search that was satisfied with the recorded one
began before that stat. What the rebuild read earlier than its stat is what the
property's proviso `torn` is about.

`CompactionLosesNothing` rests on `CompactInv`: while nobody has written since
compaction read the file, its temporary file is one of the files that the lines may
be compacted to (`CompactedFiles`), and each of those has the same book where
no record has null arrays.

`ImplementsLessonBook` assumes `OneWriter` and that no record of the initial file
has null arrays (`Modern`). `WriterInv` says that the file stays so, and that the
lines the writer has left to append still fit the current book (`Fits`): a learned
or imported id may be new or not, what is updated or marked is there, what is
deleted may be. Each append is then one operation of `LessonBook`, each commit
of a rebuild its synchronisation, and every other step a stutter. Without
`OneWriter` the lines need not fit any more, and `store_resurrection` shows that the
refinement is false then.

`ImplementsSharedBook` says what is true then; it assumes `Modern` only. `SharedInv`
makes a command remember where in the history it has looked (`seen`): its lines fit
that book, though perhaps not the current one, and the temporary file of a
compaction says what that book said (`WorksFrom`). Since the history only grows
(`HistStep`), no other process can disturb this, which is why the argument needs
no `OneWriter`. `SeenStep` and `ReadsStep` relate the process that takes a step to
the set of books that commands under way have read. An append is then one
operation of `SharedBook` made of such a book, a rename is `Compact`, a commit
`Reindex`, and the rest is a look, the end of a command, or a stutter; a write into a
file that compaction has replaced is the latter. A record with null arrays in the
initial file would make the refinement false: compaction drops it (section 6).

### PhaseState

Assumed: `PhaseStateAssumption`, that phases are among the six the code knows
and have skills, that the leftovers are files the model can hold, and that names
of what is not a state are no states. No bound is used; the gates that
leftover files hold count as earned.

`IInv` adds two things to `GatesAreEarned`: the argument of an operation is of
the kind it needs (`ArgFits`), and a process that is about to write has a
state to write, one that migrates a file has read one (`MemoryFits`). Both are
needed because a gate travels from a file to a memory and back: at any time the
only trace of a session may be what some process has read. The proof works on
`PartsOK`, the same conjuncts regrouped as one condition per path (`FileOK`) and
one per process (`ProcsOK`), so that a step needs an argument only about the
path and the process that it changes; `Parts` says that the two are equivalent.

`ImplementsPhaseSession` and `GuardAnswersTruly` assume `OneProcess`, an agent whose
commands and hooks run one at a time, and `EarlierFiles`, that the files left
behind are numbered as earlier sessions. Section 6 shows both properties false
with two processes. `CommandInv` has two parts. `Known`: what either path holds
is of a session and a visit that have begun, and every skill on its list was read
in that visit. `OnCourse`: what the files hold at every step of a command; for
example, while a temporary file is made the new state is one made from what the
main path still holds (`Renewed`), and the read tracker's second read finds the
state of the first. Every action has a lemma that ends in `Kept`: `CommandInv`
holds again, the step is one of `PhaseSession` or a stutter, and if it answers an
edit, the skill was read. Crashes are among the actions: a session that is
lost with a process killed in the middle of a rewrite is lost in `PhaseSession`
too, for that cause.

### EmbedDaemon

Assumed: `EmbedDaemonAssumption`; only that the bounds are numbers and that
`NoCommand` is no command is used. `TypeCorrect` holds with and without `Slow`.

`OneDaemon` and `OnlyStaleSocketsAreCleaned` need `~Slow`, and neither follows from
the flock alone: it is released when the starter has its client, and the daemon
lives on. The argument is the invariant's: the holder of the lock is the
command in the locked part of EnsureDaemon (`LockInv`); a daemon that is not ready
yet is waited for by that holder (`StartingInv`), so whoever gets the lock finds
daemons ready or none; a daemon that has bound its socket still has it
(`SocketInv`), so the second dial under the lock finds it; hence while a daemon
runs nobody gets as far as cleaning up or starting (`AloneInv`). `~Slow` is used
where a health check fails (`UnhealthyStep`) and where a command leaves
(`LeaveSteps`); with `Slow` two daemons do run (section 6).

`LeftoversDoNotMatter` adds `TroubleInv`: a command that is about to start a daemon
has removed the PID file, the daemon it has started finds no live PID and a free
path (`Unhindered`), and one that was found healthy serves; all unless a daemon
died while the command ran. Since no other daemon runs then, nobody puts a file in
the way.

### InfinityLoop

Assumed: sessions are numbered from 1 (`SessionsAssumption`), the bounds of a
script are numbers (`BoundsAssumption`), dependencies are between epics, scripts
have the options that can be generated.

What makes `NoUnmergedWorkRemoved` and `MergedWorkIsReported` true is in four parts
of the invariant. `SessionOK`: sessions are born in their order, and the script
knows every one that may run: it watches it, has told it to stop, or has found
it at its start; what it does not watch and may still run is astray.
`WorktreeOK`: a snapshot never lists the worktree of its own session, and lists
every other one unless a stray has made it since, provided that the listing it was
made from did not fail. So the new worktrees of the watched session are its own or
a stray's (the exception the properties make), and what the listing shows of a
session's own worktree keeps it from being removed. A listing made between the
dispatch and the moment it is stored is covered by the same part. `ListedOK`: a
listing that did not fail has the main checkout, so after a failed one nothing is
new, and nothing merged. `OrphanOK`: the orphan that the sweep is about to remove was
not in the listing it went by. `EpicOK`: the epic
that is worked on was not decided before, and no epic was decided twice. `ReviewOK`: every
completed epic is in a range that was or will be reviewed, and a range that is not
empty is counted. `StatusOK`: exit code 0 comes only after "idle" was written.
The types and the three facts about epics, reviews and exits are proved first,
over a shape of the script's memory (`LoopOK`, the lemmas that end in `Moves`);
the sessions follow (`Calm`, the lemmas that end in `Keeps`).

### ReviewLoops

Assumed: every reviewer has a kind, configurations have the options that can be
generated, `MaxCycles` is a number. The proof covers both modules, as
`ReviewLoops` extends `ReviewerFleet`.

`FleetOK`: the barrier waits for one session of a reviewer, and when it is done
nothing is waited for. `ReviewerOK`: a reviewer that asked for changes has its
report written, or its session is still waited for and will give it; and a reviewer
that is not waited for, was not missed, and is not codex has a report of this cycle.
`LookOK`: between a look that succeeded and found only the session's own
worktree, and `claude rm`, that session has no commit older than the look, because
a commit made meanwhile counts as `late`. What a process that outlived its timeout
may still overwrite (`Outlived`) is excepted in each part.
`DriverOK`: what was concluded from the reports agrees with what was said, and no late
answer can change it, because the fleet is done. A report that arrives after the
timeout, a session of an earlier phase that ends now, and a file of an
earlier phase at the same path are cases of `ReviewerOK`.

### KnowledgeIndex

Assumed: contents are positive numbers with a chunking each, finitely many
documents, `Nobody` is no command.

`Labelled` is the loop invariant of the vectors: a vector has its hash beside it,
and a text that has none yet labels itself; so what EmbedChunks selected as
missing carries the right hash wherever it is stored, even when the text was
replaced in between. `HashVouches` needs `DocOK`, about a document that no two
commands have replaced at a time: one command at most replaces it, what that
command has written so far is what its step says (`ReplacedBy`), and otherwise the
chunks are those of the recorded hash, or somebody is half way through
(`Halfway`), or somebody was and the document is `broken`; and then it is
outdated: its contents are not those of the hash, unless they have come `back`,
which is what the property excepts. `CommandOK` ties the memory of a command to
its step; that a database is removed only for its schema, or for a failed query of
it, is a part of it. Each action has a lemma for the types (`Shapes`), one for
memories, one for labels and one for documents.

### RepoSetup

Assumed: finitely many hooks whose names are neither those of old versions nor
the user's, jobs that can be asked for, initial repositories with well-formed files.
Neither the number of commands nor the number of edits is bounded by the proofs.

`FilesOK` holds of the files whoever writes them; in it, a .gitignore has at most
one block of ours and no half of one (`Whole`), which is what makes a block's end
well defined after any edit and any kill, also one that leaves a file empty.
`HooksOK` is about the time between reading settings.json and replacing it, in
which the user may edit the file: what holds of the hooks that were read holds of
those that are there, hence what the command will write is right (`UpgradedIs`,
`FilteredIs` and the lemmas about installing one hook). `SetupOK`, `TemplatesOK`
and `RemovedOK` say what a setup or an uninstall has done up to its step, and that
later steps of the same command do not undo it. `InstalledAsAsked` and
`UninstallIsComplete` are these parts at the end of a command.

### Left to TLC

* Liveness: `EveryCommandEnds`, `EveryRequestEnds`, `EveryDaemonEnds`, `LoopEnds`,
  `LoopsEnd`, `CommandsEnd`. They rest on fairness and with it on `ENABLED`, which
  is out of the prover's reach.
* The two violations of section 5. A counterexample needs no proof.
* That the actions can be taken, and that the history variables record what they
  are meant to: no theorem says so, the runs and the mutants do.

## 5. Disagreements that a run shows

| Run | What the code does | What is said |
|---|---|---|
| `store_resurrection` | update checks and appends in two steps without a lock (`go/cli/commands_crud.go:181`): a lesson deleted in between is back | `docs/invariants/crud-commands.md:116`: Update command must fail if target lesson is deleted |
| `review_unfixed` | feed_implementer runs `portable_timeout ... agent_invoke` (`go/cli/commands_scripts_review.go:842`), and where there is a `timeout` command that is asked to run a shell function: it exits 127, no fixing session starts, and the next cycle reviews the same code. The claude reviewers of the p backend are started the same way | `go/cli/commands_scripts.go:1617`: Fall through to synchronous invocation so callers (e.g. feed_implementer) work |

## 6. Disagreements that are visible in the model but have no run

Met while modelling; each is a short path through the actions named. Where a
property is named, its definition is in the module, and checking it under the
component's configuration gives a trace (`store_racing_writers`,
`phase_racing`, `embed_slow`, `loop_epics`, `review_fleet`,
`knowledge_commands`, `setup_commands`).

**Lesson store**

* `QuietIndexIsCurrent`: RebuildIndex stats the log after it has read it
  (`go/storage/sync.go:55`): an append in between is recorded as synced without
  its row, and no later search rebuilds, while `docs/invariants/storage.md:46`
  says that rebuildIndex reflects all current lessons.
* `docs/invariants/crud-commands.md` SP-5 says that the index reflects an update
  or a delete before the command returns. The commands leave the index to the
  next search (`WriteLine` does not touch `db`).
* SP-7 there says that deleting twice makes no second tombstone. An id named
  twice in one command line, or deleted by two processes, gets two
  (`known` is not changed by a delete).
* SP-8 says that every line update appends is valid. `update --insight ''`
  appends a record that no reader accepts (`Update` with `NoInsight`).
* Compact validates records without EnsureArrayFields and so deletes lessons
  with null arrays that every reader shows (`CompactValid` against `Valid`).

**Phase state**

* `WritesAreAtomic`, with two processes and `Ops` limited to start and gate: all
  writers of WritePhaseState share one temporary path
  (`go/hook/phase_state.go:178`), and one renames what another has just truncated;
  its comment says atomically via temp+rename.
* `EditsFollowSkillRead`, with two processes and all operations: the read tracker puts a list made
  from one read into the state of a later one and truncates the file to write it
  (`go/hook/phase_state.go:168`), so that an edit passes the guard unwarned in a
  phase whose skill was not read (`docs/ARCHITECTURE-V2.md:372`).
* `docs/compound/INTEGRATION.md:64` says that the guard keeps an agent from
  jumping ahead. It looks only at the skills read, and start takes any phase.
  Line 65 says that the stop audit blocks a stop with an unverified gate. It
  does so in the last phase, or once the next phase's skill was read.
* clean removes only the new path; a state at the old one, which init --force
  never looks at, comes back with the next command (`RemoveMain`, `ReadLegacy`).
* validatePhaseState removes by path after the read, and may remove a session
  that another process has just begun (`RemoveStale` after `RenameTemp`).

**Daemon**

* `OneDaemon`, under `Slow`: the flock, which is there to prevent concurrent
  daemon starts (`go/embed/daemon_unix.go:13`), is released after 2 s while the
  daemon still loads (line 75), or when the command that waits for it is killed.
* A command removes the socket of a live daemon that did not answer a health
  check in 500 ms (`Unhealthy`, `CleanSocket` with `Slow`).
* `docs/specs/go-rust-migration.md:409` says that a client retries with a fresh
  daemon when one dies in the middle of a request. RetryClient does, but no
  command uses it (`NotEmbedded` leaves).

**Infinity loop**

* `NoWorkRemoved`: the comment of cleanup_orphans says that `claude rm` runs only
  if the session has no un-harvested worktree (`go/cli/commands_scripts.go:454`),
  and those of bg_kill_ladder (line 692) and agent_cleanup (line 1530) say alike.
  The listing is made before (`SweepFinds`, `LadderLooks`, `HarvestLooks`), and a
  session may make a worktree in between; a `git worktree list` that fails reads as
  an empty listing (`|| true`, lines 503, 703, 1489).
* `OneSessionAtATime`: agent_stop of the p backend says that it kills the process
  group, but the subshell of `claude -p` leads none: the claude process outlives
  the watchdog, and the retry runs beside it (`WatchdogKills`).
* `CompleteWasPrinted`: without a printed marker, detect_marker takes the first
  marker word in the raw trace, which may be the prompt's own text (`Traced`).
* The stale watchdog of a process arms after the first output only: a process
  that never prints is waited for for ever (`WaitsForFirstOutput`).
* An epic that a killed script left `in_progress` is never picked again, and
  commits of a killed run are in no review's range (`IsReady`, `Restart`).
* agent_cleanup has a branch for zero new worktrees without a snapshot; it is
  taken only when the listing failed as well, because the main checkout is listed
  otherwise (`Main`).
* The EXIT trap writes "crashed" for the orderly exits 1 and 2 as well, over the
  "idle" that was there (`Post`, `Exit`).

**Review phase and polish loop**

* `NoCommitRemoved`: "claude rm is only invoked when: snapshot exists AND
  worktree-commit check proves no commits"
  (`go/cli/commands_scripts_review.go:589`). The check (lines 601 and 617) and the
  removal (line 639) are apart, and a reviewer that ignores `claude stop` may commit
  in between (`FindsNone`, `JobCommits`, `Remove`); a listing or a log that fails
  counts as no commits; and with two reviewers the first new worktree may be the
  other one's. The polish script has the same code
  (`go/cli/commands_scripts_polish.go:309`, 325, 347).
* The polish script runs under `set -euo pipefail`
  (`go/cli/commands_scripts_polish.go:377`), and its bg_poll_reviewer and
  bg_collect_reviewer read HAS_JQ (lines 214, 254), which nothing in that script
  sets. With background sessions, the default, it aborts as crashed at the
  first state.json it meets (`AuditAborts`), so no such polish loop gets further
  than its first audit with an auditor that began.
* Without a `timeout` command portable_timeout kills a subshell whose `claude`
  may go on and write its report over that of a later phase (`ProcessOutlives`,
  `StrayWrites`).
* A codex reviewer that fails leaves the report of the last phase, which is read
  as this one's; so does a session that cannot be started (`VerdictsAreFresh`
  excepts both). A report of a session that could not be read counts as a
  request for changes ("noise").
* A review in which every reviewer failed is approved (`AllApproved`), and the
  branch for no findings at all is never taken.
* The architect of polish has no timeout, and the branch for an empty report is
  never taken, because the report has a header (`Architect`, `Synthesize`).

**Knowledge index**

* `ReplacedAtomically`: indexFiles says that it replaces the chunks of a document
  atomically (`go/knowledge/indexing.go:66`); it takes three transactions. A command
  killed between DeleteChunks and SetFileHash leaves the old hash; when the
  document then gets its old contents back (git checkout, undo), or had them all the
  time (`--force`), it counts as unchanged and its chunks stay missing.
* A hash that could not be removed "is harmless" (line 157): it is not when the
  document is restored, for the same reason (`DeleteStale`, `RemoveHashes`, `Edit`).
* Any error of the query for the version, also that the database is busy, removes
  a database that has the right schema and may be in use
  (`go/storage/knowledge_db.go:180`, `Checks`).
* The vector search does not compare a vector's hash with the text beside it
  (`go/knowledge/search.go:96`): until the next index-docs it ranks a chunk by the
  vector of an earlier text (`ReadVectors`).

**Setup**

* `HooksAreNeverDeleted`: uninstall removes an entry of settings.json with every
  command in it, the user's too (`WithoutHooks`), where
  `docs/invariants/setup-claude-defaults.md:63` says that existing hooks are never
  deleted. Installation filters the commands one by one.
* `OwnLinesAreKept`: a user's line directly below our block in .gitignore, with
  no blank line between, goes with the next init (`BlockEnd`); and a kill in the
  middle of os.WriteFile (`go/setup/init.go:383`, 391, 423) loses all of the user's
  lines, as it does the user's text in AGENTS.md and CLAUDE.md (`Killed`).
* `RefusalIsWarranted`: the skills index survives a confirmed pruning, and then
  every unconfirmed `--profile minimal` is refused for its sake (`Expected`,
  `OutOfProfile`).
* A refused downgrade has changed the hooks already (`InstallHooks` before
  `Refuse`); a hook that the user adds between read and write is lost
  (`ReadSettings`, `InstallHooks`); the plan of an uninstall does not see the
  hooks of older versions, which the uninstall would remove (`Planned`).
* Hooks that point to another binary's path are never refreshed
  (`NeedsUpgrade`), nor is a section of AGENTS.md (`UpdateAgentsMd`); files the
  user put in our template directories are pruned (`PruneGroup`); plugin.json is
  overwritten and removed whoever wrote it; the files for codex and goose
  outlast every uninstall (`InstallTarget`).

## 7. Not modelled, and the plan

Left out of modelled parts:

* Infinity loop: checks of the command's options, prompts and log lines, `ca
  watch` and `ca audit` (viewers of logs), the limit of ten ready epics, dry
  runs, and that the snapshot is searched for a path as a substring.
* Review and polish: prompts, the cost and summary lines.
* Knowledge index: chunking itself, keyword search and ranking, the triggers of the
  full text table.
* Setup: doctor and the printed reports (they change nothing), detection of the
  project's stack (it fills in template texts), two setups at a time.
* Setup: blocks that earlier versions wrote into AGENTS.md, CLAUDE.md and .gitignore.
* Phase state: whether racing hooks lose a gate or a skill that was read (they do):
  `GatesAreEarned` says that none is gained.
* Embedding daemon: tokenizing and inference, the batch limit, RetryClient.

Parts that are not modelled, and the hazards that stay without a property for
it:

1. Opening the lessons database: the same protocol as `Checks`, `Lock`, `RemoveDb`,
   `OpenDb` of `KnowledgeIndex`, an error of the query for the version included.
   `LessonStore` takes the database as open.
2. The embedding cache: vectors of lessons guarded by a content hash, over
   rebuilds that delete the rows. It would compose with the actions of
   `LessonStore` that change `db`.
3. The failure tracker: a counter that parallel hooks read, change and write.
4. Pure functions over texts and scores (chunking, hybrid merge, ranking,
   clustering, capture): lists of cases, best left to tests.
5. Reports, migration, packaging, helpers: input and output only.

Every safety property of a run is a theorem now. What would say more, in this
order: for two processes, what is left of `PhaseSession` when only the read tracker
runs beside another command, which is how a harness with parallel tool calls uses
it; and an abstract map from documents to chunks that `KnowledgeIndex` implements
while one indexer runs.

Left to testing: text patterns of capture, reports, packaging scripts, output
formats, tokenising and inference in the daemon.
