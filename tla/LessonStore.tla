---------------------------- MODULE LessonStore ----------------------------
(***************************************************************************)
(* The lesson store of compound-agent: the append-only JSONL file that is  *)
(* the source of truth, and the SQLite index derived from it.  Each        *)
(* process is one run of the `ca` command line program; there is no server *)
(* and the JSONL file has no lock, so the steps of commands interleave.    *)
(*                                                                         *)
(*   writers  learn, capture, detect, import, update, wrong, validate,     *)
(*            delete: read the whole file, then append lines;              *)
(*   readers  search, check-plan, rebuild: bring the index up to date,     *)
(*            then read it; and compact, which replaces the file by a      *)
(*            rewritten copy and then rebuilds the index.                  *)
(*                                                                         *)
(* One write(2) of a line and one SQLite transaction are atomic; a command *)
(* can be killed between any two steps.                                    *)
(***************************************************************************)
EXTENDS Integers, Sequences, FiniteSets

CONSTANTS
  Procs,              \* command processes
  Writers,            \* those that run writing commands and compact
  Ids,                \* lesson ids
  Insights,           \* contents of a lesson
  NoInsight,          \* the empty insight, which no valid record has
  Absent,             \* no lesson
  NoProc,             \* nobody holds SQLite's write lock
  TombstoneThreshold, \* tombstones from which compact runs without --force
  InitialLogs,        \* contents the JSONL file may start with
  ImportFiles,        \* contents of a file given to `ca import`
  CoarseClock,        \* writes may share a millisecond
  MaxCommands         \* bound: writing commands and compactions started

\* A parsed record of the JSONL file: arrays is FALSE when tags, supersedes or
\* related is null, as older versions wrote them.
Line == [id: Ids, insight: Insights \cup {NoInsight}, wrong: BOOLEAN,
         deleted: BOOLEAN, arrays: BOOLEAN]

ASSUME StoreAssumption ==
  /\ IsFiniteSet(Ids)
  /\ NoInsight \notin Insights
  /\ NoProc \notin Procs
  /\ Writers \subseteq Procs
  /\ InitialLogs \subseteq Seq(Line)
  /\ ImportFiles \subseteq Seq(Line)
  /\ MaxCommands \in Nat

VARIABLES
  jsonl,      \* the JSONL file: lines, mtime (0: no file), inode
  now,        \* the clock, in the milliseconds that mtimes are kept in
  db,         \* the committed SQLite index: rows and last_sync_mtime
  txn,        \* who holds SQLite's write lock
  pc,         \* where each process is in its command
  loc,        \* what each process has in memory
  started,    \* writing commands started so far (MaxCommands bounds it)
  \* History, read by no action's guard:
  hist,       \* every book the file has held, one entry per effective write
  author,     \* the command whose line was the last to reach the file
  idxVer,     \* which of them the index was built from (0: never built)
  torn,       \* the index took its mtime from a newer file than its rows
  backdated   \* some write did not make the file's mtime larger

vars == <<jsonl, now, db, txn, pc, loc, started, hist, author, idxVer, torn,
          backdated>>

history == <<hist, author, idxVer, torn, backdated>>
-----------------------------------------------------------------------------
(* Records of the JSONL file. *)

Lesson == [insight: Insights, wrong: BOOLEAN]

Book == [Ids -> Lesson \cup {Absent}]

Nothing == [i \in Ids |-> Absent]

LessonOf(l) == [insight |-> l.insight, wrong |-> l.wrong]

\* A line as AppendItem writes it: EnsureArrayFields has run.
LineOf(i, lesson) == [id |-> i, insight |-> lesson.insight,
                      wrong |-> lesson.wrong, deleted |-> FALSE, arrays |-> TRUE]

\* delete appends the item with deleted set; no reader looks at its other fields.
TombstoneLine(i) == [id |-> i, insight |-> NoInsight, wrong |-> FALSE,
                     deleted |-> TRUE, arrays |-> TRUE]

Tombstone(l) == l.deleted

\* MUTANT of Valid: records are not validated.
Unvalidated(l) == TRUE

\* What parseLine keeps: the arrays are filled in before the validation.
Valid(l) == l.insight # NoInsight

\* What processCompactItem keeps: the arrays are validated as they are.
CompactValid(l) == Valid(l) /\ l.arrays

\* Last write wins: what the lines at the positions counted say of id i.
LastWrite(log, counted, i) ==
  LET mine == {n \in counted : log[n].id = i}
      last == {n \in mine : ~Tombstone(log[n]) /\ \A m \in mine : m <= n}
  IN  IF last = {} THEN Absent ELSE LessonOf(log[CHOOSE n \in last : TRUE])

Counted(log) == {n \in DOMAIN log : Tombstone(log[n]) \/ Valid(log[n])}

ReadItems(log) == [i \in Ids |-> LastWrite(log, Counted(log), i)]

CountTombstones(log) == Cardinality({n \in DOMAIN log : Tombstone(log[n])})

\* MUTANT of CompactCounted: tombstones are dropped before they have removed
\* the record they delete.
TombstonesUnread(log) == {n \in DOMAIN log : ~Tombstone(log[n]) /\ CompactValid(log[n])}

CompactCounted(log) == {n \in DOMAIN log : Tombstone(log[n]) \/ CompactValid(log[n])}

CompactItems(log) == [i \in Ids |-> LastWrite(log, CompactCounted(log), i)]

Live(book) == {i \in Ids : book[i] # Absent}

\* The files Compact may write: one line per remaining lesson.  They are
\* sorted by creation date, which is left open.
CompactedFiles(log) ==
  LET book == CompactItems(log)
      k    == Cardinality(Live(book))
  IN  {[n \in 1..k |-> LineOf(order[n], book[order[n]])] :
         order \in {f \in [1..k -> Live(book)] :
                      \A m, n \in 1..k : m # n => f[m] # f[n]}}

CurrentBook == ReadItems(jsonl.lines)
-----------------------------------------------------------------------------
(* Processes. *)

\* A process's memory.  Writers: cmd, the lines todo, the ids known to exist,
\* the inode fd that is open.  Readers: the items read (snap), the stat mtime.
\* compact: the temporary file tmp and its tmpTime.  History: the entries of
\* hist that were current at the start (began), at the read (seen) and at the
\* stat (statSeen).
Idle == [cmd |-> "none", todo |-> <<>>, known |-> {}, fd |-> 0,
         snap |-> Nothing, mtime |-> 0, tmp |-> <<>>, tmpTime |-> 0,
         began |-> 0, seen |-> 0, statSeen |-> 0]

\* A command ends, its memory goes with it.
Return(p) ==
  /\ pc' = [pc EXCEPT ![p] = "idle"]
  /\ loc' = [loc EXCEPT ![p] = Idle]

Goto(p, label, local) ==
  /\ pc' = [pc EXCEPT ![p] = label]
  /\ loc' = [loc EXCEPT ![p] = local]

CountCommand ==
  /\ started < MaxCommands
  /\ started' = started + 1

\* The next write of a file happens in this millisecond or in a later one.
Clock == IF CoarseClock THEN {now, now + 1} ELSE {now + 1}

(* Writing commands: what they read, and the lines they will append. *)

BeginWriting(p, cmd, todo) ==
  /\ p \in Writers
  /\ pc[p] = "idle"
  /\ CountCommand
  /\ Goto(p, "append", [Idle EXCEPT !.cmd = cmd, !.todo = todo,
                                    !.known = Live(CurrentBook), !.seen = Len(hist)])
  /\ UNCHANGED <<jsonl, now, db, txn, history>>

\* learn, capture --yes, detect --save: the id is a hash of the insight, so
\* an id that is taken, or was deleted, is simply written again.
Learn(p, i, c) ==
  BeginWriting(p, "learn", <<LineOf(i, [insight |-> c, wrong |-> FALSE])>>)

\* MUTANT of Update: the record is built anew, so the wrong mark is lost.
UpdateAfresh(p, i, c) ==
  /\ CurrentBook[i] # Absent
  /\ BeginWriting(p, "update", <<LineOf(i, [insight |-> c, wrong |-> FALSE])>>)

Update(p, i, c) ==
  /\ CurrentBook[i] # Absent
  /\ BeginWriting(p, "update", <<LineOf(i, [CurrentBook[i] EXCEPT !.insight = c])>>)

\* wrong (w = TRUE) and validate (w = FALSE): nothing to do when the mark is
\* already there.
Mark(p, i, w) ==
  /\ CurrentBook[i] # Absent
  /\ CurrentBook[i].wrong = ~w
  /\ BeginWriting(p, "mark", <<LineOf(i, [CurrentBook[i] EXCEPT !.wrong = w])>>)

\* delete takes a list of ids, which may name one twice.
Delete(p, args) ==
  BeginWriting(p, "delete", [n \in DOMAIN args |-> TombstoneLine(args[n])])

\* import: an empty file imports nothing.
Import(p, file) ==
  /\ file # <<>>
  /\ BeginWriting(p, "import", file)

\* MUTANT of Skipped: delete does not look at what it has read.
SkippedByImport(local) ==
  LET l == Head(local.todo)
  IN  /\ local.cmd = "import"
      /\ l.id \in local.known \/ ~CompactValid(l)

\* delete warns about ids that are not among the items it read; import passes
\* over records that ValidateItem refuses, be they deleted or not, and over ids
\* that it read or has itself imported.
Skipped(local) ==
  LET l == Head(local.todo)
  IN  CASE local.cmd = "delete" -> l.id \notin local.known
        [] local.cmd = "import" -> l.id \in local.known \/ ~CompactValid(l)
        [] OTHER                -> FALSE

Proceed(p, local) ==
  IF Tail(local.todo) = <<>>
  THEN Return(p)
  ELSE Goto(p, "append", [local EXCEPT !.todo = Tail(local.todo), !.fd = 0])

SkipLine(p) ==
  /\ pc[p] = "append"
  /\ Skipped(loc[p])
  /\ Proceed(p, loc[p])
  /\ UNCHANGED <<jsonl, now, db, txn, started, history>>

\* AppendItem, os.OpenFile: creates the file when there is none.
OpenLog(p) ==
  /\ pc[p] = "append"
  /\ ~Skipped(loc[p])
  /\ IF jsonl.mtime = 0
     THEN \E t \in Clock : jsonl' = [jsonl EXCEPT !.mtime = t] /\ now' = t
     ELSE UNCHANGED <<jsonl, now>>
  /\ Goto(p, "write", [loc[p] EXCEPT !.fd = jsonl.inode])
  /\ UNCHANGED <<db, txn, started, history>>

\* AppendItem, f.Write.  A file that compact has replaced since it was opened
\* takes the line with it.
WriteLine(p) ==
  LET l == Head(loc[p].todo)
  IN
  /\ pc[p] = "write"
  /\ IF loc[p].fd = jsonl.inode
     THEN \E t \in Clock :
            /\ jsonl' = [jsonl EXCEPT !.lines = Append(jsonl.lines, l), !.mtime = t]
            /\ now' = t
            /\ hist' = Append(hist, CurrentBook')
            /\ author' = loc[p].cmd
            /\ backdated' = (backdated \/ t <= jsonl.mtime)
     ELSE UNCHANGED <<jsonl, now, hist, author, backdated>>
  /\ Proceed(p, IF loc[p].cmd = "import"
                THEN [loc[p] EXCEPT !.known = @ \cup {l.id}]
                ELSE loc[p])
  /\ UNCHANGED <<db, txn, started, idxVer, torn>>
-----------------------------------------------------------------------------
(* The index. *)

\* search, check-plan, rebuild: SyncIfNeeded first stats the JSONL file.
BeginSearch(p) ==
  /\ pc[p] = "idle"
  /\ Goto(p, IF jsonl.mtime = 0 THEN "query" ELSE "check",
          [Idle EXCEPT !.cmd = "search", !.mtime = jsonl.mtime, !.began = Len(hist)])
  /\ UNCHANGED <<jsonl, now, db, txn, started, history>>

\* MUTANT of NeedsRebuild: a tolerance on the clock.
NeedsRebuildLater(mtime, lastSync) == lastSync = 0 \/ mtime > lastSync + 1

NeedsRebuild(mtime, lastSync) == lastSync = 0 \/ mtime > lastSync

\* MUTANT of CheckSync: leave the work to a rebuild that is already running.
TrustRunningRebuild(p) ==
  /\ pc[p] = "check"
  /\ Goto(p, IF NeedsRebuild(loc[p].mtime, db.lastSync) /\ txn = NoProc
             THEN "load" ELSE "query", loc[p])
  /\ UNCHANGED <<jsonl, now, db, txn, started, history>>

\* SyncIfNeeded: the stat is compared with the last sync that the index has.
CheckSync(p) ==
  /\ pc[p] = "check"
  /\ Goto(p, IF NeedsRebuild(loc[p].mtime, db.lastSync) THEN "load" ELSE "query",
          loc[p])
  /\ UNCHANGED <<jsonl, now, db, txn, started, history>>

\* rebuild --force.
BeginRebuild(p) ==
  /\ pc[p] = "idle"
  /\ Goto(p, "load", [Idle EXCEPT !.cmd = "rebuild", !.began = Len(hist)])
  /\ UNCHANGED <<jsonl, now, db, txn, started, history>>

\* RebuildIndex: ReadItems, before the transaction.
LoadItems(p) ==
  /\ pc[p] = "load"
  /\ Goto(p, "begin", [loc[p] EXCEPT !.snap = CurrentBook, !.seen = Len(hist)])
  /\ UNCHANGED <<jsonl, now, db, txn, started, history>>

\* RebuildIndex: the first write of the transaction takes SQLite's write
\* lock; the rows are replaced, then the JSONL file is stated.
BeginTxn(p) ==
  /\ pc[p] = "begin"
  /\ txn = NoProc
  /\ txn' = p
  /\ Goto(p, "commit", [loc[p] EXCEPT !.mtime = jsonl.mtime, !.statSeen = Len(hist)])
  /\ UNCHANGED <<jsonl, now, db, started, history>>

\* MUTANT of BusyTimeout: wait for the lock without limit.
WaitForever(p) == FALSE

\* busy_timeout: the lock was held too long and the command fails.
BusyTimeout(p) ==
  /\ pc[p] = "begin"
  /\ txn # NoProc
  /\ Return(p)
  /\ UNCHANGED <<jsonl, now, db, txn, started, history>>

Commit(p) ==
  /\ pc[p] = "commit"
  /\ db' = [rows |-> loc[p].snap,
            lastSync |-> IF loc[p].mtime > 0 THEN loc[p].mtime ELSE db.lastSync]
  /\ txn' = NoProc
  /\ idxVer' = loc[p].seen
  /\ torn' = (loc[p].seen # loc[p].statSeen)
  /\ Goto(p, "query", loc[p])
  /\ UNCHANGED <<jsonl, now, started, hist, author, backdated>>

\* The command answers from the rows (compact and rebuild only report).
Query(p) ==
  /\ pc[p] = "query"
  /\ Return(p)
  /\ UNCHANGED <<jsonl, now, db, txn, started, history>>
-----------------------------------------------------------------------------
(* compact. *)

BeginCompact(p, force) ==
  /\ p \in Writers
  /\ pc[p] = "idle"
  /\ CountCommand
  /\ force \/ CountTombstones(jsonl.lines) >= TombstoneThreshold
  /\ Goto(p, "compact", [Idle EXCEPT !.cmd = "compact", !.began = Len(hist)])
  /\ UNCHANGED <<jsonl, now, db, txn, history>>

\* Compact: parseCompactRecords over the whole file.
CompactRead(p) ==
  /\ pc[p] = "compact"
  /\ IF jsonl.mtime = 0
     THEN Goto(p, "load", loc[p])
     ELSE \E file \in CompactedFiles(jsonl.lines) :
            Goto(p, "temp", [loc[p] EXCEPT !.tmp = file, !.seen = Len(hist)])
  /\ UNCHANGED <<jsonl, now, db, txn, started, history>>

\* writeCompactedFile: the temporary file gets its mtime here.
CompactTemp(p) ==
  /\ pc[p] = "temp"
  /\ \E t \in Clock :
       /\ now' = t
       /\ Goto(p, "rename", [loc[p] EXCEPT !.tmpTime = t])
  /\ UNCHANGED <<jsonl, db, txn, started, history>>

\* writeCompactedFile: the rename; rebuildAfterCompact follows.
CompactRename(p) ==
  /\ pc[p] = "rename"
  /\ jsonl' = [lines |-> loc[p].tmp, mtime |-> loc[p].tmpTime, inode |-> jsonl.inode + 1]
  /\ hist' = Append(hist, CurrentBook')
  /\ backdated' = (backdated \/ loc[p].tmpTime <= jsonl.mtime)
  /\ Goto(p, "load", [loc[p] EXCEPT !.tmp = <<>>, !.tmpTime = 0])
  /\ UNCHANGED <<now, db, txn, started, author, idxVer, torn>>
-----------------------------------------------------------------------------
\* The process is killed; SQLite rolls its transaction back.
Crash(p) ==
  /\ pc[p] # "idle"
  /\ Return(p)
  /\ txn' = IF txn = p THEN NoProc ELSE txn
  /\ UNCHANGED <<jsonl, now, db, started, history>>

Begin(p) ==
  \/ \E i \in Ids, c \in Insights \cup {NoInsight} : Learn(p, i, c)
  \/ \E i \in Ids, c \in Insights \cup {NoInsight} : Update(p, i, c)
  \/ \E i \in Ids, w \in BOOLEAN : Mark(p, i, w)
  \/ \E args \in {<<i>> : i \in Ids} \cup (Ids \X Ids) : Delete(p, args)
  \/ \E file \in ImportFiles : Import(p, file)
  \/ \E force \in BOOLEAN : BeginCompact(p, force)
  \/ BeginSearch(p)
  \/ BeginRebuild(p)

Step(p) ==
  \/ SkipLine(p)
  \/ OpenLog(p)
  \/ WriteLine(p)
  \/ CheckSync(p)
  \/ LoadItems(p)
  \/ BeginTxn(p)
  \/ BusyTimeout(p)
  \/ Commit(p)
  \/ Query(p)
  \/ CompactRead(p)
  \/ CompactTemp(p)
  \/ CompactRename(p)

Init ==
  /\ \E log \in InitialLogs :
       jsonl = [lines |-> log, mtime |-> IF log = <<>> THEN 0 ELSE 1, inode |-> 1]
  /\ now = 1
  /\ db = [rows |-> Nothing, lastSync |-> 0]
  /\ txn = NoProc
  /\ pc = [p \in Procs |-> "idle"]
  /\ loc = [p \in Procs |-> Idle]
  /\ started = 0
  /\ hist = <<CurrentBook>>
  /\ author = "none"
  /\ idxVer = 0
  /\ torn = FALSE
  /\ backdated = FALSE

Next == \E p \in Procs : Begin(p) \/ Step(p) \/ Crash(p)

Spec == Init /\ [][Next]_vars

\* A command that has been started keeps running unless it is killed; nothing
\* makes a user start one.
FairSpec == Spec /\ \A p \in Procs : WF_vars(Step(p))
-----------------------------------------------------------------------------
(* What the store guarantees. *)

WritingCommands == {"learn", "update", "mark", "delete", "import"}

Local == [cmd: {"none", "search", "rebuild", "compact"} \cup WritingCommands,
          todo: Seq(Line), known: SUBSET Ids, fd: Nat,
          snap: Book, mtime: Nat, tmp: Seq(Line), tmpTime: Nat,
          began: Nat, seen: Nat, statSeen: Nat]

\* Every variable has its type: only validated records reach a book.
TypeOK ==
  /\ jsonl \in [lines: Seq(Line), mtime: Nat, inode: Nat]
  /\ now \in Nat \ {0}
  /\ db \in [rows: Book, lastSync: Nat]
  /\ txn \in Procs \cup {NoProc}
  /\ pc \in [Procs -> {"idle", "append", "write", "check", "load", "begin",
                       "commit", "query", "compact", "temp", "rename"}]
  /\ loc \in [Procs -> Local]
  /\ started \in 0..MaxCommands
  /\ hist \in Seq(Book)
  /\ author \in {"none"} \cup WritingCommands
  /\ idxVer \in Nat
  /\ torn \in BOOLEAN
  /\ backdated \in BOOLEAN

\* The index never mixes two states of the file, whoever writes, rebuilds or
\* is killed meanwhile: its rows are those of one book that the file held
\* (RebuildIndex deletes and reinserts in one transaction).
IndexIsAPastBook ==
  \/ db.rows = Nothing
  \/ \E n \in DOMAIN hist : db.rows = hist[n]

\* SyncIfNeeded notices an index that no longer shows the file, unless the
\* index was built from a file older than the mtime it recorded, or two
\* writes share a millisecond (or compact renamed an older file in).
StaleIndexIsNoticed ==
  ~torn /\ ~backdated /\ db.rows # CurrentBook =>
    jsonl.mtime # 0 /\ NeedsRebuild(jsonl.mtime, db.lastSync)

\* With the same provisos a search answers from a book that the file held at
\* some time since the command began: what was written before is seen, even
\* when other commands rebuild the index at the same time.
SearchSeesEarlierWrites ==
  \A p \in Procs :
    pc[p] = "query" /\ ~torn /\ ~backdated =>
      \E n \in loc[p].began..Len(hist) : db.rows = hist[n]

\* compact changes no lesson when nobody wrote since it read the file and no
\* record has null arrays.
CompactKeepsBook ==
  [][\A p \in Procs :
       /\ pc[p] = "rename" /\ pc'[p] = "load"
       /\ loc[p].seen = Len(hist)
       /\ \A n \in DOMAIN jsonl.lines : jsonl.lines[n].arrays
       => CurrentBook' = CurrentBook]_vars

Abstract == INSTANCE LessonBook
              WITH book <- CurrentBook,
                   shown <- db.rows,
                   past <- {Nothing} \cup {hist[n] : n \in DOMAIN hist}

\* With one writer the store is a LessonBook: commands take effect one by one
\* on the current lessons, and compactions, rebuilds and crashes cannot be
\* told from nothing happening.
IsALessonBook == Abstract!Spec

\* The entries of hist that commands under way have read.
UnderWay(label) == label \in {"append", "write", "temp", "rename", "begin", "commit"}

Reads == {loc[p].seen : p \in {q \in Procs : UnderWay(pc[q])}}

Shared == INSTANCE SharedBook
            WITH book <- CurrentBook, shown <- db.rows, held <- hist, reads <- Reads

\* With any number of writers the store is a SharedBook: a command under way
\* changes one lesson at a time, to what it made of a book that it has read,
\* compact puts back the book that it has read, and the index shows the book
\* that a rebuild has read; nothing else ever changes a lesson.
IsASharedBook == Shared!Spec

\* Every command ends, even when the write lock is always taken.
EveryCommandEnds == \A p \in Procs : pc[p] # "idle" ~> pc[p] = "idle"
-----------------------------------------------------------------------------
(* The inductive invariant behind IndexIsAPastBook and StaleIndexIsNoticed. *)

\* A process in the append loop has a line to write.
TodoInv ==
  \A p \in Procs :
    pc[p] \in {"append", "write"} =>
      loc[p].todo # <<>> /\ loc[p].cmd \in WritingCommands

\* SQLite's write lock is held between BeginTxn and Commit.
LockInv == \A p \in Procs : pc[p] = "commit" <=> txn = p

\* The history ends with what the file says now.
HistInv == hist # <<>> /\ hist[Len(hist)] = CurrentBook

\* A rebuild holds the items of a file that was there.
SnapInv ==
  \A p \in Procs :
    pc[p] \in {"begin", "commit"} =>
      loc[p].seen \in 1..Len(hist) /\ loc[p].snap = hist[loc[p].seen]

\* While every write raises the mtime: last_sync_mtime and the stats in flight
\* are not ahead of the file, and where they are equal to its mtime nothing
\* has been written since.
SyncInv ==
  ~backdated =>
    /\ db.lastSync <= jsonl.mtime
    /\ ~torn /\ db.lastSync = jsonl.mtime => db.rows = CurrentBook
    /\ \A p \in Procs :
         pc[p] = "commit" =>
           /\ loc[p].mtime <= jsonl.mtime
           /\ loc[p].mtime = jsonl.mtime => loc[p].statSeen = Len(hist)
           /\ loc[p].mtime = 0 => db.lastSync = 0

IInv ==
  /\ TypeOK
  /\ TodoInv
  /\ LockInv
  /\ HistInv
  /\ SnapInv
  /\ IndexIsAPastBook
  /\ SyncInv

(* What SearchSeesEarlierWrites rests on besides. *)

\* The rows are those of the entry of hist that idxVer names.
VersionInv ==
  \/ idxVer = 0 /\ db.rows = Nothing
  \/ idxVer \in 1..Len(hist) /\ db.rows = hist[idxVer]

\* Where a process is that neither rests nor appends.
Reading(label) == label \notin {"idle", "append", "write"}

\* Who reads began, read and stated in this order.
OrderInv ==
  \A p \in Procs :
    /\ Reading(pc[p]) => loc[p].began \in 1..Len(hist)
    /\ pc[p] \in {"begin", "commit"} => loc[p].began <= loc[p].seen
    /\ pc[p] = "commit" => loc[p].seen <= loc[p].statSeen /\ loc[p].statSeen <= Len(hist)

\* What p has found, or will find, in the index.
Found(p) ==
  /\ pc[p] = "check" => 0 < loc[p].mtime /\ loc[p].mtime <= jsonl.mtime
  /\ pc[p] = "check" /\ ~torn /\ ~NeedsRebuild(loc[p].mtime, db.lastSync)
       => loc[p].began <= idxVer
  /\ pc[p] = "query" /\ ~torn
       => loc[p].began <= idxVer \/ db.rows = hist[loc[p].began]

\* What p finds there once q has committed.
WillFind(p, q) ==
  pc[q] = "commit" =>
    /\ db.lastSync <= loc[q].mtime
    /\ pc[p] = "check" /\ loc[p].mtime <= loc[q].mtime => loc[p].began <= loc[q].statSeen
    /\ pc[p] = "query" => loc[p].began <= loc[q].statSeen

\* While every write raises the mtime: who has found the index new enough
\* finds there what was written before it began, and no rebuild that is under
\* way takes it back.
SearchInv ==
  ~backdated =>
    /\ jsonl.mtime = 0 => Len(hist) = 1
    /\ ~torn /\ db.lastSync = jsonl.mtime /\ db.lastSync # 0 => idxVer = Len(hist)
    /\ \A p \in Procs : Found(p)
    /\ \A p, q \in Procs : WillFind(p, q)

(* What CompactKeepsBook and IsALessonBook rest on besides. *)

\* The temporary file of compact is a copy of the file, while nobody writes.
CompactInv ==
  \A p \in Procs :
    pc[p] \in {"temp", "rename"} =>
      /\ loc[p].seen <= Len(hist)
      /\ loc[p].seen = Len(hist) => loc[p].tmp \in CompactedFiles(jsonl.lines)

\* IsALessonBook is promised to one writer, and to a file in which readers and
\* compact see the same records.
OneWriter == \A p, q \in Writers : p = q

Modern(log) == \A n \in DOMAIN log : Tombstone(log[n]) \/ ~Valid(log[n]) \/ log[n].arrays

\* The lines that a command has left to write fit a book.
Fits(local, book) ==
  /\ local.cmd = "learn" =>
       \E i \in Ids, c \in Insights \cup {NoInsight} :
         local.todo = <<LineOf(i, [insight |-> c, wrong |-> FALSE])>>
  /\ local.cmd = "update" =>
       \E i \in Ids, c \in Insights \cup {NoInsight} :
         /\ book[i] # Absent
         /\ local.todo = <<LineOf(i, [book[i] EXCEPT !.insight = c])>>
  /\ local.cmd = "mark" =>
       \E i \in Ids, w \in BOOLEAN :
         /\ book[i] # Absent
         /\ book[i].wrong = ~w
         /\ local.todo = <<LineOf(i, [book[i] EXCEPT !.wrong = w])>>
  /\ local.cmd = "delete" =>
       \A n \in DOMAIN local.todo : \E i \in Ids : local.todo[n] = TombstoneLine(i)
  /\ local.cmd = "import" => Live(book) \subseteq local.known

\* What a command has read stays true until it has written.
Undisturbed(p) ==
  /\ pc[p] \in {"append", "write", "compact", "temp", "rename"} => p \in Writers
  /\ pc[p] \in {"append", "write"} => Fits(loc[p], CurrentBook)
  /\ pc[p] = "write" => ~Skipped(loc[p])
  /\ pc[p] \in {"temp", "rename"} => loc[p].seen = Len(hist)

WriterInv ==
  /\ Modern(jsonl.lines)
  /\ \A p \in Procs : Undisturbed(p)

(* What IsASharedBook rests on besides. *)

\* p works from a book that the file held: its lines fit that book, delete
\* knows no other ids, and a compacted file says the same.
WorksFrom(p) ==
  /\ UnderWay(pc[p]) => loc[p].seen \in 1..Len(hist)
  /\ pc[p] \in {"append", "write"} =>
       /\ Fits(loc[p], hist[loc[p].seen])
       /\ loc[p].cmd = "delete" => loc[p].known \subseteq Live(hist[loc[p].seen])
  /\ pc[p] = "write" => ~Skipped(loc[p])
  /\ pc[p] \in {"temp", "rename"} =>
       Modern(loc[p].tmp) /\ ReadItems(loc[p].tmp) = hist[loc[p].seen]

SharedInv ==
  /\ Modern(jsonl.lines)
  /\ \A p \in Procs : WorksFrom(p)
-----------------------------------------------------------------------------
(* What the documents claim and the code does not keep. *)

\* p's line reaches the file in this step.
Writes(p) == pc[p] = "write" /\ hist' # hist

\* docs/invariants/crud-commands.md SP-4: "Update command must fail if target
\* lesson is deleted".  The check and the append are separate steps.
UpdateFailsIfDeleted ==
  [][\A p \in Procs :
       Writes(p) /\ loc[p].cmd = "update" =>
         CurrentBook[Head(loc[p].todo).id] # Absent]_vars

\* docs/invariants/storage.md L2: "rebuildIndex reflects all current JSONL
\* lessons".  When everything is quiet and no search would rebuild an index
\* that was built, it does not.
QuietIndexIsCurrent ==
  /\ \A p \in Procs : pc[p] = "idle"
  /\ idxVer # 0
  /\ ~NeedsRebuild(jsonl.mtime, db.lastSync)
  => db.rows = CurrentBook
=============================================================================
