------------------------- MODULE LessonStoreProofs -------------------------
(* Proofs about LessonStore, for every value of its constants. *)
EXTENDS LessonStore, TLAPS, SequenceTheorems, FiniteSetTheorems
-----------------------------------------------------------------------------
(* What the readers of the JSONL file return. *)

\* Whatever positions count, as long as those without a tombstone carry an
\* insight, the last write for an id is a lesson or nothing.
LEMMA LastWriteType ==
  ASSUME NEW log \in Seq(Line), NEW counted \in SUBSET DOMAIN log,
         \A n \in counted : Tombstone(log[n]) \/ Valid(log[n]),
         NEW i \in Ids
  PROVE  LastWrite(log, counted, i) \in Lesson \cup {Absent}
<1> DEFINE mine == {n \in counted : log[n].id = i}
           last == {n \in mine : ~Tombstone(log[n]) /\ \A m \in mine : m <= n}
<1>1. CASE last = {}
  BY <1>1 DEF LastWrite
<1>2. CASE last # {}
  <2> DEFINE n == CHOOSE n \in last : TRUE
  <2>1. n \in last
    BY <1>2
  <2>2. log[n] \in Line /\ Valid(log[n])
    BY <2>1
  <2>3. LessonOf(log[n]) \in Lesson
    BY <2>2 DEF Line, Lesson, LessonOf, Valid
  <2>4. LastWrite(log, counted, i) = LessonOf(log[n])
    BY <1>2 DEF LastWrite
  <2>5. QED
    BY <2>3, <2>4
<1>3. QED
  BY <1>1, <1>2

\* ReadItems returns validated lessons only.
LEMMA ReadItemsType ==
  ASSUME NEW log \in Seq(Line)
  PROVE  ReadItems(log) \in Book
<1>1. \A i \in Ids : LastWrite(log, Counted(log), i) \in Lesson \cup {Absent}
  BY LastWriteType DEF Counted
<1>2. QED
  BY <1>1 DEF ReadItems, Book

\* So does Compact.
LEMMA CompactItemsType ==
  ASSUME NEW log \in Seq(Line)
  PROVE  CompactItems(log) \in Book
<1>1. \A i \in Ids : LastWrite(log, CompactCounted(log), i) \in Lesson \cup {Absent}
  BY LastWriteType DEF CompactCounted, CompactValid
<1>2. QED
  BY <1>1 DEF CompactItems, Book

\* A file without lines has no lessons.
LEMMA NoLinesNoLessons == ReadItems(<<>>) = Nothing
<1>1. Counted(<<>>) = {}
  BY DEF Counted
<1>2. \A i \in Ids : LastWrite(<<>>, {}, i) = Absent
  BY DEF LastWrite
<1>3. QED
  BY <1>1, <1>2 DEF ReadItems, Nothing

\* A line built from a lesson is a record.
LEMMA LineOfType ==
  ASSUME NEW i \in Ids, NEW insight \in Insights \cup {NoInsight}, NEW wrong \in BOOLEAN
  PROVE  LineOf(i, [insight |-> insight, wrong |-> wrong]) \in Line
BY DEF LineOf, Line

\* A file that Compact writes is made of records.
LEMMA CompactedFilesType ==
  ASSUME NEW log \in Seq(Line)
  PROVE  CompactedFiles(log) \subseteq Seq(Line)
<1> DEFINE book == CompactItems(log)
           k    == Cardinality(Live(book))
<1>1. k \in Nat
  <2>1. IsFiniteSet(Live(book))
    BY FS_Subset, StoreAssumption DEF Live
  <2>2. QED
    BY <2>1, FS_CardinalityType
<1>2. SUFFICES ASSUME NEW order \in [1..k -> Live(book)]
               PROVE  [n \in 1..k |-> LineOf(order[n], book[order[n]])] \in Seq(Line)
  BY DEF CompactedFiles
<1>3. ASSUME NEW n \in 1..k
      PROVE  LineOf(order[n], book[order[n]]) \in Line
  <2>1. order[n] \in Ids /\ book[order[n]] # Absent
    BY DEF Live
  <2>2. book[order[n]] \in Lesson
    BY <2>1, CompactItemsType DEF Book
  <2>3. QED
    BY <2>1, <2>2 DEF LineOf, Line, Lesson
<1>4. [n \in 1..k |-> LineOf(order[n], book[order[n]])] \in [1..k -> Line]
  BY <1>3
<1>5. QED
  BY <1>1, <1>4, IsASeq
-----------------------------------------------------------------------------
(* Types. *)

LEMMA NothingType == Nothing \in Book
BY DEF Nothing, Book

\* The memory of a process that rests is one.
LEMMA IdleType == Idle \in Local
BY NothingType, EmptySeq DEF Idle, Local

\* What the file says is a book as long as the file holds records.
LEMMA CurrentBookType ==
  ASSUME jsonl \in [lines: Seq(Line), mtime: Nat, inode: Nat]
  PROVE  CurrentBook \in Book
BY ReadItemsType DEF CurrentBook

TypeInv == TypeOK /\ TodoInv

\* The initial states are of their types.
LEMMA TypeInit == Init => TypeInv
<1> SUFFICES ASSUME Init PROVE TypeInv
  OBVIOUS
<1>1. PICK log \in InitialLogs :
        jsonl = [lines |-> log, mtime |-> IF log = <<>> THEN 0 ELSE 1, inode |-> 1]
  BY DEF Init
<1>2. jsonl \in [lines: Seq(Line), mtime: Nat, inode: Nat]
  BY <1>1, StoreAssumption
<1>3. hist \in Seq(Book)
  BY <1>2, CurrentBookType DEF Init
<1>4. loc \in [Procs -> Local]
  BY IdleType DEF Init
<1>5. db \in [rows: Book, lastSync: Nat] /\ started \in 0..MaxCommands
  BY NothingType, StoreAssumption DEF Init
<1>6. now \in Nat \ {0} /\ txn \in Procs \cup {NoProc}
  BY DEF Init
<1>7. TypeOK
  BY <1>2, <1>3, <1>4, <1>5, <1>6 DEF Init, TypeOK
<1>8. TodoInv
  BY DEF Init, TodoInv
<1>9. QED
  BY <1>7, <1>8 DEF TypeInv

\* A writing command starts with lines to write.
LEMMA BeginWritingTypes ==
  ASSUME TypeInv, NEW p \in Procs, NEW cmd \in WritingCommands,
         NEW todo \in Seq(Line), todo # <<>>, BeginWriting(p, cmd, todo)
  PROVE  TypeInv'
<1> USE DEF TypeInv
<1> DEFINE local == [Idle EXCEPT !.cmd = cmd, !.todo = todo, !.known = Live(CurrentBook),
                              !.seen = Len(hist)]
<1>1. local \in Local /\ local.todo = todo /\ local.cmd = cmd
  <2>1. Len(hist) \in Nat
    BY DEF TypeOK
  <2>2. QED
    BY <2>1, IdleType DEF Local, Idle, Live
<1>2. Goto(p, "append", local) /\ started' \in 0..MaxCommands
  BY StoreAssumption DEF BeginWriting, CountCommand, TypeOK
<1> HIDE DEF local
<1>3. TypeOK'
  BY <1>1, <1>2 DEF TypeOK, BeginWriting, Goto, history
<1>4. TodoInv'
  BY <1>1, <1>2 DEF TypeOK, TodoInv, Goto
<1>5. QED
  BY <1>3, <1>4

\* The append loop goes on only with lines left.
LEMMA ProceedTypes ==
  ASSUME TypeInv, NEW p \in Procs, NEW local \in Local, local.todo # <<>>,
         local.cmd \in WritingCommands, Proceed(p, local)
  PROVE  /\ loc' \in [Procs -> Local]
         /\ pc' \in [Procs -> {"idle", "append", "write", "check", "load", "begin",
                               "commit", "query", "compact", "temp", "rename"}]
         /\ TodoInv'
<1> USE DEF TypeInv
<1>1. Tail(local.todo) \in Seq(Line)
  BY HeadTailProperties DEF Local
<1>2. CASE Tail(local.todo) = <<>>
  BY <1>2, IdleType DEF TypeOK, TodoInv, Proceed, Return
<1>3. CASE Tail(local.todo) # <<>>
  <2> DEFINE next == [local EXCEPT !.todo = Tail(local.todo), !.fd = 0]
  <2>1. next \in Local /\ next.todo = Tail(local.todo) /\ next.cmd = local.cmd
    BY <1>1 DEF Local
  <2>2. Goto(p, "append", next)
    BY <1>3 DEF Proceed
  <2> HIDE DEF next
  <2>3. QED
    BY <1>3, <2>1, <2>2 DEF TypeOK, TodoInv, Goto
<1>4. QED
  BY <1>2, <1>3

\* Starting a command keeps the types.
LEMMA BeginTypes ==
  ASSUME TypeInv, NEW p \in Procs, Begin(p)
  PROVE  TypeInv'
<1> USE DEF TypeInv
<1>1. CurrentBook \in Book /\ Len(hist) \in Nat /\ jsonl.mtime \in Nat
  BY CurrentBookType DEF TypeOK
<1>2. ASSUME NEW i \in Ids, NEW c \in Insights \cup {NoInsight}, Learn(p, i, c)
      PROVE  TypeInv'
  <2> DEFINE l == LineOf(i, [insight |-> c, wrong |-> FALSE])
  <2>1. l \in Line
    BY LineOfType
  <2> HIDE DEF l
  <2>2. <<l>> \in Seq(Line) /\ <<l>> # <<>>
    BY <2>1
  <2>3. BeginWriting(p, "learn", <<l>>)
    BY <1>2 DEF Learn, l
  <2>4. QED
    BY <2>2, <2>3, BeginWritingTypes DEF WritingCommands
<1>3. ASSUME NEW i \in Ids, NEW c \in Insights \cup {NoInsight}, Update(p, i, c)
      PROVE  TypeInv'
  <2> DEFINE l == LineOf(i, [CurrentBook[i] EXCEPT !.insight = c])
  <2>1. CurrentBook[i] \in Lesson
    BY <1>1, <1>3 DEF Update, Book
  <2>2. l \in Line
    BY <2>1 DEF LineOf, Line, Lesson
  <2> HIDE DEF l
  <2>3. <<l>> \in Seq(Line) /\ <<l>> # <<>>
    BY <2>2
  <2>4. BeginWriting(p, "update", <<l>>)
    BY <1>3 DEF Update, l
  <2>5. QED
    BY <2>3, <2>4, BeginWritingTypes DEF WritingCommands
<1>4. ASSUME NEW i \in Ids, NEW w \in BOOLEAN, Mark(p, i, w)
      PROVE  TypeInv'
  <2> DEFINE l == LineOf(i, [CurrentBook[i] EXCEPT !.wrong = w])
  <2>1. CurrentBook[i] \in Lesson
    BY <1>1, <1>4 DEF Mark, Book
  <2>2. l \in Line
    BY <2>1 DEF LineOf, Line, Lesson
  <2> HIDE DEF l
  <2>3. <<l>> \in Seq(Line) /\ <<l>> # <<>>
    BY <2>2
  <2>4. BeginWriting(p, "mark", <<l>>)
    BY <1>4 DEF Mark, l
  <2>5. QED
    BY <2>3, <2>4, BeginWritingTypes DEF WritingCommands
<1>5. ASSUME NEW args \in {<<i>> : i \in Ids} \cup (Ids \X Ids), Delete(p, args)
      PROVE  TypeInv'
  <2> DEFINE todo == [n \in DOMAIN args |-> TombstoneLine(args[n])]
  <2>1. args \in Seq(Ids) /\ args # <<>>
    <3>1. CASE args \in {<<i>> : i \in Ids}
      <4>1. PICK i \in Ids : args = <<i>>
        BY <3>1
      <4>2. QED
        BY <4>1
    <3>2. CASE args \in Ids \X Ids
      <4>1. PICK i \in Ids, j \in Ids : args = <<i, j>>
        BY <3>2
      <4>2. QED
        BY <4>1
    <3>3. QED
      BY <3>1, <3>2
  <2>2. \A n \in DOMAIN args : TombstoneLine(args[n]) \in Line
    BY <2>1 DEF TombstoneLine, Line
  <2>3. todo \in Seq(Line) /\ todo # <<>>
    BY <2>1, <2>2
  <2>4. BeginWriting(p, "delete", todo)
    BY <1>5 DEF Delete
  <2> HIDE DEF todo
  <2>5. QED
    BY <2>3, <2>4, BeginWritingTypes DEF WritingCommands
<1>6. ASSUME NEW file \in ImportFiles, Import(p, file)
      PROVE  TypeInv'
  <2>1. file \in Seq(Line) /\ file # <<>> /\ BeginWriting(p, "import", file)
    BY <1>6, StoreAssumption DEF Import
  <2>2. QED
    BY <2>1, BeginWritingTypes DEF WritingCommands
<1>7. ASSUME NEW force \in BOOLEAN, BeginCompact(p, force)
      PROVE  TypeInv'
  <2> DEFINE local == [Idle EXCEPT !.cmd = "compact", !.began = Len(hist)]
  <2>1. local \in Local
    BY <1>1, IdleType DEF Local, Idle
  <2>2. Goto(p, "compact", local) /\ started' \in 0..MaxCommands
    BY <1>7, StoreAssumption DEF BeginCompact, CountCommand, TypeOK
  <2> HIDE DEF local
  <2>3. QED
    BY <1>7, <2>1, <2>2 DEF TypeOK, TodoInv, BeginCompact, Goto, history
<1>8. CASE BeginSearch(p)
  <2> DEFINE local == [Idle EXCEPT !.cmd = "search", !.mtime = jsonl.mtime,
                                   !.began = Len(hist)]
  <2>1. local \in Local
    BY <1>1, IdleType DEF Local, Idle
  <2>2. Goto(p, IF jsonl.mtime = 0 THEN "query" ELSE "check", local)
    BY <1>8 DEF BeginSearch
  <2> HIDE DEF local
  <2>3. QED
    BY <1>8, <2>1, <2>2 DEF TypeOK, TodoInv, BeginSearch, Goto, history
<1>9. CASE BeginRebuild(p)
  <2> DEFINE local == [Idle EXCEPT !.cmd = "rebuild", !.began = Len(hist)]
  <2>1. local \in Local
    BY <1>1, IdleType DEF Local, Idle
  <2>2. Goto(p, "load", local)
    BY <1>9 DEF BeginRebuild
  <2> HIDE DEF local
  <2>3. QED
    BY <1>9, <2>1, <2>2 DEF TypeOK, TodoInv, BeginRebuild, Goto, history
<1>10. QED
  BY <1>2, <1>3, <1>4, <1>5, <1>6, <1>7, <1>8, <1>9 DEF Begin
\* Every later step of a command keeps the types.
LEMMA StepTypes ==
  ASSUME TypeInv, NEW p \in Procs, Step(p)
  PROVE  TypeInv'
<1> USE DEF TypeInv
<1> DEFINE local == loc[p]
<1>1. /\ CurrentBook \in Book /\ Len(hist) \in Nat
      /\ jsonl.mtime \in Nat /\ jsonl.inode \in Nat /\ jsonl.lines \in Seq(Line)
      /\ local \in Local
  BY CurrentBookType DEF TypeOK
<1>2. ASSUME NEW t \in Clock PROVE t \in Nat \ {0}
  BY DEF Clock, TypeOK
<1>3. CASE SkipLine(p)
  <2>1. local.todo # <<>> /\ local.cmd \in WritingCommands /\ Proceed(p, local)
    BY <1>3 DEF SkipLine, TodoInv
  <2>2. /\ loc' \in [Procs -> Local]
        /\ pc' \in [Procs -> {"idle", "append", "write", "check", "load", "begin",
                               "commit", "query", "compact", "temp", "rename"}]
        /\ TodoInv'
    BY <1>1, <2>1, ProceedTypes
  <2>3. QED
    BY <1>3, <2>2 DEF TypeOK, SkipLine, history
<1>4. CASE OpenLog(p)
  <2> DEFINE next == [local EXCEPT !.fd = jsonl.inode]
  <2>1. next \in Local /\ next.todo = local.todo /\ next.cmd = local.cmd
    BY <1>1 DEF Local
  <2>2. Goto(p, "write", next) /\ pc[p] = "append"
    BY <1>4 DEF OpenLog
  <2>3. jsonl' \in [lines: Seq(Line), mtime: Nat, inode: Nat] /\ now' \in Nat \ {0}
    BY <1>2, <1>4 DEF TypeOK, OpenLog
  <2> HIDE DEF next
  <2>4. TodoInv'
    BY <2>1, <2>2 DEF TypeOK, TodoInv, Goto
  <2>5. UNCHANGED <<db, txn, started, history>>
    BY <1>4 DEF OpenLog
  <2>6. QED
    BY <2>1, <2>2, <2>3, <2>4, <2>5 DEF TypeOK, Goto, history
<1>5. CASE WriteLine(p)
  <2> DEFINE l    == Head(local.todo)
             next == IF local.cmd = "import"
                     THEN [local EXCEPT !.known = @ \cup {l.id}]
                     ELSE local
  <2>1. local.todo # <<>> /\ local.cmd \in WritingCommands
    BY <1>5 DEF WriteLine, TodoInv
  <2>2. l \in Line
    BY <1>1, <2>1, HeadTailProperties DEF Local
  <2>3. l.id \in Ids
    BY <2>2 DEF Line
  <2> HIDE DEF l
  <2>4. next \in Local /\ next.todo = local.todo /\ next.cmd = local.cmd
    BY <1>1, <2>3 DEF Local
  <2>5. Proceed(p, next)
    BY <1>5 DEF WriteLine, l
  <2> HIDE DEF next
  <2>6. /\ loc' \in [Procs -> Local]
        /\ pc' \in [Procs -> {"idle", "append", "write", "check", "load", "begin",
                               "commit", "query", "compact", "temp", "rename"}]
        /\ TodoInv'
    BY <2>1, <2>4, <2>5, ProceedTypes
  <2>7. /\ jsonl' \in [lines: Seq(Line), mtime: Nat, inode: Nat] /\ now' \in Nat \ {0}
        /\ hist' \in Seq(Book) /\ author' \in {"none"} \cup WritingCommands
        /\ backdated' \in BOOLEAN
    <3>1. CASE local.fd = jsonl.inode
      <4>1. PICK t \in Clock :
              /\ jsonl' = [jsonl EXCEPT !.lines = Append(jsonl.lines, l), !.mtime = t]
              /\ now' = t
              /\ hist' = Append(hist, CurrentBook')
              /\ author' = loc[p].cmd
              /\ backdated' = (backdated \/ t <= jsonl.mtime)
        BY <1>5, <3>1 DEF WriteLine, l
      <4>2. Append(jsonl.lines, l) \in Seq(Line)
        BY <1>1, <2>2
      <4>3. jsonl' \in [lines: Seq(Line), mtime: Nat, inode: Nat]
        BY <1>2, <4>1, <4>2 DEF TypeOK
      <4>4. CurrentBook' \in Book
        BY <4>3, ReadItemsType DEF CurrentBook
      <4>5. hist' \in Seq(Book)
        BY <4>1, <4>4 DEF TypeOK
      <4>6. backdated' \in BOOLEAN
        BY <4>1
      <4>7. QED
        BY <1>2, <2>1, <4>1, <4>3, <4>5, <4>6
    <3>2. CASE local.fd # jsonl.inode
      BY <1>5, <3>2 DEF WriteLine, TypeOK
    <3>3. QED
      BY <3>1, <3>2
  <2>8. QED
    BY <1>5, <2>6, <2>7 DEF TypeOK, WriteLine
<1>6. CASE CheckSync(p)
  <2>1. Goto(p, IF NeedsRebuild(local.mtime, db.lastSync) THEN "load" ELSE "query", local)
    BY <1>6 DEF CheckSync
  <2> HIDE DEF local
  <2>2. QED
    BY <1>1, <1>6, <2>1 DEF TypeOK, TodoInv, CheckSync, Goto, history
<1>7. CASE LoadItems(p)
  <2> DEFINE next == [local EXCEPT !.snap = CurrentBook, !.seen = Len(hist)]
  <2>1. next \in Local
    BY <1>1 DEF Local
  <2>2. Goto(p, "begin", next)
    BY <1>7 DEF LoadItems
  <2> HIDE DEF next
  <2>3. QED
    BY <1>7, <2>1, <2>2 DEF TypeOK, TodoInv, LoadItems, Goto, history
<1>8. CASE BeginTxn(p)
  <2> DEFINE next == [local EXCEPT !.mtime = jsonl.mtime, !.statSeen = Len(hist)]
  <2>1. next \in Local
    BY <1>1 DEF Local
  <2>2. Goto(p, "commit", next)
    BY <1>8 DEF BeginTxn
  <2> HIDE DEF next
  <2>3. QED
    BY <1>8, <2>1, <2>2 DEF TypeOK, TodoInv, BeginTxn, Goto, history
<1>9. CASE BusyTimeout(p)
  BY <1>9, IdleType DEF TypeOK, TodoInv, BusyTimeout, Return, history
<1>10. CASE Commit(p)
  <2>1. /\ local.snap \in Book /\ local.mtime \in Nat /\ local.seen \in Nat
        /\ local.statSeen \in Nat
    BY <1>1 DEF Local
  <2>2. db' \in [rows: Book, lastSync: Nat]
    BY <1>10, <2>1 DEF TypeOK, Commit
  <2>3. idxVer' \in Nat /\ torn' \in BOOLEAN /\ Goto(p, "query", local)
    BY <1>10, <2>1 DEF Commit
  <2> HIDE DEF local
  <2>4. QED
    BY <1>1, <1>10, <2>2, <2>3 DEF TypeOK, TodoInv, Commit, Goto
<1>11. CASE Query(p)
  BY <1>11, IdleType DEF TypeOK, TodoInv, Query, Return, history
<1>12. CASE CompactRead(p)
  <2>1. CASE jsonl.mtime = 0
    <3>1. Goto(p, "load", local)
      BY <1>12, <2>1 DEF CompactRead
    <3> HIDE DEF local
    <3>2. QED
      BY <1>1, <1>12, <3>1 DEF TypeOK, TodoInv, CompactRead, Goto, history
  <2>2. CASE jsonl.mtime # 0
    <3>1. PICK file \in CompactedFiles(jsonl.lines) :
            Goto(p, "temp", [local EXCEPT !.tmp = file, !.seen = Len(hist)])
      BY <1>12, <2>2 DEF CompactRead
    <3> DEFINE next == [local EXCEPT !.tmp = file, !.seen = Len(hist)]
    <3>2. next \in Local
      BY <1>1, CompactedFilesType DEF Local
    <3>3. Goto(p, "temp", next)
      BY <3>1
    <3> HIDE DEF next
    <3>4. QED
      BY <1>12, <3>2, <3>3 DEF TypeOK, TodoInv, CompactRead, Goto, history
  <2>3. QED
    BY <2>1, <2>2
<1>13. CASE CompactTemp(p)
  <2>1. PICK t \in Clock : now' = t /\ Goto(p, "rename", [local EXCEPT !.tmpTime = t])
    BY <1>13 DEF CompactTemp
  <2> DEFINE next == [local EXCEPT !.tmpTime = t]
  <2>2. next \in Local /\ t \in Nat \ {0}
    BY <1>1, <1>2 DEF Local
  <2>3. Goto(p, "rename", next)
    BY <2>1
  <2>4. UNCHANGED <<jsonl, db, txn, started, history>> /\ now' \in Nat \ {0}
    BY <1>13, <2>1, <2>2 DEF CompactTemp
  <2> HIDE DEF next
  <2>5. QED
    BY <2>2, <2>3, <2>4 DEF TypeOK, TodoInv, Goto, history
<1>14. CASE CompactRename(p)
  <2> DEFINE next == [local EXCEPT !.tmp = <<>>, !.tmpTime = 0]
  <2>1. next \in Local
    <3>1. PICK m \in Local : m = local
      BY <1>1
    <3>2. [m EXCEPT !.tmp = <<>>, !.tmpTime = 0] \in Local
      BY EmptySeq DEF Local
    <3>3. QED
      BY <3>1, <3>2
  <2>2. Goto(p, "load", next)
    BY <1>14 DEF CompactRename
  <2>3. jsonl' \in [lines: Seq(Line), mtime: Nat, inode: Nat]
    <3>1. local.tmp \in Seq(Line) /\ local.tmpTime \in Nat
      BY <1>1 DEF Local
    <3>2. jsonl.inode + 1 \in Nat
      BY <1>1 DEF TypeOK
    <3>3. QED
      BY <1>14, <3>1, <3>2 DEF CompactRename
  <2>4. CurrentBook' \in Book
    BY <2>3, ReadItemsType DEF CurrentBook
  <2>5. hist' \in Seq(Book) /\ backdated' \in BOOLEAN
    BY <1>14, <2>4 DEF TypeOK, CompactRename
  <2> HIDE DEF next
  <2>6. QED
    BY <1>14, <2>1, <2>2, <2>3, <2>5 DEF TypeOK, TodoInv, CompactRename, Goto
<1>15. QED
  BY <1>3, <1>4, <1>5, <1>6, <1>7, <1>8, <1>9, <1>10, <1>11, <1>12, <1>13, <1>14
  DEF Step

\* So does every step of the specification.
LEMMA TypeStep == TypeInv /\ [Next]_vars => TypeInv'
<1> SUFFICES ASSUME TypeInv, [Next]_vars PROVE TypeInv'
  OBVIOUS
<1>1. CASE UNCHANGED vars
  BY <1>1 DEF TypeInv, TypeOK, TodoInv, vars
<1>2. ASSUME NEW p \in Procs, Crash(p) PROVE TypeInv'
  BY <1>2, IdleType DEF TypeInv, TypeOK, TodoInv, Crash, Return, history
<1>3. QED
  BY <1>1, <1>2, BeginTypes, StepTypes DEF Next

\* Every variable has its type, and only validated records reach a book or
\* the index (parseLine, processCompactItem).
THEOREM TypeCorrect == Spec => []TypeOK
<1>1. TypeInv => TypeOK
  BY DEF TypeInv
<1>2. QED
  BY <1>1, TypeInit, TypeStep, PTL DEF Spec
-----------------------------------------------------------------------------
(* The index is built from one state of the file. *)

\* Starting a command disturbs nothing that the commands share, and only the
\* process's own state.
LEMMA BeginFrame ==
  ASSUME TypeInv, NEW p \in Procs, Begin(p)
  PROVE  /\ UNCHANGED <<jsonl, db, txn, history>>
         /\ pc[p] = "idle"
         /\ pc'[p] \in {"append", "compact", "query", "check", "load"}
         /\ \A q \in Procs \ {p} : pc'[q] = pc[q] /\ loc'[q] = loc[q]
<1> USE DEF TypeInv
<1>1. ASSUME NEW cmd, NEW todo, BeginWriting(p, cmd, todo)
      PROVE  /\ UNCHANGED <<jsonl, db, txn, history>>
             /\ pc[p] = "idle"
             /\ pc'[p] = "append"
             /\ \A q \in Procs \ {p} : pc'[q] = pc[q] /\ loc'[q] = loc[q]
  BY <1>1 DEF BeginWriting, Goto, TypeOK
<1>2. ASSUME NEW force \in BOOLEAN, BeginCompact(p, force)
      PROVE  /\ UNCHANGED <<jsonl, db, txn, history>>
             /\ pc[p] = "idle"
             /\ pc'[p] = "compact"
             /\ \A q \in Procs \ {p} : pc'[q] = pc[q] /\ loc'[q] = loc[q]
  BY <1>2 DEF BeginCompact, Goto, TypeOK
<1>3. CASE BeginSearch(p)
  BY <1>3 DEF BeginSearch, Goto, TypeOK
<1>4. CASE BeginRebuild(p)
  BY <1>4 DEF BeginRebuild, Goto, TypeOK
<1>5. QED
  BY <1>1, <1>2, <1>3, <1>4 DEF Begin, Learn, Update, Mark, Delete, Import

\* A later step, or a crash, changes no other process.
LEMMA StepFrame ==
  ASSUME TypeInv, NEW p \in Procs, Step(p) \/ Crash(p)
  PROVE  \A q \in Procs \ {p} : pc'[q] = pc[q] /\ loc'[q] = loc[q]
<1> USE DEF TypeInv
<1>1. ASSUME NEW label, NEW local, Goto(p, label, local)
      PROVE  \A q \in Procs \ {p} : pc'[q] = pc[q] /\ loc'[q] = loc[q]
  BY <1>1 DEF Goto, TypeOK
<1>2. ASSUME Return(p)
      PROVE  \A q \in Procs \ {p} : pc'[q] = pc[q] /\ loc'[q] = loc[q]
  BY <1>2 DEF Return, TypeOK
<1>3. CASE SkipLine(p) \/ WriteLine(p)
  BY <1>1, <1>2, <1>3 DEF SkipLine, WriteLine, Proceed
<1>4. CASE OpenLog(p) \/ CheckSync(p) \/ LoadItems(p)
  BY <1>1, <1>4 DEF OpenLog, CheckSync, LoadItems
<1>5. CASE BeginTxn(p) \/ BusyTimeout(p) \/ Commit(p) \/ Query(p) \/ Crash(p)
  BY <1>1, <1>2, <1>5 DEF BeginTxn, BusyTimeout, Commit, Query, Crash
<1>6. CASE CompactRead(p) \/ CompactTemp(p) \/ CompactRename(p)
  BY <1>1, <1>6 DEF CompactRead, CompactTemp, CompactRename
<1>7. QED
  BY <1>3, <1>4, <1>5, <1>6 DEF Step

\* Every write of the file is recorded in hist.
LEMMA LinesStep ==
  ASSUME TypeInv, [Next]_vars
  PROVE  \/ hist' = hist /\ jsonl'.lines = jsonl.lines
         \/ hist' = Append(hist, CurrentBook')
<1> USE DEF TypeInv
<1>1. CASE UNCHANGED vars
  BY <1>1 DEF vars
<1>2. ASSUME NEW p \in Procs, Begin(p) PROVE hist' = hist /\ jsonl' = jsonl
  BY <1>2, BeginFrame DEF history
<1>3. ASSUME NEW p \in Procs, Crash(p) PROVE hist' = hist /\ jsonl' = jsonl
  BY <1>3 DEF Crash, history
<1>4. ASSUME NEW p \in Procs, Step(p)
      PROVE  \/ hist' = hist /\ jsonl'.lines = jsonl.lines
             \/ hist' = Append(hist, CurrentBook')
  <2>1. CASE OpenLog(p)
    BY <2>1 DEF TypeOK, OpenLog, history
  <2>2. CASE WriteLine(p)
    BY <2>2 DEF WriteLine
  <2>3. CASE CompactRename(p)
    BY <2>3 DEF CompactRename
  <2>4. CASE SkipLine(p) \/ CheckSync(p) \/ LoadItems(p) \/ BeginTxn(p)
    BY <2>4 DEF SkipLine, CheckSync, LoadItems, BeginTxn, history
  <2>5. CASE BusyTimeout(p) \/ Commit(p) \/ Query(p) \/ CompactRead(p) \/ CompactTemp(p)
    BY <2>5 DEF BusyTimeout, Commit, Query, CompactRead, CompactTemp, history
  <2>6. QED
    BY <1>4, <2>1, <2>2, <2>3, <2>4, <2>5 DEF Step
<1>5. QED
  BY <1>1, <1>2, <1>3, <1>4 DEF Next

\* What follows from the type of hist.
LEMMA HistLength ==
  ASSUME TypeInv, TypeInv'
  PROVE  /\ hist \in Seq(Book) /\ hist' \in Seq(Book)
         /\ Len(hist) \in Nat /\ Len(hist') \in Nat
<1>1. hist \in Seq(Book)
  BY DEF TypeInv, TypeOK
<1>2. hist' \in Seq(Book)
  BY DEF TypeInv, TypeOK
<1>3. QED
  BY <1>1, <1>2

\* So hist only grows, and still ends with what the file says.
LEMMA HistStep ==
  ASSUME TypeInv, TypeInv', HistInv, [Next]_vars
  PROVE  /\ HistInv'
         /\ Len(hist) <= Len(hist')
         /\ \A n \in 1..Len(hist) : hist'[n] = hist[n]
         /\ hist' = hist => CurrentBook' = CurrentBook
<1> USE DEF TypeInv
<1>1. \/ hist' = hist /\ jsonl'.lines = jsonl.lines
      \/ hist' = Append(hist, CurrentBook')
  BY LinesStep
<1>2. CASE hist' = hist /\ jsonl'.lines = jsonl.lines
  BY <1>2 DEF TypeOK, HistInv, CurrentBook
<1>3. CASE hist' = Append(hist, CurrentBook')
  <2>1. hist \in Seq(Book) /\ CurrentBook' \in Book
    BY ReadItemsType DEF TypeOK, CurrentBook
  <2>2. /\ Len(hist') = Len(hist) + 1
        /\ hist'[Len(hist')] = CurrentBook'
        /\ \A n \in 1..Len(hist) : hist'[n] = hist[n]
    BY <1>3, <2>1
  <2>3. QED
    BY <2>1, <2>2 DEF HistInv
<1>4. QED
  BY <1>1, <1>2, <1>3

\* Only BeginTxn and Commit touch the index and its lock, and only LoadItems
\* leads to BeginTxn.
LEMMA OtherSteps ==
  ASSUME TypeInv, NEW p \in Procs, Step(p), ~BeginTxn(p), ~Commit(p)
  PROVE  /\ UNCHANGED <<db, txn, idxVer, torn>>
         /\ pc[p] # "commit" /\ pc'[p] # "commit"
         /\ pc'[p] = "begin" => LoadItems(p)
<1> USE DEF TypeInv
<1>1. CASE SkipLine(p) \/ WriteLine(p)
  BY <1>1 DEF SkipLine, WriteLine, Proceed, Goto, Return, TypeOK, history
<1>2. CASE OpenLog(p) \/ CheckSync(p) \/ LoadItems(p)
  BY <1>2 DEF OpenLog, CheckSync, LoadItems, Goto, TypeOK, history
<1>3. CASE BusyTimeout(p) \/ Query(p)
  BY <1>3 DEF BusyTimeout, Query, Return, TypeOK, history
<1>4. CASE CompactRead(p) \/ CompactTemp(p) \/ CompactRename(p)
  BY <1>4 DEF CompactRead, CompactTemp, CompactRename, Goto, TypeOK, history
<1>5. QED
  BY <1>1, <1>2, <1>3, <1>4 DEF Step

\* The lock belongs to the process between BeginTxn and Commit.
LEMMA LockStep ==
  ASSUME TypeInv, LockInv, [Next]_vars
  PROVE  LockInv'
<1>1. CASE UNCHANGED vars
  BY <1>1 DEF LockInv, vars
<1>2. ASSUME NEW p \in Procs, Begin(p) PROVE LockInv'
  BY <1>2, BeginFrame DEF LockInv
<1>3. ASSUME NEW p \in Procs, Crash(p) PROVE LockInv'
  <2>1. pc'[p] = "idle" /\ txn' = IF txn = p THEN NoProc ELSE txn
    BY <1>3 DEF Crash, Return, TypeInv, TypeOK
  <2>2. QED
    BY <1>3, <2>1, StepFrame, StoreAssumption DEF LockInv
<1>4. ASSUME NEW p \in Procs, Step(p) PROVE LockInv'
  <2>1. CASE BeginTxn(p)
    <3>1. txn = NoProc /\ txn' = p /\ pc'[p] = "commit"
      BY <2>1 DEF BeginTxn, Goto, TypeInv, TypeOK
    <3>2. QED
      BY <1>4, <3>1, StepFrame, StoreAssumption DEF LockInv
  <2>2. CASE Commit(p)
    <3>1. pc[p] = "commit" /\ txn' = NoProc /\ pc'[p] = "query"
      BY <2>2 DEF Commit, Goto, TypeInv, TypeOK
    <3>2. QED
      BY <1>4, <3>1, StepFrame, StoreAssumption DEF LockInv
  <2>3. CASE ~BeginTxn(p) /\ ~Commit(p)
    BY <1>4, <2>3, OtherSteps, StepFrame DEF LockInv
  <2>4. QED
    BY <2>1, <2>2, <2>3
<1>5. QED
  BY <1>1, <1>2, <1>3, <1>4 DEF Next

\* What a rebuild holds is an entry of hist, and entries of hist stay.
LEMMA SnapStep ==
  ASSUME TypeInv, TypeInv', HistInv, SnapInv, [Next]_vars
  PROVE  SnapInv'
<1>1. /\ Len(hist) \in Nat /\ Len(hist') \in Nat /\ Len(hist) <= Len(hist')
      /\ \A n \in 1..Len(hist) : hist'[n] = hist[n]
  BY HistStep, HistLength
<1>2. ASSUME NEW q \in Procs, pc[q] \in {"begin", "commit"},
             loc'[q].seen = loc[q].seen, loc'[q].snap = loc[q].snap
      PROVE  loc'[q].seen \in 1..Len(hist') /\ loc'[q].snap = hist'[loc'[q].seen]
  <2>1. loc[q].seen \in 1..Len(hist) /\ loc[q].snap = hist[loc[q].seen]
    BY <1>2 DEF SnapInv
  <2>2. QED
    BY <1>1, <1>2, <2>1
<1>3. CASE UNCHANGED vars
  BY <1>3 DEF SnapInv, vars
<1>4. ASSUME NEW p \in Procs, Begin(p) PROVE SnapInv'
  BY <1>2, <1>4, BeginFrame DEF SnapInv
<1>5. ASSUME NEW p \in Procs, Crash(p) PROVE SnapInv'
  <2>1. pc'[p] = "idle"
    BY <1>5 DEF Crash, Return, TypeInv, TypeOK
  <2>2. QED
    BY <1>2, <1>5, <2>1, StepFrame DEF SnapInv
<1>6. ASSUME NEW p \in Procs, Step(p) PROVE SnapInv'
  <2>1. SUFFICES ASSUME pc'[p] \in {"begin", "commit"}
                 PROVE  loc'[p].seen \in 1..Len(hist') /\ loc'[p].snap = hist'[loc'[p].seen]
    BY <1>2, <1>6, StepFrame DEF SnapInv
  <2>2. CASE LoadItems(p)
    <3>1. loc'[p].seen = Len(hist) /\ loc'[p].snap = CurrentBook
      BY <2>2 DEF LoadItems, Goto, TypeInv, TypeOK, Local
    <3>2. hist # <<>> /\ hist[Len(hist)] = CurrentBook /\ hist \in Seq(Book)
      BY DEF HistInv, TypeInv, TypeOK
    <3>3. Len(hist) \in 1..Len(hist)
      BY <3>2, EmptySeq
    <3>4. QED
      BY <1>1, <3>1, <3>2, <3>3
  <2>3. CASE BeginTxn(p)
    <3>1. pc[p] = "begin" /\ loc'[p].seen = loc[p].seen /\ loc'[p].snap = loc[p].snap
      BY <2>3 DEF BeginTxn, Goto, TypeInv, TypeOK, Local
    <3>2. QED
      BY <1>2, <3>1
  <2>4. CASE Commit(p)
    BY <2>1, <2>4 DEF Commit, Goto, TypeInv, TypeOK
  <2>5. QED
    BY <1>6, <2>1, <2>2, <2>3, <2>4, OtherSteps
<1>7. QED
  BY <1>3, <1>4, <1>5, <1>6 DEF Next

\* Only Commit changes the rows, and it puts in what it holds.
LEMMA IndexStep ==
  ASSUME TypeInv, TypeInv', HistInv, SnapInv, IndexIsAPastBook, [Next]_vars
  PROVE  IndexIsAPastBook'
<1>1. /\ hist \in Seq(Book) /\ hist' \in Seq(Book) /\ Len(hist) <= Len(hist')
      /\ \A n \in 1..Len(hist) : hist'[n] = hist[n]
  BY HistStep, HistLength
<1>2. CASE db'.rows = db.rows
  BY <1>1, <1>2 DEF IndexIsAPastBook
<1>3. ASSUME NEW p \in Procs, Commit(p) PROVE IndexIsAPastBook'
  <2>1. loc[p].seen \in 1..Len(hist) /\ loc[p].snap = hist[loc[p].seen]
    BY <1>3 DEF Commit, SnapInv
  <2>2. db'.rows = hist[loc[p].seen]
    BY <1>3, <2>1 DEF Commit
  <2>3. QED
    BY <1>1, <2>1, <2>2 DEF IndexIsAPastBook
<1>4. CASE UNCHANGED vars
  BY <1>2, <1>4 DEF vars
<1>5. ASSUME NEW p \in Procs, Begin(p) \/ Crash(p) \/ Step(p), ~Commit(p)
      PROVE  db' = db
  BY <1>5, BeginFrame, OtherSteps DEF BeginTxn, Crash
<1>6. QED
  BY <1>2, <1>3, <1>4, <1>5 DEF Next

\* While every write raises the mtime, an index as new as the file says what
\* the file says.
LEMMA SyncStep ==
  ASSUME TypeInv, TypeInv', LockInv, HistInv, SnapInv, SyncInv, [Next]_vars
  PROVE  SyncInv'
<1> SUFFICES ASSUME ~backdated'
             PROVE  /\ db'.lastSync <= jsonl'.mtime
                    /\ ~torn' /\ db'.lastSync = jsonl'.mtime => db'.rows = CurrentBook'
                    /\ \A q \in Procs :
                         pc'[q] = "commit" =>
                           /\ loc'[q].mtime <= jsonl'.mtime
                           /\ loc'[q].mtime = jsonl'.mtime => loc'[q].statSeen = Len(hist')
                           /\ loc'[q].mtime = 0 => db'.lastSync = 0
  BY DEF SyncInv
<1> USE DEF TypeInv
<1>1. /\ db.lastSync \in Nat /\ db'.lastSync \in Nat
      /\ jsonl.mtime \in Nat /\ jsonl'.mtime \in Nat
      /\ \A q \in Procs : loc[q].mtime \in Nat /\ loc'[q].mtime \in Nat
  BY DEF TypeOK, Local
<1>2. CASE UNCHANGED vars
  BY <1>2 DEF vars, SyncInv, CurrentBook
<1>3. ASSUME NEW p \in Procs, Begin(p)
      PROVE  /\ UNCHANGED <<jsonl, db, torn, backdated, hist>>
             /\ pc'[p] # "commit"
             /\ \A q \in Procs \ {p} : pc'[q] = pc[q] /\ loc'[q] = loc[q]
  BY <1>3, BeginFrame DEF history
<1>4. ASSUME NEW p \in Procs, Crash(p)
      PROVE  /\ UNCHANGED <<jsonl, db, torn, backdated, hist>>
             /\ pc'[p] # "commit"
             /\ \A q \in Procs \ {p} : pc'[q] = pc[q] /\ loc'[q] = loc[q]
  BY <1>4, StepFrame DEF history, Crash, Return, TypeOK
<1>5. ASSUME NEW p \in Procs, UNCHANGED <<jsonl, db, torn, backdated, hist>>,
             pc'[p] # "commit",
             \A q \in Procs \ {p} : pc'[q] = pc[q] /\ loc'[q] = loc[q]
      PROVE  SyncInv'
  BY <1>5 DEF SyncInv, CurrentBook
\* A write: nothing recorded or stated before is as new as the file now.
<1>6. ASSUME NEW p \in Procs, ~backdated, jsonl'.mtime > jsonl.mtime,
             UNCHANGED <<db, torn>>, pc'[p] # "commit",
             \A q \in Procs \ {p} : pc'[q] = pc[q] /\ loc'[q] = loc[q]
      PROVE  SyncInv'
  BY <1>1, <1>6 DEF SyncInv
<1>7. ASSUME NEW p \in Procs, BeginTxn(p)
      PROVE  SyncInv'
  <2>1. /\ loc'[p].mtime = jsonl.mtime /\ loc'[p].statSeen = Len(hist)
        /\ UNCHANGED <<jsonl, db, history>>
    BY <1>7 DEF BeginTxn, Goto, TypeOK, Local
  <2>2. \A q \in Procs \ {p} : pc'[q] = pc[q] /\ loc'[q] = loc[q]
    BY <1>7, StepFrame DEF Step
  <2>3. QED
    BY <1>1, <2>1, <2>2 DEF SyncInv, history, CurrentBook
<1>8. ASSUME NEW p \in Procs, Commit(p)
      PROVE  SyncInv'
  <2>1. /\ pc[p] = "commit" /\ ~backdated
        /\ UNCHANGED <<jsonl, hist>>
        /\ db'.rows = loc[p].snap
        /\ db'.lastSync = IF loc[p].mtime > 0 THEN loc[p].mtime ELSE db.lastSync
        /\ torn' = (loc[p].seen # loc[p].statSeen)
    BY <1>8 DEF Commit
  <2>2. \A q \in Procs : pc'[q] # "commit"
    <3>1. pc'[p] = "query"
      BY <1>8 DEF Commit, Goto, TypeOK
    <3>2. \A q \in Procs \ {p} : pc'[q] = pc[q]
      BY <1>8, StepFrame DEF Step
    <3>3. QED
      BY <2>1, <3>1, <3>2 DEF LockInv
  <2>3. /\ loc[p].mtime <= jsonl.mtime
        /\ loc[p].mtime = jsonl.mtime => loc[p].statSeen = Len(hist)
        /\ loc[p].mtime = 0 => db.lastSync = 0
    BY <2>1 DEF SyncInv
  <2>4. db'.lastSync = loc[p].mtime
    BY <1>1, <2>1, <2>3
  <2>5. ASSUME ~torn', db'.lastSync = jsonl.mtime PROVE db'.rows = CurrentBook
    <3>1. loc[p].seen = Len(hist)
      BY <2>1, <2>3, <2>4, <2>5
    <3>2. loc[p].snap = hist[Len(hist)]
      BY <2>1, <3>1 DEF SnapInv
    <3>3. QED
      BY <2>1, <3>2 DEF HistInv
  <2>6. CurrentBook' = CurrentBook
    BY <2>1 DEF CurrentBook
  <2>7. QED
    BY <2>1, <2>2, <2>3, <2>4, <2>5, <2>6 DEF SyncInv
<1>9. ASSUME NEW p \in Procs, Step(p), ~BeginTxn(p), ~Commit(p)
      PROVE  SyncInv'
  <2>1. /\ UNCHANGED <<db, torn>> /\ pc'[p] # "commit"
        /\ \A q \in Procs \ {p} : pc'[q] = pc[q] /\ loc'[q] = loc[q]
    BY <1>9, OtherSteps, StepFrame
  <2>2. CASE OpenLog(p)
    <3>1. UNCHANGED <<backdated, hist>>
      BY <2>2 DEF OpenLog, history
    <3>2. CASE jsonl.mtime = 0
      <4>1. PICK t \in Clock : jsonl' = [jsonl EXCEPT !.mtime = t]
        BY <2>2, <3>2 DEF OpenLog
      <4>2. t > 0
        BY DEF Clock, TypeOK
      <4>3. QED
        BY <1>6, <2>1, <3>1, <3>2, <4>1, <4>2 DEF TypeOK
    <3>3. CASE jsonl.mtime # 0
      BY <1>5, <2>1, <2>2, <3>1, <3>3 DEF OpenLog
    <3>4. QED
      BY <3>2, <3>3
  <2>3. CASE WriteLine(p)
    <3>1. CASE loc[p].fd = jsonl.inode
      <4>1. PICK t \in Clock :
              /\ jsonl' = [jsonl EXCEPT !.lines = Append(jsonl.lines, Head(loc[p].todo)),
                                        !.mtime = t]
              /\ backdated' = (backdated \/ t <= jsonl.mtime)
        BY <2>3, <3>1 DEF WriteLine
      <4>2. jsonl'.mtime = t /\ t \in Nat
        BY <4>1 DEF TypeOK, Clock
      <4>3. ~backdated /\ ~(t <= jsonl.mtime)
        BY <4>1, Zenon
      <4>4. jsonl'.mtime > jsonl.mtime
        BY <1>1, <4>2, <4>3
      <4>5. QED
        BY <1>6, <2>1, <4>3, <4>4
    <3>2. CASE loc[p].fd # jsonl.inode
      BY <1>5, <2>1, <2>3, <3>2 DEF WriteLine
    <3>3. QED
      BY <3>1, <3>2
  <2>4. CASE CompactRename(p)
    <3>1. /\ jsonl'.mtime = loc[p].tmpTime
          /\ backdated' = (backdated \/ loc[p].tmpTime <= jsonl.mtime)
      BY <2>4 DEF CompactRename
    <3>2. loc[p].tmpTime \in Nat
      BY DEF TypeOK, Local
    <3>3. ~backdated /\ ~(loc[p].tmpTime <= jsonl.mtime)
      BY <3>1, Zenon
    <3>4. jsonl'.mtime > jsonl.mtime
      BY <1>1, <3>1, <3>2, <3>3
    <3>5. QED
      BY <1>6, <2>1, <3>3, <3>4
  <2>5. CASE SkipLine(p) \/ CheckSync(p) \/ LoadItems(p) \/ BusyTimeout(p) \/ Query(p)
    <3>1. UNCHANGED <<jsonl, backdated, hist>>
      BY <2>5 DEF SkipLine, CheckSync, LoadItems, BusyTimeout, Query, history
    <3>2. QED
      BY <1>5, <2>1, <3>1
  <2>6. CASE CompactRead(p) \/ CompactTemp(p)
    <3>1. UNCHANGED <<jsonl, backdated, hist>>
      BY <2>6 DEF CompactRead, CompactTemp, history
    <3>2. QED
      BY <1>5, <2>1, <3>1
  <2>7. QED
    BY <1>9, <2>2, <2>3, <2>4, <2>5, <2>6 DEF Step
<1>10. QED
  BY <1>2, <1>3, <1>4, <1>5, <1>7, <1>8, <1>9 DEF Next, SyncInv
-----------------------------------------------------------------------------
(* What a search finds. *)

\* Only Commit changes the index, and idxVer with it.
LEMMA VersionStep ==
  ASSUME TypeInv, TypeInv', HistInv, SnapInv, VersionInv, [Next]_vars
  PROVE  VersionInv'
<1>1. /\ Len(hist) \in Nat /\ Len(hist') \in Nat /\ Len(hist) <= Len(hist')
      /\ \A n \in 1..Len(hist) : hist'[n] = hist[n]
  BY HistStep, HistLength
<1>2. CASE db'.rows = db.rows /\ idxVer' = idxVer
  BY <1>1, <1>2 DEF VersionInv
<1>3. ASSUME NEW p \in Procs, Commit(p) PROVE VersionInv'
  <2>1. loc[p].seen \in 1..Len(hist) /\ loc[p].snap = hist[loc[p].seen]
    BY <1>3 DEF Commit, SnapInv
  <2>2. db'.rows = hist[loc[p].seen] /\ idxVer' = loc[p].seen
    BY <1>3, <2>1 DEF Commit
  <2>3. QED
    BY <1>1, <2>1, <2>2 DEF VersionInv
<1>4. CASE UNCHANGED vars
  BY <1>2, <1>4 DEF vars
<1>5. ASSUME NEW p \in Procs, Begin(p) \/ Crash(p) \/ Step(p), ~Commit(p)
      PROVE  db' = db /\ idxVer' = idxVer
  BY <1>5, BeginFrame, OtherSteps DEF BeginTxn, Crash, history
<1>6. QED
  BY <1>2, <1>3, <1>4, <1>5 DEF Next

\* A process that begins to read knows what the file says then; one that goes
\* on does not forget when it began.
LEMMA ReadingStep ==
  ASSUME TypeInv, NEW p \in Procs, Begin(p) \/ Step(p) \/ Crash(p), Reading(pc'[p])
  PROVE  \/ /\ Begin(p) /\ hist' = hist
            /\ loc'[p].began = Len(hist)
            /\ pc'[p] \in {"compact", "query", "check", "load"}
            /\ pc'[p] \in {"query", "check"} => BeginSearch(p)
         \/ /\ Step(p) /\ Reading(pc[p])
            /\ loc'[p].began = loc[p].began
<1>0. DOMAIN pc = Procs /\ loc \in [Procs -> Local] /\ Len(hist) \in Nat
  BY DEF TypeInv, TypeOK
<1>1. ASSUME NEW label, NEW local, Goto(p, label, local)
      PROVE  pc'[p] = label /\ loc'[p] = local
  BY <1>0, <1>1 DEF Goto
<1>2. ASSUME Return(p) PROVE pc'[p] = "idle"
  BY <1>0, <1>2 DEF Return
<1>3. CASE Begin(p)
  <2>1. hist' = hist
    BY <1>3, BeginFrame DEF history
  <2>2. ASSUME NEW cmd, NEW todo PROVE ~BeginWriting(p, cmd, todo)
    BY <1>1 DEF BeginWriting, Reading
  <2>3. ASSUME NEW force \in BOOLEAN, BeginCompact(p, force)
        PROVE  pc'[p] = "compact" /\ loc'[p].began = Len(hist)
    BY <1>0, <2>3, IdleType DEF BeginCompact, Goto, Local
  <2>4. CASE BeginSearch(p)
    BY <1>0, <1>3, <2>1, <2>4, IdleType DEF BeginSearch, Goto, Local
  <2>5. CASE BeginRebuild(p)
    BY <1>0, <1>3, <2>1, <2>5, IdleType DEF BeginRebuild, Goto, Local
  <2>6. QED
    BY <1>3, <2>1, <2>2, <2>3, <2>4, <2>5 DEF Begin, Learn, Update, Mark, Delete, Import
<1>4. CASE Crash(p)
  BY <1>2, <1>4 DEF Crash, Reading
<1>5. CASE Step(p)
  <2>1. CASE SkipLine(p) \/ WriteLine(p) \/ OpenLog(p)
    BY <1>1, <1>2, <2>1 DEF SkipLine, WriteLine, OpenLog, Proceed, Reading
  <2>2. CASE BusyTimeout(p) \/ Query(p)
    BY <1>2, <2>2 DEF BusyTimeout, Query, Reading
  <2>3. CASE CheckSync(p) \/ LoadItems(p) \/ BeginTxn(p) \/ Commit(p)
    BY <1>0, <1>1, <1>5, <2>3 DEF CheckSync, LoadItems, BeginTxn, Commit, Reading, Local
  <2>4. CASE CompactRead(p) \/ CompactTemp(p) \/ CompactRename(p)
    BY <1>0, <1>1, <1>5, <2>4 DEF CompactRead, CompactTemp, CompactRename, Reading, Local
  <2>5. QED
    BY <1>5, <2>1, <2>2, <2>3, <2>4 DEF Step
<1>6. QED
  BY <1>3, <1>4, <1>5

\* The reading and the stating come in their order.
LEMMA OrderStep ==
  ASSUME TypeInv, TypeInv', HistInv, SnapInv, OrderInv, [Next]_vars
  PROVE  OrderInv'
<1>1. /\ Len(hist) \in Nat /\ Len(hist') \in Nat /\ Len(hist) <= Len(hist')
      /\ Len(hist) \in 1..Len(hist)
  <2>1. /\ hist \in Seq(Book) /\ hist' \in Seq(Book) /\ Len(hist) <= Len(hist')
        /\ hist # <<>>
    BY HistStep, HistLength DEF HistInv
  <2>2. QED
    BY <2>1, EmptySeq
<1>2. \A q \in Procs : /\ loc[q].began \in Nat /\ loc[q].seen \in Nat
                       /\ loc[q].statSeen \in Nat
  BY DEF TypeInv, TypeOK, Local
<1> DEFINE InOrder(label, l, n) ==
             /\ Reading(label) => l.began \in 1..n
             /\ label \in {"begin", "commit"} => l.began <= l.seen
             /\ label = "commit" => l.seen <= l.statSeen /\ l.statSeen <= n
<1>3. OrderInv <=> \A q \in Procs : InOrder(pc[q], loc[q], Len(hist))
  BY DEF OrderInv
<1>4. OrderInv' <=> \A q \in Procs : InOrder(pc'[q], loc'[q], Len(hist'))
  BY DEF OrderInv
<1>5. ASSUME NEW q \in Procs, pc'[q] = pc[q], loc'[q] = loc[q]
      PROVE  InOrder(pc'[q], loc'[q], Len(hist'))
  BY <1>1, <1>2, <1>3, <1>5
<1>6. CASE UNCHANGED vars
  BY <1>4, <1>5, <1>6 DEF vars
<1>7. ASSUME NEW p \in Procs, Begin(p) \/ Step(p) \/ Crash(p)
      PROVE  InOrder(pc'[p], loc'[p], Len(hist'))
  <2>1. SUFFICES ASSUME Reading(pc'[p]) PROVE InOrder(pc'[p], loc'[p], Len(hist'))
    BY DEF Reading
  <2>2. CASE Begin(p)
    <3>1. /\ loc'[p].began = Len(hist)
          /\ pc'[p] \in {"compact", "query", "check", "load"}
          /\ Len(hist') = Len(hist)
      <4>1. ~(Step(p) /\ Reading(pc[p]))
        BY <2>2, BeginFrame DEF Reading
      <4>2. QED
        BY <1>7, <2>1, <4>1, ReadingStep
    <3>2. QED
      BY <1>1, <3>1
  <2>3. CASE ~Begin(p)
    <3>1. Step(p) /\ Reading(pc[p]) /\ loc'[p].began = loc[p].began
      BY <1>7, <2>1, <2>3, ReadingStep
    <3>2. loc'[p].began \in 1..Len(hist')
      BY <1>1, <1>2, <1>3, <3>1
    <3>3. CASE LoadItems(p)
      <4>1. loc'[p].seen = Len(hist) /\ pc'[p] = "begin"
        BY <3>3 DEF LoadItems, Goto, TypeInv, TypeOK, Local
      <4>2. loc[p].began <= Len(hist)
        BY <1>1, <1>2, <1>3, <3>1
      <4>3. QED
        BY <3>1, <3>2, <4>1, <4>2
    <3>4. CASE BeginTxn(p)
      <4>1. /\ pc[p] = "begin" /\ pc'[p] = "commit"
            /\ loc'[p].seen = loc[p].seen /\ loc'[p].statSeen = Len(hist)
        BY <3>4 DEF BeginTxn, Goto, TypeInv, TypeOK, Local
      <4>2. loc[p].began <= loc[p].seen /\ loc[p].seen \in 1..Len(hist)
        BY <1>3, <4>1 DEF SnapInv
      <4>3. QED
        BY <1>1, <1>2, <3>1, <3>2, <4>1, <4>2
    <3>5. CASE Commit(p)
      <4>1. pc'[p] = "query"
        BY <3>5 DEF Commit, Goto, TypeInv, TypeOK
      <4>2. QED
        BY <3>2, <4>1
    <3>6. QED
      BY <3>1, <3>2, <3>3, <3>4, <3>5, OtherSteps
  <2>4. QED
    BY <2>2, <2>3
<1> HIDE DEF InOrder
<1>8. ASSUME NEW p \in Procs, Begin(p) \/ Step(p) \/ Crash(p), NEW q \in Procs, q # p
      PROVE  InOrder(pc'[q], loc'[q], Len(hist'))
  BY <1>5, <1>8, BeginFrame, StepFrame
<1>9. QED
  BY <1>4, <1>6, <1>7, <1>8 DEF Next

\* A write raises the mtime, unless backdated says that it does not.
LEMMA MtimeStep ==
  ASSUME TypeInv, NEW p \in Procs, Step(p), ~backdated'
  PROVE  /\ ~backdated
         /\ \/ jsonl'.mtime = jsonl.mtime /\ hist' = hist
            \/ jsonl'.mtime > jsonl.mtime
<1>1. jsonl.mtime \in Nat /\ now \in Nat \ {0} /\ loc[p].tmpTime \in Nat
  BY DEF TypeInv, TypeOK, Local
<1>2. CASE OpenLog(p)
  <2>1. ~backdated /\ hist' = hist
    BY <1>2 DEF OpenLog, history
  <2>2. CASE jsonl.mtime = 0
    <3>1. PICK t \in Clock : jsonl' = [jsonl EXCEPT !.mtime = t]
      BY <1>2, <2>2 DEF OpenLog
    <3>2. t > 0
      BY <1>1 DEF Clock
    <3>3. QED
      BY <1>1, <2>1, <2>2, <3>1, <3>2 DEF TypeInv, TypeOK
  <2>3. CASE jsonl.mtime # 0
    BY <1>2, <2>1, <2>3 DEF OpenLog
  <2>4. QED
    BY <2>2, <2>3
<1>3. CASE WriteLine(p)
  <2>1. CASE loc[p].fd = jsonl.inode
    <3>1. PICK t \in Clock :
            /\ jsonl' = [jsonl EXCEPT !.lines = Append(jsonl.lines, Head(loc[p].todo)),
                                      !.mtime = t]
            /\ backdated' = (backdated \/ t <= jsonl.mtime)
      BY <1>3, <2>1 DEF WriteLine
    <3>2. jsonl'.mtime = t /\ t \in Nat
      BY <1>1, <3>1 DEF Clock, TypeInv, TypeOK
    <3>3. ~backdated /\ ~(t <= jsonl.mtime)
      BY <3>1, Zenon
    <3>4. QED
      BY <1>1, <3>2, <3>3
  <2>2. CASE loc[p].fd # jsonl.inode
    BY <1>3, <2>2 DEF WriteLine
  <2>3. QED
    BY <2>1, <2>2
<1>4. CASE CompactRename(p)
  <2>1. /\ jsonl'.mtime = loc[p].tmpTime
        /\ backdated' = (backdated \/ loc[p].tmpTime <= jsonl.mtime)
    BY <1>4 DEF CompactRename
  <2>2. ~backdated /\ ~(loc[p].tmpTime <= jsonl.mtime)
    BY <2>1, Zenon
  <2>3. QED
    BY <1>1, <2>1, <2>2
<1>5. CASE SkipLine(p) \/ CheckSync(p) \/ LoadItems(p) \/ BeginTxn(p) \/ BusyTimeout(p)
  BY <1>5 DEF SkipLine, CheckSync, LoadItems, BeginTxn, BusyTimeout, history
<1>6. CASE CompactRead(p) \/ CompactTemp(p) \/ Query(p) \/ Commit(p)
  <2>1. CompactRead(p) => UNCHANGED <<jsonl, hist, backdated>>
    BY DEF CompactRead, history
  <2>2. CompactTemp(p) => UNCHANGED <<jsonl, hist, backdated>>
    BY DEF CompactTemp, history
  <2>3. Query(p) \/ Commit(p) => UNCHANGED <<jsonl, hist, backdated>>
    BY DEF Query, Commit, history
  <2>4. QED
    BY <1>6, <2>1, <2>2, <2>3
<1>7. QED
  BY <1>2, <1>3, <1>4, <1>5, <1>6 DEF Step

\* While every write raises the mtime, a search that is content with the index
\* finds in it what was written before the search began.
LEMMA SearchStep ==
  ASSUME TypeInv, TypeInv', LockInv, HistInv, SnapInv, SyncInv, VersionInv, OrderInv,
         SearchInv, [Next]_vars
  PROVE  SearchInv'
<1> SUFFICES ASSUME ~backdated' PROVE SearchInv'
  BY DEF SearchInv
<1>1. /\ db.lastSync \in Nat /\ db'.lastSync \in Nat
      /\ jsonl.mtime \in Nat /\ jsonl'.mtime \in Nat
      /\ idxVer \in Nat /\ idxVer' \in Nat
      /\ \A q \in Procs : /\ loc[q].mtime \in Nat /\ loc'[q].mtime \in Nat
                          /\ loc[q].began \in Nat /\ loc'[q].began \in Nat
                          /\ loc[q].seen \in Nat
                          /\ loc[q].statSeen \in Nat /\ loc'[q].statSeen \in Nat
  BY DEF TypeInv, TypeOK, Local
<1>2. /\ Len(hist) \in Nat /\ Len(hist') \in Nat /\ Len(hist) <= Len(hist')
      /\ Len(hist) \in 1..Len(hist)
      /\ \A n \in 1..Len(hist) : hist'[n] = hist[n]
      /\ hist[Len(hist)] = CurrentBook
  <2>1. /\ hist \in Seq(Book) /\ hist' \in Seq(Book) /\ Len(hist) <= Len(hist')
        /\ hist # <<>>
        /\ \A n \in 1..Len(hist) : hist'[n] = hist[n]
    BY HistStep, HistLength DEF HistInv
  <2>2. QED
    BY <2>1, EmptySeq DEF HistInv
\* A step in which nobody looks at the index.
<1>3. ASSUME NEW p \in Procs, ~backdated, UNCHANGED <<db, torn, idxVer>>,
             \/ jsonl'.mtime = jsonl.mtime /\ hist' = hist
             \/ jsonl'.mtime > jsonl.mtime,
             pc'[p] \notin {"check", "query", "commit"},
             \A q \in Procs \ {p} : pc'[q] = pc[q] /\ loc'[q] = loc[q]
      PROVE  SearchInv'
  <2>1. db.lastSync <= jsonl.mtime
    BY <1>3 DEF SyncInv
  <2>2. jsonl'.mtime = 0 => Len(hist') = 1
    BY <1>1, <1>3 DEF SearchInv
  <2>3. ~torn' /\ db'.lastSync = jsonl'.mtime /\ db'.lastSync # 0 => idxVer' = Len(hist')
    BY <1>1, <1>3, <2>1 DEF SearchInv
  <2>4. ASSUME NEW q \in Procs PROVE Found(q)'
    <3>1. CASE q = p
      BY <1>3, <3>1 DEF Found
    <3>2. CASE q # p
      <4>1. pc'[q] = pc[q] /\ loc'[q] = loc[q] /\ Found(q)
        BY <1>3, <3>2 DEF SearchInv
      <4>2. pc[q] = "query" => hist'[loc[q].began] = hist[loc[q].began]
        BY <1>2 DEF OrderInv, Reading
      <4>3. QED
        BY <1>1, <1>3, <4>1, <4>2 DEF Found
    <3>3. QED
      BY <3>1, <3>2
  <2>5. ASSUME NEW q \in Procs, NEW r \in Procs PROVE WillFind(q, r)'
    <3>1. CASE r = p
      BY <1>3, <3>1 DEF WillFind
    <3>2. CASE r # p
      BY <1>3, <3>2 DEF WillFind, SearchInv
    <3>3. QED
      BY <3>1, <3>2
  <2>6. QED
    BY <2>2, <2>3, <2>4, <2>5 DEF SearchInv
<1>4. CASE UNCHANGED vars
  BY <1>4 DEF vars, SearchInv, Found, WillFind
\* The stat and the search that follows it.
<1>5. ASSUME NEW p \in Procs, BeginSearch(p)
      PROVE  SearchInv'
  <2>1. /\ UNCHANGED <<jsonl, db, hist, torn, idxVer>> /\ ~backdated
        /\ pc'[p] = IF jsonl.mtime = 0 THEN "query" ELSE "check"
        /\ loc'[p].mtime = jsonl.mtime /\ loc'[p].began = Len(hist)
    BY <1>5, IdleType DEF BeginSearch, history, Goto, TypeInv, TypeOK, Local
  <2>2. \A q \in Procs \ {p} : pc'[q] = pc[q] /\ loc'[q] = loc[q]
    BY <1>5, BeginFrame DEF Begin
  <2>3. /\ db.lastSync <= jsonl.mtime
        /\ ~torn /\ db.lastSync = jsonl.mtime => db.rows = CurrentBook
        /\ ~torn /\ db.lastSync = jsonl.mtime /\ db.lastSync # 0 => idxVer = Len(hist)
        /\ jsonl.mtime = 0 => Len(hist) = 1
    BY <2>1 DEF SyncInv, SearchInv
  <2>4. Found(p)'
    <3>1. CASE jsonl.mtime = 0
      <4>1. ~torn => db.rows = hist[Len(hist)]
        BY <1>1, <1>2, <2>3, <3>1
      <4>2. QED
        BY <2>1, <3>1, <4>1 DEF Found
    <3>2. CASE jsonl.mtime # 0
      <4>1. ~torn /\ ~NeedsRebuild(jsonl.mtime, db.lastSync) => Len(hist) <= idxVer
        BY <1>1, <1>2, <2>3, <3>2 DEF NeedsRebuild
      <4>2. QED
        BY <1>1, <2>1, <3>2, <4>1 DEF Found
    <3>3. QED
      BY <3>1, <3>2
  <2>5. \A q \in Procs : q # p => Found(q)'
    BY <2>1, <2>2 DEF SearchInv, Found
  <2>6. ASSUME NEW q \in Procs, NEW r \in Procs PROVE WillFind(q, r)'
    <3>1. CASE r = p
      BY <2>1, <3>1 DEF WillFind
    <3>2. CASE r # p /\ q # p
      BY <2>1, <2>2, <3>2 DEF WillFind, SearchInv
    <3>3. CASE r # p /\ q = p
      <4>1. SUFFICES ASSUME pc[r] = "commit" PROVE WillFind(q, r)'
        BY <2>2, <3>3 DEF WillFind
      <4>2. /\ db.lastSync <= loc[r].mtime
            /\ loc[r].mtime <= jsonl.mtime
            /\ loc[r].mtime = jsonl.mtime => loc[r].statSeen = Len(hist)
        BY <2>1, <4>1 DEF SyncInv, SearchInv, WillFind
      <4>3. 1 <= loc[r].statSeen
        <5>1. /\ loc[r].began \in 1..Len(hist)
              /\ loc[r].began <= loc[r].seen
              /\ loc[r].seen <= loc[r].statSeen
          BY <4>1 DEF OrderInv, Reading
        <5>2. QED
          BY <1>1, <1>2, <5>1
      <4>4. /\ jsonl.mtime <= loc[r].mtime => Len(hist) <= loc[r].statSeen
            /\ jsonl.mtime = 0 => Len(hist) <= loc[r].statSeen
        BY <1>1, <1>2, <2>3, <4>2, <4>3
      <4>5. QED
        BY <2>1, <2>2, <3>3, <4>2, <4>4 DEF WillFind
    <3>4. QED
      BY <3>1, <3>2, <3>3
  <2>7. QED
    BY <2>1, <2>3, <2>4, <2>5, <2>6 DEF SearchInv
<1>6. ASSUME NEW p \in Procs, CheckSync(p)
      PROVE  SearchInv'
  <2>1. /\ UNCHANGED <<jsonl, db, hist, torn, idxVer>> /\ ~backdated
        /\ pc[p] = "check" /\ loc'[p] = loc[p]
        /\ pc'[p] = IF NeedsRebuild(loc[p].mtime, db.lastSync) THEN "load" ELSE "query"
    BY <1>6 DEF CheckSync, history, Goto, TypeInv, TypeOK
  <2>2. \A q \in Procs \ {p} : pc'[q] = pc[q] /\ loc'[q] = loc[q]
    BY <1>6, StepFrame DEF Step
  <2>3. Found(p) /\ \A r \in Procs : WillFind(p, r)
    BY <2>1 DEF SearchInv
  <2>4. \A q \in Procs : Found(q)'
    BY <2>1, <2>2, <2>3 DEF SearchInv, Found
  <2>5. ASSUME NEW q \in Procs, NEW r \in Procs PROVE WillFind(q, r)'
    <3>1. CASE r = p
      BY <2>1, <3>1 DEF WillFind
    <3>2. CASE r # p /\ q # p
      BY <2>1, <2>2, <3>2 DEF WillFind, SearchInv
    <3>3. CASE r # p /\ q = p
      <4>1. SUFFICES ASSUME pc[r] = "commit" PROVE WillFind(q, r)'
        BY <2>2, <3>3 DEF WillFind
      <4>2. /\ db.lastSync <= loc[r].mtime
            /\ loc[p].mtime <= loc[r].mtime => loc[p].began <= loc[r].statSeen
        BY <2>1, <2>3, <4>1 DEF WillFind
      <4>3. pc'[p] = "query" => loc[p].mtime <= loc[r].mtime
        BY <1>1, <2>1, <4>2 DEF NeedsRebuild
      <4>4. QED
        BY <2>1, <2>2, <3>3, <4>2, <4>3 DEF WillFind
    <3>4. QED
      BY <3>1, <3>2, <3>3
  <2>6. QED
    BY <2>1, <2>4, <2>5 DEF SearchInv
\* The rebuild.
<1>7. ASSUME NEW p \in Procs, BeginTxn(p)
      PROVE  SearchInv'
  <2>1. /\ UNCHANGED <<jsonl, db, hist, torn, idxVer>> /\ ~backdated
        /\ pc'[p] = "commit" /\ txn = NoProc
        /\ loc'[p].mtime = jsonl.mtime /\ loc'[p].statSeen = Len(hist)
    BY <1>7 DEF BeginTxn, history, Goto, TypeInv, TypeOK, Local
  <2>2. \A q \in Procs \ {p} : pc'[q] = pc[q] /\ loc'[q] = loc[q]
    BY <1>7, StepFrame DEF Step
  <2>3. \A q \in Procs : Found(q)'
    BY <2>1, <2>2 DEF SearchInv, Found
  <2>4. ASSUME NEW q \in Procs, NEW r \in Procs PROVE WillFind(q, r)'
    <3>1. CASE r # p
      <4>1. pc'[r] # "commit"
        BY <2>1, <2>2, <3>1, StoreAssumption DEF LockInv
      <4>2. QED
        BY <4>1 DEF WillFind
    <3>2. CASE r = p
      <4>1. db.lastSync <= jsonl.mtime
        BY <2>1 DEF SyncInv
      <4>2. ASSUME pc'[q] \in {"check", "query"} PROVE loc'[q].began <= Len(hist)
        <5>1. pc'[q] = pc[q] /\ loc'[q] = loc[q]
          BY <2>1, <2>2, <4>2
        <5>2. loc[q].began \in 1..Len(hist)
          BY <4>2, <5>1 DEF OrderInv, Reading
        <5>3. QED
          BY <1>2, <5>1, <5>2
      <4>3. QED
        BY <2>1, <3>2, <4>1, <4>2 DEF WillFind
    <3>3. QED
      BY <3>1, <3>2
  <2>5. QED
    BY <2>1, <2>3, <2>4 DEF SearchInv
<1>8. ASSUME NEW p \in Procs, Commit(p)
      PROVE  SearchInv'
  <2>1. /\ UNCHANGED <<jsonl, hist>> /\ ~backdated
        /\ pc[p] = "commit" /\ pc'[p] = "query" /\ loc'[p] = loc[p]
        /\ db'.lastSync = IF loc[p].mtime > 0 THEN loc[p].mtime ELSE db.lastSync
        /\ idxVer' = loc[p].seen
        /\ torn' = (loc[p].seen # loc[p].statSeen)
    BY <1>8 DEF Commit, Goto, TypeInv, TypeOK
  <2>2. \A q \in Procs \ {p} : pc'[q] = pc[q] /\ loc'[q] = loc[q]
    BY <1>8, StepFrame DEF Step
  <2>3. \A r \in Procs : pc'[r] # "commit"
    BY <2>1, <2>2 DEF LockInv
  <2>4. /\ loc[p].mtime <= jsonl.mtime
        /\ loc[p].mtime = jsonl.mtime => loc[p].statSeen = Len(hist)
        /\ loc[p].mtime = 0 => db.lastSync = 0
        /\ loc[p].began <= loc[p].seen
    BY <2>1 DEF SyncInv, OrderInv
  <2>5. db'.lastSync = loc[p].mtime
    BY <1>1, <2>1, <2>4
  <2>6. ~torn' => idxVer' = loc[p].statSeen
    BY <2>1
  <2>7. ~torn' /\ db'.lastSync = jsonl'.mtime => idxVer' = Len(hist')
    BY <2>1, <2>4, <2>5, <2>6
  <2>8. ASSUME NEW q \in Procs PROVE Found(q)'
    <3>1. CASE q = p
      BY <2>1, <2>4, <3>1 DEF Found
    <3>2. CASE q # p
      <4>1. pc'[q] = pc[q] /\ loc'[q] = loc[q] /\ Found(q) /\ WillFind(q, p)
        BY <2>1, <2>2, <3>2 DEF SearchInv
      <4>2. /\ pc[q] = "check" /\ loc[q].mtime <= loc[p].mtime => loc[q].began <= loc[p].statSeen
            /\ pc[q] = "query" => loc[q].began <= loc[p].statSeen
        BY <2>1, <4>1 DEF WillFind
      <4>3. ~NeedsRebuild(loc[q].mtime, db'.lastSync) => loc[q].mtime <= loc[p].mtime
        BY <1>1, <2>5 DEF NeedsRebuild
      <4>4. QED
        BY <2>1, <2>6, <4>1, <4>2, <4>3 DEF Found
    <3>3. QED
      BY <3>1, <3>2
  <2>9. \A q, r \in Procs : WillFind(q, r)'
    BY <2>3 DEF WillFind
  <2>10. QED
    BY <2>1, <2>7, <2>8, <2>9 DEF SearchInv
<1>9. ASSUME NEW p \in Procs, Begin(p) \/ Crash(p), ~BeginSearch(p)
      PROVE  SearchInv'
  <2>1. /\ UNCHANGED <<jsonl, db, hist, torn, idxVer>> /\ ~backdated
        /\ \A q \in Procs \ {p} : pc'[q] = pc[q] /\ loc'[q] = loc[q]
    BY <1>9, BeginFrame, StepFrame DEF Crash, history
  <2>2. pc'[p] \notin {"check", "query", "commit"}
    <3>1. CASE Begin(p)
      BY <1>9, <3>1, BeginFrame, ReadingStep DEF Reading
    <3>2. CASE Crash(p)
      BY <3>2 DEF Crash, Return, TypeInv, TypeOK
    <3>3. QED
      BY <1>9, <3>1, <3>2
  <2>3. QED
    BY <1>3, <2>1, <2>2
<1>10. ASSUME NEW p \in Procs, Step(p), ~CheckSync(p), ~BeginTxn(p), ~Commit(p)
       PROVE  SearchInv'
  <2>1. /\ UNCHANGED <<db, torn, idxVer>>
        /\ \A q \in Procs \ {p} : pc'[q] = pc[q] /\ loc'[q] = loc[q]
    BY <1>10, OtherSteps, StepFrame
  <2>2. pc'[p] \notin {"check", "query", "commit"}
    <3>0. p \in DOMAIN pc
      BY DEF TypeInv, TypeOK
    <3>1. CASE SkipLine(p)
      BY <3>0, <3>1 DEF SkipLine, Proceed, Goto, Return
    <3>2. CASE WriteLine(p)
      BY <3>0, <3>2 DEF WriteLine, Proceed, Goto, Return
    <3>3. CASE OpenLog(p)
      BY <3>0, <3>3 DEF OpenLog, Goto
    <3>4. CASE BusyTimeout(p) \/ Query(p)
      BY <3>0, <3>4 DEF BusyTimeout, Query, Return
    <3>5. CASE LoadItems(p)
      BY <3>0, <3>5 DEF LoadItems, Goto
    <3>6. CASE CompactRead(p) \/ CompactTemp(p) \/ CompactRename(p)
      BY <3>0, <3>6 DEF CompactRead, CompactTemp, CompactRename, Goto
    <3>7. QED
      BY <1>10, <3>1, <3>2, <3>3, <3>4, <3>5, <3>6 DEF Step
  <2>3. /\ ~backdated
        /\ \/ jsonl'.mtime = jsonl.mtime /\ hist' = hist
           \/ jsonl'.mtime > jsonl.mtime
    BY <1>1, <1>10, <2>1, MtimeStep DEF Step
  <2>4. QED
    BY <1>3, <2>1, <2>2, <2>3
<1>11. QED
  BY <1>4, <1>5, <1>6, <1>7, <1>8, <1>9, <1>10 DEF Next

-----------------------------------------------------------------------------
(* The theorems. *)

LEMMA InvariantInit == Init => IInv
<1> SUFFICES ASSUME Init PROVE IInv
  OBVIOUS
<1>1. TypeOK /\ TodoInv
  BY TypeInit DEF TypeInv
<1>2. LockInv /\ SnapInv /\ IndexIsAPastBook
  BY StoreAssumption DEF Init, LockInv, SnapInv, IndexIsAPastBook
<1>3. HistInv
  <2>1. hist = <<CurrentBook>>
    BY DEF Init
  <2>2. QED
    BY <2>1 DEF HistInv
<1>4. SyncInv
  <2>1. PICK log \in InitialLogs :
          jsonl = [lines |-> log, mtime |-> IF log = <<>> THEN 0 ELSE 1, inode |-> 1]
    BY DEF Init
  <2>2. db.lastSync = 0 /\ db.rows = Nothing /\ \A q \in Procs : pc[q] # "commit"
    BY DEF Init
  <2>3. jsonl.mtime = 0 => CurrentBook = Nothing
    BY <2>1, NoLinesNoLessons DEF CurrentBook
  <2>4. jsonl.mtime \in Nat
    BY <2>1
  <2>5. QED
    BY <2>2, <2>3, <2>4 DEF SyncInv
<1>5. QED
  BY <1>1, <1>2, <1>3, <1>4 DEF IInv

\* Every step preserves the invariant.
LEMMA InvariantStep == IInv /\ [Next]_vars => IInv'
<1> SUFFICES ASSUME IInv, [Next]_vars PROVE IInv'
  OBVIOUS
<1>1. TypeInv /\ TypeInv'
  BY TypeStep DEF IInv, TypeInv
<1>2. LockInv' /\ HistInv' /\ SnapInv' /\ IndexIsAPastBook' /\ SyncInv'
  BY <1>1, LockStep, HistStep, SnapStep, IndexStep, SyncStep DEF IInv
<1>3. QED
  BY <1>1, <1>2 DEF IInv, TypeInv

\* The conjuncts of IInv hold in every reachable state.
THEOREM Invariance == Spec => []IInv
BY InvariantInit, InvariantStep, PTL DEF Spec

\* RebuildIndex replaces the rows in one transaction: whoever writes, rebuilds
\* or is killed meanwhile, the index shows one book that the file held.
THEOREM IndexCorrect == Spec => []IndexIsAPastBook
<1>1. IInv => IndexIsAPastBook
  BY DEF IInv
<1>2. QED
  BY <1>1, Invariance, PTL

\* SyncIfNeeded does not take a stale index for a current one, under the two
\* provisos of StaleIndexIsNoticed.
THEOREM StalenessIsNoticed == Spec => []StaleIndexIsNoticed
<1>1. IInv => StaleIndexIsNoticed
  <2> SUFFICES ASSUME IInv, ~torn, ~backdated, db.rows # CurrentBook
               PROVE  jsonl.mtime # 0 /\ NeedsRebuild(jsonl.mtime, db.lastSync)
    BY DEF StaleIndexIsNoticed
  <2>1. db.lastSync \in Nat /\ jsonl.mtime \in Nat
    BY DEF IInv, TypeOK
  <2>2. db.lastSync <= jsonl.mtime /\ db.lastSync # jsonl.mtime
    BY DEF IInv, SyncInv
  <2>3. QED
    BY <2>1, <2>2 DEF NeedsRebuild
<1>2. QED
  BY <1>1, Invariance, PTL

\* At the start nobody searches.
LEMMA SearchInit == Init => VersionInv /\ OrderInv /\ SearchInv
<1> SUFFICES ASSUME Init PROVE VersionInv /\ OrderInv /\ SearchInv
  OBVIOUS
<1>1. /\ hist = <<CurrentBook>> /\ idxVer = 0
      /\ db.lastSync = 0 /\ db.rows = Nothing
      /\ \A q \in Procs : pc[q] = "idle"
  BY DEF Init
<1>2. QED
  BY <1>1 DEF VersionInv, OrderInv, Reading, SearchInv, Found, WillFind

\* Every step preserves what searches rely on.
LEMMA SearchInvariantStep ==
  ASSUME IInv, VersionInv, OrderInv, SearchInv, [Next]_vars
  PROVE  VersionInv' /\ OrderInv' /\ SearchInv'
<1>1. TypeInv /\ TypeInv'
  BY TypeStep DEF IInv, TypeInv
<1>2. QED
  BY <1>1, VersionStep, OrderStep, SearchStep DEF IInv

\* SyncIfNeeded may leave the rebuilding to a command that is already at it,
\* or lose the race for the write lock: a search nevertheless answers from a
\* book that the file held since the search began, under the two provisos of
\* StaleIndexIsNoticed.
THEOREM SearchesAreFresh == Spec => []SearchSeesEarlierWrites
<1>1. IInv /\ VersionInv /\ OrderInv /\ SearchInv => SearchSeesEarlierWrites
  <2> SUFFICES ASSUME IInv, VersionInv, OrderInv, SearchInv,
                      NEW p \in Procs, pc[p] = "query", ~torn, ~backdated
               PROVE  \E n \in loc[p].began..Len(hist) : db.rows = hist[n]
    BY DEF SearchSeesEarlierWrites
  <2>1. loc[p].began \in 1..Len(hist) /\ Len(hist) \in Nat
    BY DEF OrderInv, Reading, IInv, TypeOK
  <2>2. loc[p].began <= idxVer \/ db.rows = hist[loc[p].began]
    BY DEF SearchInv, Found
  <2>3. idxVer \in Nat
    BY DEF IInv, TypeOK
  <2>4. CASE db.rows = hist[loc[p].began]
    BY <2>1, <2>4
  <2>5. CASE loc[p].began <= idxVer
    <3>1. idxVer \in loc[p].began..Len(hist) /\ db.rows = hist[idxVer]
      BY <2>1, <2>3, <2>5 DEF VersionInv
    <3>2. QED
      BY <3>1
  <2>6. QED
    BY <2>2, <2>4, <2>5
<1>2. IInv /\ VersionInv /\ OrderInv /\ SearchInv /\ [Next]_vars
        => (VersionInv /\ OrderInv /\ SearchInv)'
  BY SearchInvariantStep
<1>3. QED
  BY <1>1, <1>2, SearchInit, Invariance, PTL DEF Spec
=============================================================================
