-------------------------- MODULE LessonBookProofs --------------------------
(* Proofs that compact changes no lesson, that with one writer the store   *)
(* implements LessonBook, and that with any number of them it implements   *)
(* SharedBook, for every value of LessonStore's constants.                 *)
EXTENDS LessonStoreProofs
-----------------------------------------------------------------------------
(* What an append, and what compact, make of the lessons. *)

\* What the last line about an id says of it.
LEMMA LastWriteIs ==
  ASSUME NEW log \in Seq(Line), NEW counted \in SUBSET DOMAIN log, NEW n \in counted,
         \A m \in counted : log[m].id = log[n].id => m <= n
  PROVE  LastWrite(log, counted, log[n].id) =
           IF Tombstone(log[n]) THEN Absent ELSE LessonOf(log[n])
<1> DEFINE i    == log[n].id
           mine == {m \in counted : log[m].id = i}
           last == {m \in mine : ~Tombstone(log[m]) /\ \A k \in mine : k <= m}
<1>1. counted \subseteq Nat
  OBVIOUS
<1>2. n \in mine /\ \A m \in mine : m <= n
  OBVIOUS
<1>3. last = IF Tombstone(log[n]) THEN {} ELSE {n}
  BY <1>1, <1>2
<1>4. LastWrite(log, counted, i) = IF last = {} THEN Absent
                                   ELSE LessonOf(log[CHOOSE m \in last : TRUE])
  BY DEF LastWrite
<1>5. QED
  BY <1>3, <1>4

\* An id that no line is about has no lesson.
LEMMA LastWriteOfNone ==
  ASSUME NEW log, NEW counted, NEW i, \A m \in counted : log[m].id # i
  PROVE  LastWrite(log, counted, i) = Absent
BY DEF LastWrite

\* Only the lines about an id matter to it.
LEMMA LastWriteOfSame ==
  ASSUME NEW log, NEW counted, NEW other, NEW more, NEW i,
         {n \in counted : log[n].id = i} = {n \in more : other[n].id = i},
         \A n \in counted : log[n].id = i => other[n] = log[n]
  PROVE  LastWrite(other, more, i) = LastWrite(log, counted, i)
<1> DEFINE mine   == {n \in counted : log[n].id = i}
           last   == {n \in mine : ~Tombstone(log[n]) /\ \A m \in mine : m <= n}
           mineO  == {n \in more : other[n].id = i}
           lastO  == {n \in mineO : ~Tombstone(other[n]) /\ \A m \in mineO : m <= n}
<1>1. last = lastO
  <2>1. mine = mineO /\ \A n \in mine : other[n] = log[n]
    OBVIOUS
  <2> HIDE DEF mine, mineO
  <2>2. QED
    BY <2>1
<1>2. LastWrite(log, counted, i) = IF last = {} THEN Absent
                                   ELSE LessonOf(log[CHOOSE m \in last : TRUE])
  BY DEF LastWrite
<1>3. LastWrite(other, more, i) = IF lastO = {} THEN Absent
                                  ELSE LessonOf(other[CHOOSE m \in lastO : TRUE])
  BY DEF LastWrite
<1>4. last # {} => other[CHOOSE m \in last : TRUE] = log[CHOOSE m \in last : TRUE]
  <2>1. \A m \in last : other[m] = log[m]
    OBVIOUS
  <2>2. last # {} => (CHOOSE m \in last : TRUE) \in last
    OBVIOUS
  <2> HIDE DEF last
  <2>3. QED
    BY <2>1, <2>2
<1> HIDE DEF last, lastO
<1>5. QED
  BY <1>1, <1>2, <1>3, <1>4

\* A line that is appended has the last word about its id, and no other.
LEMMA AppendedLine ==
  ASSUME NEW log \in Seq(Line), NEW l \in Line
  PROVE  ReadItems(Append(log, l)) =
           IF Tombstone(l) THEN [ReadItems(log) EXCEPT ![l.id] = Absent]
           ELSE IF Valid(l) THEN [ReadItems(log) EXCEPT ![l.id] = LessonOf(l)]
           ELSE ReadItems(log)
<1> DEFINE new == Append(log, l)
           end == Len(log) + 1
<1>1. /\ new \in Seq(Line) /\ Len(log) \in Nat /\ DOMAIN log = 1..Len(log)
      /\ DOMAIN new = 1..end /\ new[end] = l
      /\ \A n \in 1..Len(log) : new[n] = log[n]
  OBVIOUS
<1>2. l.id \in Ids
  BY DEF Line
<1> HIDE DEF new
<1>3. Counted(log) \subseteq 1..Len(log)
  BY <1>1 DEF Counted
<1>4. Counted(new) = Counted(log) \cup (IF Tombstone(l) \/ Valid(l) THEN {end} ELSE {})
  BY <1>1 DEF Counted
<1>5. ASSUME NEW i \in Ids, i # l.id \/ ~(Tombstone(l) \/ Valid(l))
      PROVE  ReadItems(new)[i] = ReadItems(log)[i]
  <2>1. {n \in Counted(log) : log[n].id = i} = {n \in Counted(new) : new[n].id = i}
    BY <1>1, <1>3, <1>4, <1>5
  <2>2. \A n \in Counted(log) : log[n].id = i => new[n] = log[n]
    BY <1>1, <1>3
  <2>3. LastWrite(new, Counted(new), i) = LastWrite(log, Counted(log), i)
    BY <2>1, <2>2, LastWriteOfSame
  <2>4. QED
    BY <2>3 DEF ReadItems
<1>6. ASSUME Tombstone(l) \/ Valid(l)
      PROVE  ReadItems(new)[l.id] = IF Tombstone(l) THEN Absent ELSE LessonOf(l)
  <2>1. end \in Counted(new) /\ \A m \in Counted(new) : m <= end
    BY <1>1, <1>3, <1>4, <1>6
  <2>2. Counted(new) \in SUBSET DOMAIN new
    BY DEF Counted
  <2>3. LastWrite(new, Counted(new), new[end].id) =
          IF Tombstone(new[end]) THEN Absent ELSE LessonOf(new[end])
    BY <1>1, <2>1, <2>2, LastWriteIs
  <2>4. QED
    BY <1>1, <1>2, <2>3 DEF ReadItems
<1>7. DOMAIN ReadItems(log) = Ids /\ DOMAIN ReadItems(new) = Ids
  BY DEF ReadItems
<1>8. /\ ReadItems(log) = [i \in Ids |-> ReadItems(log)[i]]
      /\ ReadItems(new) = [i \in Ids |-> ReadItems(new)[i]]
  BY DEF ReadItems
<1>9. QED
  <2>1. CASE Tombstone(l)
    BY <1>2, <1>5, <1>6, <1>8, <2>1 DEF new
  <2>2. CASE ~Tombstone(l) /\ Valid(l)
    BY <1>2, <1>5, <1>6, <1>8, <2>2 DEF new
  <2>3. CASE ~Tombstone(l) /\ ~Valid(l)
    BY <1>5, <1>8, <2>3 DEF new
  <2>4. QED
    BY <2>1, <2>2, <2>3

\* A compacted file has the lessons that Compact found, one line for each.
LEMMA CompactedFile ==
  ASSUME NEW log \in Seq(Line), NEW file \in CompactedFiles(log)
  PROVE  /\ ReadItems(file) = CompactItems(log)
         /\ \A n \in DOMAIN file : file[n].arrays
<1> DEFINE book == CompactItems(log)
           k    == Cardinality(Live(book))
<1>1. PICK order \in [1..k -> Live(book)] :
        /\ \A m, n \in 1..k : m # n => order[m] # order[n]
        /\ file = [n \in 1..k |-> LineOf(order[n], book[order[n]])]
  BY DEF CompactedFiles
<1>2. k \in Nat /\ IsFiniteSet(Live(book))
  <2>1. IsFiniteSet(Live(book))
    BY FS_Subset, StoreAssumption DEF Live
  <2>2. QED
    BY <2>1, FS_CardinalityType
<1>3. \A i \in Live(book) : \E n \in 1..k : order[n] = i
  <2>1. order \in Injection(1..k, Live(book))
    BY <1>1 DEF Injection, IsInjective
  <2>2. Cardinality(1..k) = Cardinality(Live(book))
    BY <1>2, FS_Interval
  <2>3. order \in Surjection(1..k, Live(book))
    BY <1>2, <2>1, <2>2, FS_Injection
  <2>4. QED
    BY <2>3 DEF Surjection
<1>4. book \in Book
  BY CompactItemsType
<1>5. ASSUME NEW n \in 1..k
      PROVE  /\ file[n].id = order[n] /\ ~Tombstone(file[n]) /\ Valid(file[n])
             /\ LessonOf(file[n]) = book[order[n]] /\ file[n].arrays
  <2>1. order[n] \in Ids /\ book[order[n]] # Absent
    BY <1>1 DEF Live
  <2>2. book[order[n]] \in Lesson
    BY <1>4, <2>1 DEF Book
  <2>3. file[n] = LineOf(order[n], book[order[n]])
    BY <1>1
  <2>4. QED
    BY <2>2, <2>3, StoreAssumption DEF LineOf, Tombstone, Valid, LessonOf, Lesson
<1>6. file \in Seq(Line) /\ DOMAIN file = 1..k
  BY <1>1, CompactedFilesType
<1>7. Counted(file) = 1..k
  BY <1>5, <1>6 DEF Counted
<1> HIDE DEF book, k
<1>8. ASSUME NEW i \in Ids
      PROVE  LastWrite(file, Counted(file), i) = book[i]
  <2>1. CASE i \in Live(book)
    <3>1. PICK n \in 1..k : order[n] = i
      BY <1>3, <2>1
    <3>2. \A m \in 1..k : file[m].id = file[n].id => m <= n
      BY <1>1, <1>2, <1>5
    <3>3. LastWrite(file, 1..k, file[n].id) =
            IF Tombstone(file[n]) THEN Absent ELSE LessonOf(file[n])
      BY <1>6, <3>2, LastWriteIs
    <3>4. QED
      BY <1>5, <1>7, <3>1, <3>3
  <2>2. CASE i \notin Live(book)
    <3>1. \A m \in Counted(file) : file[m].id # i
      BY <1>1, <1>5, <1>7, <2>2
    <3>2. book[i] = Absent
      BY <2>2 DEF Live
    <3>3. QED
      BY <3>1, <3>2, LastWriteOfNone
  <2>3. QED
    BY <2>1, <2>2
<1>9. ReadItems(file) = book
  BY <1>4, <1>8 DEF ReadItems, Book
<1>10. QED
  BY <1>5, <1>6, <1>9 DEF book

\* Compact finds what the readers find when no record has null arrays.
LEMMA ModernItems ==
  ASSUME NEW log, Modern(log)
  PROVE  CompactItems(log) = ReadItems(log)
<1>1. CompactCounted(log) = Counted(log)
  BY DEF CompactCounted, Counted, CompactValid, Modern
<1>2. QED
  BY <1>1 DEF CompactItems, ReadItems

-----------------------------------------------------------------------------
(* Compaction. *)

\* The temporary file comes from CompactRead and goes with CompactRename.
LEMMA TempStep ==
  ASSUME TypeInv, NEW p \in Procs, Begin(p) \/ Step(p) \/ Crash(p),
         pc'[p] \in {"temp", "rename"}
  PROVE  \/ CompactRead(p)
         \/ /\ CompactTemp(p)
            /\ loc'[p].tmp = loc[p].tmp /\ loc'[p].seen = loc[p].seen
<1> USE DEF TypeInv
<1>1. ~Begin(p)
  BY BeginFrame
<1>2. ~Crash(p)
  BY DEF Crash, Return, TypeOK
<1>3. ~SkipLine(p) /\ ~WriteLine(p) /\ ~OpenLog(p)
  BY DEF SkipLine, WriteLine, OpenLog, Proceed, Goto, Return, TypeOK
<1>4. ~CheckSync(p) /\ ~LoadItems(p) /\ ~BeginTxn(p) /\ ~Commit(p)
  BY DEF CheckSync, LoadItems, BeginTxn, Commit, Goto, TypeOK
<1>5. ~BusyTimeout(p) /\ ~Query(p) /\ ~CompactRename(p)
  BY DEF BusyTimeout, Query, CompactRename, Goto, Return, TypeOK
<1>6. CompactTemp(p) => loc'[p].tmp = loc[p].tmp /\ loc'[p].seen = loc[p].seen
  BY DEF CompactTemp, Goto, TypeOK, Local
<1>7. QED
  BY <1>1, <1>2, <1>3, <1>4, <1>5, <1>6 DEF Step

\* Compact holds a file that the lines it has read may be compacted to.
LEMMA ReadSeen ==
  ASSUME TypeInv, NEW p \in Procs, CompactRead(p), pc'[p] \in {"temp", "rename"}
  PROVE  loc'[p].tmp \in CompactedFiles(jsonl.lines) /\ loc'[p].seen = Len(hist)
<1>1. jsonl.mtime # 0
  BY DEF CompactRead, Goto, TypeInv, TypeOK
<1>2. PICK file \in CompactedFiles(jsonl.lines) :
        Goto(p, "temp", [loc[p] EXCEPT !.tmp = file, !.seen = Len(hist)])
  BY <1>1 DEF CompactRead
<1>3. loc'[p] = [loc[p] EXCEPT !.tmp = file, !.seen = Len(hist)] /\ loc[p] \in Local
  BY <1>2 DEF Goto, TypeInv, TypeOK
<1>4. PICK m \in Local : m = loc[p]
  BY <1>3
<1>5. /\ [m EXCEPT !.tmp = file, !.seen = Len(hist)].tmp = file
      /\ [m EXCEPT !.tmp = file, !.seen = Len(hist)].seen = Len(hist)
  BY DEF Local
<1>6. QED
  BY <1>3, <1>4, <1>5

\* The temporary file is a copy of the file until somebody writes.
LEMMA CompactStep ==
  ASSUME TypeInv, TypeInv', CompactInv, [Next]_vars
  PROVE  CompactInv'
<1>1. /\ Len(hist) \in Nat
      /\ \/ hist' = hist /\ jsonl'.lines = jsonl.lines
         \/ Len(hist') = Len(hist) + 1
  <2>1. hist \in Seq(Book) /\ hist' \in Seq(Book) /\ Len(hist) \in Nat
    BY HistLength
  <2>2. hist' = Append(hist, CurrentBook') => Len(hist') = Len(hist) + 1
    BY <2>1
  <2>3. QED
    BY <2>1, <2>2, LinesStep
<1>2. \A q \in Procs : loc[q].seen \in Nat
  BY DEF TypeInv, TypeOK, Local
<1>3. ASSUME NEW q \in Procs, pc[q] \in {"temp", "rename"},
             loc'[q].tmp = loc[q].tmp, loc'[q].seen = loc[q].seen
      PROVE  /\ loc'[q].seen <= Len(hist')
             /\ loc'[q].seen = Len(hist') => loc'[q].tmp \in CompactedFiles(jsonl'.lines)
  BY <1>1, <1>2, <1>3 DEF CompactInv
<1>4. CASE UNCHANGED vars
  BY <1>4 DEF vars, CompactInv
<1>5. ASSUME NEW p \in Procs, Begin(p) \/ Step(p) \/ Crash(p)
      PROVE  CompactInv'
  <2>1. \A q \in Procs \ {p} : pc'[q] = pc[q] /\ loc'[q] = loc[q]
    BY <1>5, BeginFrame, StepFrame
  <2>2. SUFFICES ASSUME pc'[p] \in {"temp", "rename"}
                 PROVE  /\ loc'[p].seen <= Len(hist')
                        /\ loc'[p].seen = Len(hist')
                             => loc'[p].tmp \in CompactedFiles(jsonl'.lines)
    BY <1>3, <2>1 DEF CompactInv
  <2>3. CASE CompactRead(p)
    <3>1. /\ loc'[p].tmp \in CompactedFiles(jsonl.lines)
          /\ loc'[p].seen = Len(hist)
      BY <2>2, <2>3, ReadSeen
    <3>2. hist' = hist /\ jsonl' = jsonl
      BY <2>3 DEF CompactRead, history
    <3>3. QED
      BY <1>1, <3>1, <3>2
  <2>4. CASE /\ CompactTemp(p)
             /\ loc'[p].tmp = loc[p].tmp /\ loc'[p].seen = loc[p].seen
    BY <1>3, <2>4 DEF CompactTemp
  <2>5. QED
    BY <1>5, <2>2, <2>3, <2>4, TempStep
<1>6. QED
  BY <1>4, <1>5 DEF Next

\* The rename puts the temporary file in the place of the file.
LEMMA RenameStep ==
  ASSUME TypeInv, NEW p \in Procs, CompactRename(p),
         loc[p].tmp \in CompactedFiles(jsonl.lines), Modern(jsonl.lines)
  PROVE  CurrentBook' = CurrentBook /\ Modern(jsonl'.lines)
<1>1. jsonl'.lines = loc[p].tmp /\ jsonl.lines \in Seq(Line)
  BY DEF CompactRename, TypeInv, TypeOK
<1>2. ReadItems(jsonl'.lines) = ReadItems(jsonl.lines)
  BY <1>1, CompactedFile, ModernItems
<1>3. Modern(jsonl'.lines)
  BY <1>1, CompactedFile DEF Modern
<1>4. QED
  BY <1>2, <1>3 DEF CurrentBook

\* No command compacts at the start.
LEMMA CompactInit == Init => CompactInv
BY DEF Init, CompactInv

\* Compact rewrites the file from a read of it and loses no lesson, whatever
\* the other commands do meanwhile short of writing: one line per live record,
\* deletions and overwritten records left out.
THEOREM CompactionLosesNothing == Spec => CompactKeepsBook
<1> DEFINE Kept == \A p \in Procs :
                     /\ pc[p] = "rename" /\ pc'[p] = "load"
                     /\ loc[p].seen = Len(hist)
                     /\ \A n \in DOMAIN jsonl.lines : jsonl.lines[n].arrays
                     => CurrentBook' = CurrentBook
<1>1. TypeInv /\ CompactInv /\ [Next]_vars => (TypeInv /\ CompactInv)'
  BY TypeStep, CompactStep
<1>2. TypeInv /\ CompactInv /\ [Next]_vars => [Kept]_vars
  <2> SUFFICES ASSUME TypeInv, CompactInv, Next, NEW p \in Procs,
                      pc[p] = "rename", pc'[p] = "load", loc[p].seen = Len(hist),
                      \A n \in DOMAIN jsonl.lines : jsonl.lines[n].arrays
               PROVE  CurrentBook' = CurrentBook
    OBVIOUS
  <2>1. loc[p].tmp \in CompactedFiles(jsonl.lines) /\ Modern(jsonl.lines)
    BY DEF CompactInv, Modern
  <2>2. PICK q \in Procs : Begin(q) \/ Step(q) \/ Crash(q)
    BY DEF Next
  <2>3. q = p
    BY <2>2, BeginFrame, StepFrame
  <2>4. ~Begin(p) /\ ~Crash(p)
    BY BeginFrame DEF Crash, Return, TypeInv, TypeOK
  <2>5. CompactRename(p)
    BY <2>2, <2>3, <2>4 DEF Step, SkipLine, OpenLog, WriteLine, CheckSync, LoadItems,
      BeginTxn, BusyTimeout, Commit, Query, CompactRead, CompactTemp
  <2>6. QED
    BY <2>1, <2>5, RenameStep
<1> HIDE DEF Kept
<1>3. Spec => [][Kept]_vars
  BY <1>1, <1>2, TypeInit, CompactInit, PTL DEF Spec
<1>4. QED
  BY <1>3 DEF CompactKeepsBook, Kept

-----------------------------------------------------------------------------
(* With one writer, what a command has read stays true until it has written. *)

Writing(label) == label \in {"append", "write", "compact", "temp", "rename"}

\* Only writers write.
LEMMA ReadersKeepLines ==
  ASSUME TypeInv, WriterInv, NEW p \in Procs \ Writers, Begin(p) \/ Step(p) \/ Crash(p)
  PROVE  /\ hist' = hist /\ jsonl'.lines = jsonl.lines
         /\ ~Writing(pc'[p])
<1>1. pc[p] \notin {"append", "write", "compact", "temp", "rename"}
  BY DEF WriterInv, Undisturbed
<1>2. CASE Begin(p)
  <2>1. jsonl' = jsonl /\ hist' = hist
    BY <1>2, BeginFrame DEF history
  <2>2. BeginSearch(p) \/ BeginRebuild(p)
    BY <1>2 DEF Begin, Learn, Update, Mark, Delete, Import, BeginWriting, BeginCompact
  <2>3. pc'[p] \in {"query", "check", "load"}
    BY <2>2 DEF BeginSearch, BeginRebuild, Goto, TypeInv, TypeOK
  <2>4. QED
    BY <2>1, <2>3 DEF Writing
<1>3. CASE Crash(p)
  BY <1>3 DEF Crash, Return, history, Writing, TypeInv, TypeOK
<1>4. CASE Step(p)
  <2>1. \/ CheckSync(p) \/ LoadItems(p) \/ BeginTxn(p) \/ BusyTimeout(p)
        \/ Commit(p) \/ Query(p)
    BY <1>1, <1>4 DEF Step, SkipLine, OpenLog, WriteLine, CompactRead, CompactTemp,
      CompactRename
  <2>2. jsonl' = jsonl /\ hist' = hist
    BY <2>1 DEF CheckSync, LoadItems, BeginTxn, BusyTimeout, Commit, Query, history
  <2>3. pc'[p] \in {"load", "query", "begin", "commit", "idle"}
    BY <2>1 DEF CheckSync, LoadItems, BeginTxn, BusyTimeout, Commit, Query, Goto, Return,
      TypeInv, TypeOK
  <2>4. QED
    BY <2>2, <2>3 DEF Writing
<1>5. QED
  BY <1>2, <1>3, <1>4

\* A command starts with lines that fit the book it has read.
LEMMA FitsBegin ==
  ASSUME TypeInv, NEW p \in Procs, Begin(p), pc'[p] = "append"
  PROVE  /\ p \in Writers /\ Fits(loc'[p], CurrentBook)
         /\ loc'[p].seen = Len(hist) /\ loc'[p].known = Live(CurrentBook)
<1>1. ~BeginSearch(p) /\ ~BeginRebuild(p)
  BY DEF BeginSearch, BeginRebuild, Goto, TypeInv, TypeOK
<1>2. \A force \in BOOLEAN : ~BeginCompact(p, force)
  BY DEF BeginCompact, Goto, TypeInv, TypeOK
<1>3. ASSUME NEW cmd, NEW todo, BeginWriting(p, cmd, todo)
      PROVE  /\ p \in Writers
             /\ loc'[p].cmd = cmd /\ loc'[p].todo = todo
             /\ loc'[p].seen = Len(hist) /\ loc'[p].known = Live(CurrentBook)
  BY <1>3 DEF BeginWriting, Goto, Idle, TypeInv, TypeOK
<1>4. ASSUME NEW i \in Ids, NEW c \in Insights \cup {NoInsight}, Learn(p, i, c)
      PROVE  /\ p \in Writers /\ Fits(loc'[p], CurrentBook)
             /\ loc'[p].seen = Len(hist) /\ loc'[p].known = Live(CurrentBook)
  <2>1. /\ p \in Writers /\ loc'[p].cmd = "learn"
        /\ loc'[p].seen = Len(hist) /\ loc'[p].known = Live(CurrentBook)
        /\ loc'[p].todo = <<LineOf(i, [insight |-> c, wrong |-> FALSE])>>
    BY <1>3, <1>4 DEF Learn
  <2>2. QED
    BY <2>1 DEF Fits
<1>5. ASSUME NEW i \in Ids, NEW c \in Insights \cup {NoInsight}, Update(p, i, c)
      PROVE  /\ p \in Writers /\ Fits(loc'[p], CurrentBook)
             /\ loc'[p].seen = Len(hist) /\ loc'[p].known = Live(CurrentBook)
  <2>1. /\ p \in Writers /\ loc'[p].cmd = "update"
        /\ CurrentBook[i] # Absent
        /\ loc'[p].todo = <<LineOf(i, [CurrentBook[i] EXCEPT !.insight = c])>>
        /\ loc'[p].seen = Len(hist) /\ loc'[p].known = Live(CurrentBook)
    BY <1>3, <1>5 DEF Update
  <2>2. QED
    BY <2>1 DEF Fits
<1>6. ASSUME NEW i \in Ids, NEW w \in BOOLEAN, Mark(p, i, w)
      PROVE  /\ p \in Writers /\ Fits(loc'[p], CurrentBook)
             /\ loc'[p].seen = Len(hist) /\ loc'[p].known = Live(CurrentBook)
  <2>1. /\ p \in Writers /\ loc'[p].cmd = "mark"
        /\ CurrentBook[i] # Absent /\ CurrentBook[i].wrong = ~w
        /\ loc'[p].todo = <<LineOf(i, [CurrentBook[i] EXCEPT !.wrong = w])>>
        /\ loc'[p].seen = Len(hist) /\ loc'[p].known = Live(CurrentBook)
    BY <1>3, <1>6 DEF Mark
  <2>2. QED
    BY <2>1 DEF Fits
<1>7. ASSUME NEW args \in {<<i>> : i \in Ids} \cup (Ids \X Ids), Delete(p, args)
      PROVE  /\ p \in Writers /\ Fits(loc'[p], CurrentBook)
             /\ loc'[p].seen = Len(hist) /\ loc'[p].known = Live(CurrentBook)
  <2>1. \A n \in DOMAIN args : args[n] \in Ids
    BY <1>7
  <2>2. /\ p \in Writers /\ loc'[p].cmd = "delete"
        /\ loc'[p].seen = Len(hist) /\ loc'[p].known = Live(CurrentBook)
        /\ loc'[p].todo = [n \in DOMAIN args |-> TombstoneLine(args[n])]
    BY <1>3, <1>7 DEF Delete
  <2>3. QED
    BY <2>1, <2>2 DEF Fits
<1>8. ASSUME NEW file \in ImportFiles, Import(p, file)
      PROVE  /\ p \in Writers /\ Fits(loc'[p], CurrentBook)
             /\ loc'[p].seen = Len(hist) /\ loc'[p].known = Live(CurrentBook)
  <2>1. /\ p \in Writers /\ loc'[p].cmd = "import"
        /\ loc'[p].seen = Len(hist) /\ loc'[p].known = Live(CurrentBook)
    BY <1>3, <1>8 DEF Import
  <2>2. QED
    BY <2>1 DEF Fits
<1>9. QED
  BY <1>1, <1>2, <1>4, <1>5, <1>6, <1>7, <1>8 DEF Begin

\* After a line, the rest of the lines fit as before: only delete and import
\* have more than one.
LEMMA FitsProceed ==
  ASSUME TypeInv, NEW p \in Procs, pc[p] \in {"append", "write"}, NEW book,
         Fits(loc[p], book),
         NEW local \in Local, local.cmd = loc[p].cmd, local.todo = loc[p].todo,
         Proceed(p, local), pc'[p] # "idle"
  PROVE  /\ pc'[p] = "append"
         /\ loc'[p].cmd \in {"delete", "import"}
         /\ loc'[p].cmd = loc[p].cmd /\ loc'[p].known = local.known
         /\ loc'[p].seen = local.seen
         /\ loc'[p].cmd = "delete" =>
              \A n \in DOMAIN loc'[p].todo :
                \E i \in Ids : loc'[p].todo[n] = TombstoneLine(i)
<1> DEFINE todo == loc[p].todo
<1>1. todo \in Seq(Line) /\ todo # <<>> /\ loc[p].cmd \in WritingCommands
  BY DEF TypeInv, TypeOK, TodoInv, Local
<1>2. Tail(todo) # <<>>
  BY DEF Proceed, Return, TypeInv, TypeOK
<1>3. pc'[p] = "append" /\ loc'[p] = [local EXCEPT !.todo = Tail(todo), !.fd = 0]
  BY <1>2 DEF Proceed, Goto, TypeInv, TypeOK
<1>4. /\ loc'[p].cmd = loc[p].cmd /\ loc'[p].todo = Tail(todo)
      /\ loc'[p].known = local.known /\ loc'[p].seen = local.seen
  BY <1>3 DEF Local
<1>5. \A l : todo # <<l>>
  <2>1. Tail(todo) \in Seq(Line) /\ Len(Tail(todo)) = Len(todo) - 1
    BY <1>1, HeadTailProperties
  <2>2. Len(Tail(todo)) # 0
    BY <1>2, <2>1, EmptySeq
  <2>3. Len(todo) # 1
    BY <2>1, <2>2
  <2>4. QED
    BY <2>3
<1>6. loc[p].cmd \in {"delete", "import"}
  BY <1>1, <1>5 DEF Fits, WritingCommands
<1>7. ASSUME loc[p].cmd = "delete", NEW n \in DOMAIN Tail(todo)
      PROVE  \E i \in Ids : Tail(todo)[n] = TombstoneLine(i)
  <2>1. n + 1 \in DOMAIN todo /\ Tail(todo)[n] = todo[n + 1]
    BY <1>1
  <2>2. QED
    BY <1>7, <2>1 DEF Fits
<1>8. QED
  BY <1>3, <1>4, <1>6, <1>7

\* What a line that is about to be written can be.
LEMMA FitsHead ==
  ASSUME TypeInv, NEW p \in Procs, pc[p] = "write", NEW book, Fits(loc[p], book),
         ~Skipped(loc[p])
  PROVE  LET l == Head(loc[p].todo)
         IN  \/ /\ loc[p].cmd = "learn"
                /\ \E i \in Ids, c \in Insights \cup {NoInsight} :
                     l = LineOf(i, [insight |-> c, wrong |-> FALSE])
             \/ /\ loc[p].cmd = "update"
                /\ \E i \in Ids, c \in Insights \cup {NoInsight} :
                     /\ book[i] # Absent
                     /\ l = LineOf(i, [book[i] EXCEPT !.insight = c])
             \/ /\ loc[p].cmd = "mark"
                /\ \E i \in Ids, w \in BOOLEAN :
                     /\ book[i] # Absent
                     /\ book[i].wrong = ~w
                     /\ l = LineOf(i, [book[i] EXCEPT !.wrong = w])
             \/ /\ loc[p].cmd = "delete"
                /\ \E i \in Ids : l = TombstoneLine(i)
             \/ /\ loc[p].cmd = "import"
                /\ book[l.id] = Absent
                /\ CompactValid(l)
<1> DEFINE todo == loc[p].todo
           l    == Head(todo)
<1>1. todo \in Seq(Line) /\ todo # <<>> /\ loc[p].cmd \in WritingCommands
  BY DEF TypeInv, TypeOK, TodoInv, Local
<1>2. l \in Line /\ 1 \in DOMAIN todo /\ l = todo[1]
  BY <1>1
<1>3. \A m : todo = <<m>> => l = m
  OBVIOUS
<1>4. CASE loc[p].cmd = "learn"
  BY <1>3, <1>4 DEF Fits
<1>5. CASE loc[p].cmd = "update"
  BY <1>3, <1>5 DEF Fits
<1>6. CASE loc[p].cmd = "mark"
  BY <1>3, <1>6 DEF Fits
<1>7. CASE loc[p].cmd = "delete"
  BY <1>2, <1>7 DEF Fits
<1>8. CASE loc[p].cmd = "import"
  <2>1. l.id \in Ids /\ l.id \notin loc[p].known /\ CompactValid(l)
    BY <1>2, <1>8 DEF Skipped, Line
  <2>2. book[l.id] = Absent
    BY <1>8, <2>1 DEF Fits, Live
  <2>3. QED
    BY <1>8, <2>1, <2>2
<1>9. QED
  BY <1>1, <1>4, <1>5, <1>6, <1>7, <1>8 DEF WritingCommands


\* Lines that fit the book do so in any memory that holds them.
LEMMA SameFits ==
  ASSUME NEW local, NEW other, NEW book, Fits(local, book),
         other.cmd = local.cmd, other.todo = local.todo, other.known = local.known
  PROVE  Fits(other, book)
<1>1. /\ other.cmd = "learn" =>
           \E i \in Ids, c \in Insights \cup {NoInsight} :
             other.todo = <<LineOf(i, [insight |-> c, wrong |-> FALSE])>>
      /\ other.cmd = "update" =>
           \E i \in Ids, c \in Insights \cup {NoInsight} :
             /\ book[i] # Absent
             /\ other.todo = <<LineOf(i, [book[i] EXCEPT !.insight = c])>>
      /\ other.cmd = "mark" =>
           \E i \in Ids, w \in BOOLEAN :
             /\ book[i] # Absent
             /\ book[i].wrong = ~w
             /\ other.todo = <<LineOf(i, [book[i] EXCEPT !.wrong = w])>>
  BY Zenon DEF Fits
<1>2. /\ other.cmd = "delete" =>
           \A n \in DOMAIN other.todo : \E i \in Ids : other.todo[n] = TombstoneLine(i)
      /\ other.cmd = "import" => Live(book) \subseteq other.known
  BY Zenon DEF Fits
<1>3. QED
  BY <1>1, <1>2 DEF Fits

\* A line that is written adds its own id, at most, to the book.
LEMMA WrittenIds ==
  ASSUME TypeInv, NEW l \in Line, jsonl'.lines = Append(jsonl.lines, l)
  PROVE  Live(CurrentBook') \subseteq Live(CurrentBook) \cup {l.id}
<1>1. jsonl.lines \in Seq(Line) /\ CurrentBook \in Book
  BY CurrentBookType DEF TypeInv, TypeOK
<1>2. \A i \in Ids \ {l.id} : CurrentBook'[i] = CurrentBook[i]
  BY <1>1, AppendedLine DEF CurrentBook, Book
<1>3. QED
  BY <1>2 DEF Live

\* The step of the one writer.
LEMMA OwnStep ==
  ASSUME TypeInv, TypeInv', WriterInv, NEW p \in Writers, Begin(p) \/ Step(p) \/ Crash(p)
  PROVE  Undisturbed(p)'
<1>1. p \in Procs /\ loc[p] \in Local
  BY StoreAssumption DEF TypeInv, TypeOK
<1>2. CASE Begin(p)
  <2>1. jsonl' = jsonl /\ pc'[p] \in {"append", "compact", "query", "check", "load"}
    BY <1>1, <1>2, BeginFrame
  <2>2. pc'[p] = "append" => Fits(loc'[p], CurrentBook')
    BY <1>1, <1>2, <2>1, FitsBegin DEF CurrentBook
  <2>3. QED
    BY <2>1, <2>2 DEF Undisturbed
<1>3. CASE Crash(p)
  BY <1>1, <1>3 DEF Crash, Return, Undisturbed, TypeInv, TypeOK
<1>4. CASE SkipLine(p)
  <2>1. SUFFICES ASSUME pc'[p] # "idle" PROVE Undisturbed(p)'
    BY DEF Undisturbed
  <2>2. /\ pc[p] = "append" /\ Fits(loc[p], CurrentBook) /\ Proceed(p, loc[p])
        /\ CurrentBook' = CurrentBook
    BY <1>1, <1>4 DEF SkipLine, WriterInv, Undisturbed, CurrentBook
  <2>3. /\ pc'[p] = "append"
        /\ loc'[p].cmd \in {"delete", "import"}
        /\ loc'[p].cmd = loc[p].cmd /\ loc'[p].known = loc[p].known
        /\ loc'[p].cmd = "delete" =>
             \A n \in DOMAIN loc'[p].todo :
               \E i \in Ids : loc'[p].todo[n] = TombstoneLine(i)
    BY <1>1, <2>1, <2>2, FitsProceed
  <2>4. Fits(loc'[p], CurrentBook)
    BY <2>2, <2>3 DEF Fits
  <2>5. QED
    BY <1>1, <2>2, <2>3, <2>4 DEF Undisturbed
<1>5. CASE OpenLog(p)
  <2>1. /\ pc[p] = "append" /\ Fits(loc[p], CurrentBook) /\ ~Skipped(loc[p])
        /\ pc'[p] = "write" /\ loc'[p] = [loc[p] EXCEPT !.fd = jsonl.inode]
    BY <1>1, <1>5 DEF OpenLog, Goto, WriterInv, Undisturbed, TypeInv, TypeOK
  <2>2. /\ loc'[p].cmd = loc[p].cmd /\ loc'[p].todo = loc[p].todo
        /\ loc'[p].known = loc[p].known
    BY <1>1, <2>1 DEF Local
  <2>3. Fits(loc'[p], CurrentBook) /\ ~Skipped(loc'[p])
    <3>1. Fits(loc'[p], CurrentBook)
      BY <2>1, <2>2, SameFits
    <3>2. ~Skipped(loc'[p])
      BY <2>1, <2>2, Zenon DEF Skipped
    <3>3. QED
      BY <3>1, <3>2
  <2>4. CurrentBook' = CurrentBook
    BY <1>5 DEF OpenLog, CurrentBook, TypeInv, TypeOK
  <2>5. QED
    BY <1>1, <2>1, <2>3, <2>4 DEF Undisturbed
<1>6. CASE WriteLine(p)
  <2>1. SUFFICES ASSUME pc'[p] # "idle" PROVE Undisturbed(p)'
    BY DEF Undisturbed
  <2> DEFINE l     == Head(loc[p].todo)
             local == IF loc[p].cmd = "import"
                      THEN [loc[p] EXCEPT !.known = @ \cup {l.id}]
                      ELSE loc[p]
  <2>2. pc[p] = "write" /\ Fits(loc[p], CurrentBook) /\ ~Skipped(loc[p]) /\ Proceed(p, local)
    BY <1>1, <1>6 DEF WriteLine, WriterInv, Undisturbed
  <2>3. l \in Line /\ l.id \in Ids
    <3>1. loc[p].todo \in Seq(Line) /\ loc[p].todo # <<>>
      BY <1>1, <2>2 DEF TypeInv, TodoInv, Local
    <3>2. l \in Line
      BY <3>1, HeadTailProperties
    <3>3. QED
      BY <3>2 DEF Line
  <2>4. /\ local \in Local /\ local.cmd = loc[p].cmd /\ local.todo = loc[p].todo
        /\ local.cmd = "import" => local.known = loc[p].known \cup {l.id}
    BY <1>1, <2>3 DEF Local
  <2> HIDE DEF local
  <2>5. /\ pc'[p] = "append"
        /\ loc'[p].cmd \in {"delete", "import"}
        /\ loc'[p].cmd = loc[p].cmd /\ loc'[p].known = local.known
        /\ loc'[p].cmd = "delete" =>
             \A n \in DOMAIN loc'[p].todo :
               \E i \in Ids : loc'[p].todo[n] = TombstoneLine(i)
    BY <1>1, <2>1, <2>2, <2>4, FitsProceed
  <2>6. loc[p].cmd = "import" => Live(CurrentBook') \subseteq loc'[p].known
    <3>1. Live(CurrentBook') \subseteq Live(CurrentBook) \cup {l.id}
      <4>1. jsonl'.lines = jsonl.lines \/ jsonl'.lines = Append(jsonl.lines, l)
        <5>1. jsonl.lines = jsonl'.lines
              \/ jsonl' = [jsonl EXCEPT !.lines = Append(jsonl.lines, l), !.mtime = now']
          BY <1>6 DEF WriteLine
        <5>2. jsonl = [inode |-> jsonl.inode, lines |-> jsonl.lines, mtime |-> jsonl.mtime]
          BY DEF TypeInv, TypeOK
        <5>3. QED
          BY <5>1, <5>2
      <4>2. QED
        BY <2>3, <4>1, WrittenIds DEF CurrentBook
    <3>2. QED
      BY <2>2, <2>4, <2>5, <3>1 DEF Fits
  <2>7. Fits(loc'[p], CurrentBook')
    BY <2>5, <2>6 DEF Fits
  <2>8. QED
    BY <2>5, <2>7 DEF Undisturbed
<1>7. CASE CompactRead(p) \/ CompactTemp(p)
  <2>1. SUFFICES ASSUME pc'[p] \in {"temp", "rename"} PROVE Undisturbed(p)'
    BY <1>1, <1>7 DEF CompactRead, CompactTemp, Goto, Undisturbed, TypeInv, TypeOK
  <2>2. hist' = hist
    BY <1>7 DEF CompactRead, CompactTemp, history
  <2>3. loc'[p].seen = Len(hist)
    <3>1. CASE CompactTemp(p)
      BY <1>1, <3>1 DEF CompactTemp, Goto, WriterInv, Undisturbed, TypeInv, TypeOK, Local
    <3>2. CASE CompactRead(p)
      BY <1>1, <2>1, <3>2, ReadSeen
    <3>3. QED
      BY <1>7, <3>1, <3>2
  <2>4. QED
    BY <2>1, <2>2, <2>3 DEF Undisturbed
<1>8. CASE CheckSync(p) \/ LoadItems(p) \/ BeginTxn(p) \/ Commit(p) \/ CompactRename(p)
  BY <1>1, <1>8 DEF CheckSync, LoadItems, BeginTxn, Commit, CompactRename, Goto, Undisturbed,
    TypeInv, TypeOK
<1>9. CASE BusyTimeout(p) \/ Query(p)
  BY <1>1, <1>9 DEF BusyTimeout, Query, Return, Undisturbed, TypeInv, TypeOK
<1>10. QED
  BY <1>2, <1>3, <1>4, <1>5, <1>6, <1>7, <1>8, <1>9 DEF Step

\* Every record that a command writes is one that compact keeps.
LEMMA WrittenModern ==
  ASSUME TypeInv, Modern(jsonl.lines), NEW p \in Procs, WriteLine(p),
         loc[p].fd = jsonl.inode, NEW book, Fits(loc[p], book), ~Skipped(loc[p])
  PROVE  Modern(jsonl'.lines)
<1> DEFINE l == Head(loc[p].todo)
<1>1. pc[p] = "write" /\ jsonl.lines \in Seq(Line)
  BY DEF WriteLine, TypeInv, TypeOK
<1>2. l \in Line
  BY <1>1, HeadTailProperties DEF TypeInv, TypeOK, TodoInv, Local
<1>3. jsonl'.lines = Append(jsonl.lines, l)
  BY DEF WriteLine, TypeInv, TypeOK
<1>4. Tombstone(l) \/ l.arrays
  <2>1. \/ \E i, lesson : l = LineOf(i, lesson)
        \/ \E i : l = TombstoneLine(i)
        \/ CompactValid(l)
    BY <1>1, FitsHead
  <2>2. ASSUME NEW i, NEW lesson, l = LineOf(i, lesson) PROVE l.arrays
    BY <2>2 DEF LineOf
  <2>3. ASSUME NEW i, l = TombstoneLine(i) PROVE Tombstone(l)
    BY <2>3 DEF TombstoneLine, Tombstone
  <2>4. CompactValid(l) => l.arrays
    BY DEF CompactValid
  <2>5. QED
    BY <2>1, <2>2, <2>3, <2>4
<1> HIDE DEF l
<1>5. QED
  BY <1>1, <1>2, <1>3, <1>4 DEF Modern

\* Nothing but a line that is written, and a rename, changes the lines.
LEMMA OtherLines ==
  ASSUME TypeInv, NEW p \in Procs, Begin(p) \/ Step(p) \/ Crash(p),
         ~(WriteLine(p) /\ loc[p].fd = jsonl.inode), ~CompactRename(p)
  PROVE  jsonl'.lines = jsonl.lines
<1>1. CASE OpenLog(p) \/ WriteLine(p)
  BY <1>1 DEF OpenLog, WriteLine, TypeInv, TypeOK
<1>2. CASE SkipLine(p) \/ CheckSync(p) \/ LoadItems(p) \/ BeginTxn(p)
  BY <1>2 DEF SkipLine, CheckSync, LoadItems, BeginTxn
<1>3. CASE BusyTimeout(p) \/ Commit(p) \/ Query(p) \/ CompactRead(p) \/ CompactTemp(p)
  BY <1>3 DEF BusyTimeout, Commit, Query, CompactRead, CompactTemp
<1>4. CASE Begin(p) \/ Crash(p)
  BY <1>4, BeginFrame DEF Crash
<1>5. QED
  BY <1>1, <1>2, <1>3, <1>4 DEF Step

\* So the file stays one in which readers and compact see the same records.
LEMMA ModernStep ==
  ASSUME TypeInv, CompactInv, WriterInv, NEW p \in Procs, Begin(p) \/ Step(p) \/ Crash(p)
  PROVE  Modern(jsonl'.lines)
<1>1. Modern(jsonl.lines)
  BY DEF WriterInv
<1>2. CASE WriteLine(p) /\ loc[p].fd = jsonl.inode
  <2>1. Fits(loc[p], CurrentBook) /\ ~Skipped(loc[p])
    BY <1>2 DEF WriteLine, WriterInv, Undisturbed
  <2>2. QED
    BY <1>1, <1>2, <2>1, WrittenModern
<1>3. CASE CompactRename(p)
  <2>1. loc[p].tmp \in CompactedFiles(jsonl.lines)
    BY <1>3 DEF CompactRename, CompactInv, WriterInv, Undisturbed
  <2>2. QED
    BY <1>1, <1>3, <2>1, RenameStep
<1>4. CASE ~(WriteLine(p) /\ loc[p].fd = jsonl.inode) /\ ~CompactRename(p)
  BY <1>1, <1>4, OtherLines
<1>5. QED
  BY <1>2, <1>3, <1>4

\* Every step preserves the invariant about the only writer.
LEMMA WriterStep ==
  ASSUME OneWriter, TypeInv, TypeInv', CompactInv, WriterInv, [Next]_vars
  PROVE  WriterInv'
<1>1. CASE UNCHANGED vars
  BY <1>1 DEF vars, WriterInv, Undisturbed, Fits, CurrentBook
<1>2. ASSUME NEW p \in Procs, Begin(p) \/ Step(p) \/ Crash(p)
      PROVE  WriterInv'
  <2>1. \A q \in Procs \ {p} : pc'[q] = pc[q] /\ loc'[q] = loc[q]
    BY <1>2, BeginFrame, StepFrame
  <2>2. Modern(jsonl'.lines)
    BY <1>2, ModernStep
  <2>3. Undisturbed(p)'
    <3>1. CASE p \in Writers
      BY <1>2, <3>1, OwnStep
    <3>2. CASE p \notin Writers
      BY <1>2, <3>2, ReadersKeepLines DEF Writing, Undisturbed
    <3>3. QED
      BY <3>1, <3>2
  <2>4. ASSUME NEW q \in Procs, q # p PROVE Undisturbed(q)'
    <3>1. pc'[q] = pc[q] /\ loc'[q] = loc[q] /\ Undisturbed(q)
      BY <2>1, <2>4 DEF WriterInv
    <3>2. CASE q \in Writers
      <4>1. p \notin Writers
        BY <2>4, <3>2 DEF OneWriter
      <4>2. hist' = hist /\ jsonl'.lines = jsonl.lines
        BY <1>2, <4>1, ReadersKeepLines
      <4>3. Fits(loc'[q], CurrentBook) => Fits(loc'[q], CurrentBook')
        BY <3>1, <4>2 DEF CurrentBook
      <4>4. QED
        BY <3>1, <3>2, <4>2, <4>3 DEF Undisturbed
    <3>3. CASE q \notin Writers
      BY <3>1, <3>3 DEF Undisturbed
    <3>4. QED
      BY <3>2, <3>3
  <2>5. QED
    BY <2>2, <2>3, <2>4 DEF WriterInv
<1>3. QED
  BY <1>1, <1>2 DEF Next

-----------------------------------------------------------------------------
(* The store implements LessonBook. *)

Past == {Nothing} \cup {hist[n] : n \in DOMAIN hist}

\* The past of the book grows with hist, which records every write.
LEMMA PastStep ==
  ASSUME TypeInv, TypeInv', HistInv, [Next]_vars
  PROVE  /\ hist' = hist => Past' = Past
         /\ hist' # hist => Past' = Past \cup {CurrentBook'}
         /\ CurrentBook \in Past
<1>1. hist \in Seq(Book) /\ CurrentBook' \in Book
  BY ReadItemsType DEF TypeInv, TypeOK, CurrentBook
<1>2. CASE hist' = Append(hist, CurrentBook')
  <2>1. /\ DOMAIN hist' = DOMAIN hist \cup {Len(hist) + 1}
        /\ hist'[Len(hist) + 1] = CurrentBook'
        /\ \A n \in DOMAIN hist : hist'[n] = hist[n]
    BY <1>1, <1>2
  <2>2. Past' = Past \cup {CurrentBook'}
    BY <2>1 DEF Past, Nothing
  <2>3. hist' # hist
    BY <1>1, <1>2
  <2>4. CurrentBook \in Past
    BY <1>1, EmptySeq DEF HistInv, Past
  <2>5. QED
    BY <2>2, <2>3, <2>4
<1>3. CASE hist' = hist
  <2>1. Past' = Past
    BY <1>3 DEF Past, Nothing
  <2>2. CurrentBook \in Past
    BY <1>1, EmptySeq DEF HistInv, Past
  <2>3. QED
    BY <1>3, <2>1, <2>2
<1>4. QED
  BY <1>2, <1>3, LinesStep

\* What the book becomes with a line.
LEMMA WrittenBook ==
  ASSUME TypeInv, NEW p \in Procs, WriteLine(p), loc[p].fd = jsonl.inode
  PROVE  LET l == Head(loc[p].todo)
         IN  /\ l \in Line
             /\ CurrentBook' = IF Tombstone(l) THEN [CurrentBook EXCEPT ![l.id] = Absent]
                               ELSE IF Valid(l)
                                    THEN [CurrentBook EXCEPT ![l.id] = LessonOf(l)]
                                    ELSE CurrentBook
             /\ author' = loc[p].cmd /\ db' = db
             /\ hist' = Append(hist, CurrentBook')
<1> DEFINE l == Head(loc[p].todo)
<1>1. loc[p].todo \in Seq(Line) /\ loc[p].todo # <<>>
  BY DEF WriteLine, TypeInv, TypeOK, TodoInv, Local
<1>2. l \in Line
  BY <1>1, HeadTailProperties
<1>3. jsonl.lines \in Seq(Line) /\ jsonl'.lines = Append(jsonl.lines, l)
  BY DEF WriteLine, TypeInv, TypeOK
<1>4. author' = loc[p].cmd /\ db' = db /\ hist' = Append(hist, CurrentBook')
  BY DEF WriteLine
<1> HIDE DEF l
<1>5. CurrentBook' = IF Tombstone(l) THEN [CurrentBook EXCEPT ![l.id] = Absent]
                     ELSE IF Valid(l) THEN [CurrentBook EXCEPT ![l.id] = LessonOf(l)]
                     ELSE CurrentBook
  BY <1>2, <1>3, AppendedLine DEF CurrentBook
<1>6. QED
  BY <1>2, <1>4, <1>5 DEF l

\* A line that is written is one operation on the book.
LEMMA WriteImplements ==
  ASSUME TypeInv, TypeInv', HistInv, WriterInv, Next,
         NEW p \in Procs, WriteLine(p), loc[p].fd = jsonl.inode
  PROVE  Abstract!Next
<1> DEFINE l == Head(loc[p].todo)
<1>1. pc[p] = "write" /\ Fits(loc[p], CurrentBook) /\ ~Skipped(loc[p])
  BY DEF WriteLine, WriterInv, Undisturbed
<1>2. /\ l \in Line
      /\ CurrentBook' = IF Tombstone(l) THEN [CurrentBook EXCEPT ![l.id] = Absent]
                        ELSE IF Valid(l) THEN [CurrentBook EXCEPT ![l.id] = LessonOf(l)]
                        ELSE CurrentBook
      /\ author' = loc[p].cmd /\ db' = db
  BY WrittenBook
<1>3. /\ CurrentBook \in Book
      /\ \A i \in Ids : CurrentBook[i] # Absent => CurrentBook[i] \in Lesson
  BY CurrentBookType DEF TypeInv, TypeOK, Book
<1>4. Past' = Past \cup {CurrentBook'} /\ CurrentBook \in Past
  <2>1. hist' # hist
    BY WrittenBook DEF TypeInv, TypeOK
  <2>2. QED
    BY <2>1, PastStep
<1>5. ASSUME NEW cmd, cmd = author', NEW i, NEW lesson,
             CurrentBook' = [CurrentBook EXCEPT ![i] = lesson]
      PROVE  Abstract!Put(cmd, i, lesson)
  BY <1>2, <1>4, <1>5 DEF Abstract!Put, Past, Abstract!Nothing, Nothing
<1>6. ASSUME NEW cmd, cmd = author', CurrentBook' = CurrentBook
      PROVE  Abstract!NoEffect(cmd)
  BY <1>2, <1>4, <1>6 DEF Abstract!NoEffect, Past, Abstract!Nothing, Nothing
<1> HIDE DEF l
<1>7. ASSUME NEW i \in Ids, NEW lesson, l = LineOf(i, lesson), lesson.insight \in Insights,
             lesson = [insight |-> lesson.insight, wrong |-> lesson.wrong]
      PROVE  CurrentBook' = [CurrentBook EXCEPT ![i] = lesson]
  <2>1. ~Tombstone(l) /\ Valid(l) /\ l.id = i /\ LessonOf(l) = lesson
    BY <1>7, StoreAssumption DEF LineOf, Tombstone, Valid, LessonOf
  <2>2. QED
    BY <1>2, <2>1
<1>8. ASSUME NEW i \in Ids, NEW lesson, l = LineOf(i, lesson), lesson.insight = NoInsight
      PROVE  CurrentBook' = CurrentBook
  <2>1. ~Tombstone(l) /\ ~Valid(l)
    BY <1>8 DEF LineOf, Tombstone, Valid
  <2>2. QED
    BY <1>2, <2>1
<1>9. CASE /\ loc[p].cmd = "learn"
           /\ \E i \in Ids, c \in Insights \cup {NoInsight} :
                l = LineOf(i, [insight |-> c, wrong |-> FALSE])
  <2>1. PICK i \in Ids, c \in Insights \cup {NoInsight} :
          l = LineOf(i, [insight |-> c, wrong |-> FALSE])
    BY <1>9
  <2>2. CASE c \in Insights
    <3>1. CurrentBook' = [CurrentBook EXCEPT ![i] = [insight |-> c, wrong |-> FALSE]]
      BY <1>7, <2>1, <2>2
    <3>2. Abstract!Learn(i, c)
      BY <1>2, <1>5, <1>9, <3>1 DEF Abstract!Learn
    <3>3. QED
      BY <2>2, <3>2 DEF Abstract!Next
  <2>3. CASE c = NoInsight
    <3>1. Abstract!NoEffect("learn")
      BY <1>2, <1>6, <1>8, <1>9, <2>1, <2>3
    <3>2. QED
      BY <3>1 DEF Abstract!Next
  <2>4. QED
    BY <2>2, <2>3
<1>10. CASE /\ loc[p].cmd = "update"
            /\ \E i \in Ids, c \in Insights \cup {NoInsight} :
                 /\ CurrentBook[i] # Absent
                 /\ l = LineOf(i, [CurrentBook[i] EXCEPT !.insight = c])
  <2>1. PICK i \in Ids, c \in Insights \cup {NoInsight} :
          /\ CurrentBook[i] # Absent
          /\ l = LineOf(i, [CurrentBook[i] EXCEPT !.insight = c])
    BY <1>10
  <2> DEFINE lesson == [CurrentBook[i] EXCEPT !.insight = c]
  <2>2. lesson.insight = c /\ lesson = [insight |-> lesson.insight, wrong |-> lesson.wrong]
    BY <1>3, <2>1 DEF Lesson
  <2>3. CASE c \in Insights
    <3>1. CurrentBook' = [CurrentBook EXCEPT ![i] = lesson]
      BY <1>7, <2>1, <2>2, <2>3
    <3> HIDE DEF lesson
    <3>2. Abstract!Put("update", i, lesson)
      <4>1. author' = "update"
        BY <1>2, <1>10
      <4>2. QED
        BY <1>2, <1>4, <3>1, <4>1 DEF Abstract!Put, Past, Abstract!Nothing, Nothing
    <3>3. Abstract!Update(i, c)
      BY <2>1, <3>2 DEF Abstract!Update, lesson
    <3>4. QED
      BY <2>3, <3>3 DEF Abstract!Next
  <2>4. CASE c = NoInsight
    <3>1. Abstract!NoEffect("update")
      BY <1>2, <1>6, <1>8, <1>10, <2>1, <2>2, <2>4
    <3>2. QED
      BY <3>1 DEF Abstract!Next
  <2>5. QED
    BY <2>3, <2>4
<1>11. CASE /\ loc[p].cmd = "mark"
            /\ \E i \in Ids, w \in BOOLEAN :
                 /\ CurrentBook[i] # Absent
                 /\ CurrentBook[i].wrong = ~w
                 /\ l = LineOf(i, [CurrentBook[i] EXCEPT !.wrong = w])
  <2>1. PICK i \in Ids, w \in BOOLEAN :
          /\ CurrentBook[i] # Absent
          /\ CurrentBook[i].wrong = ~w
          /\ l = LineOf(i, [CurrentBook[i] EXCEPT !.wrong = w])
    BY <1>11
  <2> DEFINE lesson == [CurrentBook[i] EXCEPT !.wrong = w]
  <2>2. lesson.insight \in Insights /\ lesson = [insight |-> lesson.insight, wrong |-> lesson.wrong]
    BY <1>3, <2>1 DEF Lesson
  <2>3. CurrentBook' = [CurrentBook EXCEPT ![i] = lesson]
    BY <1>7, <2>1, <2>2
  <2> HIDE DEF lesson
  <2>4. Abstract!Put("mark", i, lesson)
    <3>1. author' = "mark"
      BY <1>2, <1>11
    <3>2. QED
      BY <1>2, <1>4, <2>3, <3>1 DEF Abstract!Put, Past, Abstract!Nothing, Nothing
  <2>5. Abstract!Mark(i, w)
    BY <2>1, <2>4 DEF Abstract!Mark, lesson
  <2>6. QED
    BY <2>5 DEF Abstract!Next
<1>12. CASE loc[p].cmd = "delete" /\ \E i \in Ids : l = TombstoneLine(i)
  <2>1. PICK i \in Ids : l = TombstoneLine(i)
    BY <1>12
  <2>2. CurrentBook' = [CurrentBook EXCEPT ![i] = Absent]
    BY <1>2, <2>1 DEF TombstoneLine, Tombstone
  <2>3. CASE CurrentBook[i] # Absent
    <3>1. Abstract!Delete(i)
      BY <1>2, <1>5, <1>12, <2>2, <2>3 DEF Abstract!Delete
    <3>2. QED
      BY <3>1 DEF Abstract!Next
  <2>4. CASE CurrentBook[i] = Absent
    <3>1. CurrentBook' = CurrentBook
      BY <1>3, <2>2, <2>4 DEF Book
    <3>2. Abstract!NoEffect("delete")
      BY <1>2, <1>6, <1>12, <3>1
    <3>3. QED
      BY <3>2 DEF Abstract!Next
  <2>5. QED
    BY <2>3, <2>4
<1>13. CASE /\ loc[p].cmd = "import"
            /\ CurrentBook[l.id] = Absent
            /\ CompactValid(l)
  <2>1. l.id \in Ids
    BY <1>2 DEF Line
  <2>2. CASE Tombstone(l)
    <3>1. CurrentBook' = CurrentBook
      BY <1>2, <1>3, <1>13, <2>1, <2>2 DEF Book
    <3>2. Abstract!NoEffect("import")
      BY <1>2, <1>6, <1>13, <3>1
    <3>3. QED
      BY <3>2 DEF Abstract!Next
  <2>3. CASE ~Tombstone(l)
    <3>1. LessonOf(l) \in Lesson /\ CurrentBook' = [CurrentBook EXCEPT ![l.id] = LessonOf(l)]
      BY <1>2, <1>13, <2>3 DEF CompactValid, Valid, LessonOf, Line, Lesson
    <3>2. Abstract!Put("import", l.id, LessonOf(l))
      <4>1. author' = "import"
        BY <1>2, <1>13
      <4>2. QED
        BY <1>2, <1>4, <3>1, <4>1 DEF Abstract!Put, Past, Abstract!Nothing, Nothing
    <3>3. Abstract!Import(l.id, LessonOf(l))
      BY <1>13, <3>2 DEF Abstract!Import
    <3>4. QED
      BY <2>1, <3>1, <3>3 DEF Abstract!Next, Abstract!Lesson, Lesson
  <2>4. QED
    BY <2>2, <2>3
<1>14. QED
  BY <1>1, <1>9, <1>10, <1>11, <1>12, <1>13, FitsHead DEF l


\* Everything else that a command does is a rebuild of the index, or invisible.
LEMMA BookStep ==
  ASSUME TypeInv, TypeInv', HistInv, SnapInv, CompactInv, WriterInv, [Next]_vars
  PROVE  [Abstract!Next]_(Abstract!vars)
<1>1. ASSUME CurrentBook' = CurrentBook, author' = author, db' = db, Past' = Past
      PROVE  UNCHANGED Abstract!vars
  BY <1>1 DEF Abstract!vars, Past
<1>2. ASSUME UNCHANGED <<hist, author, db>>
      PROVE  UNCHANGED Abstract!vars
  BY <1>1, <1>2, HistStep, PastStep
<1>3. CASE UNCHANGED vars
  BY <1>2, <1>3 DEF vars
<1>4. ASSUME NEW p \in Procs, Begin(p)
      PROVE  UNCHANGED Abstract!vars
  BY <1>2, <1>4, BeginFrame DEF history
<1>5. ASSUME NEW p \in Procs, Crash(p)
      PROVE  UNCHANGED Abstract!vars
  BY <1>2, <1>5 DEF Crash, history
<1>6. ASSUME NEW p \in Procs, Commit(p), Next
      PROVE  Abstract!Next
  <2>1. hist' = hist /\ author' = author /\ db'.rows = loc[p].snap
    BY <1>6 DEF Commit
  <2>2. CurrentBook' = CurrentBook /\ Past' = Past
    BY <2>1, HistStep, PastStep
  <2>3. loc[p].snap \in Past
    BY <1>6 DEF Commit, SnapInv, Past, TypeInv, TypeOK
  <2>4. Abstract!Reindex
    BY <2>1, <2>2, <2>3 DEF Abstract!Reindex, Past
  <2>5. QED
    BY <2>4 DEF Abstract!Next
<1>7. ASSUME NEW p \in Procs, CompactRename(p)
      PROVE  UNCHANGED Abstract!vars
  <2>1. loc[p].tmp \in CompactedFiles(jsonl.lines) /\ Modern(jsonl.lines)
    BY <1>7 DEF CompactRename, CompactInv, WriterInv, Undisturbed
  <2>2. CurrentBook' = CurrentBook
    BY <1>7, <2>1, RenameStep
  <2>3. Past' = Past
    BY <2>2, PastStep
  <2>4. author' = author /\ db' = db
    BY <1>7 DEF CompactRename
  <2>5. QED
    BY <1>1, <2>2, <2>3, <2>4
<1>8. ASSUME NEW p \in Procs, WriteLine(p), Next
      PROVE  [Abstract!Next]_(Abstract!vars)
  <2>1. CASE loc[p].fd = jsonl.inode
    BY <1>8, <2>1, WriteImplements
  <2>2. CASE loc[p].fd # jsonl.inode
    BY <1>2, <1>8, <2>2 DEF WriteLine
  <2>3. QED
    BY <2>1, <2>2
<1>9. ASSUME NEW p \in Procs, Step(p), ~Commit(p), ~CompactRename(p), ~WriteLine(p)
      PROVE  UNCHANGED Abstract!vars
  <2>1. CASE SkipLine(p) \/ OpenLog(p) \/ CheckSync(p) \/ LoadItems(p) \/ BeginTxn(p)
    BY <1>2, <2>1 DEF SkipLine, OpenLog, CheckSync, LoadItems, BeginTxn, history
  <2>2. CASE BusyTimeout(p) \/ Query(p) \/ CompactRead(p) \/ CompactTemp(p)
    BY <1>2, <2>2 DEF BusyTimeout, Query, CompactRead, CompactTemp, history
  <2>3. QED
    BY <1>9, <2>1, <2>2 DEF Step
<1>10. QED
  BY <1>3, <1>4, <1>5, <1>6, <1>7, <1>8, <1>9 DEF Next

\* The book starts as what the file says.
LEMMA BookInit ==
  ASSUME \A log \in InitialLogs : Modern(log), Init
  PROVE  Abstract!Init /\ WriterInv
<1>1. PICK log \in InitialLogs :
        jsonl = [lines |-> log, mtime |-> IF log = <<>> THEN 0 ELSE 1, inode |-> 1]
  BY DEF Init
<1>2. CurrentBook \in Book
  BY TypeInit, CurrentBookType DEF TypeInv, TypeOK
<1>3. Past = {Nothing, CurrentBook}
  BY DEF Init, Past
<1>4. author = "none" /\ db.rows = Nothing
  BY DEF Init
<1>5. Abstract!Init
  BY <1>2, <1>3, <1>4 DEF Abstract!Init, Abstract!Book, Abstract!Lesson, Abstract!Nothing,
    Past, Book, Lesson, Nothing
<1>6. Modern(jsonl.lines)
  BY <1>1
<1>7. QED
  BY <1>5, <1>6 DEF Init, WriterInv, Undisturbed

\* A user who runs one writing command at a time may take the store for a map
\* of lessons: learn, update, wrong, validate, delete and import act on the map
\* as it is, one id at a time and whatever searches, rebuilds and crashes do;
\* compaction changes nothing, and a search shows the map as it is or was.
THEOREM ImplementsLessonBook ==
  ASSUME OneWriter, \A log \in InitialLogs : Modern(log)
  PROVE  Spec => IsALessonBook
<1> DEFINE Inv == IInv /\ CompactInv /\ WriterInv
<1>1. Init => Inv /\ Abstract!Init
  BY InvariantInit, CompactInit, BookInit
<1>2. Inv /\ [Next]_vars => Inv' /\ [Abstract!Next]_(Abstract!vars)
  <2> SUFFICES ASSUME Inv, [Next]_vars
               PROVE  Inv' /\ [Abstract!Next]_(Abstract!vars)
    OBVIOUS
  <2>1. TypeInv /\ TypeInv' /\ IInv'
    BY TypeStep, InvariantStep DEF IInv, TypeInv
  <2>2. CompactInv' /\ WriterInv'
    BY <2>1, CompactStep, WriterStep
  <2>3. [Abstract!Next]_(Abstract!vars)
    BY <2>1, BookStep DEF IInv
  <2>4. QED
    BY <2>1, <2>2, <2>3
<1> HIDE DEF Inv
<1>3. QED
  BY <1>1, <1>2, PTL DEF Spec, IsALessonBook, Abstract!Spec

-----------------------------------------------------------------------------
(* With any number of writers, a command works from a book that the file held. *)

\* A command that is under way goes on with the book it has read; one that
\* comes under way reads the book that the file holds.
LEMMA SeenStep ==
  ASSUME TypeInv, NEW p \in Procs, Begin(p) \/ Step(p) \/ Crash(p), UnderWay(pc'[p])
  PROVE  loc'[p].seen = IF UnderWay(pc[p]) THEN loc[p].seen ELSE Len(hist)
<1> USE DEF UnderWay
<1>1. loc[p] \in Local
  BY DEF TypeInv, TypeOK
<1>2. CASE Begin(p)
  BY <1>2, BeginFrame, FitsBegin
<1>3. CASE Crash(p) \/ BusyTimeout(p) \/ Query(p)
  BY <1>3 DEF Crash, BusyTimeout, Query, Return, TypeInv, TypeOK
<1>4. ASSUME NEW local \in Local, local.seen = loc[p].seen, Proceed(p, local)
      PROVE  loc'[p].seen = loc[p].seen
  <2>1. loc'[p] = [local EXCEPT !.todo = Tail(local.todo), !.fd = 0]
    BY <1>4 DEF Proceed, Goto, Return, TypeInv, TypeOK
  <2>2. QED
    BY <1>4, <2>1 DEF Local
<1>5. CASE SkipLine(p)
  BY <1>1, <1>4, <1>5 DEF SkipLine
<1>6. CASE WriteLine(p)
  <2> DEFINE l     == Head(loc[p].todo)
             local == IF loc[p].cmd = "import"
                      THEN [loc[p] EXCEPT !.known = @ \cup {l.id}]
                      ELSE loc[p]
  <2>1. pc[p] = "write" /\ Proceed(p, local)
    BY <1>6 DEF WriteLine
  <2>2. l.id \in Ids
    <3>1. l \in Line
      BY <2>1, HeadTailProperties DEF TypeInv, TypeOK, TodoInv, Local
    <3>2. QED
      BY <3>1 DEF Line
  <2>3. local \in Local /\ local.seen = loc[p].seen
    BY <1>1, <2>2 DEF Local
  <2> HIDE DEF local
  <2>4. QED
    BY <1>4, <2>1, <2>3
<1>7. CASE OpenLog(p) \/ CompactTemp(p) \/ BeginTxn(p)
  <2>1. UnderWay(pc[p])
    BY <1>7 DEF OpenLog, CompactTemp, BeginTxn
  <2>2. loc'[p].seen = loc[p].seen
    <3>1. CASE OpenLog(p)
      BY <1>1, <3>1 DEF OpenLog, Goto, TypeInv, TypeOK, Local
    <3>2. CASE CompactTemp(p)
      BY <1>1, <3>2 DEF CompactTemp, Goto, TypeInv, TypeOK, Local
    <3>3. CASE BeginTxn(p)
      BY <1>1, <3>3 DEF BeginTxn, Goto, TypeInv, TypeOK, Local
    <3>4. QED
      BY <1>7, <3>1, <3>2, <3>3
  <2>3. QED
    BY <2>1, <2>2
<1>8. CASE LoadItems(p)
  <2>1. pc[p] = "load"
    BY <1>8 DEF LoadItems
  <2>2. loc'[p].seen = Len(hist)
    BY <1>1, <1>8 DEF LoadItems, Goto, TypeInv, TypeOK, Local
  <2>3. QED
    BY <2>1, <2>2
<1>9. CASE CompactRead(p)
  <2>1. pc[p] = "compact" /\ pc'[p] \in {"load", "temp"}
    BY <1>9 DEF CompactRead, Goto, TypeInv, TypeOK
  <2>2. loc'[p].seen = Len(hist)
    BY <1>9, <2>1, ReadSeen
  <2>3. QED
    BY <2>1, <2>2
<1>10. ~CheckSync(p) /\ ~Commit(p) /\ ~CompactRename(p)
  BY DEF CheckSync, Commit, CompactRename, Goto, TypeInv, TypeOK
<1>11. QED
  BY <1>2, <1>3, <1>5, <1>6, <1>7, <1>8, <1>9, <1>10 DEF Step

\* A book that the file held stays where it is in hist.
LEMMA HeldStays ==
  ASSUME TypeInv, TypeInv', HistInv, [Next]_vars, NEW n \in 1..Len(hist)
  PROVE  n \in 1..Len(hist') /\ hist'[n] = hist[n]
BY HistStep, HistLength

\* What the file holds now is the last entry of hist.
LEMMA LastHeld ==
  ASSUME TypeInv, HistInv
  PROVE  Len(hist) \in 1..Len(hist) /\ hist[Len(hist)] = CurrentBook
BY EmptySeq DEF HistInv, TypeInv, TypeOK

\* The place in hist that a command works from.
LEMMA SeenRange ==
  ASSUME TypeInv, TypeInv', HistInv, SharedInv, NEW p \in Procs,
         Begin(p) \/ Step(p) \/ Crash(p), UnderWay(pc'[p])
  PROVE  loc'[p].seen \in 1..Len(hist) /\ loc'[p].seen \in 1..Len(hist')
<1>1. loc'[p].seen \in 1..Len(hist)
  BY SeenStep, LastHeld DEF SharedInv, WorksFrom
<1>2. QED
  BY <1>1, HeldStays DEF Next

\* The lines that are left fit the book that the command has read.
LEMMA LinesLeft ==
  ASSUME TypeInv, NEW p \in Procs, pc[p] \in {"append", "write"}, NEW book,
         Fits(loc[p], book), NEW local \in Local, local.cmd = loc[p].cmd,
         local.todo = loc[p].todo, local.seen = loc[p].seen,
         loc[p].known \subseteq local.known, Proceed(p, local), pc'[p] # "idle"
  PROVE  /\ Fits(loc'[p], book) /\ pc'[p] = "append"
         /\ loc'[p].cmd = loc[p].cmd /\ loc'[p].known = local.known
<1>1. /\ pc'[p] = "append"
      /\ loc'[p].cmd \in {"delete", "import"}
      /\ loc'[p].cmd = loc[p].cmd /\ loc'[p].known = local.known
      /\ loc'[p].cmd = "delete" =>
           \A n \in DOMAIN loc'[p].todo :
             \E i \in Ids : loc'[p].todo[n] = TombstoneLine(i)
  BY FitsProceed
<1>2. loc[p].cmd = "import" => Live(book) \subseteq loc[p].known
  BY Zenon DEF Fits
<1>3. loc'[p].cmd = "import" => Live(book) \subseteq loc'[p].known
  BY <1>1, <1>2
<1>4. QED
  BY <1>1, <1>3 DEF Fits

\* A command that appends works from a book that the file held.
LEMMA AppendWorks ==
  ASSUME TypeInv, TypeInv', HistInv, SharedInv, NEW p \in Procs,
         Begin(p) \/ SkipLine(p) \/ OpenLog(p) \/ WriteLine(p),
         pc'[p] \in {"append", "write"}
  PROVE  /\ Fits(loc'[p], hist'[loc'[p].seen])
         /\ loc'[p].cmd = "delete" => loc'[p].known \subseteq Live(hist'[loc'[p].seen])
         /\ pc'[p] = "write" => ~Skipped(loc'[p])
<1>1. loc[p] \in Local /\ WorksFrom(p)
  BY DEF SharedInv, TypeInv, TypeOK
<1>2. Begin(p) \/ Step(p)
  BY DEF Step
<1>3. /\ loc'[p].seen = IF UnderWay(pc[p]) THEN loc[p].seen ELSE Len(hist)
      /\ loc'[p].seen \in 1..Len(hist)
  BY <1>2, SeenStep, SeenRange DEF UnderWay
<1>4. PICK book : book = hist[loc'[p].seen] /\ book = hist'[loc'[p].seen]
  BY <1>2, <1>3, HeldStays DEF Next
<1> DEFINE Known(local) == local.cmd = "delete" => local.known \subseteq Live(book)
<1>5. SUFFICES /\ Fits(loc'[p], book) /\ Known(loc'[p])
               /\ pc'[p] = "write" => ~Skipped(loc'[p])
  BY <1>4
<1>6. CASE Begin(p)
  <2>1. pc'[p] = "append" /\ pc[p] = "idle"
    BY <1>6, BeginFrame
  <2>2. /\ Fits(loc'[p], CurrentBook)
        /\ loc'[p].seen = Len(hist) /\ loc'[p].known = Live(CurrentBook)
    BY <1>6, <2>1, FitsBegin
  <2>3. QED
    BY <1>4, <2>1, <2>2, LastHeld
<1>7. CASE SkipLine(p)
  <2>1. pc[p] = "append" /\ Proceed(p, loc[p])
    BY <1>7 DEF SkipLine
  <2>2. Fits(loc[p], book) /\ Known(loc[p])
    BY <1>1, <1>3, <1>4, <2>1 DEF WorksFrom, UnderWay
  <2>3. /\ Fits(loc'[p], book) /\ pc'[p] = "append"
        /\ loc'[p].cmd = loc[p].cmd /\ loc'[p].known = loc[p].known
    BY <1>1, <2>1, <2>2, LinesLeft
  <2>4. QED
    BY <2>2, <2>3
<1>8. CASE OpenLog(p)
  <2>1. /\ pc[p] = "append" /\ ~Skipped(loc[p])
        /\ loc'[p] = [loc[p] EXCEPT !.fd = jsonl.inode]
    BY <1>8 DEF OpenLog, Goto, TypeInv, TypeOK
  <2>2. Fits(loc[p], book) /\ Known(loc[p])
    BY <1>1, <1>3, <1>4, <2>1 DEF WorksFrom, UnderWay
  <2>3. /\ loc'[p].cmd = loc[p].cmd /\ loc'[p].todo = loc[p].todo
        /\ loc'[p].known = loc[p].known
    BY <1>1, <2>1 DEF Local
  <2>4. Fits(loc'[p], book)
    BY <2>2, <2>3, SameFits
  <2>5. ~Skipped(loc'[p])
    BY <2>1, <2>3, Zenon DEF Skipped
  <2>6. QED
    BY <2>2, <2>3, <2>4, <2>5
<1>9. CASE WriteLine(p)
  <2> DEFINE l     == Head(loc[p].todo)
             local == IF loc[p].cmd = "import"
                      THEN [loc[p] EXCEPT !.known = @ \cup {l.id}]
                      ELSE loc[p]
  <2>1. pc[p] = "write" /\ Proceed(p, local)
    BY <1>9 DEF WriteLine
  <2>2. Fits(loc[p], book) /\ Known(loc[p])
    BY <1>1, <1>3, <1>4, <2>1 DEF WorksFrom, UnderWay
  <2>3. l.id \in Ids
    <3>1. l \in Line
      BY <2>1, HeadTailProperties DEF TypeInv, TypeOK, TodoInv, Local
    <3>2. QED
      BY <3>1 DEF Line
  <2>4. /\ local \in Local /\ local.seen = loc[p].seen
        /\ local.cmd = loc[p].cmd /\ local.todo = loc[p].todo
        /\ loc[p].known \subseteq local.known
        /\ local.cmd = "delete" => local.known = loc[p].known
    BY <1>1, <2>3 DEF Local
  <2> HIDE DEF local
  <2>5. /\ Fits(loc'[p], book) /\ pc'[p] = "append"
        /\ loc'[p].cmd = loc[p].cmd /\ loc'[p].known = local.known
    BY <2>1, <2>2, <2>4, LinesLeft
  <2>6. QED
    BY <2>2, <2>4, <2>5
<1>10. QED
  BY <1>6, <1>7, <1>8, <1>9

\* A compacted file says what the book said that compact has read.
LEMMA CompactWorks ==
  ASSUME TypeInv, TypeInv', HistInv, SharedInv, NEW p \in Procs,
         Begin(p) \/ Step(p) \/ Crash(p), pc'[p] \in {"temp", "rename"}
  PROVE  Modern(loc'[p].tmp) /\ ReadItems(loc'[p].tmp) = hist'[loc'[p].seen]
<1>1. hist' = hist
  BY TempStep DEF CompactRead, CompactTemp, history
<1>2. CASE CompactRead(p)
  <2>1. loc'[p].tmp \in CompactedFiles(jsonl.lines) /\ loc'[p].seen = Len(hist)
    BY <1>2, ReadSeen
  <2>2. jsonl.lines \in Seq(Line) /\ Modern(jsonl.lines)
    BY DEF TypeInv, TypeOK, SharedInv
  <2>3. ReadItems(loc'[p].tmp) = CurrentBook
    BY <2>1, <2>2, CompactedFile, ModernItems DEF CurrentBook
  <2>4. Modern(loc'[p].tmp)
    BY <2>1, <2>2, CompactedFile DEF Modern
  <2>5. QED
    BY <1>1, <2>1, <2>3, <2>4, LastHeld
<1>3. CASE /\ CompactTemp(p)
           /\ loc'[p].tmp = loc[p].tmp /\ loc'[p].seen = loc[p].seen
  <2>1. Modern(loc[p].tmp) /\ ReadItems(loc[p].tmp) = hist[loc[p].seen]
    BY <1>3 DEF CompactTemp, SharedInv, WorksFrom
  <2>2. QED
    BY <1>1, <1>3, <2>1
<1>4. QED
  BY <1>2, <1>3, TempStep

\* The step of a command leaves what it works from a book that the file held.
LEMMA WorksStep ==
  ASSUME TypeInv, TypeInv', HistInv, SharedInv, NEW p \in Procs,
         Begin(p) \/ Step(p) \/ Crash(p)
  PROVE  WorksFrom(p)'
<1>1. UnderWay(pc'[p]) => loc'[p].seen \in 1..Len(hist')
  BY SeenRange
<1>2. ASSUME pc'[p] \in {"append", "write"}
      PROVE  /\ Fits(loc'[p], hist'[loc'[p].seen])
             /\ loc'[p].cmd = "delete" => loc'[p].known \subseteq Live(hist'[loc'[p].seen])
             /\ pc'[p] = "write" => ~Skipped(loc'[p])
  <2>1. ~Crash(p) /\ ~BusyTimeout(p) /\ ~Query(p)
    BY <1>2 DEF Crash, BusyTimeout, Query, Return, TypeInv, TypeOK
  <2>2. ~CheckSync(p) /\ ~LoadItems(p) /\ ~BeginTxn(p) /\ ~Commit(p)
    BY <1>2 DEF CheckSync, LoadItems, BeginTxn, Commit, Goto, TypeInv, TypeOK
  <2>3. ~CompactRead(p) /\ ~CompactTemp(p) /\ ~CompactRename(p)
    BY <1>2 DEF CompactRead, CompactTemp, CompactRename, Goto, TypeInv, TypeOK
  <2>4. QED
    BY <1>2, <2>1, <2>2, <2>3, AppendWorks DEF Step
<1>3. pc'[p] \in {"temp", "rename"} =>
        Modern(loc'[p].tmp) /\ ReadItems(loc'[p].tmp) = hist'[loc'[p].seen]
  BY CompactWorks
<1>4. QED
  BY <1>1, <1>2, <1>3 DEF WorksFrom

\* The rename puts the book back that compact has read.
LEMMA RenamePutsBack ==
  ASSUME TypeInv, SharedInv, NEW p \in Procs, CompactRename(p)
  PROVE  CurrentBook' = hist[loc[p].seen] /\ Modern(jsonl'.lines)
<1>1. jsonl'.lines = loc[p].tmp
  BY DEF CompactRename
<1>2. Modern(loc[p].tmp) /\ ReadItems(loc[p].tmp) = hist[loc[p].seen]
  BY DEF CompactRename, SharedInv, WorksFrom
<1>3. QED
  BY <1>1, <1>2 DEF CurrentBook

\* Every step preserves the invariant about any number of writers.
LEMMA SharedStep ==
  ASSUME TypeInv, TypeInv', HistInv, SharedInv, [Next]_vars
  PROVE  SharedInv'
<1>1. CASE UNCHANGED vars
  BY <1>1 DEF vars, SharedInv, WorksFrom
<1>2. ASSUME NEW p \in Procs, Begin(p) \/ Step(p) \/ Crash(p)
      PROVE  SharedInv'
  <2>1. Modern(jsonl'.lines)
    <3>1. CASE WriteLine(p) /\ loc[p].fd = jsonl.inode
      <4>1. Fits(loc[p], hist[loc[p].seen]) /\ ~Skipped(loc[p]) /\ Modern(jsonl.lines)
        BY <3>1 DEF WriteLine, SharedInv, WorksFrom
      <4>2. QED
        BY <3>1, <4>1, WrittenModern
    <3>2. CASE CompactRename(p)
      BY <3>2, RenamePutsBack
    <3>3. CASE ~(WriteLine(p) /\ loc[p].fd = jsonl.inode) /\ ~CompactRename(p)
      BY <1>2, <3>3, OtherLines DEF SharedInv
    <3>4. QED
      BY <3>1, <3>2, <3>3
  <2>2. WorksFrom(p)'
    BY <1>2, WorksStep
  <2>3. ASSUME NEW q \in Procs \ {p} PROVE WorksFrom(q)'
    <3>1. pc'[q] = pc[q] /\ loc'[q] = loc[q] /\ WorksFrom(q)
      BY <1>2, BeginFrame, StepFrame DEF SharedInv
    <3>2. UnderWay(pc[q]) => /\ loc[q].seen \in 1..Len(hist')
                             /\ hist'[loc[q].seen] = hist[loc[q].seen]
      BY <3>1, HeldStays DEF WorksFrom
    <3>3. pc[q] \in {"append", "write", "temp", "rename"} => UnderWay(pc[q])
      BY DEF UnderWay
    <3>4. QED
      BY <3>1, <3>2, <3>3 DEF WorksFrom
  <2>4. QED
    BY <2>1, <2>2, <2>3 DEF SharedInv
<1>3. QED
  BY <1>1, <1>2 DEF Next
-----------------------------------------------------------------------------
(* The store implements SharedBook. *)

\* How the books that commands under way have read change with a command.
LEMMA ReadsStep ==
  ASSUME TypeInv, NEW p \in Procs, Begin(p) \/ Step(p) \/ Crash(p)
  PROVE  /\ UnderWay(pc[p]) => /\ loc[p].seen \in Reads
                               /\ Reads' \in {Reads, Reads \ {loc[p].seen}}
         /\ ~UnderWay(pc[p]) => Reads' \in {Reads, Reads \cup {Len(hist)}}
<1> DEFINE Others == {loc[q].seen : q \in {r \in Procs \ {p} : UnderWay(pc[r])}}
<1>1. \A q \in Procs \ {p} : pc'[q] = pc[q] /\ loc'[q] = loc[q]
  BY BeginFrame, StepFrame
<1>2. Reads = Others \cup (IF UnderWay(pc[p]) THEN {loc[p].seen} ELSE {})
  BY DEF Reads
<1>3. Reads' = Others \cup (IF UnderWay(pc'[p]) THEN {loc'[p].seen} ELSE {})
  <2>1. {r \in Procs : UnderWay(pc'[r])} =
          {r \in Procs \ {p} : UnderWay(pc[r])} \cup (IF UnderWay(pc'[p]) THEN {p} ELSE {})
    BY <1>1
  <2>2. Reads' = {loc'[r].seen : r \in {q \in Procs : UnderWay(pc'[q])}}
    BY DEF Reads, UnderWay
  <2>3. QED
    BY <1>1, <2>1, <2>2
<1>4. UnderWay(pc'[p]) =>
        loc'[p].seen = IF UnderWay(pc[p]) THEN loc[p].seen ELSE Len(hist)
  BY SeenStep
<1> HIDE DEF Others
<1>5. QED
  BY <1>2, <1>3, <1>4

\* What a command reads, and the end of what it does, changes nothing else.
LEMMA OnlyReads ==
  ASSUME TypeInv, NEW p \in Procs, Begin(p) \/ Step(p) \/ Crash(p),
         CurrentBook' = CurrentBook, UNCHANGED <<author, db, hist>>
  PROVE  [Shared!Next]_(Shared!vars)
<1>1. CASE Reads' = Reads
  BY <1>1 DEF Shared!vars
<1>2. CASE Reads' = Reads \cup {Len(hist)}
  <2>1. Shared!Read
    BY <1>2 DEF Shared!Read
  <2>2. QED
    BY <2>1 DEF Shared!Next
<1>3. ASSUME NEW n \in Reads, Reads' = Reads \ {n}
      PROVE  Shared!Next
  <2>1. Shared!End(n)
    BY <1>3 DEF Shared!End
  <2>2. QED
    BY <2>1 DEF Shared!Next
<1>4. QED
  BY <1>1, <1>2, <1>3, ReadsStep

\* A line that is written is one operation on the book, made of what the
\* command has read.
LEMMA WriteShared ==
  ASSUME TypeInv, TypeInv', HistInv, SharedInv,
         NEW p \in Procs, WriteLine(p), loc[p].fd = jsonl.inode
  PROVE  Shared!Next
<1> DEFINE l == Head(loc[p].todo)
           n == loc[p].seen
<1>1. /\ UnderWay(pc[p]) /\ pc[p] = "write" /\ ~Skipped(loc[p])
      /\ n \in 1..Len(hist) /\ Fits(loc[p], hist[n])
      /\ loc[p].cmd = "delete" => loc[p].known \subseteq Live(hist[n])
  BY DEF WriteLine, SharedInv, WorksFrom, UnderWay
<1>2. PICK read \in Book : read = hist[n]
  BY <1>1 DEF TypeInv, TypeOK
<1>3. /\ l \in Line
      /\ CurrentBook' = IF Tombstone(l) THEN [CurrentBook EXCEPT ![l.id] = Absent]
                        ELSE IF Valid(l) THEN [CurrentBook EXCEPT ![l.id] = LessonOf(l)]
                        ELSE CurrentBook
      /\ author' = loc[p].cmd /\ db' = db /\ hist' = Append(hist, CurrentBook')
  BY WrittenBook
<1>4. n \in Reads /\ Reads' \in {Reads, Reads \ {n}}
  BY <1>1, ReadsStep DEF Step
<1> HIDE DEF l, n
<1>5. ASSUME NEW cmd, cmd = author' PROVE Shared!Write(n, cmd)
  BY <1>3, <1>4, <1>5 DEF Shared!Write
<1>6. ASSUME NEW cmd, cmd = author', NEW i, NEW lesson,
             CurrentBook' = [CurrentBook EXCEPT ![i] = lesson]
      PROVE  Shared!Put(n, cmd, i, lesson)
  BY <1>5, <1>6 DEF Shared!Put
<1>7. ASSUME NEW cmd \in {"learn", "update"}, cmd = author', CurrentBook' = CurrentBook
      PROVE  Shared!Next
  <2>1. Shared!NoEffect(n, cmd)
    BY <1>5, <1>7 DEF Shared!NoEffect
  <2>2. QED
    BY <1>4, <2>1 DEF Shared!Next
<1>8. ASSUME NEW i \in Ids, NEW lesson, l = LineOf(i, lesson), lesson.insight \in Insights,
             lesson = [insight |-> lesson.insight, wrong |-> lesson.wrong]
      PROVE  CurrentBook' = [CurrentBook EXCEPT ![i] = lesson]
  <2>1. ~Tombstone(l) /\ Valid(l) /\ l.id = i /\ LessonOf(l) = lesson
    BY <1>8, StoreAssumption DEF LineOf, Tombstone, Valid, LessonOf
  <2>2. QED
    BY <1>3, <2>1
<1>9. ASSUME NEW i \in Ids, NEW lesson, l = LineOf(i, lesson), lesson.insight = NoInsight
      PROVE  CurrentBook' = CurrentBook
  <2>1. ~Tombstone(l) /\ ~Valid(l)
    BY <1>9 DEF LineOf, Tombstone, Valid
  <2>2. QED
    BY <1>3, <2>1
<1>10. \A i \in Ids : read[i] # Absent => read[i] \in Lesson
  BY <1>2 DEF Book
<1>11. CASE /\ loc[p].cmd = "learn"
            /\ \E i \in Ids, c \in Insights \cup {NoInsight} :
                 l = LineOf(i, [insight |-> c, wrong |-> FALSE])
  <2>1. PICK i \in Ids, c \in Insights \cup {NoInsight} :
          l = LineOf(i, [insight |-> c, wrong |-> FALSE])
    BY <1>11
  <2>2. CASE c \in Insights
    <3>1. CurrentBook' = [CurrentBook EXCEPT ![i] = [insight |-> c, wrong |-> FALSE]]
      BY <1>8, <2>1, <2>2
    <3>2. Shared!Learn(n, i, c)
      BY <1>3, <1>6, <1>11, <3>1 DEF Shared!Learn
    <3>3. QED
      BY <1>4, <2>2, <3>2 DEF Shared!Next
  <2>3. CASE c = NoInsight
    BY <1>3, <1>7, <1>9, <1>11, <2>1, <2>3
  <2>4. QED
    BY <2>2, <2>3
<1>12. CASE /\ loc[p].cmd = "update"
            /\ \E i \in Ids, c \in Insights \cup {NoInsight} :
                 /\ read[i] # Absent
                 /\ l = LineOf(i, [read[i] EXCEPT !.insight = c])
  <2>1. PICK i \in Ids, c \in Insights \cup {NoInsight} :
          /\ read[i] # Absent
          /\ l = LineOf(i, [read[i] EXCEPT !.insight = c])
    BY <1>12
  <2> DEFINE lesson == [read[i] EXCEPT !.insight = c]
  <2>2. lesson.insight = c /\ lesson = [insight |-> lesson.insight, wrong |-> lesson.wrong]
    BY <1>10, <2>1 DEF Lesson
  <2>3. CASE c \in Insights
    <3>1. CurrentBook' = [CurrentBook EXCEPT ![i] = lesson]
      BY <1>8, <2>1, <2>2, <2>3
    <3> HIDE DEF lesson
    <3>2. Shared!Put(n, "update", i, lesson)
      BY <1>3, <1>6, <1>12, <3>1
    <3>3. Shared!Update(n, i, c)
      BY <1>2, <2>1, <3>2 DEF Shared!Update, lesson
    <3>4. QED
      BY <1>4, <2>3, <3>3 DEF Shared!Next
  <2>4. CASE c = NoInsight
    <3>1. CurrentBook' = CurrentBook
      BY <1>9, <2>1, <2>2, <2>4
    <3>2. QED
      BY <1>3, <1>7, <1>12, <3>1
  <2>5. QED
    BY <2>3, <2>4
<1>13. CASE /\ loc[p].cmd = "mark"
            /\ \E i \in Ids, w \in BOOLEAN :
                 /\ read[i] # Absent
                 /\ read[i].wrong = ~w
                 /\ l = LineOf(i, [read[i] EXCEPT !.wrong = w])
  <2>1. PICK i \in Ids, w \in BOOLEAN :
          /\ read[i] # Absent
          /\ read[i].wrong = ~w
          /\ l = LineOf(i, [read[i] EXCEPT !.wrong = w])
    BY <1>13
  <2> DEFINE lesson == [read[i] EXCEPT !.wrong = w]
  <2>2. lesson.insight \in Insights /\ lesson = [insight |-> lesson.insight, wrong |-> lesson.wrong]
    BY <1>10, <2>1 DEF Lesson
  <2>3. CurrentBook' = [CurrentBook EXCEPT ![i] = lesson]
    BY <1>8, <2>1, <2>2
  <2> HIDE DEF lesson
  <2>4. Shared!Put(n, "mark", i, lesson)
    BY <1>3, <1>6, <1>13, <2>3
  <2>5. Shared!Mark(n, i, w)
    BY <1>2, <2>1, <2>4 DEF Shared!Mark, lesson
  <2>6. QED
    BY <1>4, <2>5 DEF Shared!Next
<1>14. CASE loc[p].cmd = "delete" /\ \E i \in Ids : l = TombstoneLine(i)
  <2>1. PICK i \in Ids : l = TombstoneLine(i)
    BY <1>14
  <2>2. CurrentBook' = [CurrentBook EXCEPT ![i] = Absent]
    BY <1>3, <2>1 DEF TombstoneLine, Tombstone
  <2>3. read[i] # Absent
    <3>1. l.id = i /\ l.id \in loc[p].known
      BY <1>1, <1>14, <2>1 DEF Skipped, l, TombstoneLine
    <3>2. loc[p].known \subseteq Live(read)
      BY <1>1, <1>2, <1>14
    <3>3. QED
      BY <3>1, <3>2 DEF Live
  <2>4. Shared!Delete(n, i)
    BY <1>2, <1>3, <1>6, <1>14, <2>2, <2>3 DEF Shared!Delete
  <2>5. QED
    BY <1>4, <2>4 DEF Shared!Next
<1>15. CASE /\ loc[p].cmd = "import"
            /\ read[l.id] = Absent
            /\ CompactValid(l)
  <2> DEFINE lesson == IF Tombstone(l) THEN Absent ELSE LessonOf(l)
  <2>1. l.id \in Ids /\ lesson \in Lesson \cup {Absent}
    BY <1>3, <1>15 DEF CompactValid, Valid, LessonOf, Line, Lesson
  <2>2. CurrentBook' = [CurrentBook EXCEPT ![l.id] = lesson]
    BY <1>3, <1>15 DEF CompactValid
  <2> HIDE DEF lesson
  <2>3. Shared!Put(n, "import", l.id, lesson)
    BY <1>3, <1>6, <1>15, <2>2
  <2>4. Shared!Import(n, l.id, lesson)
    BY <1>2, <1>15, <2>3 DEF Shared!Import
  <2>5. QED
    BY <1>4, <2>1, <2>4 DEF Shared!Next, Shared!Lesson, Lesson
<1>16. QED
  BY <1>1, <1>2, <1>11, <1>12, <1>13, <1>14, <1>15, FitsHead DEF l, n

\* Every step is an operation on the book, a look at it, or invisible.
LEMMA SharedBookStep ==
  ASSUME TypeInv, TypeInv', HistInv, SnapInv, SharedInv, [Next]_vars
  PROVE  [Shared!Next]_(Shared!vars)
<1>1. CASE UNCHANGED vars
  <2>1. CurrentBook' = CurrentBook /\ Reads' = Reads
    BY <1>1 DEF vars, CurrentBook, Reads
  <2>2. QED
    BY <1>1, <2>1 DEF vars, Shared!vars
<1>2. ASSUME NEW p \in Procs, Begin(p) \/ Step(p) \/ Crash(p)
      PROVE  [Shared!Next]_(Shared!vars)
  <2>1. ASSUME UNCHANGED <<author, db, hist>>
        PROVE  [Shared!Next]_(Shared!vars)
    BY <1>2, <2>1, HistStep, OnlyReads
  <2>2. CASE Begin(p)
    BY <2>1, <2>2, BeginFrame DEF history
  <2>3. CASE Crash(p)
    BY <2>1, <2>3 DEF Crash, history
  <2>4. CASE SkipLine(p) \/ OpenLog(p) \/ CheckSync(p) \/ LoadItems(p) \/ BeginTxn(p)
    BY <2>1, <2>4 DEF SkipLine, OpenLog, CheckSync, LoadItems, BeginTxn, history
  <2>5. CASE BusyTimeout(p) \/ Query(p) \/ CompactRead(p) \/ CompactTemp(p)
    BY <2>1, <2>5 DEF BusyTimeout, Query, CompactRead, CompactTemp, history
  <2>6. CASE WriteLine(p)
    <3>1. CASE loc[p].fd = jsonl.inode
      BY <2>6, <3>1, WriteShared
    <3>2. CASE loc[p].fd # jsonl.inode
      BY <2>1, <2>6, <3>2 DEF WriteLine
    <3>3. QED
      BY <3>1, <3>2
  <2>7. CASE Commit(p)
    <3>1. /\ UnderWay(pc[p]) /\ hist' = hist /\ author' = author
          /\ db'.rows = loc[p].snap /\ loc[p].snap = hist[loc[p].seen]
      BY <2>7 DEF Commit, SnapInv, UnderWay
    <3>2. CurrentBook' = CurrentBook
      BY <3>1, HistStep
    <3>3. /\ loc[p].seen \in Reads
          /\ Reads' \in {Reads, Reads \ {loc[p].seen}}
      BY <1>2, <3>1, ReadsStep
    <3>4. Shared!Reindex(loc[p].seen)
      BY <3>1, <3>2, <3>3 DEF Shared!Reindex
    <3>5. QED
      BY <3>3, <3>4 DEF Shared!Next
  <2>8. CASE CompactRename(p)
    <3>1. /\ UnderWay(pc[p]) /\ hist' = Append(hist, CurrentBook')
          /\ author' = author /\ db' = db
      BY <2>8 DEF CompactRename, UnderWay
    <3>2. CurrentBook' = hist[loc[p].seen]
      BY <2>8, RenamePutsBack
    <3>3. /\ loc[p].seen \in Reads
          /\ Reads' \in {Reads, Reads \ {loc[p].seen}}
      BY <1>2, <3>1, ReadsStep
    <3>4. Shared!Compact(loc[p].seen)
      BY <3>1, <3>2, <3>3 DEF Shared!Compact
    <3>5. QED
      BY <3>3, <3>4 DEF Shared!Next
  <2>9. QED
    BY <1>2, <2>2, <2>3, <2>4, <2>5, <2>6, <2>7, <2>8 DEF Step
<1>3. QED
  BY <1>1, <1>2 DEF Next

\* At the start nobody has read the book.
LEMMA SharedInit ==
  ASSUME \A log \in InitialLogs : Modern(log), Init
  PROVE  Shared!Init /\ SharedInv
<1>1. Modern(jsonl.lines)
  BY DEF Init
<1>2. \A p \in Procs : ~UnderWay(pc[p]) /\ pc[p] = "idle"
  BY DEF Init, UnderWay
<1>3. SharedInv
  BY <1>1, <1>2 DEF SharedInv, WorksFrom
<1>4. Reads = {}
  BY <1>2 DEF Reads
<1>5. CurrentBook \in Book
  BY TypeInit, CurrentBookType DEF TypeInv, TypeOK
<1>6. author = "none" /\ db.rows = Nothing /\ hist = <<CurrentBook>>
  BY DEF Init
<1>7. Shared!Init
  BY <1>4, <1>5, <1>6 DEF Shared!Init, Shared!Book, Shared!Lesson, Book, Lesson, Nothing
<1>8. QED
  BY <1>3, <1>7

\* Users who run any number of commands at a time, some of them killed, may
\* take the store for a map of lessons that each command changes from a copy
\* it took when it began: a line that reaches the file changes the one lesson
\* it names, to what the command made of a book that the file did hold; a
\* compaction puts back a book that the file did hold; and nothing else, not a
\* crash, a rebuild, or a write to a replaced file, changes a lesson.
THEOREM ImplementsSharedBook ==
  ASSUME \A log \in InitialLogs : Modern(log)
  PROVE  Spec => IsASharedBook
<1> DEFINE Inv == IInv /\ SharedInv
<1>1. Init => Inv /\ Shared!Init
  BY InvariantInit, SharedInit
<1>2. Inv /\ [Next]_vars => Inv' /\ [Shared!Next]_(Shared!vars)
  <2> SUFFICES ASSUME Inv, [Next]_vars
               PROVE  Inv' /\ [Shared!Next]_(Shared!vars)
    OBVIOUS
  <2>1. TypeInv /\ TypeInv' /\ IInv'
    BY TypeStep, InvariantStep DEF IInv, TypeInv
  <2>2. SharedInv'
    BY <2>1, SharedStep DEF IInv
  <2>3. [Shared!Next]_(Shared!vars)
    BY <2>1, SharedBookStep DEF IInv
  <2>4. QED
    BY <2>1, <2>2, <2>3
<1> HIDE DEF Inv
<1>3. QED
  BY <1>1, <1>2, PTL DEF Spec, IsASharedBook, Shared!Spec
=============================================================================
