----------------------------- MODULE LessonBook -----------------------------
(***************************************************************************)
(* What the lesson store promises a user who issues one writing command at *)
(* a time: a map from lesson ids to lessons.  Every command acts on the    *)
(* current map, lessons change only through the command that names them,   *)
(* and the search index always shows the map as it is or as it once was.   *)
(* Compaction, index rebuilds and crashes are invisible here.              *)
(***************************************************************************)
EXTENDS Integers

CONSTANTS Ids,       \* the lesson ids
          Insights,  \* the contents a lesson can have
          Absent     \* stands for "no such lesson"

VARIABLES book,      \* the lesson each id has, or Absent
          author,    \* the command that wrote last
          shown,     \* the map that a search answers from
          past       \* every map the book has been since the start

vars == <<book, author, shown, past>>

Lesson == [insight: Insights, wrong: BOOLEAN]

Book == [Ids -> Lesson \cup {Absent}]

Nothing == [i \in Ids |-> Absent]

Init ==
  /\ book \in Book
  /\ author = "none"
  /\ shown = Nothing
  /\ past = {Nothing, book}

Put(cmd, i, lesson) ==
  /\ book' = [book EXCEPT ![i] = lesson]
  /\ author' = cmd
  /\ past' = past \cup {book'}
  /\ UNCHANGED shown

\* `ca learn`, `capture --yes`, `detect --save`: a new lesson, not yet wrong.
Learn(i, c) == Put("learn", i, [insight |-> c, wrong |-> FALSE])

\* `ca import`: only ids the book does not have.
Import(i, lesson) ==
  /\ book[i] = Absent
  /\ Put("import", i, lesson)

\* `ca update --insight`: the rest of the lesson is kept.
Update(i, c) ==
  /\ book[i] # Absent
  /\ Put("update", i, [book[i] EXCEPT !.insight = c])

\* `ca wrong` and `ca validate`: only the mark moves, and only from its
\* opposite.
Mark(i, w) ==
  /\ book[i] # Absent
  /\ book[i].wrong = ~w
  /\ Put("mark", i, [book[i] EXCEPT !.wrong = w])

\* `ca delete`.
Delete(i) ==
  /\ book[i] # Absent
  /\ Put("delete", i, Absent)

\* A command that writes a record nobody accepts, or deletes twice.
NoEffect(cmd) ==
  /\ author' = cmd
  /\ UNCHANGED <<book, shown, past>>

\* A rebuild of the search index, which may show an older map.
Reindex ==
  /\ shown' \in past
  /\ UNCHANGED <<book, author, past>>

Next ==
  \/ \E i \in Ids, c \in Insights : Learn(i, c) \/ Update(i, c)
  \/ \E i \in Ids, lesson \in Lesson : Import(i, lesson)
  \/ \E i \in Ids, w \in BOOLEAN : Mark(i, w)
  \/ \E i \in Ids : Delete(i)
  \/ \E cmd \in {"learn", "import", "update", "delete"} : NoEffect(cmd)
  \/ Reindex

Spec == Init /\ [][Next]_vars
=============================================================================
