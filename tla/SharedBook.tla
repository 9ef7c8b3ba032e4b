----------------------------- MODULE SharedBook -----------------------------
(***************************************************************************)
(* What the lesson store promises users who run any number of commands at  *)
(* a time: a map from lesson ids to lessons that commands change from what *)
(* they have read.  A command works from the map as it was when it looked, *)
(* which may be outdated by now, but it changes the one lesson it names,   *)
(* and to nothing else than what it made of the map that it read.  Only    *)
(* compact takes everything else with it: it puts back the whole map that  *)
(* it read.  A search shows a map that the command which built the index   *)
(* has read.                                                               *)
(*                                                                         *)
(* LessonBook is the promise to one writer, for whom every command acts on *)
(* the map as it is.                                                       *)
(***************************************************************************)
EXTENDS Integers, Sequences

CONSTANTS Ids,       \* the lesson ids
          Insights,  \* the contents a lesson can have
          Absent     \* stands for "no such lesson"

VARIABLES book,      \* the lesson each id has, or Absent
          author,    \* the command that wrote last
          shown,     \* the map that a search answers from
          held,      \* the maps that the book has been, one after another
          reads      \* which of them the commands under way have read

vars == <<book, author, shown, held, reads>>

Lesson == [insight: Insights, wrong: BOOLEAN]

Book == [Ids -> Lesson \cup {Absent}]

Init ==
  /\ book \in Book
  /\ author = "none"
  /\ shown = [i \in Ids |-> Absent]
  /\ held = <<book>>
  /\ reads = {}

\* A command looks at the book.
Read ==
  /\ reads' = reads \cup {Len(held)}
  /\ UNCHANGED <<book, author, shown, held>>

\* A command that read held[n] ends, is killed, or has written to a file that
\* compact has replaced: nothing comes of it.
End(n) ==
  /\ reads' = reads \ {n}
  /\ UNCHANGED <<book, author, shown, held>>

\* The command writes, and ends unless it has more to write.
Write(n, cmd) ==
  /\ author' = cmd
  /\ held' = Append(held, book')
  /\ reads' \in {reads, reads \ {n}}
  /\ UNCHANGED shown

Put(n, cmd, i, lesson) ==
  /\ book' = [book EXCEPT ![i] = lesson]
  /\ Write(n, cmd)

\* `ca learn`, `capture --yes`, `detect --save`: a new lesson, not yet wrong.
Learn(n, i, c) == Put(n, "learn", i, [insight |-> c, wrong |-> FALSE])

\* `ca import`: an id that the command has not seen in the book.  A deletion
\* in the imported file removes what somebody else has put there meanwhile.
Import(n, i, lesson) ==
  /\ held[n][i] = Absent
  /\ Put(n, "import", i, lesson)

\* `ca update --insight`: the rest of the lesson is as it was read, and the
\* lesson is back when it was deleted meanwhile.
Update(n, i, c) ==
  /\ held[n][i] # Absent
  /\ Put(n, "update", i, [held[n][i] EXCEPT !.insight = c])

\* `ca wrong` and `ca validate`: the rest of the lesson is as it was read.
Mark(n, i, w) ==
  /\ held[n][i] # Absent
  /\ held[n][i].wrong = ~w
  /\ Put(n, "mark", i, [held[n][i] EXCEPT !.wrong = w])

\* `ca delete`.
Delete(n, i) ==
  /\ held[n][i] # Absent
  /\ Put(n, "delete", i, Absent)

\* A record that no reader accepts.
NoEffect(n, cmd) ==
  /\ book' = book
  /\ Write(n, cmd)

\* `ca compact` puts back the book that it has read.
Compact(n) ==
  /\ book' = held[n]
  /\ held' = Append(held, book')
  /\ reads' \in {reads, reads \ {n}}
  /\ UNCHANGED <<author, shown>>

\* A rebuild of the search index shows the book that it has read.
Reindex(n) ==
  /\ shown' = held[n]
  /\ reads' \in {reads, reads \ {n}}
  /\ UNCHANGED <<book, author, held>>

Next ==
  \/ Read
  \/ \E n \in reads :
       \/ End(n) \/ Compact(n) \/ Reindex(n)
       \/ \E i \in Ids, c \in Insights : Learn(n, i, c) \/ Update(n, i, c)
       \/ \E i \in Ids, lesson \in Lesson \cup {Absent} : Import(n, i, lesson)
       \/ \E i \in Ids, w \in BOOLEAN : Mark(n, i, w)
       \/ \E i \in Ids : Delete(n, i)
       \/ \E cmd \in {"learn", "update"} : NoEffect(n, cmd)

Spec == Init /\ [][Next]_vars
=============================================================================
