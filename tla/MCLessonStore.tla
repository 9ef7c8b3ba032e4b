--------------------------- MODULE MCLessonStore ---------------------------
(* Instances of LessonStore for TLC. *)
EXTENDS LessonStore, TLC

CONSTANTS a, b,    \* two lesson ids
          x        \* a content

old(i, c)  == [LineOf(i, [insight |-> c, wrong |-> FALSE]) EXCEPT !.arrays = FALSE]
live(i, c) == LineOf(i, [insight |-> c, wrong |-> FALSE])
dead(i, c) == [live(i, c) EXCEPT !.deleted = TRUE]

\* No file yet, or a file with one lesson.
FreshLogs == {<<>>, <<live(a, x)>>}

\* A raw lesson file: a lesson, two unusable records, and the whole record of
\* a deleted lesson.
RawImports == {<<live(b, x), TombstoneLine(a), old(a, x), dead(a, x)>>}

NoImports == {}

AnyProc == Permutations(Procs)
=============================================================================
