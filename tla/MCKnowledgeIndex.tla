--------------------------- MODULE MCKnowledgeIndex ---------------------------
(* Instances of KnowledgeIndex for TLC.                                      *)
EXTENDS KnowledgeIndex, TLC

\* A content with two chunks, and one with one chunk that keeps its range.
Cuts == (1 :> {1, 2}) @@ (2 :> {1})

Job(kind, force, embed, schema) ==
  [kind |-> kind, force |-> force, embed |-> embed, schema |-> schema]

AllJobs == {Job("index", FALSE, TRUE, "new"), Job("index", TRUE, FALSE, "new"),
            Job("search", FALSE, FALSE, "new")}
MixedJobs == AllJobs \cup {Job("index", FALSE, FALSE, "old")}
=============================================================================
