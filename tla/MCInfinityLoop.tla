--------------------------- MODULE MCInfinityLoop ---------------------------
(* Instances of InfinityLoop for TLC.  Epic e2 waits for e1.                 *)
EXTENDS InfinityLoop, TLC

CONSTANTS e1, e2

Chain == (e1 :> {}) @@ (e2 :> {e1})

Script(backend, ids, retries, review, every) ==
  [backend |-> backend, epicIds |-> ids, maxRetries |-> retries,
   review |-> review, reviewEvery |-> every]

\* Every backend with two epics and with a retry, and every kind of review.
AllScripts ==
  {Script("bg", <<e2, e1>>, 0, TRUE, 2), Script("bg", <<e1>>, 1, FALSE, 0),
   Script("bg", <<e1>>, 0, FALSE, 0),
   Script("p", <<e2, e1>>, 0, TRUE, 1), Script("p", <<e1>>, 1, FALSE, 0),
   Script("engine", <<e2, e1>>, 0, TRUE, 0)}

Bound(pressure, faults, runs) ==
  [pressure |-> pressure, faults |-> faults, runs |-> runs]

\* Everything at once for one attempt; a restart, or trouble, for several.
AllBounds ==
  [s \in AllScripts |->
     IF s.maxRetries = 0 /\ Len(s.epicIds) = 1 THEN {Bound(1, 1, 1)}
     ELSE {Bound(1, 1, 0), Bound(0, 0, 1)}]
=============================================================================
