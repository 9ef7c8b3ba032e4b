---------------------------- MODULE MCReviewLoops ----------------------------
(* Instances of ReviewLoops for TLC.                                         *)
EXTENDS ReviewLoops, TLC

CONSTANTS sonnet, opus, agy, codex, security

Kinds5 == (sonnet :> "claude") @@ (opus :> "claude") @@ (agy :> "agy")
          @@ (codex :> "codex") @@ (security :> "goose")

Conf(driver, backend, fleetSet, timeout, cycles, phases, blocking) ==
  [driver |-> driver, backend |-> backend, fleet |-> fleetSet,
   timeout |-> timeout, goose |-> security \in fleetSet, cycles |-> cycles,
   phases |-> phases, blocking |-> blocking]

\* Two sessions side by side; sessions that are resumed, and reports that are
\* left from a phase before; processes, with and without a timeout command;
\* an audit in either backend.
AllConfs ==
  {Conf("review", "bg", {sonnet, opus}, TRUE, 1, 1, FALSE),
   Conf("review", "bg", {sonnet}, FALSE, 1, 2, TRUE),
   Conf("review", "bg", {sonnet, codex}, FALSE, 2, 1, FALSE),
   Conf("review", "p", {sonnet, codex}, FALSE, 1, 2, FALSE),
   Conf("review", "p", {sonnet, agy}, TRUE, 2, 1, TRUE),
   Conf("review", "p", {security}, TRUE, 3, 2, FALSE),
   Conf("polish", "bg", {opus}, FALSE, 2, 0, FALSE),
   Conf("polish", "p", {opus, codex}, TRUE, 2, 0, FALSE)}
=============================================================================
