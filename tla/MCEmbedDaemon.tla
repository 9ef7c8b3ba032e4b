--------------------------- MODULE MCEmbedDaemon ---------------------------
(* Instances of EmbedDaemon for TLC. *)
EXTENDS EmbedDaemon, TLC

AnyCommand == Permutations(Commands)
=============================================================================
