----------------------------- MODULE MCRepoSetup -----------------------------
(* Instances of RepoSetup for TLC.                                           *)
EXTENDS RepoSetup, TLC

Specs == {"prime", "read"}
Events == ("prime" :> "SessionStart") @@ ("read" :> "PostToolUse")
            @@ (Legacy :> "SessionStart") @@ (Own :> "PostToolUse")
Ranks == ("prime" :> 0) @@ ("read" :> 1)

Job(kind, profile, confirm, targets, mode) ==
  [kind |-> kind, profile |-> profile, confirm |-> confirm, hooks |-> TRUE,
   templates |-> kind = "setup", targets |-> targets, mode |-> mode]

\* ca init, profiles with and without --confirm-prune, --skip-hooks,
\* --skip-agents, --harness, the hooks alone, and the three tiers of uninstall.
AllJobs ==
  {Job("setup", p, FALSE, {"claude"}, 0) : p \in 0 .. 2}
    \cup {Job("setup", p, TRUE, {"claude"}, 0) : p \in 0 .. 1}
    \cup {[Job("setup", 2, FALSE, {"claude"}, 0) EXCEPT !.hooks = FALSE],
          [Job("setup", 2, FALSE, {"claude"}, 0) EXCEPT !.templates = FALSE],
          Job("setup", 2, FALSE, {"codex", "agy", "goose"}, 0)}
    \cup {Job(k, 2, FALSE, {}, 0) : k \in {"hooks", "unhook"}}
    \cup {Job("uninstall", 0, FALSE, {}, m) : m \in 0 .. 2}

Repo(settings1, files, version, state) ==
  [settings |-> settings1, tree |-> [g \in Groups |-> files],
   plugin |-> version, artifacts |-> state]

\* Nothing, or what an old version left: hooks that run npx, one of them
\* twice, one that is no longer installed, old and retired templates, and
\* state in its old place.
Repos ==
  {Repo({}, {}, "none", {}),
   Repo({Entry("prime", "npx"), Entry("prime", "there"), Entry("read", "npx"),
         Entry(Legacy, "npx")},
        {"outdated", "retired"}, "old", {"legacy"})}
=============================================================================
