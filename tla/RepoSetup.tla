------------------------------- MODULE RepoSetup -------------------------------
(***************************************************************************)
(* What `ca init`, `ca setup`, `ca setup claude` and `ca uninstall` do to  *)
(* a repository (go/internal/setup, go/internal/cli/commands_setup.go):    *)
(* hooks in .claude/settings.json, templates in the compound/ directories, *)
(* sections in AGENTS.md and CLAUDE.md, and blocks in two .gitignore       *)
(* files.  One command runs at a time, step by step, and may be killed     *)
(* between two, or stopped there by an I/O error; the user edits the same  *)
(* files whenever he likes.                                                *)
(*                                                                         *)
(* A file is abstracted to the parts that somebody adds or removes.        *)
(* settings.json is its set of hook entries, each the commands that it     *)
(* runs on an event, so two entries that are equal count as one; a         *)
(* template group is what its files are; a .gitignore keeps its lines,     *)
(* since its block ends at the first blank one.  The ranks 0, 1, 2 are the *)
(* profiles minimal, workflow and full.                                    *)
(***************************************************************************)
EXTENDS Naturals, Sequences, FiniteSets, SequencesExt

CONSTANTS
  Hooks,         \* managedHookSpecs
  EventOf,       \* the event of each
  HookRank,      \* the least profile that installs it
  Jobs,          \* the commands that are run
  MaxEdits,      \* bound: how often the user edits a file
  InitialRepos   \* what a repository holds when the first of them runs

\* The template groups in the order in which they are installed, and pruned.
GroupOrder == <<"agents", "commands", "skills", "roles", "docs", "research">>
PruneOrder == <<"agents", "commands", "docs", "research", "skills", "roles">>
Groups == ToSet(GroupOrder)
GroupRank(g) == IF g = "research" THEN 2 ELSE 1

\* templateDirsToRemove: roles and research are within other directories.
TemplateDirs == <<{"agents"}, {"commands"}, {"skills", "roles"},
                  {"docs", "research"}>>

\* By npx, by this binary, by a binary elsewhere, or a command of the user's.
Runners == {"npx", "here", "there", "none"}
Legacy == "load-session"
Own == "own"
IgnoreFiles == {"root", "claude"}

\* markerFiles: those that hold the user's text, too.
MarkerFiles == <<"AGENTS.md", "CLAUDE.md", "root", "claude">>

ASSUME HooksAssumption ==
  /\ IsFiniteSet(Hooks) /\ Hooks \cap {Legacy, Own} = {}
  /\ HookRank \in [Hooks -> {0, 1}]
  /\ MaxEdits \in Nat
  /\ DOMAIN EventOf = Hooks \cup {Legacy, Own}

VARIABLES
  settings,   \* the hook entries of .claude/settings.json
  tree,       \* the files of each template group
  agents,     \* the parts of AGENTS.md
  claudeMd,   \* the parts of CLAUDE.md
  plugin,     \* the version of plugin.json
  ignore,     \* the lines of the .gitignore files
  artifacts,  \* of .compound-agent/ and of its predecessors
  cmd,        \* the command that runs, or ended last
  edits       \* how often the user has edited a file

repo == <<settings, tree, agents, claudeMd, plugin, ignore, artifacts>>
vars == <<repo, cmd, edits>>

Resting == {"idle", "ok", "refused", "nothing"}
Goto(pc) == cmd' = [cmd EXCEPT !.pc = pc]
At(pc) == cmd.pc = pc
Keep(v) == UNCHANGED v
-----------------------------------------------------------------------------
(* Hooks (settings.go).                                                     *)

Command(name, by) == [name |-> name, by |-> by]
Entry(name, by) == [event |-> EventOf[name], cmds |-> {Command(name, by)}]

\* hasHookMarker, and how many commands filterHookEntries matches.
Matches(s, h) == {m \in s \X [name : {h}, by : Runners] :
                    m[1].event = EventOf[h] /\ m[2] \in m[1].cmds}
Has(s, h) == Matches(s, h) # {}

InProfile(p) == {h \in Hooks : HookRank[h] <= p}

NeedsUpgrade(s) == \E e \in s : \E c \in e.cmds : c.by = "npx"
NeedsDedupe(s) == \E h \in Hooks : Cardinality(Matches(s, h)) > 1

\* MUTANT of Needs: a lower profile is not a reason to write.
NeedsNoDowngrade(s, p) ==
  \/ \E h \in InProfile(p) : ~ Has(s, h)
  \/ NeedsUpgrade(s)
  \/ NeedsDedupe(s)

Needs(s, p) ==
  \/ \E h \in InProfile(p) : ~ Has(s, h)
  \/ NeedsUpgrade(s)
  \/ NeedsDedupe(s)
  \/ \E h \in Hooks \ InProfile(p) : Has(s, h)

Upgraded(s) ==
  {[e EXCEPT !.cmds = {IF c.by = "npx" THEN [c EXCEPT !.by = "here"] ELSE c :
                         c \in e.cmds}] : e \in s}

\* MUTANT of Filtered: an entry goes with the managed command in it.
FilteredWhole(s) == {e \in s : \A c \in e.cmds : c.name \notin Hooks}

\* filterHookEntries, for all specifications: the managed commands go, and
\* the entries that had no others.
Filtered(s) ==
  {e \in {[d EXCEPT !.cmds = {c \in d.cmds : c.name \notin Hooks}] : d \in s} :
     e.cmds # {}}

\* AddHooksForProfile.
WithHooks(s, p) == Filtered(Upgraded(s)) \cup {Entry(h, "here") : h \in InProfile(p)}

\* MUTANT of WithoutHooks: the markers of the present hooks only.
WithoutPresentHooks(s) == {e \in s : \A c \in e.cmds : c.name \notin Hooks}

\* RemoveAllHooks: the entries with a managed command go.
WithoutHooks(s) == {e \in s : \A c \in e.cmds : c.name \notin Hooks \cup {Legacy}}
-----------------------------------------------------------------------------
(* The blocks of the .gitignore files (init.go, uninstall.go).              *)

Block == <<"mark", "ours">>
Mark(s) == SelectInSeq(s, LAMBDA l : l = "mark")
TrimRight(s) == SubSeq(s, 1, SelectLastInSeq(s, LAMBDA l : l # "blank"))
TrimLeft(s) == SubSeq(s, IF SelectInSeq(s, LAMBDA l : l # "blank") = 0
                           THEN Len(s) + 1
                           ELSE SelectInSeq(s, LAMBDA l : l # "blank"), Len(s))

\* The first blank line after the mark, or the end.
BlockEnd(s) ==
  LET blanks == {i \in Mark(s) .. Len(s) : s[i] = "blank"}
  IN  IF blanks = {} THEN Len(s) + 1
      ELSE CHOOSE i \in blanks : \A j \in blanks : i <= j

Before(s) == SubSeq(s, 1, Mark(s) - 1)
After(s) == SubSeq(s, BlockEnd(s), Len(s))

\* MUTANT of Ignoring: a block that is there does not count.
IgnoringAgain(f, s) ==
  IF f = "root" THEN TrimRight(s) \o <<"blank">> \o Block ELSE TrimRight(s) \o Block

\* EnsureGitignore, EnsureRootGitignore and updateRootGitignoreBlock; an
\* empty file counts as none.
Ignoring(f, s) ==
  CASE Mark(s) = 0 /\ s = <<>>                   -> Block
    [] Mark(s) = 0 /\ s # <<>> /\ f = "root"   -> TrimRight(s) \o <<"blank">> \o Block
    [] Mark(s) = 0 /\ s # <<>> /\ f = "claude" -> TrimRight(s) \o Block
    [] Mark(s) > 0 /\ f = "root"                -> Before(s) \o Block \o After(s)
    [] OTHER                                    -> s

\* removeGitignoreBlock.
NotIgnoring(s) == IF Mark(s) = 0 THEN s ELSE TrimRight(Before(s)) \o TrimLeft(After(s))
-----------------------------------------------------------------------------
(* Commands.                                                                *)

NewCommand(job, pc) == [pc |-> pc, job |-> job, read |-> {}, at |-> 1,
                        todo |-> job.targets]

Idle == NewCommand([kind |-> "none", profile |-> 0, confirm |-> FALSE, hooks |-> FALSE,
                    templates |-> FALSE, targets |-> {}, mode |-> 0], "idle")

\* What the files may hold, and what the commands are.
Names == Hooks \cup {Legacy, Own}
Entries == [event : {EventOf[n] : n \in Names},
            cmds : SUBSET [name : Names, by : Runners]]
Files == {"current", "outdated", "retired", "index"}
Lines == {"mark", "ours", "blank", Own}
Targets == {"claude", "codex", "agy", "goose"}
Artifacts == {"dir", "legacy", "moved"}

\* Hook entries run something on its event; a command of the user's is not npx.
Sound(s) ==
  /\ s \subseteq Entries
  /\ \A e \in s :
       /\ e.cmds # {}
       /\ \A c \in e.cmds : EventOf[c.name] = e.event /\ (c.name = Own => c.by = "none")

ASSUME JobsAssumption ==
  Jobs \subseteq [kind : {"setup", "hooks", "unhook", "uninstall"}, profile : 0 .. 2,
                 confirm : BOOLEAN, hooks : BOOLEAN, templates : BOOLEAN,
                 targets : SUBSET Targets, mode : 0 .. 2]

ASSUME ReposAssumption ==
  \A r \in InitialRepos : /\ IsFiniteSet(r.settings) /\ Sound(r.settings)
                          /\ r.tree \in [Groups -> SUBSET Files]
                          /\ r.plugin \in {"none", "old", "current"}
                          /\ r.artifacts \subseteq Artifacts

Init ==
  /\ \E r \in InitialRepos :
       /\ settings = r.settings
       /\ tree = r.tree
       /\ plugin = r.plugin
       /\ artifacts = r.artifacts
  /\ agents = {}
  /\ claudeMd = {}
  /\ ignore = [f \in IgnoreFiles |-> <<>>]
  /\ cmd = Idle
  /\ edits = 0

First(job) == CASE job.kind = "setup" /\ "claude" \in job.targets -> "ignore"
                [] job.kind = "setup" /\ "claude" \notin job.targets -> "targets"
                [] job.kind \in {"hooks", "unhook"}               -> "read"
                [] job.kind = "uninstall"                         -> "plan"

Begin ==
  /\ cmd.pc \in Resting
  /\ \E j \in Jobs : cmd' = NewCommand(j, First(j))
  /\ Keep(<<repo, edits>>)

\* initDirectories: the two .gitignore files, and the artifacts of versions
\* that kept them elsewhere, unless they are in both places.
WriteClaudeIgnore ==
  /\ At("ignore")
  /\ ignore' = [ignore EXCEPT !["claude"] = Ignoring("claude", @)]
  /\ Goto("rootignore")
  /\ Keep(<<settings, tree, agents, claudeMd, plugin, artifacts, edits>>)

WriteRootIgnore ==
  /\ At("rootignore")
  /\ ignore' = [ignore EXCEPT !["root"] = Ignoring("root", @)]
  /\ Goto("migrate")
  /\ Keep(<<settings, tree, agents, claudeMd, plugin, artifacts, edits>>)

AfterHooks ==
  CASE cmd.job.kind = "setup" /\ cmd.job.templates   -> "agents"
    [] cmd.job.kind = "setup" /\ ~ cmd.job.templates -> "targets"
    [] cmd.job.kind = "uninstall" /\ cmd.job.mode > 0 -> "remove"
    [] OTHER -> "ok"

Migrate ==
  /\ At("migrate")
  /\ artifacts' = {"dir"} \cup (IF artifacts \cap {"legacy", "moved"} = {"legacy"}
                                  THEN {"moved"} ELSE artifacts)
  /\ Goto(IF cmd.job.hooks THEN "read" ELSE AfterHooks)
  /\ Keep(<<settings, tree, agents, claudeMd, plugin, ignore, edits>>)

\* initHooks, runSetupClaude, uninstallHooks: settings.json is read, changed
\* in memory and replaced.
ReadSettings ==
  /\ At("read")
  /\ cmd' = [cmd EXCEPT !.pc = "write", !.read = settings]
  /\ Keep(<<repo, edits>>)

InstallHooks ==
  /\ At("write")
  /\ cmd.job.kind \in {"setup", "hooks"}
  /\ settings' = IF Needs(cmd.read, cmd.job.profile)
                   THEN WithHooks(cmd.read, cmd.job.profile) ELSE settings
  /\ cmd' = [cmd EXCEPT !.pc = AfterHooks, !.read = {}]
  /\ Keep(<<tree, agents, claudeMd, plugin, ignore, artifacts, edits>>)

RemoveHooks ==
  /\ At("write")
  /\ cmd.job.kind \in {"unhook", "uninstall"}
  /\ settings' = IF WithoutHooks(cmd.read) # cmd.read
                   THEN WithoutHooks(cmd.read) ELSE settings
  /\ cmd' = [cmd EXCEPT !.pc = AfterHooks, !.read = {}]
  /\ Keep(<<tree, agents, claudeMd, plugin, ignore, artifacts, edits>>)

\* installTemplates.  UpdateAgentsMd leaves a section alone, whatever its age.
UpdateAgentsMd ==
  /\ At("agents")
  /\ agents' = agents \cup {"section"}
  /\ Goto("claudemd")
  /\ Keep(<<settings, tree, claudeMd, plugin, ignore, artifacts, edits>>)

\* EnsureClaudeMdReference: a text that names the tool counts as a reference.
EnsureClaudeMd ==
  /\ At("claudemd")
  /\ claudeMd' = CASE claudeMd = {} -> {"title", "ref"}
                   [] claudeMd # {} /\ "named" \in claudeMd -> claudeMd
                   [] OTHER -> claudeMd \cup {"ref"}
  /\ Goto("plugin")
  /\ Keep(<<settings, tree, agents, plugin, ignore, artifacts, edits>>)

WritePlugin ==
  /\ At("plugin")
  /\ plugin' = "current"
  /\ Goto("guard")
  /\ Keep(<<settings, tree, agents, claudeMd, ignore, artifacts, edits>>)

\* MUTANT of OutOfProfile: the research tree is forgotten.
OutOfProfileWorkflow(p) == {g \in Groups : p < 1 /\ GroupRank(g) = 1 /\ tree[g] # {}}

\* detectOutOfProfileTemplates.
OutOfProfile(p) == {g \in Groups : GroupRank(g) > p /\ tree[g] # {}}

Refuse ==
  /\ At("guard")
  /\ ~ cmd.job.confirm
  /\ OutOfProfile(cmd.job.profile) # {}
  /\ Goto("refused")
  /\ Keep(<<repo, edits>>)

Agree ==
  /\ At("guard")
  /\ cmd.job.confirm \/ OutOfProfile(cmd.job.profile) = {}
  /\ Goto("install")
  /\ Keep(<<repo, edits>>)

\* reconcileFile, for every file of a group.
Reconciled(files) == {"current"} \cup (files \ {"outdated"})

\* What pruning leaves of a group: the skills index, whatever the profile.
Expected(g, p) == {"index"} \cup (IF GroupRank(g) <= p THEN {"current"} ELSE {})

Advance(next) == IF cmd.at < Len(GroupOrder)
                   THEN cmd' = [cmd EXCEPT !.at = @ + 1]
                   ELSE cmd' = [cmd EXCEPT !.pc = next, !.at = 1]

\* installTemplateGroups: a group at a time.
InstallGroup ==
  /\ At("install")
  /\ LET g == GroupOrder[cmd.at] IN
       tree' = IF GroupRank(g) <= cmd.job.profile
                 THEN [tree EXCEPT ![g] = Reconciled(@)] ELSE tree
  /\ Advance("prune")
  /\ Keep(<<settings, agents, claudeMd, plugin, ignore, artifacts, edits>>)

\* PruneForProfile.
PruneGroup ==
  /\ At("prune")
  /\ LET g == PruneOrder[cmd.at] IN
       tree' = [tree EXCEPT ![g] = @ \cap Expected(g, cmd.job.profile)]
  /\ Advance("index")
  /\ Keep(<<settings, agents, claudeMd, plugin, ignore, artifacts, edits>>)

CompileSkillsIndex ==
  /\ At("index")
  /\ tree' = IF cmd.job.profile >= 1 THEN [tree EXCEPT !["skills"] = @ \cup {"index"}]
             ELSE tree
  /\ Goto("targets")
  /\ Keep(<<settings, agents, claudeMd, plugin, ignore, artifacts, edits>>)

\* installHarnessTargets: codex and agy share AGENTS.md; the files that codex
\* and goose have for themselves are written anew, and nothing removes them.
InstallTarget(t) ==
  /\ At("targets")
  /\ t \in cmd.todo \ {"claude"}
  /\ cmd' = [cmd EXCEPT !.todo = @ \ {t}]
  /\ agents' = CASE t = "codex" -> agents \cup {"section"}
                 [] t = "agy"   -> agents \cup {"agy"}
                 [] t = "goose" -> agents
  /\ Keep(<<settings, tree, claudeMd, plugin, ignore, artifacts, edits>>)

TargetsDone ==
  /\ At("targets")
  /\ cmd.todo \subseteq {"claude"}
  /\ Goto("ok")
  /\ Keep(<<repo, edits>>)

(* Uninstall: the plan is shown, and carried out if the user agrees.        *)

\* containsAnyMarker.
Marked(f) == \/ f = "AGENTS.md" /\ {"section", "agy"} \cap agents # {}
             \/ f = "CLAUDE.md" /\ "ref" \in claudeMd
             \/ f \in IgnoreFiles /\ Mark(ignore[f]) > 0

Planned(mode) ==
  \/ \E h \in Hooks : Has(settings, h)
  \/ mode > 0 /\ (plugin # "none" \/ \E g \in Groups : tree[g] # {})
  \/ mode > 1 /\ ("dir" \in artifacts \/ \E f \in ToSet(MarkerFiles) : Marked(f))

Plan ==
  /\ At("plan")
  /\ IF Planned(cmd.job.mode) THEN Goto("read") \/ cmd' = Idle ELSE Goto("nothing")
  /\ Keep(<<repo, edits>>)

RemoveDir ==
  /\ At("remove")
  /\ tree' = [g \in Groups |-> IF g \in TemplateDirs[cmd.at] THEN {} ELSE tree[g]]
  /\ cmd' = IF cmd.at < Len(TemplateDirs) THEN [cmd EXCEPT !.at = @ + 1]
            ELSE [cmd EXCEPT !.pc = "unplug", !.at = 1]
  /\ Keep(<<settings, agents, claudeMd, plugin, ignore, artifacts, edits>>)

RemovePlugin ==
  /\ At("unplug")
  /\ plugin' = "none"
  /\ Goto(IF cmd.job.mode > 1 THEN "runtime" ELSE "ok")
  /\ Keep(<<settings, tree, agents, claudeMd, ignore, artifacts, edits>>)

RemoveRuntime ==
  /\ At("runtime")
  /\ artifacts' = artifacts \ {"dir", "moved"}
  /\ Goto("strip")
  /\ Keep(<<settings, tree, agents, claudeMd, plugin, ignore, edits>>)

\* stripAllMarkers, a file at a time.
StripMarkers ==
  /\ At("strip")
  /\ LET file == MarkerFiles[cmd.at] IN
       /\ agents' = IF file = "AGENTS.md" THEN agents \ {"section", "agy"} ELSE agents
       /\ claudeMd' = IF file = "CLAUDE.md" THEN claudeMd \ {"ref"} ELSE claudeMd
       /\ ignore' = [f \in IgnoreFiles |-> IF f = file THEN NotIgnoring(ignore[f])
                                                      ELSE ignore[f]]
  /\ cmd' = IF cmd.at < Len(MarkerFiles) THEN [cmd EXCEPT !.at = @ + 1]
            ELSE [cmd EXCEPT !.pc = "ok", !.at = 1]
  /\ Keep(<<settings, tree, plugin, artifacts, edits>>)

\* The file that the next step changes: os.WriteFile truncates it first, and
\* only settings.json is replaced by a rename.
Written ==
  CASE At("ignore") /\ Mark(ignore["claude"]) = 0            -> {"claude"}
    [] At("rootignore") /\ Ignoring("root", ignore["root"]) # ignore["root"] -> {"root"}
    [] At("agents") /\ "section" \notin agents               -> {"AGENTS.md"}
    [] At("claudemd") /\ {"ref", "named"} \cap claudeMd = {} -> {"CLAUDE.md"}
    [] At("plugin") /\ plugin # "current"                    -> {"plugin.json"}
    [] At("targets") /\ \/ "codex" \in cmd.todo /\ "section" \notin agents
                        \/ "agy" \in cmd.todo /\ "agy" \notin agents -> {"AGENTS.md"}
    [] At("strip") /\ Marked(MarkerFiles[cmd.at])            -> {MarkerFiles[cmd.at]}
    [] OTHER                                                 -> {}

\* Killed between two steps, or while a file is empty: what the user had in
\* it is lost, and a plugin.json that does not parse is as good as an old one.
Killed ==
  /\ cmd.pc \notin Resting
  /\ cmd' = Idle
  /\ \E emptied \in {{}, Written} :
       /\ agents' = IF "AGENTS.md" \in emptied THEN {} ELSE agents
       /\ claudeMd' = IF "CLAUDE.md" \in emptied THEN {} ELSE claudeMd
       /\ plugin' = IF "plugin.json" \in emptied THEN "old" ELSE plugin
       /\ ignore' = [f \in IgnoreFiles |-> IF f \in emptied THEN <<>> ELSE ignore[f]]
  /\ Keep(<<settings, tree, artifacts, edits>>)

(* The user adds a hook, as an entry of its own or to one that is there, a  *)
(* line to .gitignore, after a blank one or not, and text to the others.    *)
AddHook ==
  /\ edits < MaxEdits
  /\ edits' = edits + 1
  /\ \A e \in settings : Command(Own, "none") \notin e.cmds
  /\ \/ settings' = settings \cup {Entry(Own, "none")}
     \/ \E e \in settings :
          /\ e.event = EventOf[Own]
          /\ settings' = (settings \ {e})
                           \cup {[e EXCEPT !.cmds = @ \cup {Command(Own, "none")}]}
  /\ Keep(<<tree, agents, claudeMd, plugin, ignore, artifacts, cmd>>)

AddLine ==
  /\ edits < MaxEdits
  /\ edits' = edits + 1
  /\ ~ Contains(ignore["root"], Own)
  /\ \E gap \in {<<>>, <<"blank">>} :
       ignore' = [ignore EXCEPT !["root"] = @ \o gap \o <<Own>>]
  /\ Keep(<<settings, tree, agents, claudeMd, plugin, artifacts, cmd>>)

AddText ==
  /\ edits < MaxEdits
  /\ edits' = edits + 1
  /\ Own \notin claudeMd
  /\ \E text \in {{Own}, {Own, "named"}} : claudeMd' = claudeMd \cup text
  /\ Keep(<<settings, tree, agents, plugin, ignore, artifacts, cmd>>)

Setup ==
  \/ WriteClaudeIgnore \/ WriteRootIgnore \/ Migrate \/ ReadSettings
  \/ InstallHooks \/ UpdateAgentsMd \/ EnsureClaudeMd \/ WritePlugin
  \/ Refuse \/ Agree \/ InstallGroup \/ PruneGroup \/ CompileSkillsIndex
  \/ (\E t \in {"codex", "agy", "goose"} : InstallTarget(t)) \/ TargetsDone

Uninstall ==
  \/ Plan \/ RemoveHooks \/ RemoveDir \/ RemovePlugin \/ RemoveRuntime
  \/ StripMarkers

Next == Begin \/ Setup \/ Uninstall \/ Killed \/ AddHook \/ AddLine \/ AddText

Spec == Init /\ [][Next]_vars
-----------------------------------------------------------------------------
(* Every file holds what the commands and the user put there, and a block    *)
(* that has a beginning is whole and the only one.                           *)
TypeOK ==
  /\ \A e \in settings :
       /\ e.cmds # {}
       /\ \A c \in e.cmds : c.by \in Runners /\ EventOf[c.name] = e.event
  /\ \A g \in Groups : tree[g] \subseteq Files
  /\ agents \subseteq {"section", "agy"}
  /\ claudeMd \subseteq {"title", "ref", Own, "named"}
  /\ plugin \in {"none", "old", "current"}
  /\ artifacts \subseteq Artifacts
  /\ \A f \in IgnoreFiles :
       LET s == ignore[f] IN
         /\ Cardinality({i \in DOMAIN s : s[i] = "mark"}) <= 1
         /\ Mark(s) > 0 => Mark(s) < Len(s) /\ s[Mark(s) + 1] = "ours"

Ended(kind) == cmd.pc = "ok" /\ cmd.job.kind = kind

(* A setup that ends well leaves exactly what its profile asks for, each     *)
(* hook once and run by a binary, whatever the repository held before, what  *)
(* was killed half way through, and what the user edited meanwhile.          *)
HooksAsAsked(p) ==
  /\ \A h \in Hooks : Cardinality(Matches(settings, h)) = IF h \in InProfile(p) THEN 1 ELSE 0
  /\ ~ NeedsUpgrade(settings)

TemplatesAsAsked(p) ==
  \A g \in Groups : tree[g] \ {"index"} = IF GroupRank(g) <= p THEN {"current"} ELSE {}

InstalledAsAsked ==
  LET p == cmd.job.profile IN
    /\ Ended("setup") /\ "claude" \in cmd.job.targets =>
         /\ cmd.job.hooks => HooksAsAsked(p)
         /\ cmd.job.templates => /\ TemplatesAsAsked(p)
                                 /\ "section" \in agents
                                 /\ {"ref", "named"} \cap claudeMd # {}
                                 /\ plugin = "current"
         /\ \A f \in IgnoreFiles : Mark(ignore[f]) > 0
    /\ Ended("hooks") => HooksAsAsked(p)

(* filterHookEntries keeps what is not managed: an installation writes back  *)
(* every hook of the user's that it read, also one in an entry of ours.      *)
OwnHooks(s) == {c \in UNION {e.cmds : e \in s} : c.name = Own}

ReadHooksAreKept ==
  [][At("write") /\ cmd'.pc = AfterHooks /\ cmd.job.kind \in {"setup", "hooks"}
       => OwnHooks(cmd.read) \subseteq OwnHooks(settings')]_vars

(* installTemplates refuses to prune without ConfirmPrune: templates of ours *)
(* only go with an uninstall, or with a profile whose pruning was confirmed, *)
(* though any of them may be there from another profile, or from a command   *)
(* that was killed.                                                          *)
Templates(g) == tree[g] \cap {"current", "outdated"}

NothingPrunedUnasked ==
  [][(\E g \in Groups : Templates(g) # {} /\ Templates(g)' = {})
       => cmd.job.kind = "uninstall" \/ cmd.job.confirm]_vars

(* `ca uninstall --all` that ends well leaves nothing that is marked as ours *)
(* in the files it shares with the user, no template, and no state.          *)
UninstallIsComplete ==
  Ended("uninstall") /\ cmd.job.mode = 2 =>
    /\ \A e \in settings : \A c \in e.cmds : c.name \notin Hooks \cup {Legacy}
    /\ \A g \in Groups : tree[g] = {}
    /\ plugin = "none"
    /\ {"section", "agy"} \cap agents = {}
    /\ "ref" \notin claudeMd
    /\ {"dir", "moved"} \cap artifacts = {}
    /\ \A f \in IgnoreFiles : Mark(ignore[f]) = 0
-----------------------------------------------------------------------------
(* The inductive invariant.                                                 *)

\* A block that has a beginning is whole, and the only one.
Whole(s) ==
  \A i \in 1 .. Len(s) : s[i] = "mark" =>
    /\ i < Len(s) /\ s[i + 1] = "ours"
    /\ \A k \in 1 .. Len(s) : s[k] = "mark" => k = i

FilesOK ==
  /\ IsFiniteSet(settings) /\ Sound(settings)
  /\ tree \in [Groups -> SUBSET Files]
  /\ agents \subseteq {"section", "agy"}
  /\ claudeMd \subseteq {"title", "ref", Own, "named"}
  /\ plugin \in {"none", "old", "current"}
  /\ artifacts \subseteq Artifacts
  /\ ignore \in [IgnoreFiles -> Seq(Lines)]
  /\ \A f \in IgnoreFiles : Whole(ignore[f])

\* The steps of a command, from those of its templates on.
Pruned == {"index", "targets", "ok"}
Templating == {"agents", "claudemd", "plugin", "guard", "install", "prune", "index"}
Removing == {"remove", "unplug", "runtime", "strip"}

Steps(kind) ==
  CASE kind = "none"              -> {"idle"}
    [] kind = "setup"             -> {"ignore", "rootignore", "migrate", "read", "write",
                                      "targets", "refused", "ok"} \cup Templating
    [] kind \in {"hooks", "unhook"} -> {"read", "write", "ok"}
    [] kind = "uninstall"         -> {"plan", "nothing", "read", "write", "ok"} \cup Removing

ForClaude == cmd.job.kind = "setup" /\ "claude" \in cmd.job.targets

Memory(kind) ==
  [pc : Steps(kind), job : Jobs \cup {Idle.job}, read : SUBSET Entries,
   at : 1 .. Len(GroupOrder), todo : SUBSET Targets]

CommandOK ==
  /\ cmd \in Memory(cmd.job.kind)
  /\ cmd.pc \notin {"install", "prune", "remove", "strip"} => cmd.at = 1
  /\ cmd.pc \in {"ignore", "rootignore", "migrate"} \cup Templating => ForClaude
  /\ cmd.pc \in Templating => cmd.job.templates
  /\ cmd.job.kind = "setup" /\ cmd.pc \in {"read", "write"} => ForClaude /\ cmd.job.hooks
  /\ cmd.pc \in Removing => cmd.job.mode > 0
  /\ cmd.pc \in {"runtime", "strip"} => cmd.job.mode > 1
  /\ At("remove") => cmd.at <= Len(TemplateDirs)
  /\ At("strip") => cmd.at <= Len(MarkerFiles)

\* Each hook of the profile once, no other, and none by npx.
Installed(s, p) ==
  /\ \A h \in Hooks : IF h \in InProfile(p)
                       THEN \E m \in Matches(s, h) : Matches(s, h) = {m}
                       ELSE Matches(s, h) = {}
  /\ ~ NeedsUpgrade(s)

Unhooked(s) == \A e \in s : \A c \in e.cmds : c.name \notin Hooks \cup {Legacy}

\* Between the reading of settings.json and its replacement the user may edit
\* it; what holds of the hooks that were read holds of those that are there.
HooksOK ==
  /\ At("write") =>
       /\ IsFiniteSet(cmd.read) /\ Sound(cmd.read)
       /\ OwnHooks(cmd.read) \subseteq OwnHooks(settings)
       /\ \A p \in 0 .. 2 : Installed(cmd.read, p) => Installed(settings, p)
       /\ Unhooked(cmd.read) => Unhooked(settings)
  /\ ForClaude /\ cmd.job.hooks /\ cmd.pc \in Templating \cup {"targets", "ok"}
       => Installed(settings, cmd.job.profile)
  /\ Ended("hooks") => Installed(settings, cmd.job.profile)
  /\ cmd.job.kind = "uninstall" /\ cmd.pc \in Removing \cup {"ok"} => Unhooked(settings)

\* What a setup has already done.
SetupOK ==
  /\ ForClaude /\ ~ At("ignore") => Mark(ignore["claude"]) > 0
  /\ ForClaude /\ cmd.pc \notin {"ignore", "rootignore"} => Mark(ignore["root"]) > 0
  /\ ForClaude /\ cmd.job.templates =>
       /\ cmd.pc \in (Templating \ {"agents"}) \cup Pruned => "section" \in agents
       /\ cmd.pc \in (Templating \ {"agents", "claudemd"}) \cup Pruned
            => {"ref", "named"} \cap claudeMd # {}
       /\ cmd.pc \in {"guard", "install", "prune"} \cup Pruned => plugin = "current"

Fresh(files) == "current" \in files /\ "outdated" \notin files

TemplatesOK ==
  LET p == cmd.job.profile
  IN  /\ At("install") => \A i \in 1 .. cmd.at - 1 :
           GroupRank(GroupOrder[i]) <= p => Fresh(tree[GroupOrder[i]])
      /\ At("prune") =>
           /\ \A g \in Groups : GroupRank(g) <= p => Fresh(tree[g])
           /\ \A i \in 1 .. cmd.at - 1 : tree[PruneOrder[i]] \subseteq Expected(PruneOrder[i], p)
      /\ cmd.pc \in {"install", "prune"} /\ ~ cmd.job.confirm => OutOfProfile(p) = {}
      /\ ForClaude /\ cmd.job.templates /\ cmd.pc \in Pruned => TemplatesAsAsked(p)

\* What an uninstallation has already removed.
RemovedOK ==
  /\ At("remove") => \A i \in 1 .. cmd.at - 1 : \A g \in TemplateDirs[i] : tree[g] = {}
  /\ cmd.pc \in {"unplug", "runtime", "strip"} => \A g \in Groups : tree[g] = {}
  /\ cmd.pc \in {"runtime", "strip"} => plugin = "none"
  /\ At("strip") => /\ {"dir", "moved"} \cap artifacts = {}
                    /\ \A i \in 1 .. cmd.at - 1 : ~ Marked(MarkerFiles[i])
  /\ Ended("uninstall") /\ cmd.job.mode = 2 =>
       /\ \A g \in Groups : tree[g] = {}
       /\ plugin = "none"
       /\ {"dir", "moved"} \cap artifacts = {}
       /\ \A f \in ToSet(MarkerFiles) : ~ Marked(f)

IInv ==
  /\ FilesOK
  /\ CommandOK
  /\ HooksOK
  /\ SetupOK
  /\ TemplatesOK
  /\ RemovedOK
-----------------------------------------------------------------------------
(* "Existing hooks in any event array are never deleted"                     *)
(* (docs/invariants/setup-claude-defaults.md).                               *)
HooksAreNeverDeleted ==
  [][At("write") /\ cmd'.pc = AfterHooks
       => OwnHooks(cmd.read) \subseteq OwnHooks(settings')]_vars

(* A line that the user added to .gitignore stays.                           *)
OwnLinesAreKept ==
  [][Contains(ignore["root"], Own) => Contains(ignore["root"], Own)']_vars

(* A setup is refused only where it would prune something.                   *)
RefusalIsWarranted ==
  At("refused") => \E g \in Groups : Templates(g) # {} /\ GroupRank(g) > cmd.job.profile
=============================================================================
