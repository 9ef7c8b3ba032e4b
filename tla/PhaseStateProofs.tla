-------------------------- MODULE PhaseStateProofs --------------------------
(* Proofs about PhaseState, for every value of its constants. *)
EXTENDS PhaseState, TLAPS
-----------------------------------------------------------------------------
(* The invariant, path by path and process by process. *)

\* The gates of s, if it is a state, are among those earned.
EarnedIn(e, s) == s \in State => \A gate \in s.gates : <<s.visit, gate>> \in e

FileOK(e, f) ==
  /\ f \in [Paths -> Content \cup {Missing}]
  /\ \A path \in Paths : EarnedIn(e, f[path])

MemoryOK(e, label, l) ==
  /\ label \in Labels /\ l \in Local
  /\ ArgFits(l) /\ MemoryFits(label, l)
  /\ EarnedIn(e, l.got) /\ EarnedIn(e, l.new)

ProcsOK(e, labels, locals) ==
  /\ labels \in [Procs -> Labels] /\ locals \in [Procs -> Local]
  /\ \A p \in Procs : MemoryOK(e, labels[p], locals[p])

CountersOK ==
  /\ answer \in {"none", "edit", "warn", "stop", "block", "stop again"}
  /\ epics \in Nat /\ aged \in 0..epics /\ visits \in 0..MaxVisits

PartsOK ==
  /\ FileOK(earned, file)
  /\ fd \in [Procs -> Paths \cup {"none"}]
  /\ ProcsOK(earned, pc, loc)
  /\ CountersOK

\* What the parts say is what IInv says.
LEMMA Parts == IInv <=> PartsOK
<1>1. ASSUME TypeOK
      PROVE  GatesAreEarned <=>
               /\ \A path \in Paths : EarnedIn(earned, file[path])
               /\ \A p \in Procs : EarnedIn(earned, loc[p].got) /\ EarnedIn(earned, loc[p].new)
  BY DEF GatesAreEarned, States, EarnedIn
<1>2. TypeOK <=> /\ file \in [Paths -> Content \cup {Missing}]
                 /\ fd \in [Procs -> Paths \cup {"none"}]
                 /\ pc \in [Procs -> Labels] /\ loc \in [Procs -> Local]
                 /\ CountersOK
  BY DEF TypeOK, CountersOK
<1>3. IInv => PartsOK
  BY <1>1, <1>2 DEF IInv, PartsOK, FileOK, ProcsOK, MemoryOK
<1>4. PartsOK => IInv
  <2> SUFFICES ASSUME PartsOK PROVE IInv
    OBVIOUS
  <2>1. TypeOK
    BY <1>2 DEF PartsOK, FileOK, ProcsOK
  <2>2. \A p \in Procs : ArgFits(loc[p]) /\ MemoryFits(pc[p], loc[p])
    BY DEF PartsOK, ProcsOK, MemoryOK
  <2>3. GatesAreEarned
    BY <2>1, <1>1 DEF PartsOK, FileOK, ProcsOK, MemoryOK
  <2>4. QED
    BY <2>1, <2>2, <2>3 DEF IInv
<1>5. QED
  BY <1>3, <1>4

\* Files that are no state have no gates.
LEMMA NoStates ==
  /\ NoSession \notin State /\ Missing \notin State
  /\ Empty \notin State /\ Corrupt \notin State
BY PhaseStateAssumption

\* What was earned stays earned.
LEMMA EarnedGrows ==
  ASSUME NEW e, NEW d, e \subseteq d, NEW s, EarnedIn(e, s)
  PROVE  EarnedIn(d, s)
BY DEF EarnedIn

\* A process that has nothing in memory is fine anywhere.
LEMMA IdleOK == ASSUME NEW e PROVE MemoryOK(e, "idle", Idle)
<1>1. Idle \in Local
  BY DEF Idle, Local
<1>2. Idle.op = "none" /\ Idle.got = NoSession /\ Idle.new = NoSession
  BY DEF Idle
<1>3. QED
  BY <1>1, <1>2, NoStates DEF MemoryOK, ArgFits, MemoryFits, EarnedIn, Labels

\* A command that only asks holds nothing.
LEMMA StatusOK == ASSUME NEW e PROVE MemoryOK(e, "get", [Idle EXCEPT !.op = "status"])
<1> DEFINE l == [Idle EXCEPT !.op = "status"]
<1>1. l \in Local
  BY DEF Idle, Local, Operations
<1>2. l.op = "status" /\ l.got = NoSession /\ l.new = NoSession
  BY DEF Idle
<1> HIDE DEF l
<1>3. MemoryOK(e, "get", l)
  BY <1>1, <1>2, NoStates DEF MemoryOK, ArgFits, MemoryFits, EarnedIn, Labels
<1>4. QED
  BY <1>3 DEF l
-----------------------------------------------------------------------------
(* Steps of a process. *)

\* A process that goes on with a memory that is fine leaves all of them fine.
LEMMA GotoOK ==
  ASSUME NEW e, NEW d, e \subseteq d, ProcsOK(e, pc, loc),
         NEW p \in Procs, NEW label, NEW l, MemoryOK(d, label, l), Goto(p, label, l)
  PROVE  ProcsOK(d, pc', loc')
<1>1. label \in Labels /\ l \in Local
  BY DEF MemoryOK
<1>2. pc \in [Procs -> Labels] /\ loc \in [Procs -> Local]
  BY DEF ProcsOK
<1>3. pc' \in [Procs -> Labels] /\ loc' \in [Procs -> Local]
  BY <1>1, <1>2 DEF Goto
<1>4. ASSUME NEW q \in Procs PROVE MemoryOK(d, pc'[q], loc'[q])
  <2>1. CASE q = p
    BY <2>1, <1>2 DEF Goto
  <2>2. CASE q # p
    <3>1. pc'[q] = pc[q] /\ loc'[q] = loc[q]
      BY <2>2, <1>2 DEF Goto
    <3>2. MemoryOK(e, pc[q], loc[q])
      BY DEF ProcsOK
    <3>3. QED
      BY <3>1, <3>2, EarnedGrows DEF MemoryOK
  <2>3. QED
    BY <2>1, <2>2
<1>5. QED
  BY <1>3, <1>4 DEF ProcsOK

\* Who ends its command, or a hook, forgets the state it got.
LEMMA ReturnOK ==
  ASSUME NEW e, NEW d, e \subseteq d, ProcsOK(e, pc, loc), NEW p \in Procs,
         Return(p) \/ HookReturn(p)
  PROVE  ProcsOK(d, pc', loc')
<1>1. Goto(p, "idle", Idle) \/ Goto(p, "get", [Idle EXCEPT !.op = "status"])
  BY DEF Return, HookReturn
<1>2. CASE Goto(p, "idle", Idle)
  BY <1>2, GotoOK, IdleOK
<1>3. CASE Goto(p, "get", [Idle EXCEPT !.op = "status"])
  BY <1>3, GotoOK, StatusOK
<1>4. QED
  BY <1>1, <1>2, <1>3
-----------------------------------------------------------------------------
(* What the operations do with the state they got. *)

\* init and init --force make a state without gates.
LEMMA AfterInitOK ==
  ASSUME ProcsOK(earned, pc, loc), CountersOK, NEW p \in Procs,
         loc[p].op \in {"init", "force"}, AfterInit(p)
  PROVE  earned \subseteq earned' /\ ProcsOK(earned', pc', loc') /\ CountersOK'
<1> DEFINE s == [epic |-> epics + 1, visit |-> loc[p].visit, active |-> TRUE,
                 phase |-> loc[p].arg, skills |-> {}, gates |-> {}]
           l == [loc[p] EXCEPT !.new = s]
<1>1. MemoryOK(earned, pc[p], loc[p]) /\ loc[p].visit \in Nat /\ loc[p].arg \in PhaseNames
  BY DEF ProcsOK, MemoryOK, Local, ArgFits
<1>2. s \in State /\ s.gates = {}
  <2>1. epics \in Nat
    BY Zenon DEF CountersOK
  <2>2. QED
    BY <1>1, <2>1 DEF State
<1> HIDE DEF s
<1>3. l \in Local /\ l.op = loc[p].op /\ l.arg = loc[p].arg /\ l.got = loc[p].got /\ l.new = s
  BY <1>1, <1>2 DEF MemoryOK, Local
<1> HIDE DEF l
<1>4. MemoryOK(earned, "mktemp", l)
  BY <1>1, <1>2, <1>3 DEF MemoryOK, ArgFits, MemoryFits, EarnedIn, Labels
<1>5. Goto(p, "mktemp", l) /\ earned' = earned
  BY DEF AfterInit, s, l
<1>6. ProcsOK(earned', pc', loc')
  BY <1>4, <1>5, GotoOK
<1>7. CountersOK'
  <2>1. epics' = epics + 1 /\ aged' = aged /\ visits' = visits /\ answer' = answer
    BY DEF AfterInit
  <2>2. epics \in Nat /\ aged \in 0..epics
    BY Zenon DEF CountersOK
  <2>3. epics + 1 \in Nat /\ aged \in 0..(epics + 1)
    BY <2>2
  <2>4. QED
    BY Zenon, <2>1, <2>3 DEF CountersOK
<1>8. QED
  BY <1>5, <1>6, <1>7

\* A memory that differs from p's in the state that it will write.
LEMMA WritingOK ==
  ASSUME NEW e, earned \subseteq e, ProcsOK(earned, pc, loc), NEW p \in Procs,
         NEW s \in State, EarnedIn(e, s)
  PROVE  MemoryOK(e, "mktemp", [loc[p] EXCEPT !.new = s])
<1> DEFINE l == [loc[p] EXCEPT !.new = s]
<1>1. MemoryOK(earned, pc[p], loc[p])
  BY DEF ProcsOK
<1>2. l \in Local /\ l.op = loc[p].op /\ l.arg = loc[p].arg /\ l.got = loc[p].got /\ l.new = s
  BY <1>1 DEF MemoryOK, Local
<1> HIDE DEF l
<1>3. EarnedIn(e, l.got) /\ EarnedIn(e, l.new)
  BY <1>1, <1>2, EarnedGrows DEF MemoryOK
<1>4. MemoryOK(e, "mktemp", l)
  BY <1>1, <1>2, <1>3 DEF MemoryOK, ArgFits, MemoryFits, Labels
<1>5. QED
  BY <1>4 DEF l

\* Going on with the same memory, to a step that asks nothing of it.
LEMMA SameMemoryOK ==
  ASSUME NEW e, earned \subseteq e, ProcsOK(earned, pc, loc), NEW p \in Procs,
         NEW label \in {"get", "legacy", "expire", "remove"}
  PROVE  MemoryOK(e, label, loc[p])
<1>1. MemoryOK(earned, pc[p], loc[p])
  BY DEF ProcsOK
<1>2. QED
  BY <1>1, EarnedGrows DEF MemoryOK, MemoryFits, Labels

\* start empties the list of gates.
LEMMA AfterStartOK ==
  ASSUME ProcsOK(earned, pc, loc), NEW p \in Procs, NEW s \in State,
         loc[p].op = "start", AfterStart(p, s)
  PROVE  earned \subseteq earned' /\ ProcsOK(earned', pc', loc')
<1>1. loc[p].visit \in Nat /\ loc[p].arg \in PhaseNames
  BY DEF ProcsOK, MemoryOK, Local, ArgFits
<1>2. Started(p, s) \in State /\ Started(p, s).gates = {}
  BY <1>1 DEF Started, State
<1>3. EarnedIn(earned, Started(p, s))
  BY <1>2 DEF EarnedIn
<1>4. MemoryOK(earned, "mktemp", [loc[p] EXCEPT !.new = Started(p, s)])
  BY <1>2, <1>3, WritingOK
<1>5. Goto(p, "mktemp", [loc[p] EXCEPT !.new = Started(p, s)]) /\ earned' = earned
  BY DEF AfterStart
<1>6. QED
  BY <1>4, <1>5, GotoOK

\* gate adds the one gate that it has just earned.
LEMMA AfterGateOK ==
  ASSUME ProcsOK(earned, pc, loc), NEW p \in Procs, NEW s \in State,
         EarnedIn(earned, s), loc[p].op = "gate", AfterGate(p, s)
  PROVE  earned \subseteq earned' /\ ProcsOK(earned', pc', loc')
<1> DEFINE g == loc[p].arg
           t == [s EXCEPT !.gates = @ \cup {g}]
<1>1. g \in Gates
  BY DEF ProcsOK, MemoryOK, ArgFits
<1>2. earned' = earned \cup {<<s.visit, g>>}
  BY DEF AfterGate
<1>3. t \in State /\ t.visit = s.visit /\ t.gates = s.gates \cup {g}
  BY <1>1 DEF State
<1>4. EarnedIn(earned', t)
  BY <1>2, <1>3 DEF EarnedIn
<1>5. CASE g = "final"
  <2>1. Goto(p, "remove", loc[p])
    BY <1>5 DEF AfterGate
  <2>2. MemoryOK(earned', "remove", loc[p])
    BY <1>2, SameMemoryOK
  <2>3. QED
    BY <1>2, <2>1, <2>2, GotoOK
<1>6. CASE g # "final"
  <2>1. Goto(p, "mktemp", [loc[p] EXCEPT !.new = t])
    BY <1>6 DEF AfterGate
  <2> HIDE DEF t
  <2>2. MemoryOK(earned', "mktemp", [loc[p] EXCEPT !.new = t])
    BY <1>2, <1>3, <1>4, WritingOK
  <2>3. QED
    BY <1>2, <2>1, <2>2, GotoOK
<1>7. QED
  BY <1>5, <1>6

\* The read tracker moves lists of skills about, and leaves visit and gates.
LEMMA AfterReadOK ==
  ASSUME ProcsOK(earned, pc, loc), NEW p \in Procs, NEW s \in State,
         EarnedIn(earned, s), loc[p].op = "read", AfterRead(p, s)
  PROVE  earned \subseteq earned' /\ ProcsOK(earned', pc', loc')
<1> DEFINE skills == s.skills \cup {loc[p].arg}
           again  == [loc[p] EXCEPT !.again = TRUE, !.skills = skills]
           t      == [s EXCEPT !.skills = loc[p].skills]
           write  == [loc[p] EXCEPT !.got = s, !.new = t]
<1>1. earned' = earned
  BY DEF AfterRead
<1>2. MemoryOK(earned, pc[p], loc[p])
  BY DEF ProcsOK
<1>3. \/ Goto(p, "get", again)
      \/ HookReturn(p)
      \/ Goto(p, "trunc", write)
  BY DEF AfterRead
<1>4. loc[p].arg \in Skills /\ loc[p].skills \subseteq Skills
  BY <1>2 DEF MemoryOK, ArgFits, Local
<1>5. CASE Goto(p, "get", again)
  <2>1. skills \in SUBSET Skills
    BY <1>4 DEF State
  <2>2. /\ again \in Local /\ again.op = "read" /\ again.arg = loc[p].arg
        /\ again.got = loc[p].got /\ again.new = loc[p].new
    BY <1>2, <2>1 DEF MemoryOK, Local
  <2> HIDE DEF again
  <2>3. MemoryOK(earned, "get", again)
    BY <1>2, <2>2 DEF MemoryOK, ArgFits, MemoryFits, Labels
  <2>4. QED
    BY <1>1, <1>5, <2>3, GotoOK
<1>6. CASE HookReturn(p)
  BY <1>1, <1>6, ReturnOK
<1>7. CASE Goto(p, "trunc", write)
  <2>1. t \in State /\ t.visit = s.visit /\ t.gates = s.gates
    BY <1>4 DEF State
  <2>2. EarnedIn(earned, t)
    BY <2>1 DEF EarnedIn
  <2> HIDE DEF t
  <2>3. /\ write \in Local /\ write.op = "read" /\ write.arg = loc[p].arg
        /\ write.got = s /\ write.new = t
    BY <1>2, <2>1 DEF MemoryOK, Local, Content
  <2> HIDE DEF write
  <2>4. MemoryOK(earned, "trunc", write)
    BY <1>2, <2>1, <2>2, <2>3 DEF MemoryOK, ArgFits, MemoryFits, Labels
  <2>5. QED
    BY <1>1, <1>7, <2>4, GotoOK
<1>8. QED
  BY <1>3, <1>5, <1>6, <1>7

\* The counters and the answer stay.
LEMMA SameCounters ==
  ASSUME CountersOK, UNCHANGED <<counters, answer>>
  PROVE  CountersOK'
<1>1. epics' = epics /\ aged' = aged /\ visits' = visits /\ answer' = answer
  BY DEF counters
<1>2. QED
  BY Zenon, <1>1 DEF CountersOK

\* After, whatever the operation is.
LEMMA AfterOK ==
  ASSUME ProcsOK(earned, pc, loc), CountersOK, NEW p \in Procs,
         NEW s \in State \cup {NoSession}, EarnedIn(earned, s), After(p, s)
  PROVE  earned \subseteq earned' /\ ProcsOK(earned', pc', loc') /\ CountersOK'
<1> DEFINE op == loc[p].op
<1>1. CASE op = "guard" \/ op = "stop"
  <2>1. PICK a \in {GuardAnswer(s), StopAnswer(s)} : Answers(p, a)
    BY <1>1 DEF After
  <2>2. a \in {"none", "edit", "warn", "stop", "block", "stop again"}
    BY DEF GuardAnswer, StopAnswer
  <2>3. HookReturn(p) /\ earned' = earned /\ answer' = a /\ UNCHANGED counters
    BY <2>1 DEF Answers
  <2>4. epics' = epics /\ aged' = aged /\ visits' = visits
    BY <2>3 DEF counters
  <2>5. CountersOK'
    BY Zenon, <2>2, <2>3, <2>4 DEF CountersOK
  <2>6. QED
    BY <2>3, <2>5, ReturnOK
<1>2. CASE op = "init" /\ s = NoSession
  <2>1. AfterInit(p)
    BY <1>2 DEF After
  <2>2. QED
    BY <1>2, <2>1, AfterInitOK
<1>3. CASE op = "start" /\ s # NoSession
  <2>1. AfterStart(p, s) /\ s \in State
    BY <1>3 DEF After
  <2>2. CountersOK'
    BY <2>1, SameCounters DEF AfterStart
  <2>3. QED
    BY <1>3, <2>1, <2>2, AfterStartOK
<1>4. CASE op = "gate" /\ s # NoSession
  <2>1. AfterGate(p, s) /\ s \in State
    BY <1>4 DEF After
  <2>2. CountersOK'
    BY <2>1, SameCounters DEF AfterGate
  <2>3. QED
    BY <1>4, <2>1, <2>2, AfterGateOK
<1>5. CASE op = "read" /\ s # NoSession
  <2>1. AfterRead(p, s) /\ s \in State
    BY <1>5 DEF After
  <2>2. CountersOK'
    BY <2>1, SameCounters DEF AfterRead
  <2>3. QED
    BY <1>5, <2>1, <2>2, AfterReadOK
<1>6. CASE op = "verify" /\ s # NoSession
  <2>1. AfterVerify(p, s)
    BY <1>6 DEF After
  <2>2. earned' = earned /\ CountersOK'
    BY <2>1, SameCounters DEF AfterVerify
  <2>3. Goto(p, "remove", loc[p]) \/ Return(p)
    BY <2>1 DEF AfterVerify
  <2>4. CASE Goto(p, "remove", loc[p])
    BY <2>2, <2>4, SameMemoryOK, GotoOK
  <2>5. CASE Return(p)
    BY <2>2, <2>5, ReturnOK
  <2>6. QED
    BY <2>2, <2>3, <2>4, <2>5
<1>7. CASE /\ op \notin {"guard", "stop"}
           /\ ~(op = "init" /\ s = NoSession)
           /\ ~(op \in {"start", "gate", "read", "verify"} /\ s # NoSession)
  <2>1. (HookReturn(p) \/ Return(p)) /\ UNCHANGED <<counters, answer, earned>>
    BY <1>7 DEF After
  <2>2. CountersOK'
    BY <2>1, SameCounters
  <2>3. QED
    BY <2>1, <2>2, ReturnOK
<1>8. QED
  BY <1>1, <1>2, <1>3, <1>4, <1>5, <1>6, <1>7

\* The content of a path stands for no session or for the state that it is.
LEMMA DecodeOK ==
  ASSUME NEW e, NEW content \in Content \cup {Missing}, EarnedIn(e, content)
  PROVE  /\ Decode(content) \in State \cup {NoSession}
         /\ EarnedIn(e, Decode(content))
BY NoStates DEF Decode, Content, EarnedIn

\* What a process makes of a content it has read: a state, or none.
LEMMA ParsedOK ==
  ASSUME ProcsOK(earned, pc, loc), CountersOK, NEW p \in Procs,
         NEW content \in Content \cup {Missing}, EarnedIn(earned, content),
         Parsed(p, content)
  PROVE  earned \subseteq earned' /\ ProcsOK(earned', pc', loc') /\ CountersOK'
<1>1. CASE content \in State /\ Stale(content)
  <2>1. Goto(p, "expire", loc[p]) /\ UNCHANGED <<counters, answer, earned>>
    BY <1>1 DEF Parsed
  <2>2. CountersOK'
    BY <2>1, SameCounters
  <2>3. QED
    BY <2>1, <2>2, SameMemoryOK, GotoOK
<1>2. CASE ~(content \in State /\ Stale(content))
  <2>1. After(p, Decode(content))
    BY <1>2 DEF Parsed
  <2>2. QED
    BY <2>1, DecodeOK, AfterOK
<1>3. QED
  BY <1>1, <1>2
-----------------------------------------------------------------------------
(* What calls of the file system do to the paths. *)

\* No call brings a state to a path that is not fine.
LEMMA SetOK ==
  ASSUME NEW e, FileOK(e, file), NEW path \in Paths, NEW c \in Content \cup {Missing},
         EarnedIn(e, c), file' = [file EXCEPT ![path] = c]
  PROVE  FileOK(e, file')
<1>1. file' \in [Paths -> Content \cup {Missing}]
  BY DEF FileOK
<1>2. \A q \in Paths : file'[q] = IF q = path THEN c ELSE file[q]
  BY DEF FileOK
<1>3. QED
  BY <1>1, <1>2 DEF FileOK

\* An earlier write of the same process, or of another, to an open file.
LEMMA WriteToOK ==
  ASSUME NEW e, FileOK(e, file), fd \in [Procs -> Paths \cup {"none"}],
         NEW p \in Procs, NEW c \in Content, EarnedIn(e, c), WriteTo(p, c)
  PROVE  FileOK(e, file') /\ fd' \in [Procs -> Paths \cup {"none"}]
<1>1. fd' \in [Procs -> Paths \cup {"none"}]
  BY DEF WriteTo
<1>2. CASE fd[p] = "none"
  BY <1>1, <1>2 DEF WriteTo, FileOK
<1>3. CASE fd[p] # "none"
  <2>1. fd[p] \in Paths
    BY <1>3
  <2>2. PICK result : /\ result \in {file[fd[p]], c, Corrupt}
                      /\ file' = [file EXCEPT ![fd[p]] = result]
    BY <1>3 DEF WriteTo
  <2>3. result \in Content \cup {Missing} /\ EarnedIn(e, result)
    BY <2>1, <2>2, NoStates DEF FileOK, Content, EarnedIn
  <2>4. QED
    BY <1>1, <2>1, <2>2, <2>3, SetOK
<1>4. QED
  BY <1>2, <1>3

\* Truncation empties a file and opens it.
LEMMA OpenTruncOK ==
  ASSUME NEW e, FileOK(e, file), fd \in [Procs -> Paths \cup {"none"}],
         NEW p \in Procs, NEW path \in Paths, OpenTrunc(p, path)
  PROVE  FileOK(e, file') /\ fd' \in [Procs -> Paths \cup {"none"}]
<1>1. Empty \in Content \cup {Missing} /\ EarnedIn(e, Empty)
  BY NoStates DEF Content, EarnedIn
<1>2. FileOK(e, file')
  BY <1>1, SetOK DEF OpenTrunc
<1>3. QED
  BY <1>2 DEF OpenTrunc

\* A removed file leaves no path to the descriptors that had it.
LEMMA RemoveOK ==
  ASSUME NEW e, FileOK(e, file), fd \in [Procs -> Paths \cup {"none"}],
         NEW path \in Paths, Remove(path)
  PROVE  FileOK(e, file') /\ fd' \in [Procs -> Paths \cup {"none"}]
<1>1. EarnedIn(e, Missing)
  BY NoStates DEF EarnedIn
<1>2. FileOK(e, file')
  BY <1>1, SetOK DEF Remove
<1>3. QED
  BY <1>2 DEF Remove

\* A renamed file is found at its new path by the descriptors that had it.
LEMMA RenameOK ==
  ASSUME NEW e, FileOK(e, file), fd \in [Procs -> Paths \cup {"none"}],
         NEW from \in Paths, NEW to \in Paths, Rename(from, to)
  PROVE  FileOK(e, file') /\ fd' \in [Procs -> Paths \cup {"none"}]
<1>1. EarnedIn(e, Missing)
  BY NoStates DEF EarnedIn
<1>2. file' \in [Paths -> Content \cup {Missing}]
  BY DEF Rename, FileOK
<1>3. \A q \in Paths : file'[q] \in {file[q], file[from], Missing}
  BY DEF Rename, FileOK
<1>4. FileOK(e, file')
  BY <1>1, <1>2, <1>3 DEF FileOK
<1>5. fd' \in [Procs -> Paths \cup {"none"}]
  BY DEF Rename
<1>6. QED
  BY <1>4, <1>5
-----------------------------------------------------------------------------
(* The actions. *)

LEMMA FileGrows ==
  ASSUME NEW e, NEW d, e \subseteq d, NEW f, FileOK(e, f)
  PROVE  FileOK(d, f)
BY EarnedGrows DEF FileOK

\* A step that leaves the files alone.
LEMMA MemoryStep ==
  ASSUME PartsOK, UNCHANGED <<file, fd>>, earned \subseteq earned',
         ProcsOK(earned', pc', loc'), CountersOK'
  PROVE  PartsOK'
<1>1. FileOK(earned', file') /\ fd' \in [Procs -> Paths \cup {"none"}]
  BY FileGrows DEF PartsOK
<1>2. QED
  BY <1>1 DEF PartsOK

\* A step that calls the file system.
LEMMA FileStep ==
  ASSUME PartsOK, FileOK(earned, file'), fd' \in [Procs -> Paths \cup {"none"}],
         UNCHANGED <<counters, answer, earned>>, ProcsOK(earned', pc', loc')
  PROVE  PartsOK'
<1>1. CountersOK'
  BY SameCounters DEF PartsOK
<1>2. earned' = earned
  OBVIOUS
<1>3. QED
  BY <1>1, <1>2 DEF PartsOK

\* The operation that a process begins with.
LEMMA FirstMemoryOK ==
  ASSUME NEW op \in Operations, NEW arg \in Skills \cup Gates \cup {"none"},
         NEW visit \in Nat, NEW label \in {"force", "remove", "get"},
         op \in {"init", "force", "start"} => arg \in PhaseNames,
         op = "gate" => arg \in Gates, op = "read" => arg \in Skills,
         label = "force" => op = "force"
  PROVE  MemoryOK(earned, label, [Idle EXCEPT !.op = op, !.arg = arg, !.visit = visit])
<1> DEFINE l == [Idle EXCEPT !.op = op, !.arg = arg, !.visit = visit]
<1>1. l \in Local
  BY DEF Idle, Local
<1>2. l.op = op /\ l.arg = arg /\ l.got = NoSession /\ l.new = NoSession
  BY DEF Idle
<1> HIDE DEF l
<1>3. MemoryOK(earned, label, l)
  BY <1>1, <1>2, NoStates DEF MemoryOK, ArgFits, MemoryFits, EarnedIn, Labels
<1>4. QED
  BY <1>3 DEF l

\* A command begins with an argument of its kind.
LEMMA BeginOK ==
  ASSUME PartsOK, NEW p \in Procs, NEW op \in Operations,
         NEW arg \in Skills \cup Gates \cup {"none"},
         op \in {"init", "force", "start"} => arg \in PhaseNames,
         op = "gate" => arg \in Gates, op = "read" => arg \in Skills,
         Begin(p, op, arg)
  PROVE  PartsOK'
<1>1. visits \in Nat /\ visits \in 0..MaxVisits /\ MaxVisits \in Nat
  <2>1. visits \in 0..MaxVisits /\ MaxVisits \in Nat
    BY Zenon, PhaseStateAssumption DEF PartsOK, CountersOK
  <2>2. QED
    BY <2>1
<1>2. \/ visits' = visits + 1 /\ visits < MaxVisits
      \/ visits' = visits
  BY DEF Begin
<1>3. visits' \in Nat /\ visits' \in 0..MaxVisits
  BY <1>1, <1>2
<1>4. PICK label \in {"force", "remove", "get"} :
        /\ label = "force" => op = "force"
        /\ Goto(p, label, [Idle EXCEPT !.op = op, !.arg = arg, !.visit = visits'])
  BY DEF Begin
<1>5. earned' = earned /\ answer' = "none" /\ epics' = epics /\ aged' = aged
      /\ UNCHANGED <<file, fd>>
  BY DEF Begin
<1>6. MemoryOK(earned, label, [Idle EXCEPT !.op = op, !.arg = arg, !.visit = visits'])
  BY <1>3, <1>4, FirstMemoryOK
<1>7. ProcsOK(earned', pc', loc')
  BY <1>4, <1>5, <1>6, GotoOK DEF PartsOK
<1>8. epics \in Nat /\ aged \in 0..epics
  BY Zenon DEF PartsOK, CountersOK
<1>9. CountersOK'
  BY Zenon, <1>3, <1>5, <1>8 DEF CountersOK
<1>10. QED
  BY <1>5, <1>7, <1>9, MemoryStep

\* Whatever an agent begins, the invariant holds.
LEMMA StartOK == ASSUME PartsOK, NEW p \in Procs, Start(p) PROVE PartsOK'
<1>1. CASE \E op \in {"init", "force", "start"}, phase \in PhaseNames : Begin(p, op, phase)
  <2>1. PICK op \in {"init", "force", "start"}, phase \in PhaseNames : Begin(p, op, phase)
    BY <1>1
  <2>2. phase \in Skills /\ op \in Operations
    BY PhaseStateAssumption DEF Operations
  <2>3. QED
    BY <2>1, <2>2, BeginOK
<1>2. CASE \E gate \in Gates : Begin(p, "gate", gate)
  BY <1>2, BeginOK DEF Operations
<1>3. CASE \E skill \in Skills : Begin(p, "read", skill)
  BY <1>3, BeginOK DEF Operations
<1>4. CASE \E op \in {"clean", "verify", "status", "guard", "stop"} : Begin(p, op, "none")
  BY <1>4, BeginOK DEF Operations
<1>5. CASE StopHookActive(p)
  <2>1. HookReturn(p) /\ earned' = earned /\ answer' = "stop again"
        /\ UNCHANGED <<file, fd>> /\ UNCHANGED counters
    BY <1>5 DEF StopHookActive
  <2>2. ProcsOK(earned', pc', loc')
    BY <2>1, ReturnOK DEF PartsOK
  <2>3. epics' = epics /\ aged' = aged /\ visits' = visits
    BY <2>1 DEF counters
  <2>4. CountersOK'
    BY Zenon, <2>1, <2>3 DEF PartsOK, CountersOK
  <2>5. QED
    BY <2>1, <2>2, <2>4, MemoryStep
<1>6. QED
  BY <1>1, <1>2, <1>3, <1>4, <1>5 DEF Start

\* Going on with the same memory and the same history.
LEMMA GoOnOK ==
  ASSUME ProcsOK(earned, pc, loc), NEW p \in Procs, NEW label \in Labels,
         MemoryFits(label, loc[p]), Goto(p, label, loc[p]), earned' = earned
  PROVE  ProcsOK(earned', pc', loc')
<1>1. MemoryOK(earned, label, loc[p])
  BY DEF ProcsOK, MemoryOK
<1>2. QED
  BY <1>1, GotoOK

\* The steps of GetPhaseState.
LEMMA GetOK ==
  ASSUME PartsOK, NEW p \in Procs,
         \/ ForceInit(p) \/ ReadMain(p) \/ ReadLegacy(p) \/ Migrate(p) \/ Migrated(p)
         \/ Unlink(p) \/ ParseLegacy(p) \/ RemoveStale(p)
  PROVE  PartsOK'
<1> USE DEF PartsOK
<1>1. MemoryOK(earned, pc[p], loc[p]) /\ ProcsOK(earned, pc, loc)
  BY DEF ProcsOK
<1>2. \A path \in Paths : file[path] \in Content \cup {Missing} /\ EarnedIn(earned, file[path])
  BY DEF FileOK
<1>3. "main" \in Paths /\ "legacy" \in Paths
  BY DEF Paths
<1>4. CASE ForceInit(p)
  <2>1. loc[p].op = "force" /\ AfterInit(p) /\ UNCHANGED <<file, fd>>
    BY <1>1, <1>4 DEF ForceInit, MemoryOK, MemoryFits
  <2>2. QED
    BY <2>1, AfterInitOK, MemoryStep
<1>5. CASE ReadMain(p)
  <2>1. CASE file["main"] = Missing
    <3>1. /\ Goto(p, "legacy", loc[p]) /\ UNCHANGED <<counters, answer, earned>>
          /\ UNCHANGED <<file, fd>>
      BY <1>5, <2>1 DEF ReadMain
    <3>2. ProcsOK(earned', pc', loc')
      BY <3>1, SameMemoryOK, GotoOK
    <3>3. QED
      BY <3>1, <3>2, SameCounters, MemoryStep
  <2>2. CASE file["main"] # Missing
    <3>1. Parsed(p, file["main"]) /\ UNCHANGED <<file, fd>>
      BY <1>5, <2>2 DEF ReadMain
    <3>2. QED
      BY <1>2, <1>3, <3>1, ParsedOK, MemoryStep
  <2>3. QED
    BY <2>1, <2>2
<1>6. CASE ReadLegacy(p)
  <2>1. CASE file["legacy"] = Missing
    <3>1. After(p, NoSession) /\ UNCHANGED <<file, fd>>
      BY <1>6, <2>1 DEF ReadLegacy
    <3>2. EarnedIn(earned, NoSession)
      BY NoStates DEF EarnedIn
    <3>3. QED
      BY <3>1, <3>2, AfterOK, MemoryStep
  <2>2. CASE file["legacy"] # Missing
    <3> DEFINE l == [loc[p] EXCEPT !.got = file["legacy"]]
    <3>1. /\ Goto(p, "migrate", l) /\ UNCHANGED <<counters, answer, earned>>
          /\ UNCHANGED <<file, fd>>
      BY <1>6, <2>2 DEF ReadLegacy
    <3>2. file["legacy"] \in Content
      BY <1>2, <1>3, <2>2
    <3>3. /\ l \in Local /\ l.op = loc[p].op /\ l.arg = loc[p].arg
          /\ l.got = file["legacy"] /\ l.new = loc[p].new
      BY <1>1, <3>2 DEF MemoryOK, Local
    <3> HIDE DEF l
    <3>4. MemoryOK(earned, "migrate", l)
      BY <1>1, <1>2, <1>3, <3>2, <3>3 DEF MemoryOK, ArgFits, MemoryFits, Labels
    <3>5. ProcsOK(earned', pc', loc')
      BY <3>1, <3>4, GotoOK
    <3>6. QED
      BY <3>1, <3>5, SameCounters, MemoryStep
  <2>3. QED
    BY <2>1, <2>2
<1>7. CASE Migrate(p)
  <2>1. /\ pc[p] = "migrate" /\ OpenTrunc(p, "main") /\ Goto(p, "migrated", loc[p])
        /\ UNCHANGED <<counters, answer, earned>>
    BY <1>7 DEF Migrate
  <2>2. MemoryFits("migrated", loc[p])
    BY <1>1, <2>1 DEF MemoryOK, MemoryFits
  <2>3. ProcsOK(earned', pc', loc')
    BY <2>1, <2>2, GoOnOK DEF Labels
  <2>4. QED
    BY <1>3, <2>1, <2>3, OpenTruncOK, FileStep
<1>8. CASE Migrated(p)
  <2>1. /\ pc[p] = "migrated" /\ WriteTo(p, loc[p].got) /\ Goto(p, "unlink", loc[p])
        /\ UNCHANGED <<counters, answer, earned>>
    BY <1>8 DEF Migrated
  <2>2. MemoryFits("unlink", loc[p]) /\ loc[p].got \in Content /\ EarnedIn(earned, loc[p].got)
    BY <1>1, <2>1 DEF MemoryOK, MemoryFits
  <2>3. ProcsOK(earned', pc', loc')
    BY <2>1, <2>2, GoOnOK DEF Labels
  <2>4. QED
    BY <2>1, <2>2, <2>3, WriteToOK, FileStep
<1>9. CASE Unlink(p)
  <2>1. /\ pc[p] = "unlink" /\ Remove("legacy") /\ Goto(p, "parse", loc[p])
        /\ UNCHANGED <<counters, answer, earned>>
    BY <1>9 DEF Unlink
  <2>2. MemoryFits("parse", loc[p])
    BY <1>1, <2>1 DEF MemoryOK, MemoryFits
  <2>3. ProcsOK(earned', pc', loc')
    BY <2>1, <2>2, GoOnOK DEF Labels
  <2>4. QED
    BY <1>3, <2>1, <2>3, RemoveOK, FileStep
<1>10. CASE ParseLegacy(p)
  <2>1. pc[p] = "parse" /\ Parsed(p, loc[p].got) /\ UNCHANGED <<file, fd>>
    BY <1>10 DEF ParseLegacy
  <2>2. loc[p].got \in Content /\ EarnedIn(earned, loc[p].got)
    BY <1>1, <2>1 DEF MemoryOK, MemoryFits
  <2>3. QED
    BY <2>1, <2>2, ParsedOK, MemoryStep
<1>11. CASE RemoveStale(p)
  <2>1. Remove("main") /\ After(p, NoSession)
    BY <1>11 DEF RemoveStale
  <2>2. EarnedIn(earned, NoSession)
    BY NoStates DEF EarnedIn
  <2>3. earned \subseteq earned' /\ ProcsOK(earned', pc', loc') /\ CountersOK'
    BY <2>1, <2>2, AfterOK
  <2>4. FileOK(earned, file') /\ fd' \in [Procs -> Paths \cup {"none"}]
    BY <1>3, <2>1, RemoveOK
  <2>5. FileOK(earned', file')
    BY <2>3, <2>4, FileGrows
  <2>6. QED
    BY <2>3, <2>4, <2>5
<1>12. QED
  BY <1>4, <1>5, <1>6, <1>7, <1>8, <1>9, <1>10, <1>11

\* The steps that write or remove the state.
LEMMA PutOK ==
  ASSUME PartsOK, NEW p \in Procs,
         \/ MakeTemp(p) \/ FillTemp(p) \/ RenameTemp(p)
         \/ TruncateMain(p) \/ RewriteMain(p) \/ RemoveMain(p)
  PROVE  PartsOK'
<1> USE DEF PartsOK
<1>1. MemoryOK(earned, pc[p], loc[p]) /\ ProcsOK(earned, pc, loc)
  BY DEF ProcsOK
<1>2. "main" \in Paths /\ "tmp" \in Paths
  BY DEF Paths
<1>3. pc[p] \in {"mktemp", "fill", "rename", "trunc", "rewrite"} =>
        /\ loc[p].new \in State /\ loc[p].new \in Content
        /\ EarnedIn(earned, loc[p].new)
  BY <1>1 DEF MemoryOK, MemoryFits, Content
<1>4. CASE MakeTemp(p)
  <2>1. /\ pc[p] = "mktemp" /\ OpenTrunc(p, "tmp") /\ Goto(p, "fill", loc[p])
        /\ UNCHANGED <<counters, answer, earned>>
    BY <1>4 DEF MakeTemp
  <2>2. ProcsOK(earned', pc', loc')
    BY <1>1, <1>3, <2>1, GoOnOK DEF MemoryFits, Labels
  <2>3. QED
    BY <1>2, <2>1, <2>2, OpenTruncOK, FileStep
<1>5. CASE FillTemp(p)
  <2>1. /\ pc[p] = "fill" /\ WriteTo(p, loc[p].new) /\ Goto(p, "rename", loc[p])
        /\ UNCHANGED <<counters, answer, earned>>
    BY <1>5 DEF FillTemp
  <2>2. ProcsOK(earned', pc', loc')
    BY <1>1, <1>3, <2>1, GoOnOK DEF MemoryFits, Labels
  <2>3. QED
    BY <1>3, <2>1, <2>2, WriteToOK, FileStep
<1>6. CASE RenameTemp(p)
  <2>1. /\ UNCHANGED <<file, fd>> \/ Rename("tmp", "main")
        /\ Return(p) /\ UNCHANGED <<counters, answer, earned>>
    BY <1>6 DEF RenameTemp
  <2>2. ProcsOK(earned', pc', loc')
    BY <2>1, ReturnOK
  <2>3. FileOK(earned, file') /\ fd' \in [Procs -> Paths \cup {"none"}]
    BY <1>2, <2>1, RenameOK
  <2>4. QED
    BY <2>1, <2>2, <2>3, FileStep
<1>7. CASE TruncateMain(p)
  <2>1. /\ pc[p] = "trunc" /\ OpenTrunc(p, "main") /\ Goto(p, "rewrite", loc[p])
        /\ UNCHANGED <<counters, answer, earned>>
    BY <1>7 DEF TruncateMain
  <2>2. ProcsOK(earned', pc', loc')
    BY <1>1, <1>3, <2>1, GoOnOK DEF MemoryFits, Labels
  <2>3. QED
    BY <1>2, <2>1, <2>2, OpenTruncOK, FileStep
<1>8. CASE RewriteMain(p)
  <2>1. /\ pc[p] = "rewrite" /\ WriteTo(p, loc[p].new) /\ HookReturn(p)
        /\ UNCHANGED <<counters, answer, earned>>
    BY <1>8 DEF RewriteMain
  <2>2. ProcsOK(earned', pc', loc')
    BY <2>1, ReturnOK
  <2>3. QED
    BY <1>3, <2>1, <2>2, WriteToOK, FileStep
<1>9. CASE RemoveMain(p)
  <2>1. Remove("main") /\ Return(p) /\ UNCHANGED <<counters, answer, earned>>
    BY <1>9 DEF RemoveMain
  <2>2. ProcsOK(earned', pc', loc')
    BY <2>1, ReturnOK
  <2>3. QED
    BY <1>2, <2>1, <2>2, RemoveOK, FileStep
<1>10. QED
  BY <1>4, <1>5, <1>6, <1>7, <1>8, <1>9

\* A killed process leaves the files as they are.
LEMMA CrashOK == ASSUME PartsOK, NEW p \in Procs, Crash(p) PROVE PartsOK'
<1>1. Return(p) /\ UNCHANGED <<counters, answer, earned>>
  BY DEF Crash
<1>2. ProcsOK(earned', pc', loc')
  BY <1>1, ReturnOK DEF PartsOK
<1>3. "tmp" \in Paths /\ EarnedIn(earned, Missing)
  BY NoStates DEF Paths, EarnedIn
<1>4. file' = file \/ file' = [file EXCEPT !["tmp"] = Missing]
  BY DEF Crash
<1>5. FileOK(earned, file')
  BY <1>3, <1>4, SetOK DEF PartsOK
<1>6. fd' \in [Procs -> Paths \cup {"none"}]
  BY DEF Crash, PartsOK
<1>7. QED
  BY <1>1, <1>2, <1>5, <1>6, FileStep

\* Time makes no gate.
LEMMA AgeOK == ASSUME PartsOK, Age PROVE PartsOK'
<1>1. epics \in Nat /\ aged \in 0..epics /\ visits \in 0..MaxVisits
      /\ answer \in {"none", "edit", "warn", "stop", "block", "stop again"}
  BY Zenon DEF PartsOK, CountersOK
<1>2. aged' \in (aged + 1)..epics /\ UNCHANGED <<file, fd, pc, loc, answer, epics, visits, earned>>
  BY DEF Age
<1>3. aged' \in 0..epics
  <2>1. epics \in Nat /\ aged \in 0..epics /\ aged' \in (aged + 1)..epics
    BY Zenon, <1>1, <1>2
  <2>2. QED
    BY <2>1
<1>4. epics' = epics /\ visits' = visits /\ answer' = answer
  BY <1>2
<1>5. CountersOK'
  BY Zenon, <1>1, <1>3, <1>4 DEF CountersOK
<1>6. QED
  BY <1>2, <1>5 DEF PartsOK
-----------------------------------------------------------------------------
(* The theorems. *)

LEMMA InvariantInit == Init => IInv
<1> SUFFICES ASSUME Init PROVE PartsOK
  BY Parts
<1>1. file \in [Paths -> Content \cup {Missing}]
  BY PhaseStateAssumption DEF Init
<1>2. \A path \in Paths : EarnedIn(earned, file[path])
  <2>1. PICK old \in {{file[path] : path \in Paths} \cap State} :
          earned = UNION {{<<s.visit, gate>> : gate \in s.gates} : s \in old}
    BY DEF Init
  <2>2. ASSUME NEW path \in Paths, file[path] \in State, NEW gate \in file[path].gates
        PROVE  <<file[path].visit, gate>> \in earned
    <3>1. file[path] \in old
      BY <2>1, <2>2
    <3>2. QED
      BY <2>1, <2>2, <3>1
  <2>3. QED
    BY <2>2 DEF EarnedIn
<1>3. fd \in [Procs -> Paths \cup {"none"}]
  BY DEF Init
<1>4. pc \in [Procs -> Labels] /\ \A p \in Procs : pc[p] = "idle"
  BY DEF Init, Labels
<1>5. loc \in [Procs -> Local] /\ \A p \in Procs : loc[p] = Idle
  <2>1. Idle \in Local
    BY IdleOK DEF MemoryOK
  <2>2. loc = [p \in Procs |-> Idle]
    BY DEF Init
  <2>3. QED
    BY <2>1, <2>2
<1>6. ProcsOK(earned, pc, loc)
  BY <1>4, <1>5, IdleOK DEF ProcsOK
<1>7. CountersOK
  <2>1. answer = "none" /\ epics = 1 /\ aged = 0 /\ visits = 0
    BY DEF Init
  <2>2. 1 \in Nat /\ 0 \in 0..1 /\ 0 \in 0..MaxVisits
    BY PhaseStateAssumption
  <2>3. QED
    BY Zenon, <2>1, <2>2 DEF CountersOK
<1>8. QED
  BY <1>1, <1>2, <1>3, <1>6, <1>7 DEF PartsOK, FileOK

\* Every step preserves the invariant.
LEMMA InvariantStep == PartsOK /\ [Next]_vars => PartsOK'
<1> SUFFICES ASSUME PartsOK, [Next]_vars PROVE PartsOK'
  OBVIOUS
<1>1. CASE Age
  BY <1>1, AgeOK
<1>2. ASSUME NEW p \in Procs, Start(p) \/ Step(p) \/ Crash(p) PROVE PartsOK'
  BY <1>2, StartOK, GetOK, PutOK, CrashOK DEF Step
<1>3. CASE UNCHANGED vars
  <2>1. UNCHANGED <<file, fd, pc, loc, answer, epics, aged, visits, earned>>
    BY <1>3 DEF vars
  <2>2. CountersOK'
    BY <2>1, SameCounters DEF PartsOK, counters
  <2>3. QED
    BY <2>1, <2>2 DEF PartsOK
<1>4. QED
  BY <1>1, <1>2, <1>3 DEF Next

\* The conjuncts of IInv hold in every reachable state.
THEOREM Invariance == Spec => []IInv
<1>1. Init => PartsOK
  BY InvariantInit, Parts
<1>2. Spec => []PartsOK
  BY <1>1, InvariantStep, PTL DEF Spec
<1>3. QED
  BY <1>2, Parts, PTL

\* Every variable has its type: whatever the processes do to the three paths
\* at the same time, what is read back is a state or no session.
THEOREM TypeCorrect == Spec => []TypeOK
<1>1. IInv => TypeOK
  BY DEF IInv
<1>2. QED
  BY <1>1, Invariance, PTL

\* However many commands and hooks race, and wherever they are killed, no file
\* and no memory holds a gate that a gate command did not record in that visit
\* of the phase: start empties the list, and the hooks that rewrite it never
\* add to it.
THEOREM GatesEarned == Spec => []GatesAreEarned
<1>1. IInv => GatesAreEarned
  BY DEF IInv
<1>2. QED
  BY <1>1, Invariance, PTL

-----------------------------------------------------------------------------
(* One command at a time: CommandInv. *)

\* The parts of IInv that the steps below use.
LEMMA Typed ==
  ASSUME IInv, NEW p \in Procs
  PROVE  /\ loc[p] \in Local /\ pc[p] \in Labels /\ fd[p] \in Paths \cup {"none"}
         /\ DOMAIN pc = Procs /\ DOMAIN loc = Procs /\ DOMAIN fd = Procs
         /\ DOMAIN file = Paths
         /\ \A path \in Paths : file[path] \in Content \cup {Missing}
         /\ epics \in Nat /\ visits \in Nat /\ aged \in Nat /\ aged <= epics
         /\ ArgFits(loc[p]) /\ MemoryFits(pc[p], loc[p])
<1>1. TypeOK /\ ArgFits(loc[p]) /\ MemoryFits(pc[p], loc[p])
  BY DEF IInv
<1>2. /\ file \in [Paths -> Content \cup {Missing}]
      /\ fd \in [Procs -> Paths \cup {"none"}]
      /\ pc \in [Procs -> Labels] /\ loc \in [Procs -> Local]
  BY <1>1, Zenon DEF TypeOK
<1>3. epics \in Nat /\ aged \in 0..epics /\ visits \in 0..MaxVisits
  BY <1>1, Zenon DEF TypeOK
<1>4. epics \in Nat /\ visits \in Nat /\ aged \in Nat /\ aged <= epics
  BY <1>3, PhaseStateAssumption
<1>5. QED
  BY <1>1, <1>2, <1>4

\* Known, of given counters and history.
KnownIn(e, v, r, s) ==
  s \in State => /\ s.epic <= e /\ s.visit <= v
                 /\ \A skill \in s.skills : <<s.visit, skill>> \in r

\* What is known stays known.
LEMMA KnownGrows ==
  ASSUME NEW e \in Nat, NEW v \in Nat, NEW f \in Nat, NEW w \in Nat, NEW r, NEW t,
         e <= f, v <= w, r \subseteq t, NEW s, KnownIn(e, v, r, s)
  PROVE  KnownIn(f, w, t, s)
BY DEF KnownIn, State

\* A process that returns, or reads the phase once more, holds nothing.
LEMMA ReturnOn ==
  ASSUME NEW p \in Procs, DOMAIN pc = Procs, DOMAIN loc = Procs, visits' \in Nat,
         Return(p) \/ HookReturn(p)
  PROVE  OnCourse(p)' /\ pc'[p] # "rewrite" /\ pc'[p] \notin {"mktemp", "fill", "rename"}
<1>1. /\ pc'[p] \in {"idle", "get"}
      /\ loc'[p] \in {Idle, [Idle EXCEPT !.op = "status"]}
  BY DEF Return, HookReturn, Goto
<1>2. loc'[p].visit = 0 /\ loc'[p].again = FALSE /\ loc'[p].op \in {"none", "status"}
  BY <1>1 DEF Idle
<1>3. QED
  BY <1>1, <1>2 DEF OnCourse

\* The session, now and after a step: the file's, except while p rewrites it.
LEMMA SessionNow ==
  ASSUME NEW p \in Procs, \A q \in Procs : q = p, OnCourse(p)
  PROVE  Session = IF pc[p] = "rewrite" THEN Decode(loc[p].got) ELSE Decode(file["main"])
<1>1. CASE pc[p] = "rewrite"
  <2>1. file["main"] = Empty
    BY <1>1 DEF OnCourse
  <2>2. (CHOOSE q \in Procs : pc[q] = "rewrite") = p
    BY <1>1
  <2>3. QED
    BY <1>1, <2>1, <2>2 DEF Session
<1>2. CASE pc[p] # "rewrite"
  BY <1>2 DEF Session
<1>3. QED
  BY <1>1, <1>2

\* The session that the files show after a step of the only process.
LEMMA SessionNext ==
  ASSUME NEW p \in Procs, \A q \in Procs : q = p, OnCourse(p)'
  PROVE  Session' = IF pc'[p] = "rewrite" THEN Decode(loc[p].got)' ELSE Decode(file["main"])'
<1>1. CASE pc'[p] = "rewrite"
  <2>1. file'["main"] = Empty
    BY <1>1 DEF OnCourse
  <2>2. (CHOOSE q \in Procs : pc'[q] = "rewrite") = p
    BY <1>1
  <2>3. QED
    BY <1>1, <2>1, <2>2 DEF Session
<1>2. CASE pc'[p] # "rewrite"
  BY <1>2 DEF Session
<1>3. QED
  BY <1>1, <1>2

\* What a process has made of the state that it got, when s stands for the
\* file at the end of the step: it is on course and may have answered.
Made(p, s) ==
  /\ OnCourse(p)' /\ pc'[p] # "rewrite"
  /\ epics' \in {epics, epics + 1} /\ aged' = aged /\ visits' = visits
  /\ \/ answer' = answer
     \/ loc[p].op = "guard" /\ answer' = GuardAnswer(s)
     \/ loc[p].op = "stop" /\ answer' = StopAnswer(s)

\* init and init --force renew what is there; init saw that there is nothing.
LEMMA AfterInitOn ==
  ASSUME IInv, NEW p \in Procs, OnCourse(p), AfterInit(p), reads' = reads,
         loc[p].op \in {"init", "force"},
         loc[p].op = "init" => Decode(file["main"])' = NoSession
  PROVE  OnCourse(p)' /\ pc'[p] = "mktemp" /\ epics' = epics + 1 /\ aged' = aged
         /\ visits' = visits /\ answer' = answer
<1> DEFINE s == [epic |-> epics + 1, visit |-> loc[p].visit, active |-> TRUE,
                 phase |-> loc[p].arg, skills |-> {}, gates |-> {}]
           l == [loc[p] EXCEPT !.new = s]
<1>1. Goto(p, "mktemp", l) /\ epics' = epics + 1 /\ UNCHANGED <<aged, visits, answer>>
  BY DEF AfterInit
<1>2. /\ l.op = loc[p].op /\ l.arg = loc[p].arg /\ l.visit = loc[p].visit /\ l.new = s
      /\ loc[p].visit <= visits
  BY Typed DEF Local, OnCourse
<1> HIDE DEF l
<1>3. pc'[p] = "mktemp" /\ loc'[p] = l
  BY <1>1, Typed DEF Goto
<1>4. Renewed(p, file["main"])'
  BY <1>1, <1>2, <1>3 DEF Renewed
<1>5. OnCourse(p)'
  BY <1>1, <1>2, <1>3, <1>4 DEF OnCourse
<1>6. QED
  BY <1>1, <1>3, <1>5

\* start and gate renew the state that the file still holds.
LEMMA AfterStartOn ==
  ASSUME IInv, NEW p \in Procs, OnCourse(p), NEW s \in State, file'["main"] = s,
         loc[p].op = "start", AfterStart(p, s), reads' = reads
  PROVE  OnCourse(p)' /\ pc'[p] = "mktemp" /\ UNCHANGED <<counters, answer>>
<1> DEFINE l == [loc[p] EXCEPT !.new = Started(p, s)]
<1>1. Goto(p, "mktemp", l) /\ UNCHANGED <<counters, answer>>
  BY DEF AfterStart
<1>2. /\ l.op = "start" /\ l.arg = loc[p].arg /\ l.visit = loc[p].visit
      /\ l.new = Started(p, s) /\ loc[p].visit <= visits
  BY Typed DEF Local, OnCourse
<1> HIDE DEF l
<1>3. pc'[p] = "mktemp" /\ loc'[p] = l
  BY <1>1, Typed DEF Goto
<1>4. Renewed(p, file["main"])'
  BY <1>2, <1>3 DEF Renewed, Started
<1>5. OnCourse(p)'
  BY <1>1, <1>2, <1>3, <1>4 DEF OnCourse, counters
<1>6. QED
  BY <1>1, <1>3, <1>5

\* A gate command that goes on from the state at the path stays on course.
LEMMA AfterGateOn ==
  ASSUME IInv, NEW p \in Procs, OnCourse(p), NEW s \in State, file'["main"] = s,
         loc[p].op = "gate", AfterGate(p, s), reads' = reads
  PROVE  OnCourse(p)' /\ pc'[p] # "rewrite" /\ UNCHANGED <<counters, answer>>
<1> DEFINE t == [s EXCEPT !.gates = @ \cup {loc[p].arg}]
           l == [loc[p] EXCEPT !.new = t]
<1>1. UNCHANGED <<counters, answer>> /\ loc[p].visit <= visits
  BY DEF AfterGate, OnCourse
<1>2. CASE loc[p].arg = "final"
  <2>1. pc'[p] = "remove" /\ loc'[p] = loc[p]
    BY <1>2, Typed DEF AfterGate, Goto
  <2>2. OnCourse(p)'
    BY <1>1, <2>1 DEF OnCourse, counters
  <2>3. QED
    BY <1>1, <2>1, <2>2
<1>3. CASE loc[p].arg # "final"
  <2>1. Goto(p, "mktemp", l)
    BY <1>3 DEF AfterGate
  <2>2. /\ l.op = "gate" /\ l.arg = loc[p].arg /\ l.visit = loc[p].visit /\ l.new = t
    BY Typed DEF Local
  <2> HIDE DEF l
  <2>3. pc'[p] = "mktemp" /\ loc'[p] = l
    BY <2>1, Typed DEF Goto
  <2>4. Renewed(p, file["main"])'
    BY <1>3, <2>2, <2>3 DEF Renewed
  <2>5. OnCourse(p)'
    BY <1>1, <2>2, <2>3, <2>4 DEF OnCourse, counters
  <2>6. QED
    BY <1>1, <2>3, <2>5
<1>4. QED
  BY <1>2, <1>3

\* The read tracker's second read gives what its first one gave: only one skill
\* is added.
LEMMA AfterReadOn ==
  ASSUME IInv, NEW p \in Procs, OnCourse(p), NEW s \in State,
         file["main"] = s, file'["main"] = s, pc[p] \in {"get", "parse"},
         loc[p].op = "read", KnownIn(epics, visits, reads, s),
         AfterRead(p, s), reads' = reads
  PROVE  OnCourse(p)' /\ pc'[p] # "rewrite" /\ UNCHANGED <<counters, answer>>
<1> DEFINE skills == s.skills \cup {loc[p].arg}
           again  == [loc[p] EXCEPT !.again = TRUE, !.skills = skills]
           t      == [s EXCEPT !.skills = loc[p].skills]
           write  == [loc[p] EXCEPT !.got = s, !.new = t]
<1>1. /\ UNCHANGED <<counters, answer>> /\ loc[p].visit <= visits
      /\ \A v \in 0..visits : <<v, loc[p].arg>> \in reads
      /\ visits' = visits /\ epics' = epics
  BY DEF AfterRead, OnCourse, counters
<1>2. \/ s.active /\ Goto(p, "get", again)
      \/ HookReturn(p)
      \/ loc[p].again /\ Goto(p, "trunc", write)
  BY DEF AfterRead
<1>3. CASE s.active /\ Goto(p, "get", again)
  <2>1. /\ again.op = "read" /\ again.arg = loc[p].arg /\ again.visit = loc[p].visit
        /\ again.skills = skills
    BY Typed DEF Local
  <2> HIDE DEF again
  <2>2. pc'[p] = "get" /\ loc'[p] = again
    BY <1>3, Typed DEF Goto
  <2>3. OnCourse(p)'
    BY <1>1, <1>3, <2>1, <2>2 DEF OnCourse
  <2>4. QED
    BY <1>1, <2>2, <2>3
<1>4. CASE HookReturn(p)
  <2>1. visits' \in Nat
    BY <1>1, Typed
  <2>2. QED
    BY <1>1, <1>4, <2>1, Typed, ReturnOn
<1>5. CASE loc[p].again /\ Goto(p, "trunc", write)
  <2>1. s.active /\ loc[p].skills = s.skills \cup {loc[p].arg}
    BY <1>5 DEF OnCourse
  <2>2. t = [s EXCEPT !.skills = @ \cup {loc[p].arg}]
    BY <2>1
  <2>3. /\ write.op = "read" /\ write.arg = loc[p].arg /\ write.visit = loc[p].visit
        /\ write.got = s /\ write.new = t
    BY Typed DEF Local
  <2> HIDE DEF write, t
  <2>4. pc'[p] = "trunc" /\ loc'[p] = write
    BY <1>5, Typed DEF Goto
  <2>5. Known(loc[p].got)'
    BY <1>1, <2>3, <2>4 DEF Known, KnownIn
  <2>6. OnCourse(p)'
    BY <1>1, <2>1, <2>2, <2>3, <2>4, <2>5 DEF OnCourse
  <2>7. QED
    BY <1>1, <2>4, <2>6
<1>6. QED
  BY <1>2, <1>3, <1>4, <1>5

\* After, when the process has got what the file stands for.
LEMMA AfterOn ==
  ASSUME IInv, NEW p \in Procs, OnCourse(p), NEW s \in State \cup {NoSession},
         Decode(file["main"])' = s,
         s # NoSession => /\ file["main"] = s /\ file'["main"] = s
                          /\ pc[p] \in {"get", "parse"},
         KnownIn(epics, visits, reads, s),
         After(p, s), reads' = reads
  PROVE  Made(p, s)
<1> DEFINE op == loc[p].op
<1>1. visits \in Nat /\ epics \in Nat
  BY Typed
<1>2. CASE op = "guard" \/ op = "stop"
  <2>1. \/ op = "guard" /\ Answers(p, GuardAnswer(s))
        \/ op = "stop" /\ Answers(p, StopAnswer(s))
    BY <1>2 DEF After
  <2>2. HookReturn(p) /\ UNCHANGED counters
    BY <2>1 DEF Answers
  <2>3. visits' = visits /\ epics' = epics /\ aged' = aged
    BY <2>2 DEF counters
  <2>4. OnCourse(p)' /\ pc'[p] # "rewrite"
    BY <1>1, <2>2, <2>3, Typed, ReturnOn
  <2>5. QED
    BY <2>1, <2>3, <2>4 DEF Made, Answers
<1>3. CASE op = "init" /\ s = NoSession
  <2>1. AfterInit(p)
    BY <1>3 DEF After
  <2>2. QED
    BY <1>3, <2>1, AfterInitOn DEF Made
<1>4. CASE op = "start" /\ s # NoSession
  <2>1. AfterStart(p, s) /\ s \in State
    BY <1>4 DEF After
  <2>2. QED
    BY <1>4, <2>1, AfterStartOn DEF Made, counters
<1>5. CASE op = "gate" /\ s # NoSession
  <2>1. AfterGate(p, s) /\ s \in State
    BY <1>5 DEF After
  <2>2. QED
    BY <1>5, <2>1, AfterGateOn DEF Made, counters
<1>6. CASE op = "read" /\ s # NoSession
  <2>1. AfterRead(p, s) /\ s \in State
    BY <1>6 DEF After
  <2>2. QED
    BY <1>6, <2>1, AfterReadOn DEF Made, counters
<1>7. CASE op = "verify" /\ s # NoSession
  <2>1. AfterVerify(p, s) /\ s \in State
    BY <1>7 DEF After
  <2>2. visits' = visits /\ epics' = epics /\ aged' = aged /\ answer' = answer
    BY <2>1 DEF AfterVerify, counters
  <2>3. \/ Goto(p, "remove", loc[p]) /\ s.active /\ "final" \in s.gates
        \/ Return(p)
    BY <2>1 DEF AfterVerify
  <2>4. CASE Goto(p, "remove", loc[p]) /\ s.active /\ "final" \in s.gates
    <3>1. pc'[p] = "remove" /\ loc'[p] = loc[p] /\ loc[p].visit <= visits
      BY <2>4, Typed DEF Goto, OnCourse
    <3>2. OnCourse(p)'
      BY <1>7, <2>2, <2>4, <3>1 DEF OnCourse
    <3>3. QED
      BY <2>2, <3>1, <3>2 DEF Made
  <2>5. CASE Return(p)
    <3>1. OnCourse(p)' /\ pc'[p] # "rewrite"
      BY <1>1, <2>2, <2>5, Typed, ReturnOn
    <3>2. QED
      BY <2>2, <3>1 DEF Made
  <2>6. QED
    BY <2>3, <2>4, <2>5
<1>8. CASE /\ op \notin {"guard", "stop"}
           /\ ~(op = "init" /\ s = NoSession)
           /\ ~(op \in {"start", "gate", "read", "verify"} /\ s # NoSession)
  <2>1. (HookReturn(p) \/ Return(p)) /\ UNCHANGED <<counters, answer>>
    BY <1>8 DEF After
  <2>2. visits' = visits /\ epics' = epics /\ aged' = aged /\ answer' = answer
    BY <2>1 DEF counters
  <2>3. OnCourse(p)' /\ pc'[p] # "rewrite"
    BY <1>1, <2>1, <2>2, Typed, ReturnOn
  <2>4. QED
    BY <2>2, <2>3 DEF Made
<1>9. QED
  BY <1>2, <1>3, <1>4, <1>5, <1>6, <1>7, <1>8

\* What a content stands for: nothing, or the state that it is.
LEMMA DecodeIs ==
  ASSUME NEW content \in Content \cup {Missing}
  PROVE  \/ Decode(content) = NoSession /\ (content \in State => Stale(content))
         \/ Decode(content) = content /\ content \in State /\ ~Stale(content)
BY NoStates DEF Decode, Content

\* GetPhaseState of a file that nobody else touches.
LEMMA ParsedOn ==
  ASSUME IInv, NEW p \in Procs, OnCourse(p), pc[p] \in {"get", "parse"},
         KnownIn(epics, visits, reads, file["main"]),
         Parsed(p, file["main"]), file' = file, reads' = reads
  PROVE  Made(p, Decode(file["main"]))
<1>1. file["main"] \in Content \cup {Missing} /\ loc[p].visit <= visits
  BY Typed DEF Paths, OnCourse
<1>2. CASE file["main"] \in State /\ Stale(file["main"])
  <2>1. Goto(p, "expire", loc[p]) /\ UNCHANGED <<counters, answer>>
    BY <1>2 DEF Parsed
  <2>2. pc'[p] = "expire" /\ loc'[p] = loc[p]
    BY <2>1, Typed DEF Goto
  <2>3. visits' = visits /\ epics' = epics /\ aged' = aged /\ answer' = answer
    BY <2>1 DEF counters
  <2>4. OnCourse(p)'
    BY <1>1, <1>2, <2>2, <2>3 DEF OnCourse, Stale
  <2>5. QED
    BY <2>2, <2>3, <2>4 DEF Made
<1>3. CASE ~(file["main"] \in State /\ Stale(file["main"]))
  <2>1. After(p, Decode(file["main"]))
    BY <1>3 DEF Parsed
  <2>2. Decode(file["main"]) \in State \cup {NoSession}
        /\ (Decode(file["main"]) # NoSession => file["main"] = Decode(file["main"]))
    BY <1>1, DecodeIs
  <2>3. aged' = aged
    <3>1. \/ UNCHANGED counters
          \/ aged' = aged
      BY <2>1 DEF After, Answers, AfterInit, AfterStart, AfterGate, AfterRead, AfterVerify
    <3>2. QED
      BY <3>1 DEF counters
  <2>4. Decode(file["main"])' = Decode(file["main"])
    BY <2>3 DEF Decode, Stale
  <2>5. KnownIn(epics, visits, reads, Decode(file["main"]))
    BY <2>2, NoStates DEF KnownIn
  <2> DEFINE s == Decode(file["main"])
  <2>6. /\ s \in State \cup {NoSession}
        /\ s # NoSession => file["main"] = s
        /\ Decode(file["main"])' = s /\ KnownIn(epics, visits, reads, s) /\ After(p, s)
    BY <2>1, <2>2, <2>4, <2>5
  <2> HIDE DEF s
  <2>7. Made(p, s)
    BY <2>6, AfterOn
  <2>8. QED
    BY <2>7 DEF s
<1>4. QED
  BY <1>2, <1>3

-----------------------------------------------------------------------------
(* One command at a time: the answers of the hooks are those of a PhaseSession. *)

LEMMA PhaseIndexes ==
  /\ PhaseIndexOf("architect") = 6 /\ PhaseIndexOf("spec-dev") = 1
  /\ PhaseIndexOf("plan") = 2 /\ PhaseIndexOf("work") = 3
  /\ PhaseIndexOf("review") = 4 /\ PhaseIndexOf("compound") = 5
<1>1. DOMAIN Phases = 1..5 /\ Len(Phases) = 5
  BY DEF Phases
<1>2. /\ Phases[1] = "spec-dev" /\ Phases[2] = "plan" /\ Phases[3] = "work"
      /\ Phases[4] = "review" /\ Phases[5] = "compound"
  BY DEF Phases
<1>3. \A i \in 1..5 : i = 1 \/ i = 2 \/ i = 3 \/ i = 4 \/ i = 5
  OBVIOUS
<1>4. (CHOOSE i \in 1..5 : Phases[i] = "spec-dev") = 1
  BY <1>2, <1>3
<1>5. (CHOOSE i \in 1..5 : Phases[i] = "plan") = 2
  BY <1>2, <1>3
<1>6. (CHOOSE i \in 1..5 : Phases[i] = "work") = 3
  BY <1>2, <1>3
<1>7. (CHOOSE i \in 1..5 : Phases[i] = "review") = 4
  BY <1>2, <1>3
<1>8. (CHOOSE i \in 1..5 : Phases[i] = "compound") = 5
  BY <1>2, <1>3
<1>9. QED
  BY <1>1, <1>4, <1>5, <1>6, <1>7, <1>8 DEF PhaseIndexOf

\* The gate that a phase ends with, and the evidence that it has ended.
LEMMA PhaseEnds ==
  ASSUME NEW s \in State
  PROVE  /\ ExpectedGateForPhase(PhaseIndexOf(s.phase)) = Abstract!GateAfter(s.phase)
         /\ Abstract!GateAfter(s.phase) # "none" =>
              (HasTransitionEvidence(s) <=>
                 s.phase = "compound" \/ Abstract!NextPhase(s.phase) \in s.skills)
<1>1. s.phase \in {"architect", "spec-dev", "plan", "work", "review", "compound"}
  BY PhaseStateAssumption DEF State
<1>2. /\ Len(Phases) = 5 /\ Phases[3] = "work" /\ Phases[4] = "review"
      /\ Phases[5] = "compound"
  BY DEF Phases
<1>3. CASE s.phase = "architect"
  BY <1>3, PhaseIndexes DEF ExpectedGateForPhase, Abstract!GateAfter
<1>4. CASE s.phase = "spec-dev"
  BY <1>4, PhaseIndexes DEF ExpectedGateForPhase, Abstract!GateAfter
<1>5. CASE s.phase = "plan"
  BY <1>2, <1>5, PhaseIndexes
     DEF ExpectedGateForPhase, Abstract!GateAfter, HasTransitionEvidence, Abstract!NextPhase
<1>6. CASE s.phase = "work"
  BY <1>2, <1>6, PhaseIndexes
     DEF ExpectedGateForPhase, Abstract!GateAfter, HasTransitionEvidence, Abstract!NextPhase
<1>7. CASE s.phase = "review"
  BY <1>2, <1>7, PhaseIndexes
     DEF ExpectedGateForPhase, Abstract!GateAfter, HasTransitionEvidence, Abstract!NextPhase
<1>8. CASE s.phase = "compound"
  BY <1>2, <1>8, PhaseIndexes
     DEF ExpectedGateForPhase, Abstract!GateAfter, HasTransitionEvidence, Abstract!NextPhase
<1>9. QED
  BY <1>1, <1>3, <1>4, <1>5, <1>6, <1>7, <1>8

\* What a state shows of its session.
LEMMA ProjectIs ==
  ASSUME NEW s \in State
  PROVE  Project(s) = [phase |-> s.phase, active |-> s.active,
                       skills |-> s.skills, gates |-> s.gates]
BY NoStates DEF Project

\* A session is not taken for none.
LEMMA Projected ==
  ASSUME NEW s \in State
  PROVE  /\ Project(s) # NoSession
         /\ Project(s).phase = s.phase /\ Project(s).active = s.active
         /\ Project(s).skills = s.skills /\ Project(s).gates = s.gates
         /\ Project(s) \in Abstract!Session
<1>1. Project(s) \in [phase: PhaseNames, active: BOOLEAN, skills: SUBSET Skills, gates: SUBSET Gates]
  BY ProjectIs DEF State
<1>2. QED
  BY <1>1, ProjectIs, PhaseStateAssumption DEF Abstract!Session

\* What the abstract variables say of a step.
Simulated == [Abstract!Next]_(Abstract!vars)

\* A step that leaves the session and the answer is a stutter of PhaseSession.
LEMMA Stutters ==
  ASSUME Session' = Session, Decode(file["legacy"])' = Decode(file["legacy"]),
         cause' = cause, answer' = answer
  PROVE  Simulated
<1>1. UNCHANGED Abstract!vars
  BY DEF Abstract!vars, Project
<1>2. QED
  BY <1>1 DEF Simulated

\* A hook that answers from the session asks PhaseSession.
LEMMA Answered ==
  ASSUME NEW s \in State \cup {NoSession}, Session = s, Session' = s,
         Decode(file["legacy"])' = Decode(file["legacy"]), cause' = cause,
         answer' \in {GuardAnswer(s), StopAnswer(s)}
  PROVE  Simulated
<1> DEFINE t == Project(s)
<1>1. UNCHANGED <<Project(Session), Project(Decode(file["legacy"])), cause>>
  BY DEF Project
<1>2. Project(Session) = t
  OBVIOUS
<1>3. /\ t # NoSession <=> s # NoSession
      /\ s # NoSession => /\ s \in State
                          /\ t.phase = s.phase /\ t.active = s.active
                          /\ t.skills = s.skills /\ t.gates = s.gates
  BY Projected DEF Project
<1> HIDE DEF t
<1>4. CASE answer' = GuardAnswer(s)
  <2>1. GuardAnswer(s) = IF /\ t # NoSession /\ t.active
                            /\ t.phase \notin t.skills
                         THEN "warn" ELSE "edit"
    BY <1>3 DEF GuardAnswer
  <2>2. Abstract!Guard
    BY <1>1, <1>2, <1>4, <2>1 DEF Abstract!Guard
  <2>3. QED
    BY <2>2 DEF Simulated, Abstract!Next
<1>5. CASE answer' = StopAnswer(s)
  <2> DEFINE a == /\ t # NoSession /\ t.active
                  /\ Abstract!GateAfter(t.phase) \notin t.gates \cup {"none"}
                  /\ t.phase = "compound" \/ Abstract!NextPhase(t.phase) \in t.skills
  <2>1. CASE s = NoSession
    BY <1>1, <1>2, <1>3, <1>5, <2>1 DEF StopAnswer, Abstract!Stop, Simulated, Abstract!Next
  <2>2. CASE s # NoSession
    <3>1. s \in State
      BY <1>3, <2>2
    <3>2. StopAnswer(s) = IF a THEN "block" ELSE "stop"
      BY <1>3, <2>2, <3>1, PhaseEnds DEF StopAnswer
    <3>3. Abstract!Stop
      BY <1>1, <1>2, <1>5, <3>2 DEF Abstract!Stop
    <3>4. QED
      BY <3>3 DEF Simulated, Abstract!Next
  <2>3. QED
    BY <2>1, <2>2
<1>6. QED
  BY <1>4, <1>5

-----------------------------------------------------------------------------
(* One command at a time: the steps. *)

\* What is claimed of a step: the process stays on course, the step is one of
\* a PhaseSession, and an edit that it lets pass follows a read.
Kept ==
  /\ CommandInv'
  /\ Simulated
  /\ answer # "edit" /\ answer' = "edit" =>
       \/ Session = NoSession \/ ~Session.active
       \/ <<Session.visit, Session.phase>> \in reads

\* A step that gives no answer and leaves the session alone.
LEMMA SilentStep ==
  ASSUME NEW p \in Procs, \A q \in Procs : q = p, OnCourse(p)',
         Known(file["main"])', Known(file["legacy"])',
         Session' = Session, Decode(file["legacy"])' = Decode(file["legacy"]),
         cause' = cause, answer' = answer
  PROVE  Kept
<1>1. CommandInv'
  BY DEF CommandInv
<1>2. Simulated
  BY Stutters
<1>3. QED
  BY <1>1, <1>2 DEF Kept

\* A step that only reads, when the file stands for s before and after it.
LEMMA ReadingStep ==
  ASSUME IInv, CommandInv, NEW p \in Procs, \A q \in Procs : q = p,
         NEW s, s \in State \cup {NoSession}, pc[p] # "rewrite",
         Decode(file["main"]) = s, Decode(file["main"])' = s,
         s # NoSession => s = file["main"],
         Made(p, s), file'["legacy"] = file["legacy"],
         file'["main"] \in {file["main"], Missing}, reads' = reads, cause' = cause
  PROVE  Kept
<1>1. /\ epics \in Nat /\ visits \in Nat /\ epics' \in {epics, epics + 1}
      /\ aged' = aged /\ visits' = visits
  BY Typed DEF Made
<1>2. OnCourse(p) /\ OnCourse(p)' /\ pc'[p] # "rewrite"
  BY DEF CommandInv, Made
<1>3. Session = s /\ Session' = s
  <2>1. Session = s
    BY <1>2, SessionNow
  <2>2. Session' = s
    BY <1>2, SessionNext
  <2>3. QED
    BY <2>1, <2>2
<1>4. Decode(file["legacy"])' = Decode(file["legacy"])
  BY <1>1 DEF Decode, Stale
<1>5. /\ KnownIn(epics, visits, reads, file["main"])
      /\ KnownIn(epics, visits, reads, file["legacy"])
      /\ KnownIn(epics, visits, reads, Missing)
  BY NoStates DEF CommandInv, Known, KnownIn
<1>6. /\ KnownIn(epics', visits', reads', file["main"])
      /\ KnownIn(epics', visits', reads', file["legacy"])
      /\ KnownIn(epics', visits', reads', Missing)
  <2>1. epics' \in Nat /\ visits' \in Nat /\ epics <= epics' /\ visits <= visits'
    BY <1>1
  <2>2. QED
    BY <1>1, <1>5, <2>1, KnownGrows
<1>7. Known(file["main"])' /\ Known(file["legacy"])'
  BY <1>6 DEF Known, KnownIn
<1>8. CommandInv'
  BY <1>2, <1>7 DEF CommandInv
<1>9. \/ answer' = answer
      \/ answer' = GuardAnswer(s)
      \/ answer' = StopAnswer(s)
  BY DEF Made
<1>10. Simulated
  BY <1>3, <1>4, <1>9, Stutters, Answered
<1>11. answer # "edit" /\ answer' = "edit" =>
         s = NoSession \/ ~s.active \/ <<s.visit, s.phase>> \in reads
  <2>1. StopAnswer(s) # "edit"
    BY DEF StopAnswer
  <2>2. GuardAnswer(s) = "edit" /\ s # NoSession /\ s.active => s.phase \in s.skills
    BY DEF GuardAnswer
  <2>3. s \in State => \A skill \in s.skills : <<s.visit, skill>> \in reads
    BY <1>5, NoStates DEF KnownIn
  <2>4. QED
    BY <1>9, <2>1, <2>2, <2>3
<1>12. QED
  BY <1>3, <1>8, <1>10, <1>11 DEF Kept

\* ReadMain, ReadLegacy, ParseLegacy and RemoveStale.
LEMMA GetKept ==
  ASSUME IInv, CommandInv, NEW p \in Procs, \A q \in Procs : q = p,
         ReadMain(p) \/ ReadLegacy(p) \/ ParseLegacy(p) \/ RemoveStale(p)
  PROVE  Kept
<1>1. OnCourse(p) /\ KnownIn(epics, visits, reads, file["main"])
  BY DEF CommandInv, Known, KnownIn
<1>2. /\ file["main"] \in Content \cup {Missing} /\ loc[p].visit <= visits
      /\ "main" \in Paths /\ "legacy" \in Paths /\ DOMAIN file = Paths
  BY <1>1, Typed DEF Paths, OnCourse
<1>3. KnownIn(epics, visits, reads, NoSession) /\ Decode(Missing) = NoSession
  BY NoStates DEF KnownIn, Decode
<1> DEFINE s == Decode(file["main"])
<1>4. /\ s \in State \cup {NoSession}
      /\ s # NoSession => s = file["main"]
  BY <1>2, DecodeIs
<1>5. ASSUME pc[p] \in {"get", "parse"}, Parsed(p, file["main"]),
             UNCHANGED <<file, fd, cause, reads>>
      PROVE  Kept
  <2>1. Made(p, s)
    BY <1>1, <1>5, ParsedOn
  <2>2. aged' = aged
    BY <2>1 DEF Made
  <2>3. Decode(file["main"])' = s
    BY <1>5, <2>2 DEF Decode, Stale
  <2>4. /\ pc[p] # "rewrite" /\ file'["legacy"] = file["legacy"] /\ file'["main"] = file["main"]
        /\ reads' = reads /\ cause' = cause /\ Decode(file["main"]) = s
    BY <1>5
  <2> HIDE DEF s
  <2>5. QED
    BY <1>4, <2>1, <2>3, <2>4, ReadingStep
<1>6. ASSUME pc[p] \in {"legacy", "expire"}, Decode(file["main"]) = NoSession,
             Decode(file["main"])' = NoSession, After(p, NoSession),
             file'["legacy"] = file["legacy"],
             file'["main"] \in {file["main"], Missing}, reads' = reads, cause' = cause
      PROVE  Kept
  <2>1. Made(p, NoSession)
    BY <1>1, <1>3, <1>6, AfterOn
  <2>2. QED
    BY <1>6, <2>1, ReadingStep
<1>7. CASE ReadMain(p)
  <2>1. CASE file["main"] = Missing
    <3>1. /\ Goto(p, "legacy", loc[p]) /\ UNCHANGED <<counters, answer, file, fd, cause, reads>>
          /\ pc[p] = "get"
      BY <1>7, <2>1 DEF ReadMain
    <3>2. pc'[p] = "legacy" /\ loc'[p] = loc[p]
      BY <3>1, Typed DEF Goto
    <3>3. visits' = visits /\ epics' = epics /\ aged' = aged
      BY <3>1 DEF counters
    <3>4. ~loc[p].again
      BY <1>1, <2>1, <3>1, NoStates DEF OnCourse
    <3>5. OnCourse(p)'
      BY <1>1, <1>2, <2>1, <3>1, <3>2, <3>3, <3>4 DEF OnCourse
    <3>6. Made(p, s)
      BY <3>1, <3>2, <3>3, <3>5 DEF Made
    <3>7. Decode(file["main"])' = s
      BY <3>1, <3>3 DEF Decode, Stale
    <3>8. /\ pc[p] # "rewrite" /\ file'["legacy"] = file["legacy"] /\ file'["main"] = file["main"]
          /\ reads' = reads /\ cause' = cause /\ Decode(file["main"]) = s
      BY <3>1
    <3> HIDE DEF s
    <3>9. QED
      BY <1>4, <3>6, <3>7, <3>8, ReadingStep
  <2>2. CASE file["main"] # Missing
    BY <1>5, <1>7, <2>2 DEF ReadMain
  <2>3. QED
    BY <2>1, <2>2
<1>8. CASE ReadLegacy(p)
  <2>1. pc[p] = "legacy" /\ UNCHANGED <<file, fd, cause, reads>> /\ file["main"] = Missing
    BY <1>1, <1>8 DEF ReadLegacy, OnCourse
  <2>2. Decode(file["main"]) = NoSession /\ Decode(file["main"])' = NoSession
    BY <2>1 DEF Decode
  <2>3. CASE file["legacy"] = Missing
    <3>1. After(p, NoSession)
      BY <1>8, <2>3 DEF ReadLegacy
    <3>2. QED
      BY <1>6, <2>1, <2>2, <3>1
  <2>4. CASE file["legacy"] # Missing
    <3> DEFINE l == [loc[p] EXCEPT !.got = file["legacy"]]
    <3>1. Goto(p, "migrate", l) /\ UNCHANGED <<counters, answer>>
      BY <1>8, <2>4 DEF ReadLegacy
    <3>2. /\ l.op = loc[p].op /\ l.arg = loc[p].arg /\ l.visit = loc[p].visit
          /\ l.again = loc[p].again /\ l.got = file["legacy"]
      BY Typed DEF Local
    <3> HIDE DEF l
    <3>3. pc'[p] = "migrate" /\ loc'[p] = l
      BY <3>1, Typed DEF Goto
    <3>4. visits' = visits /\ epics' = epics /\ aged' = aged
      BY <3>1 DEF counters
    <3>5. OnCourse(p)'
      BY <1>1, <2>1, <3>2, <3>3, <3>4 DEF OnCourse
    <3>6. Made(p, NoSession)
      BY <3>1, <3>3, <3>4, <3>5 DEF Made
    <3>7. /\ pc[p] # "rewrite" /\ file'["legacy"] = file["legacy"] /\ file'["main"] = file["main"]
          /\ reads' = reads /\ cause' = cause
      BY <2>1
    <3>8. QED
      BY <2>2, <3>6, <3>7, ReadingStep
  <2>5. QED
    BY <2>3, <2>4
<1>9. CASE ParseLegacy(p)
  <2>1. pc[p] = "parse" /\ Parsed(p, loc[p].got) /\ UNCHANGED <<file, fd, cause, reads>>
    BY <1>9 DEF ParseLegacy
  <2>2. loc[p].got = file["main"]
    BY <1>1, <2>1 DEF OnCourse
  <2>3. Parsed(p, file["main"])
    BY <2>1, <2>2
  <2>4. QED
    BY <1>5, <2>1, <2>3
<1>10. CASE RemoveStale(p)
  <2>1. /\ pc[p] = "expire" /\ Remove("main") /\ After(p, NoSession) /\ reads' = reads
        /\ Because("expire")
    BY <1>10 DEF RemoveStale
  <2>2. file["main"] \in State /\ Stale(file["main"])
    BY <1>1, <2>1 DEF OnCourse
  <2>3. Decode(file["main"]) = NoSession
    BY <2>2 DEF Decode
  <2>4. file'["main"] = Missing /\ file'["legacy"] = file["legacy"]
    BY <1>2, <2>1 DEF Remove
  <2>5. Decode(file["main"])' = NoSession
    BY <2>4 DEF Decode
  <2>6. Made(p, NoSession)
    BY <1>1, <1>3, <2>1, <2>5, AfterOn
  <2>7. Session = NoSession /\ Session' = NoSession
    <3>1. Session = NoSession
      BY <1>1, <2>1, <2>3, SessionNow
    <3>2. Session' = NoSession
      BY <2>5, <2>6, SessionNext DEF Made
    <3>3. QED
      BY <3>1, <3>2
  <2>8. cause' = cause
    BY <2>1, <2>7 DEF Because
  <2>9. QED
    BY <1>6, <2>1, <2>3, <2>4, <2>5, <2>8
<1>11. QED
  BY <1>7, <1>8, <1>9, <1>10

\* A command begins; a stop that follows a blocked one is let pass.
LEMMA BeginKept ==
  ASSUME IInv, CommandInv, NEW p \in Procs, \A q \in Procs : q = p, NEW op, NEW arg,
         Begin(p, op, arg)
  PROVE  Kept
<1> DEFINE l == [Idle EXCEPT !.op = op, !.arg = arg, !.visit = visits']
<1>1. /\ pc[p] = "idle" /\ UNCHANGED <<file, fd, epics, aged>>
      /\ visits' \in {visits, visits + 1} /\ answer' = "none" /\ cause' = "none"
      /\ op = "read" => visits' = visits
      /\ reads' = IF op = "read" THEN reads \cup {<<v, arg>> : v \in 0..visits} ELSE reads
  BY DEF Begin
<1>2. PICK label \in {"force", "remove", "get"} :
        /\ label = "remove" => op = "clean"
        /\ Goto(p, label, l)
  BY DEF Begin
<1>3. l.op = op /\ l.arg = arg /\ l.visit = visits' /\ l.again = FALSE
  BY DEF Idle
<1> HIDE DEF l
<1>4. pc'[p] = label /\ loc'[p] = l
  BY <1>2, Typed DEF Goto
<1>5. visits \in Nat /\ epics \in Nat /\ visits' \in Nat /\ visits <= visits'
      /\ reads \subseteq reads'
  BY <1>1, Typed
<1>6. op = "read" => \A v \in 0..visits' : <<v, arg>> \in reads'
  BY <1>1
<1>7. OnCourse(p)'
  BY <1>2, <1>3, <1>4, <1>5, <1>6 DEF OnCourse
<1>8. /\ KnownIn(epics, visits, reads, file["main"])
      /\ KnownIn(epics, visits, reads, file["legacy"])
  BY DEF CommandInv, Known, KnownIn
<1>9. /\ KnownIn(epics, visits', reads', file["main"])
      /\ KnownIn(epics, visits', reads', file["legacy"])
  BY <1>5, <1>8, KnownGrows
<1>10. Known(file["main"])' /\ Known(file["legacy"])'
  BY <1>1, <1>9 DEF Known, KnownIn
<1>11. Session = Decode(file["main"]) /\ Session' = Decode(file["main"])'
  <2>1. Session = Decode(file["main"])
    BY <1>1, SessionNow DEF CommandInv
  <2>2. Session' = Decode(file["main"])'
    BY <1>2, <1>4, <1>7, SessionNext
  <2>3. QED
    BY <2>1, <2>2
<1>12. Session' = Session /\ Decode(file["legacy"])' = Decode(file["legacy"])
  BY <1>1, <1>11 DEF Decode, Stale
<1>13. Abstract!Begin
  BY <1>1, <1>12 DEF Abstract!Begin, Project
<1>14. Simulated
  BY <1>13 DEF Simulated, Abstract!Next
<1>15. CommandInv'
  BY <1>7, <1>10 DEF CommandInv
<1>16. QED
  BY <1>1, <1>14, <1>15 DEF Kept

\* The Stop hook's second call changes nothing but the answer.
LEMMA StopAgainKept ==
  ASSUME IInv, CommandInv, NEW p \in Procs, \A q \in Procs : q = p, StopHookActive(p)
  PROVE  Kept
<1>1. /\ pc[p] = "idle" /\ HookReturn(p) /\ answer' = "stop again"
      /\ UNCHANGED <<file, fd, cause, reads>> /\ UNCHANGED counters
  BY DEF StopHookActive
<1>2. visits' = visits /\ epics' = epics /\ aged' = aged /\ visits' \in Nat
  BY <1>1, Typed DEF counters
<1>3. OnCourse(p)' /\ pc'[p] # "rewrite"
  BY <1>1, <1>2, Typed, ReturnOn
<1>4. Session = Decode(file["main"]) /\ Session' = Decode(file["main"])'
  <2>1. Session = Decode(file["main"])
    BY <1>1, SessionNow DEF CommandInv
  <2>2. Session' = Decode(file["main"])'
    BY <1>3, SessionNext
  <2>3. QED
    BY <2>1, <2>2
<1>5. Session' = Session /\ Decode(file["legacy"])' = Decode(file["legacy"])
  BY <1>1, <1>2, <1>4 DEF Decode, Stale
<1>6. Abstract!StopAgain
  BY <1>1, <1>5 DEF Abstract!StopAgain, Project
<1>7. Simulated
  BY <1>6 DEF Simulated, Abstract!Next
<1>8. CommandInv'
  BY <1>1, <1>2, <1>3 DEF CommandInv, Known
<1>9. QED
  BY <1>1, <1>7, <1>8 DEF Kept

\* init --force makes up a new session, which no file holds yet.
LEMMA ForceKept ==
  ASSUME IInv, CommandInv, NEW p \in Procs, \A q \in Procs : q = p, ForceInit(p)
  PROVE  Kept
<1>1. /\ pc[p] = "force" /\ AfterInit(p) /\ UNCHANGED <<file, fd, cause, reads>>
  BY DEF ForceInit
<1>2. loc[p].op = "force" /\ epics \in Nat /\ visits \in Nat
  BY <1>1, Typed DEF MemoryFits
<1>3. OnCourse(p)' /\ pc'[p] = "mktemp" /\ epics' = epics + 1 /\ aged' = aged
      /\ visits' = visits /\ answer' = answer
  BY <1>1, <1>2, AfterInitOn DEF CommandInv
<1>4. Session = Decode(file["main"]) /\ Session' = Decode(file["main"])'
  <2>1. Session = Decode(file["main"])
    BY <1>1, SessionNow DEF CommandInv
  <2>2. Session' = Decode(file["main"])'
    BY <1>3, SessionNext
  <2>3. QED
    BY <2>1, <2>2
<1>5. Session' = Session /\ Decode(file["legacy"])' = Decode(file["legacy"])
  BY <1>1, <1>3, <1>4 DEF Decode, Stale
<1>6. /\ KnownIn(epics, visits, reads, file["main"])
      /\ KnownIn(epics, visits, reads, file["legacy"])
  BY DEF CommandInv, Known, KnownIn
<1>7. /\ KnownIn(epics + 1, visits, reads, file["main"])
      /\ KnownIn(epics + 1, visits, reads, file["legacy"])
  BY <1>2, <1>6, KnownGrows
<1>8. Known(file["main"])' /\ Known(file["legacy"])'
  BY <1>1, <1>3, <1>7 DEF Known, KnownIn
<1>9. QED
  BY <1>1, <1>3, <1>5, <1>8, SilentStep

\* The file of an older version is copied, then removed.
LEMMA MigrateKept ==
  ASSUME IInv, CommandInv, NEW p \in Procs, \A q \in Procs : q = p, Migrate(p)
  PROVE  Kept
<1>1. /\ pc[p] = "migrate" /\ OpenTrunc(p, "main") /\ Goto(p, "migrated", loc[p])
      /\ UNCHANGED <<answer, reads>> /\ UNCHANGED counters /\ Because("migrate")
  BY DEF Migrate
<1>2. OnCourse(p) /\ Known(file["legacy"])
  BY DEF CommandInv
<1>3. "main" \in Paths /\ "legacy" \in Paths
  BY DEF Paths
<1>4. pc'[p] = "migrated" /\ loc'[p] = loc[p]
  BY <1>1, Typed DEF Goto
<1>5. file'["main"] = Empty /\ file'["legacy"] = file["legacy"] /\ fd'[p] = "main"
  BY <1>1, <1>3, Typed DEF OpenTrunc
<1>6. visits' = visits /\ epics' = epics /\ aged' = aged
  BY <1>1 DEF counters
<1>7. OnCourse(p)'
  BY <1>1, <1>2, <1>4, <1>5, <1>6 DEF OnCourse
<1>8. Decode(file["main"]) = NoSession /\ Decode(file["main"])' = NoSession
  BY <1>1, <1>2, <1>5 DEF OnCourse, Decode
<1>9. Session = NoSession /\ Session' = NoSession
  <2>1. Session = NoSession
    BY <1>1, <1>2, <1>8, SessionNow
  <2>2. Session' = NoSession
    BY <1>4, <1>7, <1>8, SessionNext
  <2>3. QED
    BY <2>1, <2>2
<1>10. cause' = cause
  BY <1>1, <1>9 DEF Because
<1>11. Known(file["main"])' /\ Known(file["legacy"])'
  BY <1>1, <1>2, <1>5, <1>6, NoStates DEF Known
<1>12. Decode(file["legacy"])' = Decode(file["legacy"])
  BY <1>5, <1>6 DEF Decode, Stale
<1>13. QED
  BY <1>1, <1>7, <1>9, <1>10, <1>11, <1>12, SilentStep

\* With a migrated state written, the file at the new path is the session.
LEMMA MigratedKept ==
  ASSUME IInv, CommandInv, NEW p \in Procs, \A q \in Procs : q = p, Migrated(p)
  PROVE  Kept
<1> DEFINE old == file["legacy"]
<1>1. /\ pc[p] = "migrated" /\ WriteTo(p, loc[p].got) /\ Goto(p, "unlink", loc[p])
      /\ UNCHANGED <<answer, reads>> /\ UNCHANGED counters /\ Because("resume")
  BY DEF Migrated
<1>2. OnCourse(p) /\ Known(file["legacy"])
  BY DEF CommandInv
<1>3. "main" \in Paths /\ "legacy" \in Paths
  BY DEF Paths
<1>4. loc[p].got = old /\ file["main"] = Empty /\ fd[p] = "main"
  BY <1>1, <1>2 DEF OnCourse
<1>5. pc'[p] = "unlink" /\ loc'[p] = loc[p]
  BY <1>1, Typed DEF Goto
<1>6. file' = [file EXCEPT !["main"] = old]
  BY <1>1, <1>4 DEF WriteTo
<1>7. file'["main"] = old /\ file'["legacy"] = old
  BY <1>3, <1>6, Typed
<1>8. visits' = visits /\ epics' = epics /\ aged' = aged
  BY <1>1 DEF counters
<1>9. OnCourse(p)'
  BY <1>1, <1>2, <1>4, <1>5, <1>7, <1>8 DEF OnCourse
<1>10. Known(file["main"])' /\ Known(file["legacy"])'
  BY <1>1, <1>2, <1>7, <1>8 DEF Known
<1>11. Decode(file["legacy"])' = Decode(old) /\ Decode(file["main"])' = Decode(old)
  BY <1>7, <1>8 DEF Decode, Stale
<1>12. Session = NoSession /\ Session' = Decode(old)
  <2>1. Decode(file["main"]) = NoSession
    BY <1>4 DEF Decode
  <2>2. Session = NoSession
    BY <1>1, <1>2, <2>1, SessionNow
  <2>3. Session' = Decode(old)
    BY <1>5, <1>9, <1>11, SessionNext
  <2>4. QED
    BY <2>2, <2>3
<1>13. CASE Decode(old) = NoSession
  <2>1. Session' = Session /\ cause' = cause
    BY <1>1, <1>12, <1>13 DEF Because
  <2>2. QED
    BY <1>1, <1>9, <1>10, <1>11, <2>1, SilentStep
<1>14. CASE Decode(old) # NoSession
  <2>1. cause' = "resume"
    BY <1>1, <1>12, <1>14 DEF Because
  <2>2. Decode(old) \in State
    BY <1>3, <1>14, Typed, DecodeIs
  <2>3. Project(Decode(old)) # NoSession /\ Project(Session) = NoSession
    BY <1>12, <2>2, Projected DEF Project
  <2>4. Project(Session)' = Project(Decode(old))
        /\ Project(Decode(file["legacy"]))' = Project(Decode(old))
    BY <1>11, <1>12 DEF Project
  <2>5. Abstract!Resume
    BY <1>1, <2>1, <2>3, <2>4 DEF Abstract!Resume, Abstract!Become
  <2>6. Simulated
    BY <2>5 DEF Simulated, Abstract!Next
  <2>7. CommandInv'
    BY <1>9, <1>10 DEF CommandInv
  <2>8. QED
    BY <1>1, <2>6, <2>7 DEF Kept
<1>15. QED
  BY <1>13, <1>14

\* A migrated file goes from the old path.
LEMMA UnlinkKept ==
  ASSUME IInv, CommandInv, NEW p \in Procs, \A q \in Procs : q = p, Unlink(p)
  PROVE  Kept
<1>1. /\ pc[p] = "unlink" /\ Remove("legacy") /\ Goto(p, "parse", loc[p])
      /\ UNCHANGED <<answer, cause, reads>> /\ UNCHANGED counters
  BY DEF Unlink
<1>2. OnCourse(p) /\ Known(file["main"])
  BY DEF CommandInv
<1>3. "main" \in Paths /\ "legacy" \in Paths
  BY DEF Paths
<1>4. loc[p].got = file["legacy"] /\ file["main"] = file["legacy"] /\ ~loc[p].again
  BY <1>1, <1>2 DEF OnCourse
<1>5. pc'[p] = "parse" /\ loc'[p] = loc[p]
  BY <1>1, Typed DEF Goto
<1>6. file'["main"] = file["main"] /\ file'["legacy"] = Missing
  BY <1>1, <1>3, Typed DEF Remove
<1>7. visits' = visits /\ epics' = epics /\ aged' = aged
  BY <1>1 DEF counters
<1>8. OnCourse(p)'
  BY <1>1, <1>2, <1>4, <1>5, <1>6, <1>7 DEF OnCourse
<1>9. Known(file["main"])' /\ Known(file["legacy"])'
  BY <1>1, <1>2, <1>6, <1>7, NoStates DEF Known
<1>10. Session = Decode(file["legacy"]) /\ Session' = Session
  <2>1. Session = Decode(file["main"])
    BY <1>1, <1>2, SessionNow
  <2>2. Session' = Decode(file["main"])'
    BY <1>5, <1>8, SessionNext
  <2>3. Decode(file["main"])' = Decode(file["main"])
    BY <1>6, <1>7 DEF Decode, Stale
  <2>4. QED
    BY <1>4, <2>1, <2>2, <2>3
<1>11. Decode(file["legacy"])' = NoSession
  BY <1>6 DEF Decode
<1>12. Abstract!Forget
  BY <1>1, <1>10, <1>11 DEF Abstract!Forget, Project
<1>13. Simulated
  BY <1>12 DEF Simulated, Abstract!Next
<1>14. CommandInv'
  BY <1>8, <1>9 DEF CommandInv
<1>15. QED
  BY <1>1, <1>13, <1>14 DEF Kept

\* The temporary file is made and filled; the state file stays.
LEMMA TempKept ==
  ASSUME IInv, CommandInv, NEW p \in Procs, \A q \in Procs : q = p,
         MakeTemp(p) \/ FillTemp(p)
  PROVE  Kept
<1>1. OnCourse(p) /\ Known(file["main"]) /\ Known(file["legacy"])
  BY DEF CommandInv
<1>2. "main" \in Paths /\ "legacy" \in Paths /\ "tmp" \in Paths
  BY DEF Paths
<1>3. /\ UNCHANGED <<answer, reads>> /\ UNCHANGED counters
      /\ cause' = cause \/ Because("torn")
      /\ pc[p] \in {"mktemp", "fill"}
  BY DEF MakeTemp, FillTemp
<1>4. visits' = visits /\ epics' = epics /\ aged' = aged
  BY <1>3 DEF counters
<1>5. /\ loc'[p] = loc[p] /\ pc'[p] \in {"fill", "rename"}
      /\ file'["main"] = file["main"] /\ file'["legacy"] = file["legacy"]
      /\ pc'[p] = "fill" => file'["tmp"] = Empty /\ fd'[p] = "tmp"
      /\ pc'[p] = "rename" => file'["tmp"] = loc[p].new
  <2>1. CASE MakeTemp(p)
    BY <1>2, <2>1, Typed DEF MakeTemp, OpenTrunc, Goto
  <2>2. CASE FillTemp(p)
    <3>1. /\ pc[p] = "fill" /\ WriteTo(p, loc[p].new) /\ Goto(p, "rename", loc[p])
      BY <2>2 DEF FillTemp
    <3>2. file["tmp"] = Empty /\ fd[p] = "tmp" /\ loc[p].new # Empty
      BY <1>1, <3>1, Typed, NoStates DEF OnCourse, MemoryFits
    <3>3. file' = [file EXCEPT !["tmp"] = loc[p].new]
      BY <3>1, <3>2 DEF WriteTo
    <3>4. QED
      BY <1>2, <3>1, <3>3, Typed DEF Goto
  <2>3. QED
    BY <2>1, <2>2
<1>6. Renewed(p, file["main"])'
  <2>1. Renewed(p, file["main"])
    BY <1>1, <1>3 DEF OnCourse
  <2>2. QED
    BY <1>4, <1>5, <2>1 DEF Renewed, Started, Decode, Stale
<1>7. OnCourse(p)'
  BY <1>1, <1>3, <1>4, <1>5, <1>6 DEF OnCourse
<1>8. Known(file["main"])' /\ Known(file["legacy"])'
  BY <1>1, <1>3, <1>4, <1>5 DEF Known
<1>9. Session' = Session
  <2>1. Session = Decode(file["main"])
    BY <1>1, <1>3, SessionNow
  <2>2. Session' = Decode(file["main"])'
    BY <1>5, <1>7, SessionNext
  <2>3. QED
    BY <1>4, <1>5, <2>1, <2>2 DEF Decode, Stale
<1>10. cause' = cause
  BY <1>3, <1>9 DEF Because
<1>11. Decode(file["legacy"])' = Decode(file["legacy"])
  BY <1>4, <1>5 DEF Decode, Stale
<1>12. QED
  BY <1>3, <1>7, <1>8, <1>9, <1>10, <1>11, SilentStep

\* The new state takes the place of the one it was made from.
LEMMA RenameKept ==
  ASSUME IInv, CommandInv, NEW p \in Procs, \A q \in Procs : q = p, RenameTemp(p)
  PROVE  Kept
<1> DEFINE new  == loc[p].new
           main == file["main"]
<1>1. OnCourse(p) /\ Known(file["main"]) /\ Known(file["legacy"])
  BY DEF CommandInv
<1>2. "main" \in Paths /\ "legacy" \in Paths /\ "tmp" \in Paths
  BY DEF Paths
<1>3. /\ pc[p] = "rename" /\ Return(p) /\ UNCHANGED <<answer, reads>> /\ UNCHANGED counters
      /\ Because(loc[p].op)
      /\ IF file["tmp"] = Missing THEN UNCHANGED <<file, fd>> ELSE Rename("tmp", "main")
  BY DEF RenameTemp
<1>4. Renewed(p, main) /\ file["tmp"] = new /\ new \in State /\ loc[p].visit <= visits
  BY <1>1, <1>3, Typed DEF OnCourse, MemoryFits
<1>5. file'["main"] = new /\ file'["legacy"] = file["legacy"]
  <2>1. Rename("tmp", "main")
    BY <1>3, <1>4, NoStates
  <2>2. QED
    BY <1>2, <1>4, <2>1, Typed DEF Rename
<1>6. visits' = visits /\ epics' = epics /\ aged' = aged /\ visits' \in Nat
  BY <1>3, Typed DEF counters
<1>7. OnCourse(p)' /\ pc'[p] # "rewrite"
  BY <1>3, <1>6, Typed, ReturnOn
<1>8. Known(file["main"])'
  <2>1. KnownIn(epics, visits, reads, main)
    BY <1>1 DEF Known, KnownIn
  <2>2. KnownIn(epics, visits, reads, new)
    <3>1. CASE loc[p].op \in {"init", "force"}
      BY <1>4, <3>1, Typed DEF Renewed, KnownIn
    <3>2. CASE loc[p].op = "start" /\ main \in State /\ new = Started(p, main)
      BY <1>4, <2>1, <3>2, Typed DEF KnownIn, Started, State
    <3>3. CASE main \in State /\ new = [main EXCEPT !.gates = @ \cup {loc[p].arg}]
      BY <1>4, <2>1, <3>3, Typed DEF KnownIn, State
    <3>4. QED
      BY <1>4, <3>1, <3>2, <3>3 DEF Renewed
  <2>3. QED
    BY <1>3, <1>5, <1>6, <2>2 DEF Known, KnownIn
<1>9. Known(file["legacy"])'
  BY <1>1, <1>3, <1>5, <1>6 DEF Known
<1>10. Decode(file["legacy"])' = Decode(file["legacy"])
  BY <1>5, <1>6 DEF Decode, Stale
<1>11. Session = Decode(main) /\ Session' = Decode(new)
  <2>1. Session = Decode(file["main"])
    BY <1>1, <1>3, SessionNow
  <2>2. Session' = Decode(file["main"])'
    BY <1>7, SessionNext
  <2>3. QED
    BY <1>5, <1>6, <2>1, <2>2 DEF Decode, Stale
<1>12. CASE Session' = Session
  <2>1. cause' = cause
    BY <1>3, <1>12 DEF Because
  <2>2. QED
    BY <1>3, <1>7, <1>8, <1>9, <1>10, <1>12, <2>1, SilentStep
<1>13. CASE Session' # Session
  <2>1. cause' = loc[p].op
    BY <1>3, <1>13 DEF Because
  <2>2. main \in Content \cup {Missing}
    BY <1>2, Typed
  <2>3. \/ Decode(main) = NoSession /\ (main \in State => main.epic <= aged)
        \/ Decode(main) = main /\ main \in State /\ main.epic > aged
    BY <2>2, DecodeIs, Typed DEF Stale, State
  <2>4. \/ Decode(new) = NoSession /\ new.epic <= aged
        \/ Decode(new) = new /\ new.epic > aged
    BY <1>4, DecodeIs, Typed DEF Content, Stale, State
  <2>5. main \in State => main.epic <= epics
    BY <1>1 DEF Known
  <2>6. epics \in Nat /\ aged \in Nat /\ (main \in State => main.epic \in Nat)
    BY Typed DEF State
  <2>7. UNCHANGED <<Project(Decode(file["legacy"])), answer>>
    BY <1>3, <1>10 DEF Project
  <2>8. CASE /\ loc[p].op \in {"init", "force"}
             /\ loc[p].op = "init" => Decode(main) = NoSession
             /\ new = [epic |-> epics, visit |-> loc[p].visit, active |-> TRUE,
                       phase |-> loc[p].arg, skills |-> {}, gates |-> {}]
    <3>1. new.epic = epics
      BY <2>8
    <3>2. new.epic > aged
      BY <1>11, <1>13, <2>3, <2>4, <2>5, <2>6, <3>1, Typed
    <3>3. Decode(new) = new
      BY <1>4, <2>4, <2>6, <3>1, <3>2
    <3>4. Project(Session)' = Abstract!Fresh(loc[p].arg)
      <4>1. Project(new) = Abstract!Fresh(loc[p].arg)
        BY <1>4, <2>8, ProjectIs DEF Abstract!Fresh
      <4>2. QED
        BY <1>11, <3>3, <4>1 DEF Project
    <3>5. loc[p].arg \in PhaseNames
      BY <2>8, Typed DEF ArgFits
    <3>6. CASE loc[p].op = "init"
      <4>1. Project(Session) = NoSession
        BY <1>11, <2>8, <3>6 DEF Project
      <4>2. Abstract!Open(loc[p].arg)
        BY <2>1, <2>7, <3>4, <3>6, <4>1 DEF Abstract!Open, Abstract!Become
      <4>3. QED
        BY <3>5, <4>2, <1>3, <1>7, <1>8, <1>9 DEF Kept, CommandInv, Simulated, Abstract!Next
    <3>7. CASE loc[p].op = "force"
      <4>1. Abstract!Reopen(loc[p].arg)
        BY <2>1, <2>7, <3>4, <3>7 DEF Abstract!Reopen, Abstract!Become
      <4>2. QED
        BY <3>5, <4>1, <1>3, <1>7, <1>8, <1>9 DEF Kept, CommandInv, Simulated, Abstract!Next
    <3>8. QED
      BY <2>8, <3>6, <3>7
  <2>9. CASE loc[p].op = "start" /\ main \in State /\ new = Started(p, main)
    <3>1. new.epic = main.epic
      BY <2>9, <1>4 DEF Started, State
    <3>2. Decode(new) = new /\ Decode(main) = main
      BY <1>11, <1>13, <2>3, <2>4, <2>6, <2>9, <3>1
    <3>3. /\ Project(Session) = Project(main) /\ Project(Session)' = Project(new)
          /\ Project(main) # NoSession
      BY <1>11, <2>9, <3>2, Projected DEF Project
    <3>4. Project(new) = [Project(main) EXCEPT !.phase = loc[p].arg, !.skills = {}, !.gates = {}]
      <4>1. /\ new.phase = loc[p].arg /\ new.active = main.active
            /\ new.skills = {} /\ new.gates = {}
        BY <2>9 DEF Started, State
      <4>2. QED
        <5>1. Project(main) = [phase |-> main.phase, active |-> main.active,
                               skills |-> main.skills, gates |-> main.gates]
          BY <2>9, ProjectIs
        <5>2. Project(new) = [phase |-> new.phase, active |-> new.active,
                              skills |-> new.skills, gates |-> new.gates]
          BY <1>4, ProjectIs
        <5>3. Project(new) = [phase |-> loc[p].arg, active |-> main.active,
                              skills |-> {}, gates |-> {}]
          BY <4>1, <5>2, Zenon
        <5>4. [Project(main) EXCEPT !.phase = loc[p].arg]
                = [phase |-> loc[p].arg, active |-> main.active,
                   skills |-> main.skills, gates |-> main.gates]
          BY <5>1
        <5>5. [[phase |-> loc[p].arg, active |-> main.active,
                skills |-> main.skills, gates |-> main.gates] EXCEPT !.skills = {}]
                = [phase |-> loc[p].arg, active |-> main.active,
                   skills |-> {}, gates |-> main.gates]
          OBVIOUS
        <5>6. [[phase |-> loc[p].arg, active |-> main.active,
                skills |-> {}, gates |-> main.gates] EXCEPT !.gates = {}]
                = [phase |-> loc[p].arg, active |-> main.active, skills |-> {}, gates |-> {}]
          OBVIOUS
        <5>7. [Project(main) EXCEPT !.phase = loc[p].arg, !.skills = {}, !.gates = {}]
                = [[[Project(main) EXCEPT !.phase = loc[p].arg] EXCEPT !.skills = {}]
                     EXCEPT !.gates = {}]
          OBVIOUS
        <5>8. QED
          BY <5>3, <5>4, <5>5, <5>6, <5>7, Zenon
    <3>5. Abstract!Start(loc[p].arg)
      BY <2>1, <2>7, <2>9, <3>3, <3>4 DEF Abstract!Start, Abstract!Become
    <3>6. loc[p].arg \in PhaseNames
      BY <2>9, Typed DEF ArgFits
    <3>7. QED
      BY <3>5, <3>6, <1>3, <1>7, <1>8, <1>9 DEF Kept, CommandInv, Simulated, Abstract!Next
  <2>10. CASE /\ loc[p].op = "gate" /\ loc[p].arg # "final" /\ main \in State
              /\ new = [main EXCEPT !.gates = @ \cup {loc[p].arg}]
    <3>1. new.epic = main.epic
      BY <2>10, <1>4 DEF State
    <3>2. Decode(new) = new /\ Decode(main) = main
      BY <1>11, <1>13, <2>3, <2>4, <2>6, <2>10, <3>1
    <3>3. /\ Project(Session) = Project(main) /\ Project(Session)' = Project(new)
          /\ Project(main) # NoSession
      BY <1>11, <2>10, <3>2, Projected DEF Project
    <3>4. Project(new) = [Project(main) EXCEPT !.gates = @ \cup {loc[p].arg}]
      <4>1. /\ new.phase = main.phase /\ new.active = main.active
            /\ new.skills = main.skills /\ new.gates = main.gates \cup {loc[p].arg}
        BY <2>10 DEF State
      <4>2. QED
        <5>1. Project(main) = [phase |-> main.phase, active |-> main.active,
                               skills |-> main.skills, gates |-> main.gates]
          BY <2>10, ProjectIs
        <5>2. Project(new) = [phase |-> new.phase, active |-> new.active,
                              skills |-> new.skills, gates |-> new.gates]
          BY <1>4, ProjectIs
        <5>3. QED
          BY <4>1, <5>1, <5>2
    <3>5. Abstract!PassGate(loc[p].arg)
      BY <2>1, <2>7, <2>10, <3>3, <3>4 DEF Abstract!PassGate, Abstract!Become
    <3>6. loc[p].arg \in Gates
      BY <2>10, Typed DEF ArgFits
    <3>7. QED
      BY <3>5, <3>6, <1>3, <1>7, <1>8, <1>9 DEF Kept, CommandInv, Simulated, Abstract!Next
  <2>11. QED
    BY <1>4, <2>8, <2>9, <2>10 DEF Renewed
<1>14. QED
  BY <1>12, <1>13

\* The read tracker truncates the state file and writes it again, with one
\* skill more.
LEMMA TruncateKept ==
  ASSUME IInv, CommandInv, NEW p \in Procs, \A q \in Procs : q = p, TruncateMain(p)
  PROVE  Kept
<1>1. /\ pc[p] = "trunc" /\ OpenTrunc(p, "main") /\ Goto(p, "rewrite", loc[p])
      /\ UNCHANGED <<answer, reads>> /\ UNCHANGED counters /\ Because("read")
  BY DEF TruncateMain
<1>2. OnCourse(p) /\ Known(file["legacy"])
  BY DEF CommandInv
<1>3. "main" \in Paths /\ "legacy" \in Paths
  BY DEF Paths
<1>4. pc'[p] = "rewrite" /\ loc'[p] = loc[p]
  BY <1>1, Typed DEF Goto
<1>5. file'["main"] = Empty /\ file'["legacy"] = file["legacy"] /\ fd'[p] = "main"
  BY <1>1, <1>3, Typed DEF OpenTrunc
<1>6. visits' = visits /\ epics' = epics /\ aged' = aged
  BY <1>1 DEF counters
<1>7. file["main"] = loc[p].got /\ Known(loc[p].got)
  BY <1>1, <1>2 DEF OnCourse
<1>8. Known(loc[p].got)'
  BY <1>1, <1>4, <1>6, <1>7 DEF Known
<1>9. OnCourse(p)'
  BY <1>1, <1>2, <1>4, <1>5, <1>6, <1>8 DEF OnCourse
<1>10. Session' = Session
  <2>1. Session = Decode(file["main"])
    BY <1>1, <1>2, SessionNow
  <2>2. Session' = Decode(loc[p].got)'
    BY <1>4, <1>9, SessionNext
  <2>3. Decode(loc[p].got)' = Decode(loc[p].got)
    BY <1>4, <1>6 DEF Decode, Stale
  <2>4. QED
    BY <1>7, <2>1, <2>2, <2>3
<1>11. cause' = cause
  BY <1>1, <1>10 DEF Because
<1>12. Known(file["main"])' /\ Known(file["legacy"])'
  BY <1>1, <1>2, <1>5, <1>6, NoStates DEF Known
<1>13. Decode(file["legacy"])' = Decode(file["legacy"])
  BY <1>5, <1>6 DEF Decode, Stale
<1>14. QED
  BY <1>1, <1>9, <1>10, <1>11, <1>12, <1>13, SilentStep

\* A rewritten file ends the update of the state that was read.
LEMMA RewriteKept ==
  ASSUME IInv, CommandInv, NEW p \in Procs, \A q \in Procs : q = p, RewriteMain(p)
  PROVE  Kept
<1> DEFINE new == loc[p].new
           got == loc[p].got
<1>1. /\ pc[p] = "rewrite" /\ WriteTo(p, loc[p].new) /\ HookReturn(p)
      /\ UNCHANGED <<answer, reads>> /\ UNCHANGED counters /\ Because("read")
  BY DEF RewriteMain
<1>2. OnCourse(p) /\ Known(file["legacy"])
  BY DEF CommandInv
<1>3. "main" \in Paths /\ "legacy" \in Paths
  BY DEF Paths
<1>4. /\ loc[p].op = "read" /\ got \in State /\ got.active /\ Known(got)
      /\ new = [got EXCEPT !.skills = @ \cup {loc[p].arg}]
      /\ file["main"] = Empty /\ fd[p] = "main"
      /\ \A v \in 0..visits : <<v, loc[p].arg>> \in reads
  BY <1>1, <1>2 DEF OnCourse
<1>5. loc[p].arg \in Skills /\ new \in State
  BY <1>1, <1>4, Typed DEF ArgFits, MemoryFits
<1>6. file' = [file EXCEPT !["main"] = new]
  BY <1>1, <1>4, <1>5, NoStates DEF WriteTo
<1>7. file'["main"] = new /\ file'["legacy"] = file["legacy"]
  BY <1>3, <1>6, Typed
<1>8. visits' = visits /\ epics' = epics /\ aged' = aged /\ visits' \in Nat
  BY <1>1, Typed DEF counters
<1>9. OnCourse(p)' /\ pc'[p] # "rewrite"
  BY <1>1, <1>8, Typed, ReturnOn
<1>10. /\ new.epic = got.epic /\ new.visit = got.visit /\ new.phase = got.phase
       /\ new.active = got.active /\ new.gates = got.gates
       /\ new.skills = got.skills \cup {loc[p].arg}
  BY <1>4 DEF State
<1>11. Known(file["main"])' /\ Known(file["legacy"])'
  <2>1. got.epic <= epics /\ got.visit <= visits /\ got.visit \in Nat
        /\ \A skill \in got.skills : <<got.visit, skill>> \in reads
    BY <1>4 DEF Known, State
  <2>2. got.visit \in 0..visits
    BY <2>1, <1>8
  <2>3. \A skill \in new.skills : <<new.visit, skill>> \in reads
    BY <1>4, <1>10, <2>1, <2>2
  <2>4. KnownIn(epics, visits, reads, new)
    BY <1>10, <2>1, <2>3 DEF KnownIn
  <2>5. Known(file["main"])'
    BY <1>1, <1>7, <1>8, <2>4 DEF Known, KnownIn
  <2>6. Known(file["legacy"])'
    BY <1>1, <1>2, <1>7, <1>8 DEF Known
  <2>7. QED
    BY <2>5, <2>6
<1>12. Decode(file["legacy"])' = Decode(file["legacy"])
  BY <1>7, <1>8 DEF Decode, Stale
<1>13. Session = Decode(got) /\ Session' = Decode(new)
  <2>1. Session = Decode(got)
    BY <1>1, <1>2, SessionNow
  <2>2. Session' = Decode(file["main"])'
    BY <1>9, SessionNext
  <2>3. Decode(file["main"])' = Decode(new)
    BY <1>7, <1>8 DEF Decode, Stale
  <2>4. QED
    BY <2>1, <2>2, <2>3
<1>14. CASE Session' = Session
  <2>1. cause' = cause
    BY <1>1, <1>14 DEF Because
  <2>2. QED
    BY <1>1, <1>9, <1>11, <1>12, <1>14, <2>1, SilentStep
<1>15. CASE Session' # Session
  <2>1. cause' = "read"
    BY <1>1, <1>15 DEF Because
  <2>2. Decode(got) = got /\ Decode(new) = new
    <3>1. got \in Content \cup {Missing} /\ new \in Content \cup {Missing}
      BY <1>4, <1>5 DEF Content
    <3>2. Stale(got) <=> Stale(new)
      BY <1>10 DEF Stale
    <3>3. QED
      BY <1>4, <1>5, <1>13, <1>15, <3>1, <3>2, DecodeIs
  <2>3. /\ Project(Session) = Project(got) /\ Project(Session)' = Project(new)
        /\ Project(got) # NoSession /\ Project(got).active
    BY <1>4, <1>13, <2>2, Projected DEF Project
  <2>4. Project(new) = [Project(got) EXCEPT !.skills = @ \cup {loc[p].arg}]
    <3>1. Project(got) = [phase |-> got.phase, active |-> got.active,
                          skills |-> got.skills, gates |-> got.gates]
      BY <1>4, ProjectIs
    <3>2. Project(new) = [phase |-> new.phase, active |-> new.active,
                          skills |-> new.skills, gates |-> new.gates]
      BY <1>5, ProjectIs
    <3>3. QED
      BY <1>10, <3>1, <3>2
  <2>5. UNCHANGED <<Project(Decode(file["legacy"])), answer>>
    BY <1>1, <1>12 DEF Project
  <2>6. Abstract!ReadSkill(loc[p].arg)
    BY <2>1, <2>3, <2>4, <2>5 DEF Abstract!ReadSkill, Abstract!Become
  <2>7. Simulated
    BY <1>5, <2>6 DEF Simulated, Abstract!Next
  <2>8. CommandInv'
    BY <1>9, <1>11 DEF CommandInv
  <2>9. QED
    BY <1>1, <2>7, <2>8 DEF Kept
<1>16. QED
  BY <1>14, <1>15

\* The session ends: its file is removed, or is left truncated.
LEMMA EndKept ==
  ASSUME IInv, CommandInv, NEW p \in Procs, \A q \in Procs : q = p,
         NEW why \in {"gate", "clean", "verify", "crash"},
         why = "verify" => Session = NoSession \/ (Session.active /\ "final" \in Session.gates),
         OnCourse(p)', Session \in State \cup {NoSession}, Session' = NoSession,
         Known(file["main"])', Known(file["legacy"])',
         Decode(file["legacy"])' = Decode(file["legacy"]), Because(why), answer' = answer
  PROVE  Kept
<1>1. CASE Session = NoSession
  <2>1. cause' = cause
    BY <1>1 DEF Because
  <2>2. QED
    BY <1>1, <2>1, SilentStep
<1>2. CASE Session # NoSession
  <2>1. cause' = why
    BY <1>2 DEF Because
  <2>2. Session \in State
    BY <1>2
  <2>3. /\ Project(Session) # NoSession /\ Project(Session)' = NoSession
        /\ why = "verify" => Project(Session).active /\ "final" \in Project(Session).gates
    <3>1. Project(Session)' = NoSession
      BY DEF Project
    <3>2. QED
      BY <1>2, <2>2, <3>1, Projected
  <2>4. UNCHANGED <<Project(Decode(file["legacy"])), answer>>
    BY DEF Project
  <2>5. Abstract!End
    BY <2>1, <2>3, <2>4 DEF Abstract!End, Abstract!Become
  <2>6. Simulated
    BY <2>5 DEF Simulated, Abstract!Next
  <2>7. CommandInv'
    BY DEF CommandInv
  <2>8. QED
    BY <2>6, <2>7 DEF Kept
<1>3. QED
  BY <1>1, <1>2

\* A removed file is a cleared session, or the end of a final one.
LEMMA RemoveKept ==
  ASSUME IInv, CommandInv, NEW p \in Procs, \A q \in Procs : q = p, RemoveMain(p)
  PROVE  Kept
<1>1. /\ pc[p] = "remove" /\ Remove("main") /\ Return(p)
      /\ UNCHANGED <<answer, reads>> /\ UNCHANGED counters /\ Because(loc[p].op)
  BY DEF RemoveMain
<1>2. OnCourse(p) /\ Known(file["legacy"])
  BY DEF CommandInv
<1>3. "main" \in Paths /\ "legacy" \in Paths
  BY DEF Paths
<1>4. file'["main"] = Missing /\ file'["legacy"] = file["legacy"]
  BY <1>1, <1>3, Typed DEF Remove
<1>5. visits' = visits /\ epics' = epics /\ aged' = aged /\ visits' \in Nat
  BY <1>1, Typed DEF counters
<1>6. OnCourse(p)' /\ pc'[p] # "rewrite"
  BY <1>1, <1>5, Typed, ReturnOn
<1>7. Session = Decode(file["main"]) /\ Session' = NoSession
  <2>1. Session = Decode(file["main"])
    BY <1>1, <1>2, SessionNow
  <2>2. Session' = Decode(file["main"])'
    BY <1>6, SessionNext
  <2>3. QED
    BY <1>4, <2>1, <2>2 DEF Decode
<1>8. \/ Session = NoSession
      \/ Session = file["main"] /\ file["main"] \in State
  BY <1>3, <1>7, Typed, DecodeIs
<1>9. /\ loc[p].op \in {"gate", "clean", "verify", "crash"}
      /\ loc[p].op = "verify" =>
           Session = NoSession \/ (Session.active /\ "final" \in Session.gates)
  BY <1>1, <1>2, <1>8 DEF OnCourse
<1>10. Known(file["main"])' /\ Known(file["legacy"])'
  BY <1>1, <1>2, <1>4, <1>5, NoStates DEF Known
<1>11. Decode(file["legacy"])' = Decode(file["legacy"])
  BY <1>4, <1>5 DEF Decode, Stale
<1>12. QED
  BY <1>1, <1>6, <1>7, <1>8, <1>9, <1>10, <1>11, EndKept

\* A killed process loses a session only where its file was torn.
LEMMA CrashKept ==
  ASSUME IInv, CommandInv, NEW p \in Procs, \A q \in Procs : q = p, Crash(p)
  PROVE  Kept
<1>1. /\ Return(p) /\ UNCHANGED <<answer, reads>> /\ UNCHANGED counters /\ Because("crash")
      /\ file' \in {file, [file EXCEPT !["tmp"] = Missing]}
  BY DEF Crash
<1>2. OnCourse(p) /\ Known(file["main"]) /\ Known(file["legacy"])
  BY DEF CommandInv
<1>3. file'["main"] = file["main"] /\ file'["legacy"] = file["legacy"]
  BY <1>1, Typed DEF Paths
<1>4. visits' = visits /\ epics' = epics /\ aged' = aged /\ visits' \in Nat
  BY <1>1, Typed DEF counters
<1>5. OnCourse(p)' /\ pc'[p] # "rewrite"
  BY <1>1, <1>4, Typed, ReturnOn
<1>6. Known(file["main"])' /\ Known(file["legacy"])'
  BY <1>1, <1>2, <1>3, <1>4 DEF Known
<1>7. Decode(file["legacy"])' = Decode(file["legacy"])
  BY <1>3, <1>4 DEF Decode, Stale
<1>8. Session' = Decode(file["main"])
  <2>1. Session' = Decode(file["main"])'
    BY <1>5, SessionNext
  <2>2. QED
    BY <1>3, <1>4, <2>1 DEF Decode, Stale
<1>9. CASE pc[p] = "rewrite"
  <2>1. Session = Decode(loc[p].got) /\ loc[p].got \in State /\ file["main"] = Empty
    BY <1>2, <1>9, SessionNow DEF OnCourse
  <2>2. Session \in State \cup {NoSession} /\ Session' = NoSession
    BY <1>8, <2>1 DEF Decode
  <2>3. QED
    BY <1>1, <1>5, <1>6, <1>7, <2>2, EndKept
<1>10. CASE pc[p] # "rewrite"
  <2>1. Session = Decode(file["main"])
    BY <1>2, <1>10, SessionNow
  <2>2. Session' = Session /\ cause' = cause
    BY <1>1, <1>8, <2>1 DEF Because
  <2>3. QED
    BY <1>1, <1>5, <1>6, <1>7, <2>2, SilentStep
<1>11. QED
  BY <1>9, <1>10

\* 72 hours go by: what a file stands for stays, or becomes nothing.
LEMMA AgeKept ==
  ASSUME OneProcess, IInv, CommandInv, Age
  PROVE  Kept
<1>1. /\ aged' \in (aged + 1)..epics
      /\ UNCHANGED <<file, fd, pc, loc, answer, epics, visits, earned, reads>>
      /\ Because("expire")
  BY DEF Age
<1>2. aged \in Nat /\ aged <= epics /\ epics \in Nat
  <2>1. epics \in Nat /\ aged \in 0..epics
    BY Zenon DEF IInv, TypeOK
  <2>2. QED
    BY <2>1
<1>3. aged' \in Nat /\ aged < aged'
  BY <1>1, <1>2
<1>4. \A s \in Content \cup {Missing} : Decode(s)' \in {Decode(s), NoSession}
  <2> SUFFICES ASSUME NEW s \in Content \cup {Missing}
               PROVE  Decode(s)' \in {Decode(s), NoSession}
    OBVIOUS
  <2>1. CASE s \in State
    <3>1. s.epic \in Nat
      BY <2>1 DEF State
    <3>2. Decode(s)' \in {s, NoSession} /\ (s.epic <= aged' => Decode(s)' = NoSession)
      BY <2>1, NoStates DEF Decode, Stale
    <3>3. Decode(s) = IF s.epic <= aged THEN NoSession ELSE s
      BY <2>1, NoStates DEF Decode, Stale
    <3>4. QED
      BY <1>2, <1>3, <3>1, <3>2, <3>3
  <2>2. CASE s \in {Missing, Empty, Corrupt}
    BY <2>2 DEF Decode
  <2>3. QED
    BY <2>1, <2>2 DEF Content
<1>5. TypeOK
  BY DEF IInv
<1>6. "main" \in Paths /\ "legacy" \in Paths
  BY DEF Paths
<1>7. file["main"] \in Content \cup {Missing} /\ file["legacy"] \in Content \cup {Missing}
  BY <1>5, <1>6 DEF TypeOK
<1>8. ASSUME NEW p \in Procs PROVE OnCourse(p)'
  <2>1. OnCourse(p)
    BY DEF CommandInv
  <2>2. pc[p] \in {"mktemp", "fill", "rename"} => Renewed(p, file["main"])'
    <3>1. Decode(file["main"]) = NoSession => Decode(file["main"])' = NoSession
      BY <1>1, <1>4, <1>7 DEF Decode, Stale
    <3>2. pc[p] \in {"mktemp", "fill", "rename"} => Renewed(p, file["main"])
      BY <2>1 DEF OnCourse
    <3>3. QED
      BY <1>1, <3>1, <3>2 DEF Renewed, Started
  <2>3. pc[p] = "expire" => file["main"] \in State /\ Stale(file["main"])'
    <3>1. pc[p] = "expire" => file["main"] \in State /\ Stale(file["main"])
      BY <2>1 DEF OnCourse
    <3>2. file["main"] \in State => file["main"].epic \in Nat
      BY DEF State
    <3>3. QED
      BY <1>1, <1>2, <1>3, <3>1, <3>2 DEF Stale
  <2>4. QED
    BY <1>1, <2>1, <2>2, <2>3 DEF OnCourse, Known
<1>9. PICK x \in Content \cup {Missing} : Session = Decode(x) /\ Session' = Decode(x)'
  <2>1. CASE Procs = {}
    <3>1. Session = Decode(file["main"]) /\ Session' = Decode(file["main"])'
      BY <2>1 DEF Session
    <3>2. QED
      BY <1>1, <1>7, <3>1 DEF Decode, Stale
  <2>2. CASE Procs # {}
    <3>1. PICK p \in Procs : \A q \in Procs : q = p
      BY <2>2 DEF OneProcess
    <3>2. OnCourse(p) /\ OnCourse(p)'
      BY <1>8 DEF CommandInv
    <3>3. Session = IF pc[p] = "rewrite" THEN Decode(loc[p].got) ELSE Decode(file["main"])
      BY <3>1, <3>2, SessionNow
    <3>4. Session' = IF pc'[p] = "rewrite" THEN Decode(loc[p].got)' ELSE Decode(file["main"])'
      BY <3>1, <3>2, SessionNext
    <3>5. pc[p] = "rewrite" => loc[p].got \in Content
      BY <3>2 DEF OnCourse, Content
    <3>6. CASE pc[p] = "rewrite"
      BY <1>1, <3>3, <3>4, <3>5, <3>6 DEF Decode, Stale
    <3>7. CASE pc[p] # "rewrite"
      BY <1>1, <1>7, <3>3, <3>4, <3>7 DEF Decode, Stale
    <3>8. QED
      BY <3>6, <3>7
  <2>3. QED
    BY <2>1, <2>2
<1>10. Session' \in {Session, NoSession}
  BY <1>4, <1>9
<1>11. Decode(file["legacy"])' \in {Decode(file["legacy"]), NoSession}
  BY <1>1, <1>4, <1>7 DEF Decode, Stale
<1>12. \/ Session' = Session /\ cause' = cause
       \/ Session' = NoSession /\ cause' = "expire"
  BY <1>1, <1>10 DEF Because
<1>13. Abstract!Expire
  <2>1. \/ Project(Session)' = NoSession /\ cause' = "expire"
        \/ UNCHANGED <<Project(Session), cause>>
    BY <1>12 DEF Project
  <2>2. Project(Decode(file["legacy"]))' \in {Project(Decode(file["legacy"])), NoSession}
    BY <1>11 DEF Project
  <2>3. QED
    BY <1>1, <2>1, <2>2 DEF Abstract!Expire
<1>14. Simulated
  BY <1>13 DEF Simulated, Abstract!Next
<1>15. CommandInv'
  BY <1>1, <1>8 DEF CommandInv, Known
<1>16. QED
  BY <1>1, <1>14, <1>15 DEF Kept

\* Every step of the only process does one of these.
LEMMA StepKept == ASSUME OneProcess, IInv, CommandInv, Next PROVE Kept
<1>1. CASE Age
  BY <1>1, AgeKept
<1>2. ASSUME NEW p \in Procs, Start(p) \/ Step(p) \/ Crash(p) PROVE Kept
  <2>1. \A q \in Procs : q = p
    BY DEF OneProcess
  <2>2. CASE Start(p)
    BY <2>1, <2>2, BeginKept, StopAgainKept DEF Start
  <2>3. CASE Step(p)
    BY <2>1, <2>3, ForceKept, GetKept, MigrateKept, MigratedKept, UnlinkKept, TempKept,
       RenameKept, TruncateKept, RewriteKept, RemoveKept DEF Step
  <2>4. CASE Crash(p)
    BY <2>1, <2>4, CrashKept
  <2>5. QED
    BY <1>2, <2>2, <2>3, <2>4
<1>3. QED
  BY <1>1, <1>2 DEF Next

\* What was left behind is known, and a PhaseSession begins with it.
LEMMA CommandInit ==
  ASSUME EarlierFiles, Init
  PROVE  CommandInv /\ Abstract!Init
<1>1. /\ file \in InitialFiles /\ epics = 1 /\ aged = 0 /\ visits = 0
      /\ cause = "none" /\ answer = "none"
      /\ \A p \in Procs : pc[p] = "idle" /\ loc[p] = Idle
  BY DEF Init
<1>2. \A path \in Paths : file[path] \in Content \cup {Missing}
  BY <1>1, PhaseStateAssumption
<1>3. "main" \in Paths /\ "legacy" \in Paths
  BY DEF Paths
<1>4. ASSUME NEW path \in Paths PROVE KnownIn(epics, visits, reads, file[path])
  <2>1. PICK old \in {{file[at] : at \in Paths} \cap State} :
          reads = UNION {{<<s.visit, skill>> : skill \in s.skills} : s \in old}
    BY DEF Init
  <2>2. ASSUME file[path] \in State, NEW skill \in file[path].skills
        PROVE  <<file[path].visit, skill>> \in reads
    <3>1. file[path] \in old
      BY <2>1, <2>2
    <3>2. QED
      BY <2>1, <2>2, <3>1
  <2>3. file[path] \in State => file[path].epic <= 1 /\ file[path].visit = 0
    BY <1>1 DEF EarlierFiles
  <2>4. QED
    BY <1>1, <2>2, <2>3 DEF KnownIn
<1>5. Known(file["main"]) /\ Known(file["legacy"])
  BY <1>3, <1>4 DEF Known, KnownIn
<1>6. \A p \in Procs : OnCourse(p)
  BY <1>1 DEF OnCourse, Idle
<1>7. Session = Decode(file["main"])
  BY <1>1 DEF Session
<1>8. \A path \in Paths : Decode(file[path]) \in State \cup {NoSession}
  BY <1>2, DecodeIs
<1>9. \A path \in Paths : Project(Decode(file[path])) \in Abstract!Session \cup {NoSession}
  BY <1>8, Projected DEF Project
<1>10. Abstract!Init
  BY <1>1, <1>3, <1>7, <1>9 DEF Abstract!Init
<1>11. QED
  BY <1>5, <1>6, <1>10 DEF CommandInv

\* A step, or a stutter, in the words of the two properties.
LEMMA CommandStep ==
  ASSUME OneProcess, IInv, CommandInv, [Next]_vars
  PROVE  /\ CommandInv' /\ Simulated
         /\ [answer # "edit" /\ answer' = "edit" =>
               \/ Session = NoSession \/ ~Session.active
               \/ <<Session.visit, Session.phase>> \in reads]_vars
<1>1. CASE Next
  <2>1. Kept
    BY <1>1, StepKept
  <2>2. QED
    BY <2>1 DEF Kept
<1>2. CASE UNCHANGED vars
  <2>1. UNCHANGED <<file, fd, pc, loc, answer, epics, aged, visits, cause, reads>>
    BY <1>2 DEF vars
  <2>2. CommandInv'
    <3>1. ASSUME NEW p \in Procs PROVE OnCourse(p)'
      <4>1. OnCourse(p)
        BY DEF CommandInv
      <4>2. Renewed(p, file["main"]) => Renewed(p, file["main"])'
        BY <2>1 DEF Renewed, Started, Decode, Stale
      <4>3. Known(loc[p].got) => Known(loc[p].got)'
        BY <2>1 DEF Known
      <4>4. QED
        BY <2>1, <4>1, <4>2, <4>3 DEF OnCourse, Stale
    <3>2. Known(file["main"])' /\ Known(file["legacy"])'
      BY <2>1 DEF CommandInv, Known
    <3>3. QED
      BY <3>1, <3>2 DEF CommandInv
  <2>3. UNCHANGED Abstract!vars
    BY <2>1 DEF Abstract!vars, Project, Session, Decode, Stale
  <2>4. QED
    BY <1>2, <2>2, <2>3 DEF Simulated
<1>3. QED
  BY <1>1, <1>2

\* An agent that runs one command at a time sees a PhaseSession, whichever
\* commands and hooks it runs: the three paths, the copy of an older file, the
\* temporary file and the truncated state file never show, and the session
\* ends only by gate final, clean, verify-gates after a final gate, expiry, or
\* a hook killed in the middle of rewriting the file.
THEOREM ImplementsPhaseSession ==
  ASSUME OneProcess, EarlierFiles
  PROVE  Spec => IsAPhaseSession
<1>1. Init => CommandInv /\ Abstract!Init
  BY CommandInit
<1>2. IInv /\ CommandInv /\ [Next]_vars =>
        CommandInv' /\ [Abstract!Next]_(Abstract!vars)
  BY CommandStep DEF Simulated
<1>3. QED
  BY <1>1, <1>2, Invariance, PTL DEF Spec, IsAPhaseSession, Abstract!Spec

\* The phase guard of such an agent lets no edit pass in a phase whose skill
\* was not read since the phase began: start empties the list, and whatever is
\* on it was read in this visit.
THEOREM GuardAnswersTruly ==
  ASSUME OneProcess, EarlierFiles
  PROVE  Spec => EditsFollowSkillRead
<1> DEFINE Body == answer # "edit" /\ answer' = "edit" =>
                     \/ Session = NoSession \/ ~Session.active
                     \/ <<Session.visit, Session.phase>> \in reads
<1>1. Init => CommandInv
  BY CommandInit
<1>2. IInv /\ CommandInv /\ [Next]_vars => CommandInv' /\ [Body]_vars
  BY CommandStep
<1> HIDE DEF Body
<1>3. Spec => [][Body]_vars
  BY <1>1, <1>2, Invariance, PTL DEF Spec
<1>4. QED
  BY <1>3 DEF EditsFollowSkillRead, Body
=============================================================================
