------------------------- MODULE InfinityLoopProofs -------------------------
(* Proofs about InfinityLoop, for every value of its constants.              *)
EXTENDS InfinityLoop, TLAPS, FiniteSetTheorems, SequenceTheorems,
        WellFoundedInduction
-----------------------------------------------------------------------------
(* What the operators of the module return.                                  *)

\* A set of natural numbers that is not empty has a least element.
LEMMA LeastNumber ==
  ASSUME NEW T, T \subseteq Nat, T # {}
  PROVE  \E x \in T : \A y \in T : x <= y
<1>1. PICK x \in T : \A y \in T : ~ (<<y, x>> \in OpToRel(<, Nat))
  BY WFMin, NatLessThanWellFounded
<1>2. \A y \in T : ~ (y < x)
  BY <1>1 DEF OpToRel
<1>3. QED
  BY <1>2

\* The sessions are positive numbers: none of them is the main checkout, or
\* the handle of no session.
LEMMA SessionNumbers ==
  /\ Sessions \subseteq Nat
  /\ \A s \in Sessions : s # Main /\ s # NoSession
  /\ \A s \in Sessions : \A t \in 1 .. s : t \in Sessions
<1>1. Cardinality(Sessions) \in Nat
  BY SessionsAssumption, FS_CardinalityType
<1>2. QED
  BY <1>1, SessionsAssumption DEF Main, NoSession

\* The options of the script are those it can be generated with.
LEMMA ScriptFields ==
  ASSUME TypeOK
  PROVE  /\ script.backend \in {"bg", "p", "engine"}
         /\ EpicIds \in Seq(Epics)
         /\ MaxRetries \in Nat
         /\ script.review \in BOOLEAN
         /\ script.reviewEvery \in Nat
BY ScriptsAssumption DEF TypeOK, EpicIds, MaxRetries

\* The fields of the memory of the script.
LEMMA LoopFields ==
  ASSUME loop \in LoopMemory
  PROVE  /\ loop.pc \in Steps
         /\ loop.epic \in Epics \cup {NoEpic}
         /\ loop.attempt \in Nat
         /\ loop.handle \in Sessions \cup {NoSession}
         /\ loop.listed \in SUBSET Worktrees
         /\ loop.orphan \in Sessions \cup {NoSession}
         /\ loop.marker \in Markers
         /\ loop.processed \in Seq(Epics)
         /\ loop.completed \in SUBSET Epics
         /\ loop.failed \in Nat
         /\ loop.skipped \in Nat
         /\ loop.since \in Nat
         /\ loop.range \in SUBSET Epics
         /\ loop.reviewed \in SUBSET Epics
         /\ loop.code \in 0 .. 2
BY DEF LoopMemory

\* get_next_epic answers with an epic that is ready, or with none.
LEMMA NextEpicIsReady ==
  ASSUME TypeOK, NextEpic # NoEpic
  PROVE  NextEpic \in Epics /\ IsReady(NextEpic)
<1> DEFINE ready == {i \in 1 .. Len(EpicIds) : IsReady(EpicIds[i])}
<1>1. EpicIds \in Seq(Epics)
  BY ScriptFields
<1>2. ready # {} /\ NextEpic = EpicIds[CHOOSE i \in ready : \A j \in ready : i <= j]
  BY DEF NextEpic
<1>3. ready \subseteq Nat
  OBVIOUS
<1>4. \E i \in ready : \A j \in ready : i <= j
  <2> HIDE DEF ready
  <2>1. QED
    BY <1>2, <1>3, LeastNumber
<1>5. PICK i \in ready : NextEpic = EpicIds[i]
  BY <1>2, <1>4
<1>6. QED
  BY <1>1, <1>5, ElementOfSeq

\* A session is born only when all those before it are, and none after it.
LEMMA FreshIsLeast ==
  ASSUME TypeOK, \A s \in Sessions : SessionOK(s),
         \E s \in Sessions : sess[s].state = "unborn"
  PROVE  /\ Fresh \in Sessions
         /\ sess[Fresh].state = "unborn"
         /\ \A t \in Sessions : t < Fresh => sess[t].state # "unborn"
         /\ \A t \in Sessions : Fresh < t => sess[t].state = "unborn"
<1> DEFINE unborn == {s \in Sessions : sess[s].state = "unborn"}
<1>1. unborn \subseteq Nat /\ unborn # {}
  BY SessionNumbers
<1>2. PICK s \in unborn : \A t \in unborn : s <= t
  <2> HIDE DEF unborn
  <2>1. QED
    BY <1>1, LeastNumber
<1>3. \A t \in 1 .. s - 1 : t \in Sessions /\ sess[t].state # "unborn"
  <2>1. SUFFICES ASSUME NEW t \in 1 .. s - 1 PROVE t \in Sessions /\ sess[t].state # "unborn"
    OBVIOUS
  <2>2. s \in Nat /\ t \in 1 .. s /\ ~ (s <= t)
    BY <1>1
  <2>3. t \in Sessions
    BY <2>2, SessionNumbers
  <2>4. QED
    BY <1>2, <2>2, <2>3
<1>4. /\ Fresh \in Sessions
      /\ sess[Fresh].state = "unborn"
      /\ \A t \in 1 .. Fresh - 1 : sess[t].state # "unborn"
  BY <1>2, <1>3 DEF Fresh
<1>5. \A t \in Sessions : t < Fresh => sess[t].state # "unborn"
  <2>1. \A t \in Sessions : t < Fresh => t \in 1 .. Fresh - 1
    BY <1>4, SessionNumbers, SessionsAssumption, FS_CardinalityType
  <2>2. QED
    BY <1>4, <2>1
<1>6. \A t \in Sessions : Fresh < t => sess[t].state = "unborn"
  BY <1>4 DEF SessionOK
<1>7. QED
  BY <1>4, <1>5, <1>6

\* The operations on the sessions keep their types.
LEMMA SessionTypes ==
  ASSUME NEW f \in [Sessions -> Session]
  PROVE  /\ \A s \in Sessions : Removed(f, s) \in [Sessions -> Session]
         /\ \A s \in Sessions : Strayed(f, s) \in [Sessions -> Session]
<1>1. ASSUME NEW s \in Sessions
      PROVE  Removed(f, s) \in [Sessions -> Session]
  <2>1. [f[s] EXCEPT !.state = "gone"] \in Session
    BY DEF Session, States
  <2>2. QED
    BY <2>1 DEF Removed
<1>2. ASSUME NEW s \in Sessions
      PROVE  Strayed(f, s) \in [Sessions -> Session]
  BY DEF Strayed, Session
<1>3. QED
  BY <1>1, <1>2

\* A session that is told to stop is still a session.
LEMMA StoppedType ==
  ASSUME TypeOK, NEW s \in Sessions, NEW m \in Markers
  PROVE  Stopped(s, m) \in [Sessions -> Session]
<1>1. sess \in [Sessions -> Session]
  BY DEF TypeOK
<1>2. PICK a \in Session : a = sess[s]
  BY <1>1
<1>3. [a EXCEPT !.state = "ended", !.text = m] \in Session
  BY DEF Session, States
<1>4. QED
  BY <1>1, <1>2, <1>3 DEF Stopped

\* A forgotten snapshot leaves listings.
LEMMA ForgottenType ==
  ASSUME TypeOK, NEW s
  PROVE  Forgotten(s) \in [Sessions -> SUBSET Lines]
BY DEF TypeOK, Forgotten

\* A session that is started is a session.
LEMMA BornType ==
  ASSUME TypeOK, NEW s \in Sessions, loop.epic \in Epics
  PROVE  Born(s) \in [Sessions -> Session]
<1>1. sess \in [Sessions -> Session]
  BY DEF TypeOK
<1>2. [Unborn EXCEPT !.state = "starting", !.epic = loop.epic] \in Session
  BY DEF Unborn, Session, States, Markers
<1>3. QED
  BY <1>1, <1>2 DEF Born

\* claude rm takes the session away, or fails and leaves it.
LEMMA RemovesEither ==
  ASSUME NEW f, NEW s, Removes(f, s)
  PROVE  sess' = Removed(f, s) \/ sess' = f
BY DEF Removes

\* A listing shows what there is, or nothing.
LEMMA ListsEither ==
  ASSUME NEW cur, Lists(cur)
  PROVE  cur = Listing \/ cur = {}
BY DEF Lists
-----------------------------------------------------------------------------
(* What the loop remembers.                                                  *)

\* The part of the invariant about the loop and its status file.
LoopOK ==
  /\ loop \in LoopMemory
  /\ loop.attempt <= MaxRetries + 1
  /\ status \in {"absent", "running", "idle", "crashed"}
  /\ EpicOK
  /\ ReviewOK
  /\ StatusOK

\* The invariant says this of the script.
LEMMA LoopOKHolds == IInv => LoopOK
BY DEF IInv, TypeOK, LoopOK

\* A step that leaves the loop where it is.
LEMMA LoopStays ==
  ASSUME LoopOK, UNCHANGED <<script, loop, status>>
  PROVE  LoopOK'
BY DEF LoopOK, EpicOK, ReviewOK, StatusOK, EpicsDecidedOnce, EndIsOnRecord,
       InProcessed, AttemptsLeft, MaxRetries

\* A step of the loop that concerns neither the list of epics nor the reviews,
\* and that ends no run.
LEMMA LoopMoves ==
  ASSUME LoopOK, UNCHANGED <<script, status>>,
         loop' \in LoopMemory,
         loop'.attempt <= MaxRetries + 1,
         loop'.pc = "attempt" => AttemptsLeft(loop'.attempt),
         loop'.pc \in Working => loop.pc \in Working /\ loop'.epic = loop.epic,
         loop'.pc \notin {"exit", "exited"},
         UNCHANGED <<loop.processed, loop.completed, loop.reviewed, loop.range,
                     loop.since>>
  PROVE  LoopOK'
<1>1. EpicOK'
  BY DEF LoopOK, EpicOK, EpicsDecidedOnce, InProcessed, AttemptsLeft, MaxRetries
<1>2. ReviewOK'
  BY DEF LoopOK, ReviewOK
<1>3. StatusOK'
  BY DEF LoopOK, StatusOK, EndIsOnRecord
<1>4. QED
  BY <1>1, <1>2, <1>3 DEF LoopOK, MaxRetries

\* Where a field of the loop changes, the others do not.
LEMMA LoopTo ==
  ASSUME loop \in LoopMemory, NEW pc \in Steps, loop' = [loop EXCEPT !.pc = pc]
  PROVE  /\ loop' \in LoopMemory
         /\ loop'.pc = pc
         /\ loop'.attempt = loop.attempt
         /\ loop'.epic = loop.epic
         /\ loop'.handle = loop.handle
         /\ loop'.orphan = loop.orphan
         /\ loop'.listed = loop.listed
         /\ UNCHANGED <<loop.processed, loop.completed, loop.reviewed, loop.range,
                        loop.since>>
BY DEF LoopMemory

\* The same where a listing is made or dropped.
LEMMA LoopListsTo ==
  ASSUME loop \in LoopMemory, NEW pc \in Steps, NEW cur \in SUBSET Worktrees,
         loop' = [loop EXCEPT !.pc = pc, !.listed = cur]
  PROVE  /\ loop' \in LoopMemory
         /\ loop'.pc = pc
         /\ loop'.attempt = loop.attempt
         /\ loop'.epic = loop.epic
         /\ loop'.handle = loop.handle
         /\ loop'.orphan = loop.orphan
         /\ loop'.listed = cur
         /\ UNCHANGED <<loop.processed, loop.completed, loop.reviewed, loop.range,
                        loop.since>>
BY DEF LoopMemory

\* The same where the sweep finds a session to remove, or has removed it.
LEMMA LoopSweepsTo ==
  ASSUME loop \in LoopMemory, NEW s \in Sessions \cup {NoSession},
         NEW cur \in SUBSET Worktrees,
         loop' = [loop EXCEPT !.orphan = s, !.listed = cur]
  PROVE  /\ loop' \in LoopMemory
         /\ loop'.pc = loop.pc
         /\ loop'.attempt = loop.attempt
         /\ loop'.epic = loop.epic
         /\ loop'.handle = loop.handle
         /\ loop'.orphan = s
         /\ loop'.listed = cur
         /\ UNCHANGED <<loop.processed, loop.completed, loop.reviewed, loop.range,
                        loop.since, loop.code, loop.marker>>
BY DEF LoopMemory

\* Which steps are those of an epic, and of a session that is watched.
LEMMA StepsAre ==
  /\ Watching \subseteq Working
  /\ Working \subseteq Steps
  /\ \A pc \in {"attempt", "decide", "review"} : pc \in Working /\ pc \notin Watching
  /\ \A pc \in {"boot", "head", "post", "exit", "exited", "killed"} :
       pc \in Steps /\ pc \notin Working /\ pc \notin Watching
BY DEF Watching, Working, Steps

\* The steps that only move the loop on.
LEMMA PlainMoves ==
  ASSUME LoopOK,
         \/ Preflight \/ HeadNoEpic \/ WatchEnds
         \/ LadderStop \/ LadderOver \/ LadderLooks \/ LadderRemoves \/ LadderKeeps
         \/ WatchdogKills
         \/ HarvestLooks \/ HarvestNothing \/ HarvestTearsDown \/ HarvestMerges
  PROVE  LoopOK'
<1>0. loop \in LoopMemory /\ loop.attempt <= MaxRetries + 1
  BY DEF LoopOK
<1>1. CASE Preflight \/ HeadNoEpic
  <2>1. PICK pc \in {"head", "post"} : loop' = [loop EXCEPT !.pc = pc]
    BY <1>1 DEF Preflight, HeadNoEpic
  <2>2. UNCHANGED <<script, status>>
    BY <1>1 DEF Preflight, HeadNoEpic
  <2>3. QED
    BY <1>0, <2>1, <2>2, LoopTo, LoopMoves, StepsAre
<1>2. CASE WatchEnds \/ LadderStop \/ LadderOver \/ WatchdogKills
  <2>1. PICK pc \in {"collect", "ladder", "sweep"} : loop' = [loop EXCEPT !.pc = pc]
    BY <1>2 DEF WatchEnds, LadderStop, LadderOver, WatchdogKills
  <2>2. loop.pc \in {"watch", "ladder"} /\ UNCHANGED <<script, status>>
    BY <1>2 DEF WatchEnds, LadderStop, LadderOver, WatchdogKills
  <2>3. loop.pc \in Working /\ pc \in Steps
    BY <2>1, <2>2 DEF Working, Watching, Steps
  <2>4. QED
    BY <1>0, <2>1, <2>2, <2>3, LoopTo, LoopMoves
<1>3. CASE \/ LadderLooks \/ LadderRemoves \/ LadderKeeps
           \/ HarvestLooks \/ HarvestNothing \/ HarvestTearsDown \/ HarvestMerges
  <2>1. PICK pc \in {"stage2", "sweep", "reap", "decide"}, cur \in SUBSET Worktrees :
          loop' = [loop EXCEPT !.pc = pc, !.listed = cur]
    BY <1>3 DEF LadderLooks, LadderRemoves, LadderKeeps, HarvestLooks,
                HarvestNothing, HarvestTearsDown, HarvestMerges
  <2>2. loop.pc \in {"ladder", "stage2", "harvest", "reap"} /\ UNCHANGED <<script, status>>
    BY <1>3 DEF LadderLooks, LadderRemoves, LadderKeeps, HarvestLooks, Decided,
                HarvestNothing, HarvestTearsDown, HarvestMerges
  <2>3. loop.pc \in Working /\ pc \in Steps
    BY <2>1, <2>2 DEF Working, Watching, Steps
  <2>4. QED
    BY <1>0, <2>1, <2>2, <2>3, LoopListsTo, LoopMoves
<1>4. QED
  BY <1>1, <1>2, <1>3

\* The sweep concerns no epic.
LEMMA SweepMoves ==
  ASSUME LoopOK, SweepFinds \/ SweepRemoves
  PROVE  LoopOK'
<1>1. loop \in LoopMemory /\ loop.attempt <= MaxRetries + 1
  BY DEF LoopOK
<1>2. PICK s \in Sessions \cup {NoSession}, cur \in SUBSET Worktrees :
        loop' = [loop EXCEPT !.orphan = s, !.listed = cur]
  <2>1. CASE SweepFinds
    BY <2>1 DEF SweepFinds, SweepCandidates
  <2>2. CASE SweepRemoves
    BY <2>2 DEF SweepRemoves
  <2>3. QED
    BY <2>1, <2>2
<1>3. UNCHANGED <<script, status>>
  BY DEF SweepFinds, SweepRemoves
<1>4. /\ loop' \in LoopMemory
      /\ loop'.pc = loop.pc
      /\ loop'.attempt = loop.attempt
      /\ loop'.epic = loop.epic
      /\ UNCHANGED <<loop.processed, loop.completed, loop.reviewed, loop.range,
                     loop.since, loop.code>>
  BY <1>1, <1>2, LoopSweepsTo
<1>5. EpicOK'
  BY <1>3, <1>4
  DEF LoopOK, EpicOK, EpicsDecidedOnce, InProcessed, AttemptsLeft, MaxRetries
<1>6. ReviewOK'
  BY <1>4 DEF LoopOK, ReviewOK
<1>7. StatusOK'
  BY <1>3, <1>4 DEF LoopOK, StatusOK, EndIsOnRecord
<1>8. QED
  BY <1>1, <1>3, <1>4, <1>5, <1>6, <1>7 DEF LoopOK, MaxRetries

\* Low memory leaves the epics undecided.
LEMMA HeadLowMemoryMoves ==
  ASSUME LoopOK, HeadLowMemory
  PROVE  LoopOK'
<1>0. loop \in LoopMemory /\ loop.attempt <= MaxRetries + 1
  BY DEF LoopOK
<1>1. loop' = [loop EXCEPT !.pc = "post", !.failed = loop.failed + 1]
  BY DEF HeadLowMemory
<1>2. loop.failed + 1 \in Nat
  BY <1>0, LoopFields
<1>3. /\ loop' \in LoopMemory
      /\ loop'.pc = "post"
      /\ loop'.attempt = loop.attempt
      /\ UNCHANGED <<loop.processed, loop.completed, loop.reviewed, loop.range,
                     loop.since>>
  BY <1>0, <1>1, <1>2, StepsAre DEF LoopMemory
<1>4. QED
  BY <1>0, <1>3, LoopMoves, StepsAre DEF HeadLowMemory

\* The epic that is taken was not decided before.
LEMMA HeadTakesEpicMoves ==
  ASSUME TypeOK, LoopOK, HeadTakesEpic
  PROVE  LoopOK'
<1>0. loop \in LoopMemory
  BY DEF LoopOK
<1>1. loop.pc = "head" /\ NextEpic \in Epics /\ ~ InProcessed(NextEpic)
  BY NextEpicIsReady DEF HeadTakesEpic, IsReady
<1>2. loop' = [loop EXCEPT !.pc = "attempt", !.epic = NextEpic, !.attempt = 0]
  BY DEF HeadTakesEpic
<1>3. /\ loop' \in LoopMemory
      /\ loop'.pc = "attempt"
      /\ loop'.epic = NextEpic
      /\ loop'.attempt = 0
      /\ UNCHANGED <<loop.processed, loop.completed, loop.reviewed, loop.range,
                     loop.since>>
  BY <1>0, <1>1, <1>2, StepsAre DEF LoopMemory
<1>4. script' = script /\ status' = "running" /\ MaxRetries \in Nat
  BY ScriptFields DEF HeadTakesEpic
<1>5. EpicOK'
  BY <1>1, <1>3, <1>4
  DEF LoopOK, EpicOK, EpicsDecidedOnce, InProcessed, AttemptsLeft, MaxRetries
<1>6. ReviewOK'
  BY <1>3 DEF LoopOK, ReviewOK
<1>7. StatusOK'
  BY <1>3 DEF StatusOK, EndIsOnRecord
<1>8. QED
  BY <1>3, <1>4, <1>5, <1>6, <1>7 DEF LoopOK, MaxRetries

\* An attempt at an epic decides nothing.
LEMMA AttemptMoves ==
  ASSUME TypeOK, LoopOK, HandleOK, \A s \in Sessions : SessionOK(s),
         Dispatch \/ WriteSnapshot \/ Collect \/ Retry \/ HarvestFails
  PROVE  LoopOK'
<1>0. loop \in LoopMemory /\ loop.attempt <= MaxRetries + 1
  BY DEF LoopOK
<1>1. CASE Dispatch
  <2>1. loop.pc = "attempt" /\ Fresh \in Sessions
    BY <1>1, FreshIsLeast DEF Dispatch
  <2>2. PICK pc \in {"snapshot", "watch"}, L \in SUBSET Worktrees :
          loop' = [loop EXCEPT !.pc = pc, !.attempt = loop.attempt + 1,
                               !.handle = Fresh, !.listed = L]
    BY <1>1 DEF Dispatch
  <2>3. loop.attempt + 1 \in Nat /\ loop.attempt + 1 <= MaxRetries + 1
    BY <1>0, <2>1, LoopFields, ScriptFields DEF LoopOK, EpicOK, AttemptsLeft
  <2>4. pc \in Steps
    BY DEF Steps, Working, Watching
  <2>5. /\ loop' \in LoopMemory
        /\ loop'.pc = pc
        /\ loop'.attempt = loop.attempt + 1
        /\ loop'.epic = loop.epic
        /\ UNCHANGED <<loop.processed, loop.completed, loop.reviewed, loop.range,
                       loop.since>>
    BY <1>0, <2>1, <2>2, <2>3, <2>4 DEF LoopMemory
  <2>6. QED
    BY <1>1, <2>1, <2>3, <2>5, LoopMoves, StepsAre DEF Dispatch
<1>2. CASE WriteSnapshot
  <2>1. loop' = [loop EXCEPT !.pc = "watch", !.listed = {}] /\ loop.pc \in Working
    BY <1>2 DEF WriteSnapshot, Working, Watching
  <2>2. /\ loop' \in LoopMemory
        /\ loop'.pc = "watch"
        /\ loop'.attempt = loop.attempt
        /\ loop'.epic = loop.epic
        /\ UNCHANGED <<loop.processed, loop.completed, loop.reviewed, loop.range,
                       loop.since>>
    BY <1>0, <2>1 DEF LoopMemory, Steps, Working, Watching
  <2>3. QED
    BY <1>0, <1>2, <2>1, <2>2, LoopMoves DEF WriteSnapshot
<1>3. CASE Collect \/ HarvestFails
  <2>1. \E pc \in {"harvest", "decide"}, m \in Markers :
          \/ loop' = [loop EXCEPT !.pc = pc, !.marker = m]
          \/ loop' = [loop EXCEPT !.pc = pc, !.listed = {}, !.marker = m]
    <3>1. CASE Collect
      <4>1. PICK d \in Detected(loop.handle), pc \in {"harvest", "decide"} :
              loop' = [loop EXCEPT !.pc = pc, !.marker = WithBdState(d)]
        BY <3>1 DEF Collect
      <4>2. d \in Markers
        <5>1. loop.handle \in Sessions
          BY <3>1 DEF Collect, HandleOK, Watching
        <5>2. sess[loop.handle] \in Session
          BY <5>1 DEF TypeOK
        <5>3. QED
          BY <5>2 DEF Detected, Traced, Session, Markers
      <4>3. WithBdState(d) \in Markers
        BY <4>2 DEF WithBdState, Markers
      <4>4. QED
        BY <4>1, <4>3
    <3>2. CASE HarvestFails
      BY <3>2 DEF HarvestFails, Markers
    <3>3. QED
      BY <1>3, <3>1, <3>2
  <2>2. UNCHANGED <<script, status>> /\ loop.pc \in Working
    BY <1>3 DEF Collect, HarvestFails, Decided, Working, Watching
  <2>3. /\ loop' \in LoopMemory
        /\ loop'.pc \in {"harvest", "decide"}
        /\ loop'.attempt = loop.attempt
        /\ loop'.epic = loop.epic
        /\ UNCHANGED <<loop.processed, loop.completed, loop.reviewed, loop.range,
                       loop.since>>
    <3>1. PICK pc \in {"harvest", "decide"}, m \in Markers :
            \/ loop' = [loop EXCEPT !.pc = pc, !.marker = m]
            \/ loop' = [loop EXCEPT !.pc = pc, !.listed = {}, !.marker = m]
      BY <2>1
    <3>2. pc \in Steps
      BY DEF Steps, Working, Watching
    <3>3. CASE loop' = [loop EXCEPT !.pc = pc, !.marker = m]
      BY <1>0, <3>2, <3>3 DEF LoopMemory
    <3>4. CASE loop' = [loop EXCEPT !.pc = pc, !.listed = {}, !.marker = m]
      BY <1>0, <3>2, <3>4 DEF LoopMemory
    <3>5. QED
      BY <3>1, <3>3, <3>4
  <2>4. QED
    BY <1>0, <2>2, <2>3, LoopMoves
<1>4. CASE Retry
  <2>1. /\ loop' = [loop EXCEPT !.pc = "attempt", !.marker = "none"]
        /\ loop.pc \in Working
        /\ AttemptsLeft(loop.attempt)
    BY <1>4 DEF Retry, WillRetry, Working
  <2>2. /\ loop' \in LoopMemory
        /\ loop'.pc = "attempt"
        /\ loop'.attempt = loop.attempt
        /\ loop'.epic = loop.epic
        /\ UNCHANGED <<loop.processed, loop.completed, loop.reviewed, loop.range,
                       loop.since>>
    BY <1>0, <2>1 DEF LoopMemory, Steps, Working, Markers
  <2>3. QED
    BY <1>0, <1>4, <2>1, <2>2, LoopMoves DEF Retry
<1>5. QED
  BY <1>1, <1>2, <1>3, <1>4


\* The epic that is decided joins those that are processed, and differs from
\* every one of them.
LEMMA ProcessedFields ==
  ASSUME LoopOK, NEW l \in LoopMemory, l.epic = loop.epic, loop.epic \in Epics,
         l.processed = loop.processed, ~ InProcessed(loop.epic)
  PROVE  LET k == Processed(l) IN
         /\ k \in LoopMemory
         /\ k.attempt = l.attempt
         /\ k.completed = l.completed
         /\ k.failed = l.failed
         /\ k.skipped = l.skipped
         /\ k.since = l.since
         /\ k.range = l.range
         /\ k.reviewed = l.reviewed
         /\ \A i, j \in 1 .. Len(k.processed) :
              i # j => k.processed[i] # k.processed[j]
<1> DEFINE old == loop.processed
           new == Append(old, loop.epic)
           k == Processed(l)
<1>1. old \in Seq(Epics)
  BY LoopFields DEF LoopOK
<1>2. /\ new \in Seq(Epics)
      /\ Len(old) \in Nat
      /\ Len(new) = Len(old) + 1
      /\ \A i \in 1 .. Len(old) : new[i] = old[i]
      /\ new[Len(old) + 1] = loop.epic
  BY <1>1, AppendProperties, LenProperties
<1>3. \A i, j \in 1 .. Len(old) : i # j => old[i] # old[j]
  BY DEF LoopOK, EpicOK, EpicsDecidedOnce
<1>4. \A i \in 1 .. Len(old) : old[i] # loop.epic
  BY DEF InProcessed
<1>5. \A i, j \in 1 .. Len(new) : i # j => new[i] # new[j]
  <2> HIDE DEF new, old
  <2>1. \A i \in 1 .. Len(new) : i \in 1 .. Len(old) \/ i = Len(old) + 1
    BY <1>2
  <2>2. QED
    BY <2>1, <1>2, <1>3, <1>4
<1>6. k = [l EXCEPT !.processed = new, !.epic = NoEpic, !.marker = "none"]
  BY DEF Processed
<1>7. /\ k \in LoopMemory
      /\ k.processed = new
      /\ k.attempt = l.attempt
      /\ k.completed = l.completed
      /\ k.failed = l.failed
      /\ k.skipped = l.skipped
      /\ k.since = l.since
      /\ k.range = l.range
      /\ k.reviewed = l.reviewed
  <2> HIDE DEF new, k
  <2>1. QED
    BY <1>2, <1>6 DEF LoopMemory, Markers
<1>8. QED
  BY <1>5, <1>7

\* Where an epic is decided.
LEMMA Deciding ==
  ASSUME LoopOK, loop.pc \in {"decide", "review"}
  PROVE  loop.epic \in Epics /\ ~ InProcessed(loop.epic) /\ loop \in LoopMemory
BY StepsAre DEF LoopOK, EpicOK

\* A failed or skipped epic is decided.
LEMMA EpicGivenUpMoves ==
  ASSUME LoopOK, EpicFailed \/ EpicSkipped
  PROVE  LoopOK'
<1> DEFINE k == Processed(loop)
<1>0. loop.pc = "decide" /\ UNCHANGED <<script, status>>
  BY DEF EpicFailed, EpicSkipped
<1>1. /\ loop.epic \in Epics
      /\ ~ InProcessed(loop.epic)
      /\ loop \in LoopMemory
      /\ loop.attempt <= MaxRetries + 1
  BY <1>0, Deciding DEF LoopOK
<1>2. /\ k \in LoopMemory
      /\ k.attempt = loop.attempt
      /\ k.completed = loop.completed
      /\ k.since = loop.since
      /\ k.range = loop.range
      /\ k.reviewed = loop.reviewed
      /\ \A i, j \in 1 .. Len(k.processed) : i # j => k.processed[i] # k.processed[j]
  BY <1>1, ProcessedFields
<1>3. k.failed + 1 \in Nat /\ k.skipped + 1 \in Nat
  BY <1>2 DEF LoopMemory
<1>4. /\ loop' \in LoopMemory
      /\ loop'.pc \in {"post", "head"}
      /\ loop'.attempt = loop.attempt
      /\ loop'.completed = loop.completed
      /\ loop'.since = loop.since
      /\ loop'.range = loop.range
      /\ loop'.reviewed = loop.reviewed
      /\ loop'.processed = k.processed
  <2>1. CASE EpicFailed
    <3>1. loop' = [k EXCEPT !.pc = "post", !.failed = k.failed + 1]
      BY <2>1 DEF EpicFailed
    <3> HIDE DEF k
    <3>2. QED
      BY <1>2, <1>3, <3>1, StepsAre DEF LoopMemory
  <2>2. CASE EpicSkipped
    <3>1. loop' = [k EXCEPT !.pc = "head", !.skipped = k.skipped + 1]
      BY <2>2 DEF EpicSkipped
    <3> HIDE DEF k
    <3>2. QED
      BY <1>2, <1>3, <3>1, StepsAre DEF LoopMemory
  <2>3. QED
    BY <2>1, <2>2
<1>5. EpicOK'
  BY <1>2, <1>4, StepsAre DEF EpicOK, EpicsDecidedOnce
<1>6. ReviewOK'
  BY <1>4 DEF LoopOK, ReviewOK
<1>7. StatusOK'
  BY <1>4 DEF StatusOK, EndIsOnRecord
<1>8. QED
  BY <1>0, <1>1, <1>4, <1>5, <1>6, <1>7 DEF LoopOK, MaxRetries


\* A completed epic is decided, and waits for a review.
LEMMA EpicCompletedMoves ==
  ASSUME TypeOK, LoopOK, EpicCompleted
  PROVE  LoopOK'
<1> DEFINE e == loop.epic
           k == [loop EXCEPT !.since = loop.since + 1,
                             !.completed = loop.completed \cup {e},
                             !.range = loop.range \cup {e}]
           q == Processed(loop)
<1>0. loop.pc = "decide" /\ UNCHANGED <<script, status>>
  BY DEF EpicCompleted
<1>1. /\ e \in Epics
      /\ ~ InProcessed(e)
      /\ loop \in LoopMemory
      /\ loop.attempt <= MaxRetries + 1
  BY <1>0, Deciding DEF LoopOK
<1>2. /\ loop.since + 1 \in Nat /\ loop.since + 1 # 0
      /\ loop.completed \cup {e} \in SUBSET Epics
      /\ loop.range \cup {e} \in SUBSET Epics
  BY <1>1, LoopFields
<1>3. /\ q \in LoopMemory
      /\ q.attempt = loop.attempt
      /\ q.completed = loop.completed
      /\ q.since = loop.since
      /\ q.range = loop.range
      /\ q.reviewed = loop.reviewed
      /\ \A i, j \in 1 .. Len(q.processed) : i # j => q.processed[i] # q.processed[j]
  BY <1>1, ProcessedFields
<1>4. /\ loop' \in LoopMemory
      /\ loop'.attempt = loop.attempt
      /\ loop'.since = loop.since + 1
      /\ loop'.completed = loop.completed \cup {e}
      /\ loop'.range = loop.range \cup {e}
      /\ loop'.reviewed = loop.reviewed
      /\ \/ /\ loop'.pc = "review"
            /\ loop'.epic = e
            /\ loop'.processed = loop.processed
         \/ /\ loop'.pc = "head"
            /\ loop'.processed = q.processed
  <2>1. CASE PeriodicDue(loop.since + 1)
    <3>1. loop' = [loop EXCEPT !.pc = "review", !.since = loop.since + 1,
                               !.completed = loop.completed \cup {e},
                               !.range = loop.range \cup {e}]
      BY <2>1 DEF EpicCompleted
    <3> HIDE DEF e
    <3>2. QED
      BY <1>1, <1>2, <3>1, StepsAre DEF LoopMemory, e
  <2>2. CASE ~ PeriodicDue(loop.since + 1)
    <3>1. loop' = [q EXCEPT !.pc = "head", !.since = q.since + 1,
                            !.completed = q.completed \cup {e},
                            !.range = q.range \cup {e}]
      BY <2>2 DEF EpicCompleted
    <3> HIDE DEF q, e
    <3>2. QED
      BY <1>2, <1>3, <3>1, StepsAre DEF LoopMemory
  <2>3. QED
    BY <2>1, <2>2
<1>5. EpicOK'
  <2>1. CASE loop'.pc = "review"
    BY <1>1, <1>4, <2>1 DEF LoopOK, EpicOK, EpicsDecidedOnce, InProcessed
  <2>2. CASE loop'.pc = "head"
    BY <1>3, <1>4, <2>2, StepsAre DEF EpicOK, EpicsDecidedOnce
  <2>3. QED
    BY <1>4, <2>1, <2>2
<1>6. ReviewOK'
  BY <1>2, <1>4 DEF LoopOK, ReviewOK
<1>7. StatusOK'
  BY <1>4 DEF StatusOK, EndIsOnRecord
<1>8. QED
  BY <1>0, <1>1, <1>4, <1>5, <1>6, <1>7 DEF LoopOK, MaxRetries

\* What a review changes in the memory of the script.
LEMMA ReviewedFields ==
  ASSUME loop \in LoopMemory
  PROVE  /\ Reviewed \in LoopMemory
         /\ Reviewed.reviewed = loop.reviewed \cup loop.range
         /\ Reviewed.epic = loop.epic
         /\ Reviewed.attempt = loop.attempt
         /\ Reviewed.processed = loop.processed
         /\ Reviewed.completed = loop.completed
         /\ Reviewed.since = loop.since
         /\ Reviewed.range = loop.range
         /\ Reviewed.handle = loop.handle
         /\ Reviewed.failed = loop.failed
<1>1. loop.reviewed \cup loop.range \in SUBSET Epics
  BY LoopFields
<1>2. Reviewed = [loop EXCEPT !.reviewed = loop.reviewed \cup loop.range]
  BY DEF Reviewed
<1>3. QED
  BY <1>1, <1>2 DEF LoopMemory

\* A periodic review covers the epics completed since the last one.
LEMMA ReviewPeriodicMoves ==
  ASSUME LoopOK, ReviewPeriodic
  PROVE  LoopOK'
<1> DEFINE k == Processed(Reviewed)
<1>0. loop.pc = "review" /\ UNCHANGED <<script, status>>
  BY DEF ReviewPeriodic
<1>1. /\ loop.epic \in Epics
      /\ ~ InProcessed(loop.epic)
      /\ loop \in LoopMemory
      /\ loop.attempt <= MaxRetries + 1
  BY <1>0, Deciding DEF LoopOK
<1>2. /\ k \in LoopMemory
      /\ k.attempt = loop.attempt
      /\ k.completed = loop.completed
      /\ k.reviewed = loop.reviewed \cup loop.range
      /\ \A i, j \in 1 .. Len(k.processed) : i # j => k.processed[i] # k.processed[j]
  BY <1>1, ReviewedFields, ProcessedFields
<1>3. /\ loop' \in LoopMemory
      /\ loop'.pc = "head"
      /\ loop'.attempt = loop.attempt
      /\ loop'.completed = loop.completed
      /\ loop'.range = {}
      /\ loop'.reviewed = loop.reviewed \cup loop.range
      /\ loop'.processed = k.processed
  <2>1. loop' = [k EXCEPT !.pc = "head", !.since = 0, !.range = {}]
    BY DEF ReviewPeriodic
  <2> HIDE DEF k
  <2>2. QED
    BY <1>2, <2>1, StepsAre DEF LoopMemory
<1>4. EpicOK'
  BY <1>2, <1>3, StepsAre DEF EpicOK, EpicsDecidedOnce
<1>5. ReviewOK'
  BY <1>3 DEF LoopOK, ReviewOK
<1>6. StatusOK'
  BY <1>3 DEF StatusOK, EndIsOnRecord
<1>7. QED
  BY <1>0, <1>1, <1>3, <1>4, <1>5, <1>6 DEF LoopOK, MaxRetries

\* A step to the exit of the script: with code 0 the status file says "idle".
LEMMA LoopLeaves ==
  ASSUME LoopOK, script' = script, NEW l \in LoopMemory, NEW code \in 0 .. 2,
         loop' = [l EXCEPT !.pc = "exit", !.code = code],
         code = 0 => status' = "idle",
         status' \in {"absent", "running", "idle", "crashed"},
         l.attempt <= MaxRetries + 1,
         l.processed = loop.processed,
         l.completed = loop.completed,
         l.range = loop.range,
         l.since = loop.since,
         loop.reviewed \subseteq l.reviewed
  PROVE  LoopOK'
<1>1. /\ loop' \in LoopMemory
      /\ loop'.pc = "exit"
      /\ loop'.code = code
      /\ loop'.attempt = l.attempt
      /\ loop'.reviewed = l.reviewed
      /\ UNCHANGED <<loop.processed, loop.completed, loop.range, loop.since>>
  BY StepsAre DEF LoopMemory
<1>2. EpicOK'
  BY <1>1, StepsAre DEF LoopOK, EpicOK, EpicsDecidedOnce
<1>3. ReviewOK'
  BY <1>1 DEF LoopOK, ReviewOK
<1>4. StatusOK'
  BY <1>1 DEF StatusOK, EndIsOnRecord
<1>5. QED
  BY <1>1, <1>2, <1>3, <1>4 DEF LoopOK, MaxRetries

\* On every way to the end the status agrees with the exit code to come.
LEMMA ExitMoves ==
  ASSUME TypeOK, LoopOK,
         PreflightFails \/ DispatchUnreadable \/ ReviewBlocks \/ Post
  PROVE  LoopOK'
<1>0. loop \in LoopMemory /\ loop.attempt <= MaxRetries + 1 /\ script' = script
  BY DEF LoopOK, PreflightFails, DispatchUnreadable, ReviewBlocks, Post
<1>s. /\ 1 \in 0 .. 2 /\ 1 # 0
      /\ status \in {"absent", "running", "idle", "crashed"}
  BY DEF LoopOK
<1>1. CASE PreflightFails
  <2>1. loop' = [loop EXCEPT !.pc = "exit", !.code = 1] /\ status' = status
    BY <1>1 DEF PreflightFails
  <2>2. QED
    BY <1>0, <1>s, <2>1, LoopLeaves
<1>2. CASE DispatchUnreadable
  <2> DEFINE l == [loop EXCEPT !.attempt = loop.attempt + 1]
  <2>1. loop.attempt + 1 \in Nat /\ loop.attempt + 1 <= MaxRetries + 1
    BY <1>0, <1>2, LoopFields, ScriptFields
    DEF DispatchUnreadable, LoopOK, EpicOK, AttemptsLeft
  <2>2. /\ l \in LoopMemory
        /\ l.attempt = loop.attempt + 1
        /\ l.processed = loop.processed
        /\ l.completed = loop.completed
        /\ l.range = loop.range
        /\ l.since = loop.since
        /\ l.reviewed = loop.reviewed
    BY <1>0, <2>1 DEF LoopMemory
  <2>3. loop' = [l EXCEPT !.pc = "exit", !.code = 1]
    BY <1>0, <1>2 DEF DispatchUnreadable, LoopMemory
  <2> HIDE DEF l
  <2>4. QED
    <3>1. status' = status
      BY <1>2 DEF DispatchUnreadable
    <3>2. QED
      BY <1>0, <1>s, <2>1, <2>2, <2>3, <3>1, LoopLeaves
<1>3. CASE ReviewBlocks
  <2>1. loop' = [Reviewed EXCEPT !.pc = "exit", !.code = 1] /\ status' = status
    BY <1>3 DEF ReviewBlocks
  <2>2. loop.reviewed \subseteq Reviewed.reviewed
    BY <1>0, ReviewedFields
  <2>3. QED
    BY <1>0, <1>s, <2>1, <2>2, ReviewedFields, LoopLeaves
<1>4. CASE Post
  <2> DEFINE l == IF FinalDue(loop) THEN Reviewed ELSE loop
  <2>1. /\ l \in LoopMemory
        /\ l.attempt = loop.attempt
        /\ l.processed = loop.processed
        /\ l.completed = loop.completed
        /\ l.range = loop.range
        /\ l.since = loop.since
        /\ loop.reviewed \subseteq l.reviewed
    BY <1>0, ReviewedFields
  <2> DEFINE end == CASE loop.failed > 0 -> 1
                      [] loop.failed = 0 /\ loop.completed = {} -> 2
                      [] OTHER -> 0
  <2>e. end \in 0 .. 2
    BY <1>0, LoopFields
  <2>2. PICK code \in 0 .. 2 : loop' = [l EXCEPT !.pc = "exit", !.code = code]
    <3>1. loop' = [l EXCEPT !.pc = "exit", !.code = end]
      BY <1>4 DEF Post
    <3> HIDE DEF l, end
    <3>2. QED
      BY <2>e, <3>1
  <2>3. status' = "idle"
    BY <1>4 DEF Post
  <2> HIDE DEF l
  <2>4. QED
    BY <1>0, <2>1, <2>2, <2>3, LoopLeaves
<1>5. QED
  BY <1>1, <1>2, <1>3, <1>4

\* A script that is gone, or that starts again, remembers nothing.
LEMMA NewLoopFields ==
  ASSUME NEW pc \in Steps, NEW code \in 0 .. 2
  PROVE  /\ NewLoop \in LoopMemory
         /\ Gravestone(pc, code) \in LoopMemory
         /\ \A l \in {NewLoop, Gravestone(pc, code)} :
              /\ l.processed = <<>>
              /\ l.completed = {}
              /\ l.range = {}
              /\ l.attempt = 0
         /\ NewLoop.pc = "boot"
         /\ Gravestone(pc, code).pc = pc
         /\ Gravestone(pc, code).code = code
<1>1. NewLoop \in LoopMemory
  BY StepsAre, EmptySeq DEF NewLoop, LoopMemory, Markers
<1>2. /\ NewLoop.processed = <<>>
      /\ NewLoop.completed = {}
      /\ NewLoop.range = {}
      /\ NewLoop.attempt = 0
      /\ NewLoop.pc = "boot"
  BY DEF NewLoop
<1>3. PICK l \in LoopMemory : l = NewLoop
  BY <1>1
<1>4. PICK g : g = [l EXCEPT !.pc = pc, !.code = code]
  OBVIOUS
<1>5. g \in LoopMemory
  BY <1>4 DEF LoopMemory
<1>6. /\ g.processed = l.processed /\ g.completed = l.completed /\ g.range = l.range
      /\ g.attempt = l.attempt /\ g.pc = pc /\ g.code = code
  BY <1>4 DEF LoopMemory
<1>7. Gravestone(pc, code) = g
  BY <1>3, <1>4 DEF Gravestone
<1>8. QED
  BY <1>2, <1>3, <1>5, <1>6, <1>7

\* A script that is killed or begins anew has decided no epic.
LEMMA LoopForgets ==
  ASSUME TypeOK, loop' \in LoopMemory, script' = script,
         loop'.processed = <<>>, loop'.completed = {}, loop'.range = {},
         loop'.attempt = 0, loop'.pc \in {"boot", "exited", "killed"},
         status' \in {"absent", "running", "idle", "crashed"}, StatusOK'
  PROVE  LoopOK'
<1>1. EpicOK'
  BY StepsAre, EmptySeq DEF EpicOK, EpicsDecidedOnce
<1>2. ReviewOK'
  BY DEF ReviewOK
<1>3. MaxRetries' = MaxRetries /\ MaxRetries \in Nat
  BY ScriptFields DEF MaxRetries
<1>4. QED
  BY <1>1, <1>2, <1>3 DEF LoopOK

\* The exit, a kill and the next start.
LEMMA EndMoves ==
  ASSUME TypeOK, LoopOK, Exit \/ Kill \/ Restart
  PROVE  LoopOK'
<1>1. CASE Exit
  <2>1. loop.pc = "exit" /\ loop.code \in 0 .. 2
    BY <1>1, LoopFields DEF Exit, LoopOK
  <2>2. /\ loop' = Gravestone("exited", loop.code)
        /\ status' = IF loop.code # 0 THEN "crashed" ELSE status
        /\ script' = script
    BY <1>1 DEF Exit, StatusAfter
  <2>3. loop.code = 0 => status = "idle"
    BY <2>1 DEF LoopOK, StatusOK
  <2>4. /\ loop' \in LoopMemory
        /\ loop'.processed = <<>> /\ loop'.completed = {} /\ loop'.range = {}
        /\ loop'.attempt = 0 /\ loop'.pc = "exited" /\ loop'.code = loop.code
    BY <2>1, <2>2, NewLoopFields, StepsAre
  <2>5. StatusOK' /\ status' \in {"absent", "running", "idle", "crashed"}
    BY <2>1, <2>2, <2>3, <2>4 DEF StatusOK, EndIsOnRecord, LoopOK
  <2>6. QED
    BY <2>2, <2>4, <2>5, LoopForgets
<1>2. CASE Kill
  <2>1. loop' = Gravestone("killed", 0) /\ UNCHANGED <<script, status>>
    BY <1>2 DEF Kill
  <2>2. /\ loop' \in LoopMemory
        /\ loop'.processed = <<>> /\ loop'.completed = {} /\ loop'.range = {}
        /\ loop'.attempt = 0 /\ loop'.pc = "killed"
    BY <2>1, NewLoopFields, StepsAre
  <2>3. StatusOK'
    BY <2>2 DEF StatusOK, EndIsOnRecord
  <2>4. QED
    BY <2>1, <2>2, <2>3, LoopForgets DEF LoopOK
<1>3. CASE Restart
  <2>1. loop' = NewLoop /\ UNCHANGED <<script, status>>
    BY <1>3 DEF Restart
  <2>2. /\ loop' \in LoopMemory
        /\ loop'.processed = <<>> /\ loop'.completed = {} /\ loop'.range = {}
        /\ loop'.attempt = 0 /\ loop'.pc = "boot"
    BY <2>1, NewLoopFields, StepsAre
  <2>3. StatusOK'
    BY <2>2 DEF StatusOK, EndIsOnRecord
  <2>4. QED
    BY <2>1, <2>2, <2>3, LoopForgets DEF LoopOK
<1>4. QED
  BY <1>1, <1>2, <1>3


\* No step breaks what the loop remembers.
LEMMA LoopKeeps ==
  ASSUME IInv, [Next]_vars
  PROVE  LoopOK'
<1>0. TypeOK /\ LoopOK /\ HandleOK /\ \A s \in Sessions : SessionOK(s)
  BY LoopOKHolds DEF IInv
<1>1. CASE LoopStep
  BY <1>0, <1>1, PlainMoves, HeadLowMemoryMoves, HeadTakesEpicMoves, AttemptMoves,
     EpicGivenUpMoves, EpicCompletedMoves, ReviewPeriodicMoves, ExitMoves, EndMoves,
     SweepMoves
  DEF LoopStep, MainStep
<1>2. CASE \E s \in Sessions : SessionStep(s)
  <2>1. UNCHANGED <<script, loop, status>>
    BY <1>2 DEF SessionStep, SessionWrites, SessionHangs, SessionBranches,
                SessionClaims, SessionStops, SessionEnds, SessionUnchanged
  <2>2. QED
    BY <1>0, <2>1, LoopStays
<1>3. CASE Kill \/ Restart
  BY <1>0, <1>3, EndMoves
<1>4. CASE UNCHANGED vars
  <2>1. UNCHANGED <<script, loop, status>>
    BY <1>4 DEF vars
  <2>2. QED
    BY <1>0, <2>1, LoopStays
<1>5. QED
  BY <1>1, <1>2, <1>3, <1>4 DEF Next
-----------------------------------------------------------------------------
(* Types of the sessions, the snapshots, the epics and the bounds.           *)

Shapes ==
  /\ script \in Scripts
  /\ sess \in [Sessions -> Session]
  /\ snap \in [Sessions -> SUBSET Lines]
  /\ beads \in [Epics -> {"open", "in_progress", "closed"}]
  /\ left \in [pressure : Nat, faults : Nat, runs : Nat]

\* What sessions do by themselves keeps every type.
LEMMA SessionStepShapes ==
  ASSUME TypeOK, NEW s \in Sessions, SessionOK(s), SessionStep(s)
  PROVE  Shapes'
<1>0. /\ sess \in [Sessions -> Session]
      /\ beads \in [Epics -> {"open", "in_progress", "closed"}]
      /\ UNCHANGED <<script, snap, left>>
  BY DEF TypeOK, SessionStep, SessionWrites, SessionHangs, SessionBranches,
         SessionClaims, SessionStops, SessionEnds, SessionUnchanged
<1>1. sess' \in [Sessions -> Session]
  <2>1. CASE SessionWrites(s)
    BY <1>0, <2>1 DEF SessionWrites, Session, States
  <2>2. CASE SessionHangs(s)
    <3>1. PICK m \in Markers : sess' = [sess EXCEPT ![s].state = "hung", ![s].text = m]
      BY <2>2 DEF SessionHangs, Markers
    <3>2. PICK a \in Session : a = sess[s]
      BY <1>0
    <3>3. [a EXCEPT !.state = "hung", !.text = m] \in Session
      BY DEF Session, States
    <3>4. QED
      BY <1>0, <3>1, <3>2, <3>3
  <2>3. CASE SessionBranches(s)
    BY <1>0, <2>3 DEF SessionBranches, Session
  <2>4. CASE SessionClaims(s)
    BY <1>0, <2>4 DEF SessionClaims
  <2>5. CASE SessionEnds(s)
    <3>1. PICK m \in Markers : sess' = Stopped(s, m)
      BY <2>5 DEF SessionEnds, Markers
    <3>2. QED
      BY <3>1, StoppedType
  <2>6. QED
    BY <2>1, <2>2, <2>3, <2>4, <2>5 DEF SessionStep, SessionStops
<1>2. beads' \in [Epics -> {"open", "in_progress", "closed"}]
  BY <1>0 DEF SessionStep, SessionWrites, SessionHangs, SessionBranches,
              SessionClaims, SessionStops, SessionEnds
<1>3. QED
  BY <1>0, <1>1, <1>2 DEF Shapes, TypeOK

\* What steps of the loop may do to the bounds.
LEMMA LeftShapes ==
  ASSUME TypeOK, \/ left' = left
                 \/ left.pressure > 0 /\ left' = [left EXCEPT !.pressure = left.pressure - 1]
                 \/ left.faults > 0 /\ left' = [left EXCEPT !.faults = left.faults - 1]
                 \/ left.runs > 0 /\ left' = [left EXCEPT !.runs = left.runs - 1]
  PROVE  left' \in [pressure : Nat, faults : Nat, runs : Nat]
BY DEF TypeOK

\* What the script does keeps every type.
LEMMA LoopStepShapes ==
  ASSUME IInv, LoopStep
  PROVE  Shapes'
<1>0. /\ TypeOK
      /\ HandleOK
      /\ \A s \in Sessions : SessionOK(s)
      /\ sess \in [Sessions -> Session]
      /\ snap \in [Sessions -> SUBSET Lines]
      /\ loop \in LoopMemory
  BY DEF IInv, TypeOK
<1>1. UNCHANGED <<script, beads>>
  BY DEF LoopStep, MainStep, SweepFinds, SweepRemoves, Preflight, PreflightFails,
         HeadLowMemory, HeadNoEpic, HeadTakesEpic, Dispatch, DispatchUnreadable,
         WriteSnapshot, WatchEnds, LadderStop, LadderOver, LadderLooks, LadderRemoves,
         LadderKeeps, WatchdogKills, Collect, HarvestLooks, HarvestNothing,
         HarvestTearsDown, HarvestMerges, HarvestFails, Retry, EpicFailed, EpicSkipped,
         EpicCompleted, ReviewPeriodic, ReviewBlocks, Post, Exit
<1>2. \/ left' = left
      \/ left.pressure > 0 /\ left' = [left EXCEPT !.pressure = left.pressure - 1]
      \/ left.faults > 0 /\ left' = [left EXCEPT !.faults = left.faults - 1]
  <2>f. Fault => left.faults > 0 /\ left' = [left EXCEPT !.faults = left.faults - 1]
    BY DEF Fault
  <2>1. CASE SweepFinds \/ LadderLooks \/ HarvestLooks \/ Dispatch
    BY <2>f, <2>1 DEF SweepFinds, LadderLooks, HarvestLooks, Dispatch, Lists
  <2>2. CASE \/ SweepRemoves \/ LadderRemoves \/ HarvestTearsDown \/ HarvestMerges
             \/ WriteSnapshot
    BY <2>f, <2>2 DEF SweepRemoves, LadderRemoves, HarvestTearsDown, HarvestMerges,
                      WriteSnapshot, Removes
  <2>3. CASE HeadLowMemory \/ LadderStop \/ WatchdogKills
    BY <2>3 DEF HeadLowMemory, LadderStop, WatchdogKills, Unresponsive
  <2>4. QED
    BY <2>1, <2>2, <2>3
    DEF LoopStep, MainStep, Preflight, PreflightFails, HeadNoEpic, HeadTakesEpic,
        DispatchUnreadable, WatchEnds, LadderOver, LadderKeeps, Collect,
        HarvestNothing, HarvestFails, Retry, EpicFailed, EpicSkipped, EpicCompleted,
        ReviewPeriodic, ReviewBlocks, Post, Exit
<1>t. /\ sess' \in [Sessions -> Session]
      /\ snap' \in [Sessions -> SUBSET Lines]
  <2>h. loop.pc \in Watching => loop.handle \in Sessions
    BY <1>0 DEF HandleOK
  <2>1. CASE SweepRemoves
    <3>1. loop.orphan \in Sessions
      BY <1>0, <2>1, LoopFields DEF SweepRemoves
    <3>2. sess' = Removed(sess, loop.orphan) \/ sess' = sess
      BY <2>1, RemovesEither DEF SweepRemoves
    <3>3. QED
      BY <1>0, <2>1, <3>1, <3>2, SessionTypes, ForgottenType DEF SweepRemoves
  <2>2. CASE Dispatch \/ DispatchUnreadable
    <3>0. loop.pc = "attempt" /\ loop.epic \in Epics /\ snap' = snap
      BY <2>2, StepsAre DEF Dispatch, DispatchUnreadable, IInv, EpicOK
    <3>1. CASE sess' = sess
      BY <1>0, <3>0, <3>1
    <3>2. CASE sess' # sess
      <4>1. Fresh \in Sessions
        BY <1>0, <2>2, <3>2, FreshIsLeast DEF Dispatch, DispatchUnreadable
      <4>2. sess' = Born(Fresh) \/ sess' = Strayed(Born(Fresh), Fresh)
        BY <2>2, <3>2 DEF Dispatch, DispatchUnreadable, Strayed
      <4>3. QED
        BY <1>0, <3>0, <4>1, <4>2, BornType, SessionTypes
    <3>3. QED
      BY <3>1, <3>2
  <2>3. CASE WriteSnapshot
    <3>1. sess' = sess /\ Stored(loop.listed) \in SUBSET Lines
      BY <1>0, <2>3, LoopFields DEF WriteSnapshot, Stored, Lines
    <3>2. QED
      BY <1>0, <2>3, <3>1 DEF WriteSnapshot
  <2>4. CASE LadderStop \/ WatchdogKills
    <3>1. loop.handle \in Sessions /\ snap' = snap
      BY <2>h, <2>4 DEF LadderStop, WatchdogKills, Watching
    <3>2. sess[loop.handle].text \in Markers /\ "none" \in Markers
      BY <1>0, <3>1 DEF Session, Markers
    <3>3. PICK f \in [Sessions -> Session] : sess' = Strayed(f, loop.handle)
      BY <1>0, <2>4, <3>1, <3>2, StoppedType DEF LadderStop, WatchdogKills
    <3>4. QED
      BY <1>0, <3>1, <3>3, SessionTypes
  <2>5. CASE LadderKeeps
    <3>1. loop.handle \in Sessions /\ "none" \in Markers
      BY <2>h, <2>5 DEF LadderKeeps, Watching, Markers
    <3>2. QED
      BY <1>0, <2>5, <3>1, StoppedType DEF LadderKeeps
  <2>6. CASE Collect
    <3>1. loop.handle \in Sessions /\ snap' = snap
      BY <2>h, <2>6 DEF Collect, Watching
    <3>2. sess' = [sess EXCEPT ![loop.handle].text = "none"]
      BY <2>6 DEF Collect
    <3>3. QED
      BY <1>0, <3>1, <3>2 DEF Session, Markers
  <2>7. CASE LadderRemoves \/ HarvestTearsDown \/ HarvestMerges
    <3>1. loop.handle \in Sessions
      BY <2>h, <2>7 DEF LadderRemoves, HarvestTearsDown, HarvestMerges, Decided, Watching
    <3>2. PICK f \in [Sessions -> Session] : Removes(f, loop.handle)
      <4>1. CASE LadderRemoves \/ HarvestTearsDown
        BY <1>0, <4>1 DEF LadderRemoves, HarvestTearsDown
      <4>2. CASE HarvestMerges
        <5>1. PICK w \in NewWorktrees(loop.handle, loop.listed) \ {Main} :
                Removes([sess EXCEPT ![w].work = "merged"], loop.handle)
          BY <4>2 DEF HarvestMerges
        <5>2. w \in Sessions
          BY <1>0, <5>1, LoopFields DEF NewWorktrees, Worktrees
        <5>3. [sess EXCEPT ![w].work = "merged"] \in [Sessions -> Session]
          BY <1>0, <5>2 DEF Session
        <5>4. QED
          BY <5>1, <5>3
      <4>3. QED
        BY <2>7, <4>1, <4>2
    <3>3. snap' = snap \/ snap' = Forgotten(loop.handle)
      BY <2>7 DEF LadderRemoves, HarvestTearsDown, HarvestMerges
    <3>4. sess' = Removed(f, loop.handle) \/ sess' = f
      BY <3>2, RemovesEither
    <3>5. QED
      BY <1>0, <3>1, <3>3, <3>4, SessionTypes, ForgottenType
  <2>8. CASE UNCHANGED <<sess, snap>>
    BY <1>0, <2>8
  <2>9. QED
    BY <2>1, <2>2, <2>3, <2>4, <2>5, <2>6, <2>7, <2>8
    DEF LoopStep, MainStep, SweepFinds, Preflight, PreflightFails, HeadLowMemory,
        HeadNoEpic, HeadTakesEpic, WatchEnds, LadderOver, LadderLooks, HarvestLooks,
        HarvestNothing, HarvestFails, Retry, EpicFailed, EpicSkipped, EpicCompleted,
        ReviewPeriodic, ReviewBlocks, Post, Exit
<1>3. QED
  BY <1>0, <1>1, <1>2, <1>t, LeftShapes DEF Shapes, TypeOK

\* Every step keeps every type.
LEMMA TypeKept ==
  ASSUME IInv, [Next]_vars
  PROVE  TypeOK'
<1>0. TypeOK /\ \A s \in Sessions : SessionOK(s)
  BY DEF IInv
<1>1. Shapes'
  <2>1. CASE LoopStep
    BY <2>1, LoopStepShapes
  <2>2. ASSUME NEW s \in Sessions, SessionStep(s)
        PROVE  Shapes'
    BY <1>0, <2>2, SessionStepShapes
  <2>3. CASE Kill
    BY <1>0, <2>3 DEF Kill, Shapes, TypeOK
  <2>4. CASE Restart
    <3>1. left' = [left EXCEPT !.runs = left.runs - 1] /\ left.runs > 0
      BY <2>4 DEF Restart
    <3>2. left' \in [pressure : Nat, faults : Nat, runs : Nat]
      BY <1>0, <3>1, LeftShapes
    <3>3. sess \in [Sessions -> Session]
      BY <1>0 DEF TypeOK
    <3>4. \A s \in Sessions : [sess[s] EXCEPT !.astray = @ \/ Alive(s)] \in Session
      BY <3>3 DEF Session, Alive
    <3>5. sess' \in [Sessions -> Session]
      BY <2>4, <3>4 DEF Restart
    <3>6. QED
      BY <1>0, <2>4, <3>2, <3>5 DEF Restart, Shapes, TypeOK
  <2>5. CASE UNCHANGED vars
    BY <1>0, <2>5 DEF vars, Shapes, TypeOK
  <2>6. QED
    BY <2>1, <2>2, <2>3, <2>4, <2>5 DEF Next
<1>2. LoopOK'
  BY LoopKeeps
<1>3. QED
  BY <1>1, <1>2 DEF Shapes, LoopOK, TypeOK

-----------------------------------------------------------------------------
(* The sessions and their worktrees.                                         *)

\* The part of the invariant about the sessions.
SessionsOK ==
  /\ HandleOK
  /\ \A s \in Sessions : SessionOK(s) /\ WorktreeOK(s)

\* The worktree of session s is listed when f describes the sessions.
Listed(f, s) == f[s].work # "none" /\ f[s].state # "gone"

\* From the sessions and the snapshots there are to f and g, session s does
\* nothing that the invariant has to be shown for again: it is not born and not
\* revived, keeps its epic, and makes a new worktree only where nobody looks, or
\* when it is the session that is watched.
Calm(f, g, s) ==
  /\ f[s].epic = sess[s].epic
  /\ f[s].state = "unborn" <=> sess[s].state = "unborn"
  /\ f[s].state \in {"starting", "running", "hung"} => Alive(s)
  /\ sess[s].astray => f[s].astray
  /\ f[s].state = "unborn" => f[s].work = "none"
  /\ Listed(f, s) => \/ Listed(sess, s)
                     \/ f[s].astray
                     \/ s = loop.handle
                     \/ loop.pc \notin Watching
  /\ g[s] = snap[s] \/ g[s] = {}

\* What git worktree list prints of a session.
LEMMA ListingIs ==
  \A s \in Sessions : s \in Listing <=> Listed(sess, s)
BY SessionNumbers DEF Listing, Listed

\* A step that is calm for every session preserves the invariant, if the loop
\* goes on watching the same session or watches none, if it leaves the watch
\* only of a session that has ended or was told to stop, and if what it has
\* listed for the harvest is still there.
LEMMA CalmStep ==
  ASSUME IInv, TypeOK',
         \A s \in Sessions : Calm(sess', snap', s),
         \/ loop' = loop
         \/ loop'.pc \notin Watching
         \/ /\ loop'.pc \in Watching \ {"snapshot"}
            /\ loop.pc \in Watching \ {"snapshot"}
            /\ loop'.handle = loop.handle,
         Gone => Gone',
         loop.pc \in {"snapshot", "watch"}
           => \/ loop' = loop
              \/ Gone'
              \/ sess'[loop.handle].astray
              \/ sess'[loop.handle].state \notin {"starting", "running", "hung"},
         loop'.pc = "reap" => \A s \in Sessions : s \in loop'.listed => s \in Listing'
  PROVE  SessionsOK'
<1>0. \A s \in Sessions : SessionOK(s) /\ WorktreeOK(s)
  BY DEF IInv
<1>1. ASSUME NEW s \in Sessions
      PROVE  SessionOK(s)'
  <2>0. Calm(sess', snap', s) /\ SessionOK(s)
    BY <1>0
  <2>1. /\ (sess[s].state = "unborn")' => (sess[s].work = "none" /\ snap[s] = {})'
        /\ (sess[s].state # "unborn")' => (sess[s].epic \in Epics)'
    BY <2>0 DEF Calm, SessionOK
  <2>2. ASSUME NEW t \in Sessions, s < t, sess'[t].state # "unborn"
        PROVE  (sess[s].state # "unborn" /\ (Alive(s) => sess[s].astray))'
    BY <2>0, <2>2 DEF Calm, SessionOK, Alive
  <2>3. ASSUME ~ Gone', Alive(s)', ~ sess'[s].astray
        PROVE  s = loop'.handle /\ loop'.pc \in {"snapshot", "watch"}
    <3>1. s = loop.handle /\ loop.pc \in {"snapshot", "watch"}
      BY <2>0, <2>3 DEF Calm, SessionOK, Alive
    <3>2. sess'[s].state \in {"starting", "running", "hung"}
      BY <2>3 DEF Alive
    <3>3. loop' = loop
      BY <2>3, <3>1, <3>2
    <3>4. QED
      BY <3>1, <3>3
  <2>4. QED
    BY <2>1, <2>2, <2>3 DEF SessionOK
<1>2. ASSUME NEW s \in Sessions
      PROVE  WorktreeOK(s)'
  <2>0. Calm(sess', snap', s) /\ WorktreeOK(s)
    BY <1>0
  <2>1. s \notin snap'[s]
    BY <2>0 DEF Calm, WorktreeOK
  <2>l. s \in Listing' <=> Listed(sess', s)
    BY SessionNumbers DEF Listing, Listed
  <2>m. s \in Listing <=> Listed(sess, s)
    BY ListingIs
  <2>2. ASSUME loop'.pc = "snapshot"
        PROVE  IF s = loop'.handle THEN s \notin loop'.listed /\ snap'[s] = {}
               ELSE s \in Listing' /\ Main \in loop'.listed
                      => s \in loop'.listed \/ sess'[s].astray
    <3>1. loop' = loop /\ loop.pc \in Watching
      BY <2>2 DEF Watching
    <3>2. QED
      BY <2>0, <2>2, <2>l, <2>m, <3>1 DEF Calm, WorktreeOK
  <2>3. ASSUME loop'.pc \in Watching \ {"snapshot"}, (Main \in snap[loop.handle])'
        PROVE  (\/ s = loop.handle
                \/ s \notin NewWorktrees(loop.handle, Listing)
                \/ sess[s].astray)'
    <3>1. loop.pc \in Watching \ {"snapshot"} /\ loop'.handle = loop.handle
      BY <2>3
    <3>2. loop.handle \in Sessions
      BY <3>1 DEF IInv, HandleOK
    <3>3. Main \in snap'[loop.handle]
      BY <2>3, <3>1
    <3>4. snap'[loop.handle] = snap[loop.handle]
      BY <3>2, <3>3 DEF Calm
    <3>5. s = loop.handle \/ s \notin Listing \/ s \in snap[loop.handle] \/ sess[s].astray
      BY <2>0, <3>1, <3>3, <3>4 DEF WorktreeOK, NewWorktrees
    <3>6. s = loop.handle \/ s \notin Listing' \/ s \in snap'[loop.handle] \/ sess'[s].astray
      BY <2>0, <2>l, <2>m, <3>1, <3>4, <3>5 DEF Calm
    <3>7. QED
      BY <3>1, <3>6 DEF NewWorktrees
  <2>4. QED
    BY <2>1, <2>2, <2>3 DEF WorktreeOK
<1>3. HandleOK'
  <2>1. SUFFICES ASSUME loop'.pc \in Watching
                 PROVE  loop'.handle \in Sessions /\ sess'[loop'.handle].state # "unborn"
    BY DEF HandleOK
  <2>2. loop'.handle = loop.handle /\ loop.pc \in Watching
    BY <2>1
  <2>3. loop.handle \in Sessions /\ sess[loop.handle].state # "unborn"
    BY <2>2 DEF IInv, HandleOK
  <2>4. QED
    BY <2>2, <2>3 DEF Calm
<1>4. QED
  BY <1>1, <1>2, <1>3 DEF SessionsOK

\* Sessions and snapshots that stay are calm.
LEMMA CalmUnchanged ==
  ASSUME IInv, NEW s \in Sessions
  PROVE  Calm(sess, snap, s)
BY DEF IInv, SessionOK, WorktreeOK, Calm, Alive

\* So are those where a session ends or prints something, or goes astray.
LEMMA CalmStops ==
  ASSUME IInv, NEW s \in Sessions, NEW h \in Sessions, NEW m \in Markers,
         sess[h].state # "unborn", sess[h].state = "gone" => h = loop.handle
  PROVE  /\ Calm(Stopped(h, m), snap, s)
         /\ Calm(Strayed(sess, h), snap, s)
         /\ Calm(Strayed(Stopped(h, m), h), snap, s)
<1>1. Calm(sess, snap, s) /\ sess \in [Sessions -> Session]
  BY CalmUnchanged DEF IInv, TypeOK
<1>2. sess[s] \in Session /\ (s # h => Stopped(h, m)[s] = sess[s])
  BY <1>1 DEF Stopped
<1>3. s = h => Stopped(h, m)[s] = [sess[s] EXCEPT !.state = "ended", !.text = m]
  BY <1>1 DEF Stopped
<1>4. Calm(Stopped(h, m), snap, s)
  <2>1. CASE s # h
    BY <1>1, <1>2, <2>1 DEF Calm, Listed
  <2>2. CASE s = h
    <3>1. /\ Stopped(h, m)[s].state = "ended"
          /\ Stopped(h, m)[s].epic = sess[s].epic
          /\ Stopped(h, m)[s].work = sess[s].work
          /\ sess[s].astray => Stopped(h, m)[s].astray
      BY <1>2, <1>3, <2>2 DEF Session
    <3>2. QED
      BY <1>1, <2>2, <3>1 DEF Calm, Listed
  <2>3. QED
    BY <2>1, <2>2
<1>5. ASSUME NEW f \in [Sessions -> Session], Calm(f, snap, s)
      PROVE  Calm(Strayed(f, h), snap, s)
  <2>1. /\ Strayed(f, h)[s].state = f[s].state
        /\ Strayed(f, h)[s].epic = f[s].epic
        /\ Strayed(f, h)[s].work = f[s].work
        /\ f[s].astray => Strayed(f, h)[s].astray
    BY <1>5 DEF Strayed, Session
  <2>2. QED
    BY <1>5, <2>1 DEF Calm, Listed
<1>6. Stopped(h, m) \in [Sessions -> Session]
  BY StoppedType DEF IInv
<1>7. QED
  BY <1>1, <1>4, <1>5, <1>6

\* And those where a session is removed.
LEMMA CalmRemoved ==
  ASSUME NEW f \in [Sessions -> Session], NEW g, NEW s \in Sessions, NEW t,
         Calm(f, snap, s),
         s = t => sess[s].state # "unborn",
         g[s] = snap[s] \/ g[s] = {}
  PROVE  Calm(Removed(f, t), g, s)
<1>1. CASE s = t
  <2>1. Removed(f, t)[s] = [f[s] EXCEPT !.state = "gone"]
    BY <1>1 DEF Removed
  <2>2. /\ Removed(f, t)[s].state = "gone"
        /\ Removed(f, t)[s].epic = f[s].epic
        /\ Removed(f, t)[s].work = f[s].work
        /\ Removed(f, t)[s].astray = f[s].astray
    BY <2>1 DEF Session
  <2>3. QED
    BY <1>1, <2>2 DEF Calm, Listed
<1>2. CASE s # t
  <2>1. Removed(f, t)[s] = f[s]
    BY <1>2 DEF Removed
  <2>2. QED
    BY <2>1 DEF Calm, Listed
<1>3. QED
  BY <1>1, <1>2

\* The same where claude rm may fail.
LEMMA CalmRemoves ==
  ASSUME NEW f \in [Sessions -> Session], NEW g, NEW s \in Sessions, NEW t,
         Removes(f, t),
         Calm(f, snap, s),
         s = t => sess[s].state # "unborn",
         g[s] = snap[s] \/ g[s] = {}
  PROVE  Calm(sess', g, s)
<1>1. CASE sess' = Removed(f, t)
  BY <1>1, CalmRemoved
<1>2. CASE sess' = f
  BY <1>2 DEF Calm, Listed
<1>3. QED
  BY <1>1, <1>2, RemovesEither

\* The check before a removal is enough for what it looks at: a session that
\* may be removed was born, and its worktree is not in the listing.
LEMMA RemovableIsNotListed ==
  ASSUME IInv, NEW s \in Sessions, NEW cur, Removable(s, cur)
  PROVE  s \notin cur /\ sess[s].state # "unborn"
<1>1. SessionOK(s) /\ WorktreeOK(s)
  BY DEF IInv
<1>2. s \notin cur
  BY <1>1 DEF Removable, NewWorktrees, WorktreeOK
<1>3. sess[s].state # "unborn"
  BY <1>1 DEF SessionOK, Removable, HasSnapshot
<1>4. QED
  BY <1>2, <1>3

\* A snapshot is kept as it is, or forgotten.
LEMMA ForgottenIs ==
  ASSUME NEW s \in Sessions, NEW t
  PROVE  Forgotten(t)[s] = snap[s] \/ Forgotten(t)[s] = {}
<1>1. CASE s = t
  BY <1>1 DEF Forgotten
<1>2. CASE s # t
  BY <1>2 DEF Forgotten
<1>3. QED
  BY <1>1, <1>2

\* The sweep takes nothing from a session that the script relies on.
LEMMA SweepKeeps ==
  ASSUME IInv, TypeOK', SweepFinds \/ SweepRemoves
  PROVE  SessionsOK'
<1>0. /\ loop \in LoopMemory
      /\ sess \in [Sessions -> Session]
      /\ snap \in [Sessions -> SUBSET Lines]
      /\ OrphanOK
  BY DEF IInv, TypeOK
<1>1. loop.pc \in {"head", "sweep", "decide"}
  BY <1>0 DEF SweepFinds, SweepRemoves, WillRetry, OrphanOK
<1>2. PICK s \in Sessions \cup {NoSession}, cur \in SUBSET Worktrees :
        loop' = [loop EXCEPT !.orphan = s, !.listed = cur]
  BY DEF SweepFinds, SweepRemoves, SweepCandidates
<1>3. loop'.pc = loop.pc /\ loop'.handle = loop.handle
  BY <1>0, <1>2, LoopSweepsTo
<1>4. \A s1 \in Sessions : Calm(sess', snap', s1)
  <2>1. CASE SweepFinds
    BY <2>1, CalmUnchanged DEF SweepFinds
  <2>2. CASE SweepRemoves
    <3>1. SUFFICES ASSUME NEW t \in Sessions PROVE Calm(sess', snap', t)
      OBVIOUS
    <3>2. sess[loop.orphan].state # "unborn"
      BY <1>0, <2>2 DEF SweepRemoves, OrphanOK
    <3>3. snap' = Forgotten(loop.orphan) /\ Removes(sess, loop.orphan)
      BY <2>2 DEF SweepRemoves
    <3>4. snap'[t] = snap[t] \/ snap'[t] = {}
      BY <3>3, ForgottenIs
    <3>5. QED
      BY <1>0, <3>2, <3>3, <3>4, CalmUnchanged, CalmRemoves
  <2>3. QED
    BY <2>1, <2>2
<1>5. ~ Gone /\ loop'.pc # "reap" /\ loop.pc \notin {"snapshot", "watch"}
  BY <1>1, <1>3 DEF Gone
<1>6. loop'.pc \notin Watching \/ loop.pc \in Watching \ {"snapshot"}
  BY <1>1, <1>3, StepsAre DEF Watching
<1>7. QED
  BY <1>3, <1>4, <1>5, <1>6, CalmStep

\* The steps of a session, which leave the loop where it is.
LEMMA CalmSession ==
  ASSUME IInv, NEW t \in Sessions, SessionStep(t), NEW s \in Sessions
  PROVE  Calm(sess', snap', s)
<1>1. /\ sess \in [Sessions -> Session]
      /\ SessionOK(t)
      /\ Calm(sess, snap, s)
      /\ snap' = snap
  BY CalmUnchanged
  DEF IInv, TypeOK, SessionStep, SessionWrites, SessionHangs, SessionBranches,
      SessionClaims, SessionStops, SessionEnds, SessionUnchanged
<1>2. CASE SessionWrites(t) \/ SessionHangs(t)
  <2>1. sess[t].state \in {"starting", "running"}
    BY <1>2 DEF SessionWrites, SessionHangs
  <2>2. PICK state \in {"running", "hung"}, m \in Markers :
          sess' = [sess EXCEPT ![t].state = state, ![t].text = m]
    <3>1. CASE SessionWrites(t)
      <4>1. sess' = [sess EXCEPT ![t].state = "running", ![t].text = sess[t].text]
        BY <1>1, <3>1 DEF SessionWrites, Session
      <4>2. sess[t].text \in Markers
        BY <1>1 DEF Session
      <4>3. QED
        BY <4>1, <4>2
    <3>2. CASE SessionHangs(t)
      BY <3>2 DEF SessionHangs, Markers
    <3>3. QED
      BY <1>2, <3>1, <3>2
  <2>3. s # t => sess'[s] = sess[s]
    BY <1>1, <2>2
  <2>4. s = t => /\ sess'[s].state = state
                 /\ sess'[s].epic = sess[s].epic
                 /\ sess'[s].work = sess[s].work
                 /\ sess[s].astray => sess'[s].astray
    BY <1>1, <2>2 DEF Session
  <2>5. QED
    BY <1>1, <2>1, <2>3, <2>4 DEF Calm, Listed, Alive
<1>3. CASE SessionBranches(t)
  <2>1. /\ sess[t].state \in {"running", "hung"}
        /\ sess' = [sess EXCEPT ![t].work = "work"]
    BY <1>3 DEF SessionBranches
  <2>2. s # t => sess'[s] = sess[s]
    BY <1>1, <2>1
  <2>3. s = t => /\ sess'[s].state = sess[s].state
                 /\ sess'[s].epic = sess[s].epic
                 /\ sess[s].astray => sess'[s].astray
    BY <1>1, <2>1 DEF Session
  <2>4. \/ sess[t].astray
        \/ t = loop.handle
        \/ loop.pc \notin Watching
    <3>1. Gone => loop.pc \notin Watching
      BY StepsAre DEF Gone
    <3>2. QED
      BY <1>1, <2>1, <3>1 DEF SessionOK, Alive
  <2>5. QED
    BY <1>1, <2>1, <2>2, <2>3, <2>4 DEF Calm, Listed
<1>4. CASE SessionClaims(t)
  BY <1>1, <1>4 DEF SessionClaims
<1>5. CASE SessionEnds(t)
  <2>1. sess[t].state # "unborn" /\ sess[t].state # "gone"
    BY <1>5 DEF SessionEnds
  <2>2. PICK m \in Markers : sess' = Stopped(t, m)
    BY <1>5 DEF SessionEnds, Markers
  <2>3. QED
    BY <1>1, <2>1, <2>2, CalmStops
<1>6. QED
  BY <1>2, <1>3, <1>4, <1>5 DEF SessionStep, SessionStops

\* A worktree that is listed stays, whatever a session does by itself.
LEMMA ListingStays ==
  ASSUME IInv, NEW t \in Sessions, SessionStep(t), NEW s \in Sessions, s \in Listing
  PROVE  s \in Listing'
<1>1. /\ sess \in [Sessions -> Session]
      /\ Listed(sess, s)
  BY ListingIs DEF IInv, TypeOK
<1>2. Listed(sess', s)
  <2>1. CASE s # t
    BY <1>1, <2>1
    DEF SessionStep, SessionWrites, SessionHangs, SessionBranches, SessionClaims,
        SessionStops, SessionEnds, Stopped, Listed
  <2>2. CASE s = t
    <3>1. CASE SessionWrites(t) \/ SessionBranches(t) \/ SessionClaims(t)
      BY <1>1, <2>2, <3>1 DEF SessionWrites, SessionBranches, SessionClaims, Session, Listed
    <3>2. CASE SessionHangs(t)
      <4>1. PICK m : sess' = [sess EXCEPT ![t].state = "hung", ![t].text = m]
        BY <3>2 DEF SessionHangs
      <4>2. sess'[s].work = sess[s].work /\ sess'[s].state = "hung"
        BY <1>1, <2>2, <4>1 DEF Session
      <4>3. QED
        BY <1>1, <4>2 DEF Listed
    <3>3. CASE SessionEnds(t)
      <4>1. PICK m : sess' = [sess EXCEPT ![t].state = "ended", ![t].text = m]
        BY <3>3 DEF SessionEnds, Stopped
      <4>2. sess'[s].work = sess[s].work /\ sess'[s].state = "ended"
        BY <1>1, <2>2, <4>1 DEF Session
      <4>3. QED
        BY <1>1, <4>2 DEF Listed
    <3>4. QED
      BY <3>1, <3>2, <3>3 DEF SessionStep, SessionStops
  <2>3. QED
    BY <2>1, <2>2
<1>3. QED
  BY <1>2 DEF Listing, Listed

\* What a session does by itself keeps what the script relies on.
LEMMA SessionsKeep ==
  ASSUME IInv, TypeOK', NEW t \in Sessions, SessionStep(t)
  PROVE  SessionsOK'
<1>1. \A s \in Sessions : Calm(sess', snap', s)
  BY CalmSession
<1>2. loop' = loop
  BY DEF SessionStep, SessionWrites, SessionHangs, SessionBranches,
         SessionClaims, SessionStops, SessionEnds, SessionUnchanged
<1>3. Gone => Gone'
  BY <1>2 DEF Gone
<1>4. ASSUME loop'.pc = "reap", NEW s \in Sessions, s \in loop'.listed
      PROVE  s \in Listing'
  BY <1>2, <1>4, ListingStays DEF IInv, WorktreeOK
<1>5. QED
  BY <1>1, <1>2, <1>3, <1>4, CalmStep

\* The steps of a loop that watches no session.
LEMMA IdleLoopKeeps ==
  ASSUME IInv, TypeOK',
         \/ Preflight \/ PreflightFails
         \/ HeadLowMemory \/ HeadNoEpic \/ HeadTakesEpic
         \/ Retry \/ EpicFailed \/ EpicSkipped \/ EpicCompleted
         \/ ReviewPeriodic \/ ReviewBlocks \/ Post \/ Exit \/ Kill
  PROVE  SessionsOK'
<1>1. \A s \in Sessions : Calm(sess', snap', s)
  <2>1. sess' = sess /\ snap' = snap
    BY DEF Preflight, PreflightFails, HeadLowMemory, HeadNoEpic, HeadTakesEpic, Retry,
           EpicFailed, EpicSkipped, EpicCompleted, ReviewPeriodic, ReviewBlocks, Post,
           Exit, Kill
  <2>2. QED
    BY <2>1, CalmUnchanged
<1>2. loop'.pc \in {"head", "exit", "post", "attempt", "review", "exited", "killed"}
  <2>0. loop \in LoopMemory
    BY DEF IInv, TypeOK
  <2>1. CASE Preflight \/ PreflightFails
    BY <2>0, <2>1 DEF Preflight, PreflightFails, LoopMemory
  <2>2. CASE HeadLowMemory \/ HeadNoEpic
    BY <2>0, <2>2 DEF HeadLowMemory, HeadNoEpic, LoopMemory
  <2>3. CASE HeadTakesEpic \/ Retry
    BY <2>0, <2>3 DEF HeadTakesEpic, Retry, LoopMemory
  <2>4. CASE EpicFailed \/ EpicSkipped
    BY <2>0, <2>4 DEF EpicFailed, EpicSkipped, Processed, LoopMemory
  <2>5. CASE EpicCompleted
    BY <2>0, <2>5 DEF EpicCompleted, Processed, LoopMemory
  <2>6. CASE ReviewPeriodic \/ ReviewBlocks
    BY <2>0, <2>6 DEF ReviewPeriodic, ReviewBlocks, Processed, Reviewed, LoopMemory
  <2>7. CASE Post
    BY <2>0, <2>7 DEF Post, Reviewed, LoopMemory
  <2>8. CASE Exit \/ Kill
    BY <2>8 DEF Exit, Kill, Gravestone, NewLoop
  <2>9. QED
    BY <2>1, <2>2, <2>3, <2>4, <2>5, <2>6, <2>7, <2>8
<1>3. loop'.pc \notin Watching /\ loop'.pc # "reap"
  BY <1>2, StepsAre
<1>4. Gone' \/ (~ Gone /\ loop.pc \notin {"snapshot", "watch"})
  <2>1. CASE Kill
    BY <2>1 DEF Kill, Gone, Gravestone, NewLoop
  <2>2. CASE ~ Kill
    <3>1. loop.pc \in {"boot", "head", "decide", "review", "post", "exit"}
      BY <2>2 DEF Preflight, PreflightFails, HeadLowMemory, HeadNoEpic, HeadTakesEpic,
                  Retry, WillRetry, EpicFailed, EpicSkipped, EpicCompleted,
                  ReviewPeriodic, ReviewBlocks, Post, Exit
    <3>2. QED
      BY <3>1 DEF Gone
  <2>3. QED
    BY <2>1, <2>2
<1>5. QED
  BY <1>1, <1>3, <1>4, CalmStep


\* New worktrees can be counted.
LEMMA NewWorktreesCount ==
  ASSUME NEW s, NEW cur \in SUBSET Worktrees
  PROVE  /\ IsFiniteSet(NewWorktrees(s, cur))
         /\ Cardinality(NewWorktrees(s, cur)) \in Nat
         /\ Cardinality(NewWorktrees(s, cur)) = 0 <=> NewWorktrees(s, cur) = {}
<1> DEFINE new == NewWorktrees(s, cur)
<1>1. IsFiniteSet(Sessions \cup {Main})
  BY SessionsAssumption, FS_AddElement
<1>2. new \in SUBSET (Sessions \cup {Main})
  BY DEF NewWorktrees, Worktrees
<1> HIDE DEF new
<1>3. IsFiniteSet(new)
  BY <1>1, <1>2, FS_Subset
<1>4. Cardinality(new) \in Nat /\ (Cardinality(new) = 0 <=> new = {})
  BY <1>3, FS_CardinalityType, FS_EmptySet
<1>5. QED
  BY <1>3, <1>4 DEF new

\* A merge takes the only worktree of the listing that is not in the snapshot;
\* the main checkout is in both.
LEMMA MergesOne ==
  ASSUME IInv, HarvestMerges
  PROVE  \E w \in Sessions :
           /\ w \in NewWorktrees(loop.handle, loop.listed)
           /\ Removes([sess EXCEPT ![w].work = "merged"], loop.handle)
           /\ \A v \in NewWorktrees(loop.handle, loop.listed) : v = w
           /\ Main \in snap[loop.handle]
           /\ MayMerge(loop.marker)
<1> DEFINE h == loop.handle
           new == NewWorktrees(h, loop.listed)
<1>0. loop.listed \in SUBSET Worktrees /\ ListedOK
  BY LoopFields DEF IInv, TypeOK
<1>1. PICK w \in new \ {Main} : Removes([sess EXCEPT ![w].work = "merged"], h)
  BY DEF HarvestMerges
<1>2. Outcome(h, loop.marker, loop.listed) = "merge"
  BY DEF HarvestMerges, Decided
<1>3. Cardinality(new) = 1 /\ MayMerge(loop.marker)
  <2>1. new # {} /\ Cardinality(new) \in Nat \ {0}
    BY <1>0, <1>1, NewWorktreesCount
  <2>2. ~ (Cardinality(new) > 1)
    BY <1>2, <2>1 DEF Outcome
  <2>3. Cardinality(new) = 1
    BY <2>1, <2>2
  <2>4. QED
    BY <1>2, <2>1, <2>3 DEF Outcome
<1>4. \A v \in new : v = w
  <2>1. IsFiniteSet(new)
    BY <1>0, NewWorktreesCount
  <2> HIDE DEF new
  <2>2. PICK x : new = {x}
    BY <1>3, <2>1, FS_Singleton
  <2>3. QED
    BY <1>1, <2>2
<1>5. Main \in snap[h]
  <2>1. w \in loop.listed /\ w # Main
    BY <1>1 DEF NewWorktrees
  <2>2. Main \in loop.listed
    BY <1>0, <2>1 DEF ListedOK
  <2>3. QED
    BY <1>4, <2>1, <2>2 DEF NewWorktrees
<1>6. w \in Sessions /\ w \in new
  BY <1>0, <1>1 DEF NewWorktrees, Worktrees
<1> HIDE DEF new
<1>7. QED
  BY <1>1, <1>3, <1>4, <1>5, <1>6 DEF new

\* The steps of a loop that watches a session and goes on watching it.
LEMMA WatchingKeeps ==
  ASSUME IInv, TypeOK',
         \/ WatchEnds \/ LadderStop \/ LadderOver \/ LadderLooks \/ LadderRemoves
         \/ LadderKeeps \/ WatchdogKills \/ Collect \/ HarvestLooks
  PROVE  SessionsOK'
<1> DEFINE h == loop.handle
<1>0. /\ loop.pc \in {"watch", "ladder", "stage2", "sweep", "collect", "harvest"}
      /\ loop'.pc \in {"ladder", "stage2", "sweep", "collect", "harvest", "reap", "decide"}
      /\ loop'.handle = h
      /\ loop.pc = "watch" => WatchEnds \/ LadderStop \/ WatchdogKills
      /\ loop'.pc = "reap" => HarvestLooks
  <2>0. loop \in LoopMemory
    BY DEF IInv, TypeOK
  <2>1. CASE WatchEnds \/ LadderStop \/ WatchdogKills
    BY <2>0, <2>1 DEF WatchEnds, LadderStop, WatchdogKills, LoopMemory
  <2>2. CASE LadderOver \/ LadderLooks
    BY <2>0, <2>2 DEF LadderOver, LadderLooks, LoopMemory
  <2>3. CASE LadderRemoves \/ LadderKeeps
    BY <2>0, <2>3 DEF LadderRemoves, LadderKeeps, LoopMemory
  <2>4. CASE Collect
    BY <2>0, <2>4 DEF Collect, LoopMemory
  <2>5. CASE HarvestLooks
    BY <2>0, <2>5 DEF HarvestLooks, LoopMemory
  <2>6. QED
    BY <2>1, <2>2, <2>3, <2>4, <2>5
<1>1. /\ h \in Sessions
      /\ sess[h].state # "unborn"
      /\ sess \in [Sessions -> Session]
      /\ sess[h].text \in Markers
      /\ "none" \in Markers
  BY <1>0 DEF IInv, HandleOK, Watching, TypeOK, Session, Markers
<1>2. \A s \in Sessions : Calm(sess', snap', s)
  <2>0. SUFFICES ASSUME NEW s \in Sessions PROVE Calm(sess', snap', s)
    OBVIOUS
  <2>1. CASE WatchEnds \/ LadderOver \/ LadderLooks \/ HarvestLooks
    BY <2>1, CalmUnchanged DEF WatchEnds, LadderOver, LadderLooks, HarvestLooks
  <2>2. CASE LadderStop \/ WatchdogKills
    <3>1. snap' = snap
      BY <2>2 DEF LadderStop, WatchdogKills
    <3>2. PICK m \in Markers : \/ sess' = Strayed(sess, h)
                               \/ sess' = Strayed(Stopped(h, m), h)
      BY <1>1, <2>2 DEF LadderStop, WatchdogKills
    <3>3. QED
      BY <1>1, <3>1, <3>2, CalmStops
  <2>3. CASE LadderRemoves
    <3>1. Removes(sess, h) /\ snap' = Forgotten(h)
      BY <2>3 DEF LadderRemoves
    <3>2. snap'[s] = snap[s] \/ snap'[s] = {}
      BY <3>1, ForgottenIs
    <3>3. QED
      BY <1>1, <3>1, <3>2, CalmUnchanged, CalmRemoves
  <2>4. CASE LadderKeeps
    <3>1. (sess' = sess \/ sess' = Stopped(h, "none")) /\ snap' = snap
      BY <2>4 DEF LadderKeeps
    <3>2. QED
      BY <1>1, <3>1, CalmUnchanged, CalmStops
  <2>5. CASE Collect
    <3>1. sess' = [sess EXCEPT ![h].text = "none"] /\ snap' = snap
      BY <2>5 DEF Collect
    <3>2. /\ sess'[s].state = sess[s].state
          /\ sess'[s].epic = sess[s].epic
          /\ sess'[s].work = sess[s].work
          /\ sess[s].astray => sess'[s].astray
      BY <1>1, <3>1 DEF Session
    <3>3. QED
      BY <3>1, <3>2, CalmUnchanged DEF Calm, Listed
  <2>6. QED
    BY <2>1, <2>2, <2>3, <2>4, <2>5
<1>3. /\ loop.pc \in Watching \ {"snapshot"}
      /\ loop'.pc \in Watching \ {"snapshot"} \/ loop'.pc \notin Watching
      /\ ~ Gone
  BY <1>0, StepsAre DEF Watching, Gone
<1>4. loop.pc \in {"snapshot", "watch"}
        => \/ sess'[h].astray
           \/ sess'[h].state \notin {"starting", "running", "hung"}
  <2>1. CASE WatchEnds
    BY <1>1, <2>1 DEF WatchEnds, SessionOver
  <2>2. CASE LadderStop \/ WatchdogKills
    <3>1. PICK f \in [Sessions -> Session] : sess' = Strayed(f, h)
      BY <1>1, <2>2, StoppedType DEF LadderStop, WatchdogKills, IInv
    <3>2. sess'[h].astray
      BY <1>1, <3>1 DEF Strayed, Session
    <3>3. QED
      BY <3>2
  <2>3. QED
    BY <1>0, <2>1, <2>2
<1>5. ASSUME loop'.pc = "reap", NEW s \in Sessions, s \in loop'.listed
      PROVE  s \in Listing'
  <2>1. PICK cur \in SUBSET Worktrees :
          /\ Lists(cur)
          /\ loop' = [loop EXCEPT !.pc = "reap", !.listed = cur]
    BY <1>0, <1>5 DEF HarvestLooks
  <2>2. loop'.listed = cur
    BY <2>1 DEF IInv, TypeOK, LoopMemory
  <2>3. s \in Listing
    BY <1>5, <2>1, <2>2, ListsEither
  <2>4. sess' = sess
    BY <1>0, <1>5 DEF HarvestLooks
  <2>5. QED
    BY <2>3, <2>4 DEF Listing
<1>6. QED
  BY <1>0, <1>2, <1>3, <1>4, <1>5, CalmStep

\* The steps that end the watch: the harvest.
LEMMA HarvestKeeps ==
  ASSUME IInv, TypeOK',
         HarvestNothing \/ HarvestTearsDown \/ HarvestMerges \/ HarvestFails
  PROVE  SessionsOK'
<1> DEFINE h == loop.handle
<1>0. loop.pc = "reap" /\ loop'.pc = "decide"
  BY DEF HarvestNothing, HarvestTearsDown, HarvestMerges, HarvestFails, Decided,
         IInv, TypeOK, LoopMemory
<1>1. /\ h \in Sessions
      /\ sess[h].state # "unborn"
      /\ sess \in [Sessions -> Session]
  BY <1>0 DEF IInv, HandleOK, Watching, TypeOK
<1>2. \A s \in Sessions : Calm(sess', snap', s)
  <2>0. SUFFICES ASSUME NEW s \in Sessions PROVE Calm(sess', snap', s)
    OBVIOUS
  <2>1. CASE HarvestNothing \/ HarvestFails
    BY <2>1, CalmUnchanged DEF HarvestNothing, HarvestFails
  <2>2. CASE HarvestTearsDown
    <3>1. Removes(sess, h) /\ snap' = snap
      BY <2>2 DEF HarvestTearsDown
    <3>2. QED
      BY <1>1, <3>1, CalmUnchanged, CalmRemoves
  <2>3. CASE HarvestMerges
    <3>1. PICK w \in Sessions :
            /\ w \in NewWorktrees(h, loop.listed)
            /\ Removes([sess EXCEPT ![w].work = "merged"], h)
      BY <2>3, MergesOne
    <3> DEFINE f == [sess EXCEPT ![w].work = "merged"]
    <3>2. Listed(sess, w) /\ sess[w].state # "unborn"
      <4>1. w \in Listing
        BY <1>0, <3>1 DEF NewWorktrees, IInv, WorktreeOK
      <4>2. QED
        BY <3>1, <4>1, ListingIs DEF Listed, IInv, SessionOK
    <3>3. f \in [Sessions -> Session]
      BY <1>1 DEF Session
    <3>4. /\ f[s].state = sess[s].state
          /\ f[s].epic = sess[s].epic
          /\ f[s].work = IF s = w THEN "merged" ELSE sess[s].work
          /\ sess[s].astray => f[s].astray
      BY <1>1 DEF Session
    <3>5. Calm(f, snap, s)
      <4> HIDE DEF f
      <4>1. QED
        BY <3>2, <3>4, CalmUnchanged DEF Calm, Listed
    <3>6. snap' = Forgotten(h) /\ (snap'[s] = snap[s] \/ snap'[s] = {})
      BY <2>3, ForgottenIs DEF HarvestMerges
    <3> HIDE DEF f
    <3>7. QED
      BY <1>1, <3>1, <3>3, <3>5, <3>6, CalmRemoves DEF f
  <2>4. QED
    BY <2>1, <2>2, <2>3
<1>3. loop'.pc \notin Watching /\ loop'.pc # "reap" /\ ~ Gone
  BY <1>0, StepsAre DEF Gone
<1>4. QED
  BY <1>0, <1>2, <1>3, CalmStep


\* The listing that is stored is the one made before the dispatch.
LEMMA WriteSnapshotKeeps ==
  ASSUME IInv, TypeOK', WriteSnapshot
  PROVE  SessionsOK'
<1> DEFINE h == loop.handle
<1>0. /\ loop.pc = "snapshot"
      /\ \/ snap' = [snap EXCEPT ![h] = Stored(loop.listed)]
         \/ snap' = snap
      /\ loop'.pc = "watch"
      /\ loop'.handle = h
      /\ sess' = sess
  BY DEF WriteSnapshot, IInv, TypeOK, LoopMemory
<1>1. /\ h \in Sessions
      /\ sess[h].state # "unborn"
      /\ snap \in [Sessions -> SUBSET Lines]
      /\ HandleOK
      /\ \A s \in Sessions : SessionOK(s) /\ WorktreeOK(s)
  BY <1>0 DEF IInv, HandleOK, Watching, TypeOK
<1>2. \A s \in Sessions : s # h => snap'[s] = snap[s]
  BY <1>0, <1>1
<1>m. \A t \in Worktrees : t \in Stored(loop.listed) => t \in loop.listed
  BY SessionNumbers DEF Stored, EmptyLine, Worktrees, Main
<1>n. \A t \in Worktrees : t \in loop.listed => t \in Stored(loop.listed)
  BY DEF Stored
<1>3. Listing' = Listing
  BY <1>0 DEF Listing
<1>4. ASSUME NEW s \in Sessions
      PROVE  SessionOK(s)'
  <2>1. sess[s].state = "unborn" => snap'[s] = {} /\ sess[s].work = "none"
    BY <1>1, <1>2 DEF SessionOK
  <2>2. ~ Gone
    BY <1>0 DEF Gone
  <2>3. Alive(s) /\ ~ sess[s].astray => s = h
    BY <1>1, <2>2 DEF SessionOK
  <2>4. QED
    BY <1>0, <1>1, <2>1, <2>3 DEF SessionOK, Alive
<1>5. ASSUME NEW s \in Sessions
      PROVE  WorktreeOK(s)'
  <2>1. IF s = h THEN s \notin loop.listed /\ snap[s] = {}
        ELSE s \in Listing /\ Main \in loop.listed
               => s \in loop.listed \/ sess[s].astray
    BY <1>0, <1>1 DEF WorktreeOK
  <2>2. s \notin snap'[s]
    <3>1. CASE s = h /\ snap' # snap
      BY <1>0, <1>1, <1>m, <2>1, <3>1 DEF Worktrees
    <3>2. CASE s # h \/ snap' = snap
      BY <1>1, <1>2, <3>2 DEF WorktreeOK
    <3>3. QED
      BY <3>1, <3>2
  <2>3. ASSUME Main \in snap'[h]
        PROVE  s = h \/ s \notin Listing' \ snap'[h] \/ sess'[s].astray
    <3>1. CASE snap' = [snap EXCEPT ![h] = Stored(loop.listed)]
      <4>1. snap'[h] = Stored(loop.listed)
        BY <1>1, <3>1
      <4>2. Main \in loop.listed
        BY <1>m, <2>3, <4>1 DEF Worktrees
      <4>3. QED
        BY <1>0, <1>3, <1>n, <2>1, <4>1, <4>2 DEF Worktrees
    <3>2. CASE snap' = snap
      BY <1>0, <1>1, <2>3, <3>2 DEF WorktreeOK
    <3>3. QED
      BY <1>0, <3>1, <3>2
  <2>4. QED
    BY <1>0, <2>2, <2>3 DEF WorktreeOK, NewWorktrees
<1>6. HandleOK'
  BY <1>0, <1>1 DEF HandleOK
<1>7. QED
  BY <1>4, <1>5, <1>6 DEF SessionsOK

\* A session is born: the next one in order, of which nothing is known.
LEMMA BornKeeps ==
  ASSUME IInv, TypeOK', loop.pc = "attempt",
         \E s \in Sessions : sess[s].state = "unborn",
         \/ Dispatch
         \/ DispatchUnreadable /\ sess' = [Born(Fresh) EXCEPT ![Fresh].astray = TRUE]
  PROVE  SessionsOK'
<1> DEFINE h == Fresh
<1>0. /\ TypeOK
      /\ sess \in [Sessions -> Session]
      /\ \A s \in Sessions : SessionOK(s) /\ WorktreeOK(s)
      /\ loop.epic \in Epics
      /\ ~ Gone
  BY StepsAre DEF IInv, TypeOK, EpicOK, Gone
<1>1. /\ h \in Sessions
      /\ sess[h].state = "unborn"
      /\ \A t \in Sessions : t < h => sess[t].state # "unborn"
      /\ \A t \in Sessions : h < t => sess[t].state = "unborn"
  BY <1>0, FreshIsLeast
<1>2. /\ snap' = snap
      /\ loop'.pc \in {"snapshot", "watch", "exit"}
      /\ loop'.pc # "exit" => loop'.handle = h
      /\ loop'.pc = "snapshot" => loop'.listed \in {Listing, {}}
      /\ loop'.pc = "watch" => Dispatch
      /\ loop'.pc = "exit" => sess'[h].astray
  <2>1. CASE Dispatch
    <3>1. PICK cur \in SUBSET Worktrees :
            /\ IF bg THEN Lists(cur) ELSE cur = {} /\ UNCHANGED left
            /\ loop' = [loop EXCEPT !.pc = IF bg THEN "snapshot" ELSE "watch",
                                    !.attempt = @ + 1,
                                    !.handle = Fresh,
                                    !.listed = cur]
      BY <2>1 DEF Dispatch
    <3>2. /\ loop'.pc = IF bg THEN "snapshot" ELSE "watch"
          /\ loop'.handle = h
          /\ loop'.listed = cur
      BY <1>0, <3>1 DEF TypeOK, LoopMemory
    <3>3. cur \in {Listing, {}}
      BY <3>1 DEF Lists
    <3>4. snap' = snap
      BY <2>1 DEF Dispatch
    <3>5. QED
      BY <2>1, <3>2, <3>3, <3>4
  <2>2. CASE DispatchUnreadable
    <3>1. snap' = snap /\ loop'.pc = "exit"
      BY <2>2 DEF DispatchUnreadable, IInv, TypeOK, LoopMemory
    <3>2. ~ Dispatch
      <4>1. loop \in LoopMemory
        BY DEF IInv, TypeOK
      <4>2. Dispatch => loop'.pc \in {"snapshot", "watch"}
        BY <4>1 DEF Dispatch, LoopMemory
      <4>3. QED
        BY <3>1, <4>2
    <3>3. Born(h) \in [Sessions -> Session]
      BY <1>0, <1>1, BornType
    <3>4. sess'[h].astray
      BY <1>1, <3>2, <3>3 DEF Session
    <3>5. QED
      BY <3>1, <3>4
  <2>3. QED
    BY <2>1, <2>2
<1>3. /\ sess'[h].state = "starting"
      /\ sess'[h].work = "none"
      /\ sess'[h].epic = loop.epic
      /\ \A s \in Sessions : s # h => sess'[s] = sess[s]
  <2>1. sess' = Born(h) \/ sess' = [Born(h) EXCEPT ![h].astray = TRUE]
    BY DEF Dispatch
  <2>2. /\ Born(h)[h].state = "starting"
        /\ Born(h)[h].work = "none"
        /\ Born(h)[h].epic = loop.epic
        /\ Born(h)[h] \in Session
        /\ \A s \in Sessions : s # h => Born(h)[s] = sess[s]
    <3>1. Born(h) \in [Sessions -> Session]
      BY <1>0, <1>1, BornType
    <3>2. QED
      BY <1>0, <1>1, <3>1 DEF Born, Unborn
  <2>3. Born(h) \in [Sessions -> Session]
    BY <1>0, <1>1, BornType
  <2> HIDE DEF h
  <2>4. QED
    BY <1>1, <2>1, <2>2, <2>3 DEF Session
<1>4. Listing' = Listing
  <2>1. sess[h].work = "none"
    BY <1>0, <1>1 DEF SessionOK
  <2>2. QED
    BY <1>3, <2>1 DEF Listing
<1>5. ASSUME NEW s \in Sessions
      PROVE  SessionOK(s)'
  <2>1. CASE s = h
    <3>1. \A t \in Sessions : s < t => sess'[t].state = "unborn"
      <4>1. \A t \in Sessions : h < t => t # h
        BY <1>1, SessionNumbers
      <4>2. QED
        BY <1>1, <1>3, <2>1, <4>1
    <3>2. loop'.pc = "exit" \/ (loop'.handle = h /\ loop'.pc \in {"snapshot", "watch"})
      BY <1>2
    <3>3. QED
      BY <1>0, <1>2, <1>3, <2>1, <3>1, <3>2 DEF SessionOK
  <2>2. CASE s # h
    <3>1. sess'[s] = sess[s] /\ snap'[s] = snap[s]
      BY <1>2, <1>3, <2>2
    <3>2. Alive(s) => sess[s].astray
      BY <1>0 DEF SessionOK
    <3>3. ASSUME NEW t \in Sessions, s < t, sess'[t].state # "unborn"
          PROVE  sess[s].state # "unborn"
      <4>1. CASE t = h
        BY <1>1, <3>3, <4>1
      <4>2. CASE t # h
        BY <1>0, <1>3, <3>3, <4>2 DEF SessionOK
      <4>3. QED
        BY <4>1, <4>2
    <3>4. QED
      BY <1>0, <3>1, <3>2, <3>3 DEF SessionOK, Alive
  <2>3. QED
    BY <2>1, <2>2
<1>6. ASSUME NEW s \in Sessions
      PROVE  WorktreeOK(s)'
  <2>1. s \notin snap'[s]
    BY <1>0, <1>2 DEF WorktreeOK
  <2>4. snap'[h] = {}
    BY <1>0, <1>1, <1>2 DEF SessionOK
  <2>3. loop'.pc = "snapshot" => IF s = h THEN s \notin loop'.listed /\ snap'[s] = {}
                                 ELSE s \in Listing' /\ Main \in loop'.listed
                                        => s \in loop'.listed
    <3>1. h \notin Listing
      BY <1>0, <1>1, ListingIs DEF SessionOK, Listed
    <3>2. QED
      BY <1>2, <1>4, <2>4, <3>1
  <2>5. loop'.pc # "exit" => loop'.handle = h
    BY <1>2
  <2>6. loop'.pc = "exit" => loop'.pc \notin Watching
    BY StepsAre
  <2>7. loop'.pc \in Watching => snap'[loop'.handle] = {}
    BY <2>4, <2>5, <2>6
  <2>8. loop'.pc = "snapshot" => loop'.handle = h
    BY <1>2
  <2>9. QED
    BY <1>2, <2>1, <2>3, <2>7, <2>8 DEF WorktreeOK
<1>7. HandleOK'
  BY <1>1, <1>2, <1>3, StepsAre DEF HandleOK
<1>8. QED
  BY <1>5, <1>6, <1>7 DEF SessionsOK

\* A dispatch starts the next session, which the script watches.
LEMMA DispatchKeeps ==
  ASSUME IInv, TypeOK', Dispatch \/ DispatchUnreadable
  PROVE  SessionsOK'
<1>0. loop.pc = "attempt"
  BY DEF Dispatch, DispatchUnreadable
<1>1. CASE Dispatch
  BY <1>0, <1>1, BornKeeps DEF Dispatch
<1>2. CASE DispatchUnreadable /\ UNCHANGED sess
  <2>1. \A s \in Sessions : Calm(sess', snap', s)
    BY <1>2, CalmUnchanged DEF DispatchUnreadable
  <2>2. loop'.pc \notin Watching /\ loop'.pc # "reap" /\ ~ Gone
    BY <1>0, <1>2, StepsAre DEF DispatchUnreadable, IInv, TypeOK, LoopMemory, Gone
  <2>3. QED
    BY <1>0, <2>1, <2>2, CalmStep
<1>3. CASE DispatchUnreadable /\ ~ UNCHANGED sess
  BY <1>0, <1>3, BornKeeps DEF DispatchUnreadable
<1>4. QED
  BY <1>1, <1>2, <1>3

\* A script that starts again knows no session, and what runs has gone astray.
LEMMA RestartKeeps ==
  ASSUME IInv, TypeOK', Restart
  PROVE  SessionsOK'
<1>0. /\ sess \in [Sessions -> Session]
      /\ \A s \in Sessions : SessionOK(s) /\ WorktreeOK(s)
      /\ loop'.pc = "boot"
      /\ snap' = snap
      /\ sess' = [s \in Sessions |-> [sess[s] EXCEPT !.astray = sess[s].astray \/ Alive(s)]]
  BY DEF IInv, TypeOK, Restart, NewLoop
<1>1. loop'.pc \notin Watching
  BY <1>0, StepsAre
<1>2. ASSUME NEW s \in Sessions
      PROVE  /\ sess'[s].state = sess[s].state
             /\ sess'[s].epic = sess[s].epic
             /\ sess'[s].work = sess[s].work
             /\ Alive(s) => sess'[s].astray
  <2>1. sess'[s] = [sess[s] EXCEPT !.astray = sess[s].astray \/ Alive(s)]
    BY <1>0
  <2>2. QED
    BY <1>0, <2>1 DEF Session
<1>3. ASSUME NEW s \in Sessions
      PROVE  SessionOK(s)' /\ WorktreeOK(s)'
  <2>0. Alive(s)' => sess'[s].astray
    BY <1>2 DEF Alive
  <2>1. SessionOK(s)'
    <3>1. /\ sess'[s].state = "unborn" => sess'[s].work = "none" /\ snap'[s] = {}
          /\ sess'[s].state # "unborn" => sess'[s].epic \in Epics
      <4>1. /\ sess[s].state = "unborn" => sess[s].work = "none" /\ snap[s] = {}
            /\ sess[s].state # "unborn" => sess[s].epic \in Epics
        BY <1>0 DEF SessionOK
      <4>2. /\ sess'[s].state = sess[s].state /\ sess'[s].epic = sess[s].epic
            /\ sess'[s].work = sess[s].work /\ snap'[s] = snap[s]
        BY <1>0, <1>2
      <4>3. QED
        BY <4>1, <4>2
    <3>2. \A t \in Sessions : s < t /\ sess'[t].state # "unborn"
                            => sess'[s].state # "unborn"
      <4>1. \A t \in Sessions : s < t /\ sess[t].state # "unborn"
                              => sess[s].state # "unborn"
        BY <1>0 DEF SessionOK
      <4>2. \A t \in Sessions : sess'[t].state = sess[t].state
        BY <1>2
      <4>3. QED
        BY <4>1, <4>2
    <3>3. QED
      BY <2>0, <3>1, <3>2 DEF SessionOK
  <2>2. WorktreeOK(s)'
    <3>1. loop'.pc # "snapshot" /\ loop'.pc # "reap"
      BY <1>0
    <3>2. s \notin snap[s]
      BY <1>0 DEF WorktreeOK
    <3>3. s \notin snap'[s]
      BY <1>0, <3>2
    <3>4. QED
      BY <1>1, <3>1, <3>3 DEF WorktreeOK
  <2>3. QED
    BY <2>1, <2>2
<1>4. QED
  BY <1>1, <1>3 DEF SessionsOK, HandleOK

\* What the memory of the script says after its steps about the last listing
\* and the session to be removed.
Looks == ListedOK /\ OrphanOK

\* A listing that did not fail shows the main checkout.
LEMMA ListsMain ==
  ASSUME NEW cur, Lists(cur)
  PROVE  cur = {} \/ Main \in cur
BY DEF Lists, Listing

\* No step of the script breaks that.
LEMMA LoopLooks ==
  ASSUME IInv, LoopStep
  PROVE  Looks'
<1>0. loop \in LoopMemory /\ ListedOK /\ OrphanOK
  BY DEF IInv, TypeOK
<1>1. CASE SweepRemoves
  <2>1. loop' = [loop EXCEPT !.orphan = NoSession, !.listed = {}]
    BY <1>1 DEF SweepRemoves
  <2>2. loop'.orphan = NoSession /\ loop'.listed = {}
    BY <1>0, <2>1 DEF LoopMemory
  <2>3. QED
    BY <2>2 DEF Looks, ListedOK, OrphanOK
<1>2. CASE SweepFinds
  <2>1. PICK s \in SweepCandidates, cur \in SUBSET Worktrees :
          /\ Lists(cur)
          /\ Removable(s, cur)
          /\ loop' = [loop EXCEPT !.orphan = s, !.listed = cur]
    BY <1>2 DEF SweepFinds
  <2>2. s \in Sessions /\ loop.pc \in {"head", "sweep", "decide"} /\ sess' = sess
    BY <1>2 DEF SweepFinds, SweepCandidates, WillRetry
  <2>3. loop'.orphan = s /\ loop'.listed = cur /\ loop'.pc = loop.pc
    BY <1>0, <2>1, <2>2, LoopSweepsTo
  <2>4. s \notin cur /\ sess[s].state # "unborn"
    BY <2>1, <2>2, RemovableIsNotListed
  <2>5. cur = {} \/ Main \in cur
    BY <2>1, ListsMain
  <2>6. QED
    BY <2>2, <2>3, <2>4, <2>5 DEF Looks, ListedOK, OrphanOK
<1>3. CASE ~ SweepRemoves /\ ~ SweepFinds
  <2>0. loop.orphan = NoSession /\ MainStep
    BY <1>3 DEF LoopStep
  <2>1. loop'.orphan = NoSession /\ (loop'.listed = {} \/ Main \in loop'.listed)
    <3>1. CASE Preflight \/ PreflightFails \/ HeadLowMemory \/ HeadNoEpic \/ HeadTakesEpic
      BY <1>0, <2>0, <3>1
      DEF Preflight, PreflightFails, HeadLowMemory, HeadNoEpic, HeadTakesEpic,
          LoopMemory, ListedOK
    <3>2. CASE Dispatch \/ LadderLooks \/ HarvestLooks
      <4>1. PICK pc \in Steps, n \in Nat, h \in Sessions \cup {NoSession},
                 cur \in SUBSET Worktrees :
              /\ cur = {} \/ Main \in cur
              /\ \/ loop' = [loop EXCEPT !.pc = pc, !.listed = cur]
                 \/ loop' = [loop EXCEPT !.pc = pc, !.attempt = @ + 1, !.handle = Fresh,
                                         !.listed = cur]
        BY <1>0, <3>2, ListsMain, LoopFields
        DEF Dispatch, LadderLooks, HarvestLooks, Steps, Working, Watching
      <4>2. loop'.orphan = loop.orphan /\ loop'.listed = cur
        BY <1>0, <4>1 DEF LoopMemory
      <4>3. QED
        BY <2>0, <4>1, <4>2
    <3>3. CASE DispatchUnreadable \/ WriteSnapshot \/ WatchEnds \/ LadderStop
      BY <1>0, <2>0, <3>3
      DEF DispatchUnreadable, WriteSnapshot, WatchEnds, LadderStop, LoopMemory, ListedOK
    <3>4. CASE LadderOver \/ LadderRemoves \/ LadderKeeps \/ WatchdogKills \/ Collect
      BY <1>0, <2>0, <3>4
      DEF LadderOver, LadderRemoves, LadderKeeps, WatchdogKills, Collect, LoopMemory,
          ListedOK
    <3>5. CASE HarvestNothing \/ HarvestTearsDown \/ HarvestMerges \/ HarvestFails \/ Retry
      BY <1>0, <2>0, <3>5
      DEF HarvestNothing, HarvestTearsDown, HarvestMerges, HarvestFails, Retry,
          LoopMemory, ListedOK
    <3>6. CASE EpicFailed \/ EpicSkipped \/ EpicCompleted
      <4>1. CASE EpicFailed
        BY <1>0, <2>0, <4>1 DEF EpicFailed, Processed, LoopMemory, ListedOK
      <4>2. CASE EpicSkipped
        BY <1>0, <2>0, <4>2 DEF EpicSkipped, Processed, LoopMemory, ListedOK
      <4>3. CASE EpicCompleted
        BY <1>0, <2>0, <4>3 DEF EpicCompleted, Processed, LoopMemory, ListedOK
      <4>4. QED
        BY <3>6, <4>1, <4>2, <4>3
    <3>7. CASE ReviewPeriodic \/ ReviewBlocks \/ Post
      <4>1. CASE ReviewPeriodic
        BY <1>0, <2>0, <4>1 DEF ReviewPeriodic, Processed, Reviewed, LoopMemory, ListedOK
      <4>2. CASE ReviewBlocks
        BY <1>0, <2>0, <4>2 DEF ReviewBlocks, Reviewed, LoopMemory, ListedOK
      <4>3. CASE Post
        BY <1>0, <2>0, <4>3 DEF Post, Reviewed, LoopMemory, ListedOK
      <4>4. QED
        BY <3>7, <4>1, <4>2, <4>3
    <3>8. CASE Exit
      BY <3>8 DEF Exit, Gravestone, NewLoop
    <3>9. QED
      BY <1>3, <2>0, <3>1, <3>2, <3>3, <3>4, <3>5, <3>6, <3>7, <3>8 DEF MainStep
  <2>2. QED
    BY <2>1 DEF Looks, ListedOK, OrphanOK
<1>4. QED
  BY <1>1, <1>2, <1>3

\* Nor does any other step.
LEMMA LooksKept ==
  ASSUME IInv, [Next]_vars
  PROVE  Looks'
<1>1. CASE LoopStep
  BY <1>1, LoopLooks
<1>2. CASE (\E s \in Sessions : SessionStep(s)) \/ UNCHANGED vars
  <2>1. loop' = loop
    BY <1>2 DEF SessionStep, SessionWrites, SessionHangs, SessionBranches,
                SessionClaims, SessionStops, SessionEnds, SessionUnchanged, vars
  <2>2. \A s \in Sessions : sess[s].state # "unborn" => sess'[s].state # "unborn"
    BY <1>2, CalmSession DEF Calm, vars
  <2>3. loop.orphan \in Sessions \cup {NoSession}
    BY LoopFields DEF IInv, TypeOK
  <2>4. QED
    BY <2>1, <2>2, <2>3 DEF Looks, ListedOK, OrphanOK, IInv
<1>3. CASE Kill \/ Restart
  <2>1. loop'.orphan = NoSession /\ loop'.listed = {}
    <3>1. CASE Kill
      BY <3>1 DEF Kill, Gravestone, NewLoop
    <3>2. CASE Restart
      BY <3>2 DEF Restart, NewLoop
    <3>3. QED
      BY <1>3, <3>1, <3>2
  <2>2. QED
    BY <2>1 DEF Looks, ListedOK, OrphanOK
<1>4. QED
  BY <1>1, <1>2, <1>3 DEF Next
-----------------------------------------------------------------------------
(* The inductive invariant.                                                  *)

LEMMA InitIInv == Init => IInv
<1> SUFFICES ASSUME Init PROVE IInv
  OBVIOUS
<1>1. script \in Scripts
  BY DEF Init
<1>2. MaxRetries \in Nat
  BY <1>1, ScriptsAssumption DEF MaxRetries
<1>3. /\ loop \in LoopMemory
      /\ loop.pc = "boot"
      /\ loop.processed = <<>>
      /\ loop.completed = {}
      /\ loop.range = {}
      /\ loop.attempt = 0
  <2>1. "boot" \in Steps /\ 0 \in 0 .. 2
    BY StepsAre
  <2>2. loop = NewLoop
    BY DEF Init
  <2>3. QED
    BY <2>1, <2>2, NewLoopFields
<1>4. \A s \in Sessions : sess[s] = Unborn /\ snap[s] = {}
  BY DEF Init
<1>5. Unborn \in Session /\ Unborn.state = "unborn" /\ Unborn.work = "none"
  BY DEF Unborn, Session, States, Markers
<1>6. TypeOK
  <2>1. sess \in [Sessions -> Session] /\ snap \in [Sessions -> SUBSET Lines]
    BY <1>5 DEF Init
  <2>2. left \in [pressure : Nat, faults : Nat, runs : Nat]
    BY <1>1, BoundsAssumption DEF Init
  <2>3. QED
    BY <1>1, <1>2, <1>3, <2>1, <2>2 DEF TypeOK, Init
<1>7. EpicOK
  BY <1>3, StepsAre, EmptySeq DEF EpicOK, EpicsDecidedOnce
<1>8. ReviewOK
  BY <1>3 DEF ReviewOK
<1>9. StatusOK
  BY <1>3 DEF StatusOK, EndIsOnRecord
<1>10. HandleOK
  BY <1>3, StepsAre DEF HandleOK
<1>11. \A s \in Sessions : SessionOK(s) /\ WorktreeOK(s)
  BY <1>3, <1>4, <1>5, StepsAre DEF SessionOK, WorktreeOK, Alive
<1>12. ListedOK /\ OrphanOK
  BY DEF Init, NewLoop, ListedOK, OrphanOK
<1>13. QED
  BY <1>6, <1>7, <1>8, <1>9, <1>10, <1>11, <1>12 DEF IInv

\* Every step preserves the invariant.
LEMMA NextIInv == IInv /\ [Next]_vars => IInv'
<1> SUFFICES ASSUME IInv, [Next]_vars PROVE IInv'
  OBVIOUS
<1>1. TypeOK' /\ LoopOK'
  BY TypeKept, LoopKeeps
<1>2. SessionsOK'
  <2>1. CASE LoopStep
    BY <1>1, <2>1, IdleLoopKeeps, DispatchKeeps, WriteSnapshotKeeps, WatchingKeeps,
       HarvestKeeps, SweepKeeps
    DEF LoopStep, MainStep
  <2>2. CASE \E s \in Sessions : SessionStep(s)
    BY <1>1, <2>2, SessionsKeep
  <2>3. CASE Kill
    BY <1>1, <2>3, IdleLoopKeeps
  <2>4. CASE Restart
    BY <1>1, <2>4, RestartKeeps
  <2>5. CASE UNCHANGED vars
    <3>1. UNCHANGED <<loop, sess, snap>>
      BY <2>5 DEF vars
    <3>2. \A s \in Sessions : Calm(sess', snap', s)
      BY <3>1, CalmUnchanged
    <3>3. Gone => Gone'
      BY <3>1 DEF Gone
    <3>4. ASSUME loop'.pc = "reap", NEW s \in Sessions, s \in loop'.listed
          PROVE  s \in Listing'
      BY <3>1, <3>4 DEF IInv, WorktreeOK, Listing
    <3>5. QED
      BY <1>1, <3>1, <3>2, <3>3, <3>4, CalmStep
  <2>6. QED
    BY <2>1, <2>2, <2>3, <2>4, <2>5 DEF Next
<1>3. Looks'
  BY LooksKept
<1>4. QED
  BY <1>1, <1>2, <1>3 DEF IInv, LoopOK, SessionsOK, Looks

\* The invariant holds at all times.
LEMMA Invariant == Spec => []IInv
<1>1. QED
  BY InitIInv, NextIInv, PTL DEF Spec

\* The steps that may remove a session.
Removal == SweepRemoves \/ LadderRemoves \/ HarvestTearsDown \/ HarvestMerges

\* No other step removes a session or merges its work.
LEMMA OnlyRemovals ==
  ASSUME IInv, Next, ~ Removal, NEW s \in Sessions
  PROVE  /\ sess'[s].work = "merged" => sess[s].work = "merged"
         /\ sess'[s].state = "gone" => sess[s].state = "gone"
<1> SUFFICES ASSUME \/ sess'[s].work = "merged" /\ sess[s].work # "merged"
                    \/ sess'[s].state = "gone" /\ sess[s].state # "gone"
             PROVE  FALSE
  OBVIOUS
<1>0. /\ TypeOK /\ HandleOK
      /\ sess \in [Sessions -> Session]
      /\ \A t \in Sessions : SessionOK(t)
  BY DEF IInv, TypeOK
<1>s. ASSUME NEW f \in [Sessions -> Session], NEW t
      PROVE  Strayed(f, t)[s].work = f[s].work /\ Strayed(f, t)[s].state = f[s].state
  BY DEF Strayed, Session
<1>t. ASSUME NEW t \in Sessions, NEW m \in Markers
      PROVE  /\ Stopped(t, m)[s].work = sess[s].work
             /\ Stopped(t, m)[s].state \in {"ended", sess[s].state}
             /\ Stopped(t, m) \in [Sessions -> Session]
  <2>1. Stopped(t, m) \in [Sessions -> Session]
    BY <1>0, StoppedType
  <2>2. CASE s = t
    <3>1. Stopped(t, m)[s] = [sess[s] EXCEPT !.state = "ended", !.text = m]
      BY <1>0, <2>2 DEF Stopped
    <3>2. QED
      BY <1>0, <2>1, <3>1 DEF Session
  <2>3. CASE s # t
    BY <1>0, <2>1, <2>3 DEF Stopped
  <2>4. QED
    BY <2>1, <2>2, <2>3
<1>1. sess' # sess
  BY <1>0
<1>4. CASE LadderKeeps \/ LadderStop \/ WatchdogKills
  <2>1. loop.handle \in Sessions
    BY <1>0, <1>4 DEF LadderKeeps, LadderStop, WatchdogKills, HandleOK, Watching
  <2>2. sess[loop.handle].text \in Markers /\ "none" \in Markers
    BY <1>0, <2>1 DEF Session, Markers
  <2>3. PICK f \in [Sessions -> Session] :
          /\ f[s].work = sess[s].work
          /\ f[s].state \in {"ended", sess[s].state}
          /\ sess' = f \/ sess' = Strayed(f, loop.handle)
    BY <1>0, <1>4, <1>t, <2>1, <2>2 DEF LadderKeeps, LadderStop, WatchdogKills
  <2>4. QED
    BY <1>s, <2>3
<1>5. CASE Dispatch \/ DispatchUnreadable
  <2>1. Fresh \in Sessions /\ loop.epic \in Epics
    <3>1. loop.pc = "attempt" /\ \E t \in Sessions : sess[t].state = "unborn"
      BY <1>1, <1>5 DEF Dispatch, DispatchUnreadable
    <3>2. QED
      BY <1>0, <3>1, FreshIsLeast, StepsAre DEF IInv, EpicOK
  <2>2. Born(Fresh) \in [Sessions -> Session]
    BY <1>0, <2>1, BornType
  <2>3. /\ Born(Fresh)[s].work \in {"none", sess[s].work}
        /\ Born(Fresh)[s].state \in {"starting", sess[s].state}
    BY <1>0, <2>1 DEF Born, Unborn
  <2>4. sess' = Born(Fresh) \/ sess' = Strayed(Born(Fresh), Fresh)
    BY <1>1, <1>5 DEF Dispatch, DispatchUnreadable, Strayed
  <2>5. QED
    BY <1>s, <2>2, <2>3, <2>4
<1>6. CASE Collect
  BY <1>0, <1>6 DEF Collect, Session
<1>7. CASE Restart
  BY <1>0, <1>7 DEF Restart, Session
<1>8. ASSUME NEW t \in Sessions, SessionStep(t)
      PROVE  FALSE
  <2>1. CASE SessionEnds(t)
    <3>1. PICK m \in Markers : sess' = Stopped(t, m)
      BY <2>1 DEF SessionEnds, Markers
    <3>2. QED
      BY <1>t, <3>1
  <2>2. CASE SessionWrites(t)
    BY <1>0, <2>2 DEF SessionWrites, Session
  <2>3. CASE SessionHangs(t)
    <3>1. PICK m \in Markers : sess' = [sess EXCEPT ![t].state = "hung", ![t].text = m]
      BY <2>3 DEF SessionHangs, Markers
    <3>2. QED
      BY <1>0, <3>1 DEF Session
  <2>4. CASE SessionBranches(t)
    BY <1>0, <2>4 DEF SessionBranches, Session
  <2>5. CASE SessionClaims(t)
    BY <1>1, <2>5 DEF SessionClaims
  <2>6. QED
    BY <1>8, <2>1, <2>2, <2>3, <2>4, <2>5 DEF SessionStep, SessionStops
<1>9. QED
  BY <1>1, <1>4, <1>5, <1>6, <1>7, <1>8
  DEF Next, LoopStep, MainStep, Removal, SweepFinds, Preflight, PreflightFails,
      HeadLowMemory, HeadNoEpic, HeadTakesEpic, WriteSnapshot, WatchEnds, LadderOver,
      LadderLooks, HarvestLooks, HarvestNothing, HarvestFails, Retry, EpicFailed,
      EpicSkipped, EpicCompleted, ReviewPeriodic, ReviewBlocks, Post, Exit, Kill

\* What a removal does to the sessions.
LEMMA RemovedFields ==
  ASSUME NEW f \in [Sessions -> Session], NEW t, Removes(f, t), NEW s \in Sessions
  PROVE  /\ sess'[s].work = f[s].work
         /\ sess'[s].state = f[s].state \/ s = t
<1>1. CASE sess' = Removed(f, t)
  BY <1>1 DEF Removed, Session
<1>2. CASE sess' = f
  BY <1>2
<1>3. QED
  BY <1>1, <1>2, RemovesEither

\* Work is merged by the harvest alone.
LEMMA OnlyHarvestMerges ==
  ASSUME IInv, Next, NEW s \in Sessions,
         sess'[s].work = "merged", sess[s].work # "merged"
  PROVE  HarvestMerges
<1>1. sess \in [Sessions -> Session]
  BY DEF IInv, TypeOK
<1>2. CASE SweepRemoves \/ LadderRemoves \/ HarvestTearsDown
  <2>1. PICK t : Removes(sess, t)
    BY <1>2 DEF SweepRemoves, LadderRemoves, HarvestTearsDown
  <2>2. QED
    BY <1>1, <2>1, RemovedFields
<1>3. QED
  BY <1>2, OnlyRemovals DEF Removal
-----------------------------------------------------------------------------
(* What follows from it.                                                     *)

(* Every variable keeps its shape, and no epic is attempted more than          *)
(* MAX_RETRIES + 1 times.                                                      *)
THEOREM TypeCorrect == Spec => []TypeOK
<1>1. IInv => TypeOK
  BY DEF IInv
<1>2. QED
  BY <1>1, Invariant, PTL

(* R-HARVEST-FAIL: cleanup_orphans, bg_kill_ladder and agent_cleanup never     *)
(* remove a session whose worktree holds work that was not merged, if the      *)
(* listing they looked at shows that worktree.                                 *)
THEOREM WorkIsKept == Spec => NoUnmergedWorkRemoved
<1>1. IInv /\ [Next]_vars
        => [\A s \in Sessions :
              /\ sess'[s].state = "gone" /\ sess[s].state # "gone"
              /\ sess'[s].work = "work"
              => s \notin loop.listed]_vars
  <2>1. SUFFICES ASSUME IInv, Next, NEW s \in Sessions,
                        sess'[s].state = "gone", sess[s].state # "gone",
                        sess'[s].work = "work"
                 PROVE  s \notin loop.listed
    OBVIOUS
  <2>2. Removal
    BY <2>1, OnlyRemovals
  <2>3. /\ sess \in [Sessions -> Session]
        /\ loop.listed \in SUBSET Worktrees
        /\ WorktreeOK(s)
    BY <2>1, LoopFields DEF IInv, TypeOK
  <2>4. CASE SweepRemoves
    <3>1. s = loop.orphan
      BY <2>1, <2>3, <2>4, RemovedFields DEF SweepRemoves
    <3>2. QED
      BY <2>1, <2>4, <3>1 DEF SweepRemoves, IInv, OrphanOK
  <2>5. CASE LadderRemoves
    <3>1. s = loop.handle
      BY <2>1, <2>3, <2>5, RemovedFields DEF LadderRemoves
    <3>2. QED
      BY <2>1, <2>5, <3>1, RemovableIsNotListed DEF LadderRemoves
  <2>6. CASE HarvestTearsDown
    <3>1. s = loop.handle
      BY <2>1, <2>3, <2>6, RemovedFields DEF HarvestTearsDown
    <3>2. Outcome(s, loop.marker, loop.listed) = "teardown"
      BY <2>6, <3>1 DEF HarvestTearsDown, Decided
    <3>3. NewWorktrees(s, loop.listed) = {}
      <4>1. SUFFICES ASSUME NewWorktrees(s, loop.listed) # {} PROVE FALSE
        OBVIOUS
      <4>2. \/ Cardinality(NewWorktrees(s, loop.listed)) = 1
            \/ Cardinality(NewWorktrees(s, loop.listed)) > 1
        BY <2>3, <4>1, NewWorktreesCount
      <4>3. QED
        BY <3>2, <4>1, <4>2 DEF Outcome
    <3>4. QED
      BY <2>3, <3>3 DEF NewWorktrees, WorktreeOK
  <2>7. CASE HarvestMerges
    <3>1. PICK w \in Sessions :
            /\ Removes([sess EXCEPT ![w].work = "merged"], loop.handle)
            /\ \A v \in NewWorktrees(loop.handle, loop.listed) : v = w
      BY <2>1, <2>7, MergesOne
    <3> DEFINE f == [sess EXCEPT ![w].work = "merged"]
    <3>2. /\ f \in [Sessions -> Session]
          /\ f[s].state = sess[s].state
          /\ s = w => f[s].work = "merged"
      BY <2>3 DEF Session
    <3> HIDE DEF f
    <3>3. s = loop.handle /\ sess'[s].work = f[s].work
      BY <2>1, <3>1, <3>2, RemovedFields DEF f
    <3>4. s \notin NewWorktrees(s, loop.listed)
      BY <2>1, <3>1, <3>2, <3>3
    <3>5. QED
      BY <2>3, <3>4 DEF NewWorktrees, WorktreeOK
  <2>8. QED
    BY <2>2, <2>4, <2>5, <2>6, <2>7 DEF Removal
<1>2. QED
  BY <1>1, Invariant, PTL DEF Spec, NoUnmergedWorkRemoved

(* Of two sessions that work on one epic the elder was told to stop, or has    *)
(* outlived the script that started it.                                        *)
THEOREM SessionsRemembered == Spec => []NoForgottenSession
<1>1. IInv => NoForgottenSession
  <2>1. SUFFICES ASSUME IInv, NEW s \in Sessions, NEW t \in Sessions,
                        s < t, Alive(s), Alive(t)
                 PROVE  sess[s].astray
    BY DEF NoForgottenSession
  <2>2. sess[t].state # "unborn"
    BY <2>1 DEF Alive
  <2>3. QED
    BY <2>1, <2>2 DEF IInv, SessionOK
<1>2. QED
  BY <1>1, Invariant, PTL

(* One run of the script decides each epic once (PROCESSED).                   *)
THEOREM DecidedOnce == Spec => []EpicsDecidedOnce
<1>1. IInv => EpicsDecidedOnce
  BY DEF IInv, EpicOK
<1>2. QED
  BY <1>1, Invariant, PTL

(* The status file of a script that ended by itself says "idle" exactly after  *)
(* exit code 0, and never "running" (_loop_cleanup).                           *)
THEOREM EndRecorded == Spec => []EndIsOnRecord
<1>1. IInv => EndIsOnRecord
  BY DEF IInv, StatusOK
<1>2. QED
  BY <1>1, Invariant, PTL

(* agent_cleanup merges the work of the session it watched, when that was      *)
(* reported complete, or the work of a session gone astray.                    *)
THEOREM MergesReported == Spec => MergedWorkIsReported
<1>1. IInv /\ [Next]_vars
        => [\A s \in Sessions :
              sess'[s].work = "merged" /\ sess[s].work # "merged"
                => \/ s = loop.handle /\ loop.marker = "complete"
                   \/ sess[s].astray]_vars
  <2>1. SUFFICES ASSUME IInv, Next, NEW s \in Sessions,
                        sess'[s].work = "merged", sess[s].work # "merged"
                 PROVE  \/ s = loop.handle /\ loop.marker = "complete"
                        \/ sess[s].astray
    OBVIOUS
  <2>2. HarvestMerges
    BY <2>1, OnlyHarvestMerges
  <2>3. PICK w \in Sessions :
          /\ w \in NewWorktrees(loop.handle, loop.listed)
          /\ Removes([sess EXCEPT ![w].work = "merged"], loop.handle)
          /\ Main \in snap[loop.handle]
          /\ MayMerge(loop.marker)
    BY <2>1, <2>2, MergesOne
  <2>4. s = w
    <3>1. sess \in [Sessions -> Session]
      BY <2>1 DEF IInv, TypeOK
    <3> DEFINE f == [sess EXCEPT ![w].work = "merged"]
    <3>2. f \in [Sessions -> Session] /\ (s # w => f[s] = sess[s])
      BY <3>1 DEF Session
    <3> HIDE DEF f
    <3>3. sess'[s].work = f[s].work
      BY <2>3, <3>2, RemovedFields DEF f
    <3>4. QED
      BY <2>1, <3>2, <3>3
  <2>5. loop.pc = "reap" /\ WorktreeOK(w) /\ w \in loop.listed /\ w \notin snap[loop.handle]
    BY <2>1, <2>2, <2>3 DEF HarvestMerges, Decided, IInv, NewWorktrees
  <2>6. w = loop.handle \/ sess[w].astray
    BY <2>3, <2>5 DEF WorktreeOK, Watching, NewWorktrees
  <2>7. QED
    BY <2>3, <2>4, <2>6 DEF MayMerge
<1>2. QED
  BY <1>1, Invariant, PTL DEF Spec, MergedWorkIsReported

(* When the main loop ends in an orderly way, every epic it completed was in   *)
(* the range of some review.                                                   *)
THEOREM EpicsReviewed == Spec => NoEpicUnreviewed
<1>1. IInv /\ [Next]_vars
        => [loop.pc = "post" /\ loop'.pc = "exit" /\ script.review
              => loop'.completed \subseteq loop'.reviewed]_vars
  <2>1. SUFFICES ASSUME IInv, Next, loop.pc = "post", loop'.pc = "exit", script.review
                 PROVE  loop'.completed \subseteq loop'.reviewed
    OBVIOUS
  <2>2. /\ loop \in LoopMemory
        /\ loop.completed \subseteq loop.reviewed \cup loop.range
        /\ loop.since = 0 => loop.range = {}
        /\ loop.since \in Nat
        /\ script.reviewEvery \in Nat
    BY <2>1, ScriptFields, LoopFields DEF IInv, TypeOK, ReviewOK
  <2>3. ReviewBlocks \/ Post
    <3>1. CASE LoopStep
      <4>1. loop.orphan = NoSession /\ MainStep
        <5>1. ~ SweepRemoves
          BY <2>1, <2>2 DEF SweepRemoves, LoopMemory
        <5>2. QED
          BY <3>1, <5>1 DEF LoopStep
      <4>2. QED
        BY <2>1, <4>1
        DEF MainStep, SweepFinds, WillRetry, Preflight, PreflightFails, HeadLowMemory,
            HeadNoEpic, HeadTakesEpic, Dispatch, DispatchUnreadable, WriteSnapshot,
            WatchEnds, LadderStop, LadderOver, LadderLooks, LadderRemoves, LadderKeeps,
            WatchdogKills, Collect, HarvestLooks, HarvestNothing, HarvestTearsDown,
            HarvestMerges, HarvestFails, Decided, Retry, EpicFailed, EpicSkipped,
            EpicCompleted, ReviewPeriodic, Exit
    <3>2. CASE ~ LoopStep
      BY <2>1, <3>2
      DEF Next, Kill, Restart, Gone, Gravestone, NewLoop, SessionStep, SessionWrites,
          SessionHangs, SessionBranches, SessionClaims, SessionStops, SessionEnds,
          SessionUnchanged
    <3>3. QED
      BY <3>1, <3>2
  <2>4. PICK l \in {loop, Reviewed}, code \in 0 .. 2 :
          /\ loop' = [l EXCEPT !.pc = "exit", !.code = code]
          /\ FinalDue(loop) => l = Reviewed
    <3>1. CASE ReviewBlocks
      BY <3>1 DEF ReviewBlocks
    <3>2. CASE Post
      <4> DEFINE l == IF FinalDue(loop) THEN Reviewed ELSE loop
                 end == CASE loop.failed > 0 -> 1
                          [] loop.failed = 0 /\ loop.completed = {} -> 2
                          [] OTHER -> 0
      <4>1. end \in 0 .. 2 /\ l \in {loop, Reviewed} /\ (FinalDue(loop) => l = Reviewed)
        BY <2>2, LoopFields
      <4>2. loop' = [l EXCEPT !.pc = "exit", !.code = end]
        BY <3>2 DEF Post
      <4> HIDE DEF l, end
      <4>3. QED
        BY <4>1, <4>2
    <3>3. QED
      BY <2>3, <3>1, <3>2
  <2>5. loop'.completed = loop.completed /\ loop'.reviewed = l.reviewed
    BY <2>2, <2>4, ReviewedFields DEF LoopMemory
  <2>6. CASE l = Reviewed
    BY <2>2, <2>5, <2>6, ReviewedFields
  <2>7. CASE l = loop
    <3>1. CASE FinalDue(loop)
      BY <2>2, <2>4, <2>5, <3>1, ReviewedFields
    <3>2. CASE ~ FinalDue(loop)
      <4>1. loop.completed = {} \/ loop.range = {}
        BY <2>1, <2>2, <3>2 DEF FinalDue
      <4>2. QED
        BY <2>2, <2>5, <2>7, <4>1
    <3>3. QED
      BY <3>1, <3>2
  <2>8. QED
    BY <2>4, <2>6, <2>7
<1>2. QED
  BY <1>1, Invariant, PTL DEF Spec, NoEpicUnreviewed
=============================================================================
