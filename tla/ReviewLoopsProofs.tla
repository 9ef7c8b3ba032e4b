------------------------- MODULE ReviewLoopsProofs -------------------------
(* Proofs about ReviewLoops and the fleet of reviewers it drives, for every  *)
(* value of their constants.                                                 *)
EXTENDS ReviewLoops, TLAPS, SequenceTheorems
-----------------------------------------------------------------------------
(* Types.                                                                    *)

LEMMA ConfFields ==
  ASSUME conf \in Confs
  PROVE  /\ conf.fleet \in SUBSET Reviewers
         /\ conf.cycles \in 1 .. MaxCycles
         /\ conf.phases \in Nat
         /\ conf.cycles \in Nat
BY ConfsAssumption, MaxCyclesAssumption

\* The fields of the driver.
LEMMA RunFields ==
  ASSUME TypeOK
  PROVE  /\ run.pc \in {"start", "review", "audit", "architect", "inner", "next",
                        "end", "exit"}
         /\ run.phase \in 0 .. conf.phases
         /\ run.cycle \in 1 .. conf.cycles
         /\ run.cycle \in 1 .. MaxCycles
         /\ run.avail \in SUBSET conf.fleet
         /\ run.avail \in SUBSET Reviewers
         /\ run.tasks \in SUBSET conf.fleet
         /\ run.outcome \in {"none", "approved", "exhausted"}
         /\ run.status \in {"absent", "running", "completed", "crashed"}
<1>1. run \in Driver(conf) /\ conf \in Confs
  BY DEF TypeOK, FleetTypeOK
<1>2. run.cycle \in 1 .. conf.cycles /\ run.avail \in SUBSET conf.fleet
  BY <1>1 DEF Driver
<1>3. run.cycle \in 1 .. MaxCycles /\ run.avail \in SUBSET Reviewers
  BY <1>1, <1>2, ConfFields, MaxCyclesAssumption
<1>4. QED
  BY <1>1, <1>2, <1>3 DEF Driver

\* The fields of the fleet.
LEMMA FleetFields ==
  ASSUME TypeOK
  PROVE  /\ fleet.stage \in {"idle", "spawn", "poll", "teardown", "remove", "done"}
         /\ fleet.todo \in SUBSET Reviewers
         /\ fleet.wait \in SUBSET (1 .. Len(jobs))
         /\ fleet.current \in 0 .. Len(jobs)
         /\ fleet.missed \in SUBSET Reviewers
         /\ fleet.over \in BOOLEAN
         /\ fleet.strays \in SUBSET ((1 .. MaxCycles) \X Reviewers)
         /\ fleet.own \in BOOLEAN
BY DEF TypeOK, FleetTypeOK, Fleet

\* The sessions that were started, and each of them.
LEMMA JobFields ==
  ASSUME TypeOK
  PROVE  /\ Len(jobs) \in Nat
         /\ jobs \in [1 .. Len(jobs) -> Session(Len(jobs))]
         /\ \A j \in 1 .. Len(jobs) :
              /\ jobs[j] \in Session(Len(jobs))
              /\ jobs[j].who \in Reviewers
              /\ jobs[j].state \in {"starting", "running", "ended", "gone"}
              /\ jobs[j].text \in Texts \cup {"noise"}
<1>1. jobs \in Seq(Session(Len(jobs)))
  BY DEF TypeOK, FleetTypeOK
<1>2. Len(jobs) \in Nat /\ jobs \in [1 .. Len(jobs) -> Session(Len(jobs))]
  BY <1>1, LenProperties
<1>3. QED
  BY <1>2 DEF Session

\* The report of a reviewer is written; every other stays as it is.
LEMMA WrittenType ==
  ASSUME TypeOK, NEW r \in Reviewers, NEW text \in Texts \cup {"noise"}, Written(r, text)
  PROVE  /\ report' \in [1 .. MaxCycles -> [Reviewers -> Report]]
         /\ report'[run.cycle][r].text = text
         /\ report'[run.cycle][r].fresh
         /\ \A q \in Reviewers : q # r => report'[run.cycle][q] = report[run.cycle][q]
<1>1. report \in [1 .. MaxCycles -> [Reviewers -> Report]]
  BY DEF TypeOK, FleetTypeOK
<1>2. [text |-> text, fresh |-> TRUE] \in Report
  BY DEF Report
<1>3. run.cycle \in 1 .. MaxCycles
  BY RunFields
<1>4. report' = [report EXCEPT ![run.cycle][r] = [text |-> text, fresh |-> TRUE]]
  BY DEF Written
<1>5. QED
  BY <1>1, <1>2, <1>3, <1>4

\* Sending out the fleet keeps the types.
LEMMA SentOutType ==
  ASSUME TypeOK, NEW avail \in SUBSET Reviewers, SentOut(avail)
  PROVE  /\ fleet' \in Fleet(Len(jobs))
         /\ fleet'.stage = "spawn"
         /\ fleet'.todo = avail
         /\ fleet'.wait = {}
         /\ fleet'.current = NoJob
         /\ fleet'.missed = {}
         /\ report' \in [1 .. MaxCycles -> [Reviewers -> Report]]
         /\ proc' = Quiet
         /\ said' = Quiet
<1>1. fleet \in Fleet(Len(jobs)) /\ Len(jobs) \in Nat
  BY JobFields DEF TypeOK, FleetTypeOK
<1>2. fleet' = [fleet EXCEPT !.stage = "spawn", !.todo = avail, !.wait = {},
                             !.current = NoJob, !.missed = {}, !.over = FALSE]
  BY DEF SentOut
<1>3. report \in [1 .. MaxCycles -> [Reviewers -> Report]]
  BY DEF TypeOK, FleetTypeOK
<1>4. ASSUME NEW c \in 1 .. MaxCycles, NEW r \in Reviewers
      PROVE  [report[c][r] EXCEPT !.fresh = FALSE] \in Report
  <2>1. report[c][r] \in Report
    BY <1>3
  <2>2. QED
    BY <2>1 DEF Report
<1>5. report' \in [1 .. MaxCycles -> [Reviewers -> Report]]
  BY <1>4 DEF SentOut
<1>6. /\ fleet' \in Fleet(Len(jobs))
      /\ fleet'.stage = "spawn"
      /\ fleet'.todo = avail
      /\ fleet'.wait = {}
      /\ fleet'.current = NoJob
      /\ fleet'.missed = {}
  <2>1. NoJob \in 0 .. Len(jobs) /\ {} \in SUBSET (1 .. Len(jobs)) /\ {} \in SUBSET Reviewers
    BY <1>1 DEF NoJob
  <2>2. QED
    BY <1>1, <1>2, <2>1 DEF Fleet
<1>7. QED
  BY <1>5, <1>6 DEF SentOut


\* A session that is started joins the others, which stay as they are.
LEMMA AppendedJob ==
  ASSUME TypeOK, NEW r \in Reviewers, NEW saved \in BOOLEAN,
         jobs' = Append(jobs, Job(r, saved))
  PROVE  /\ Len(jobs') = Len(jobs) + 1
         /\ jobs' \in Seq(Session(Len(jobs')))
         /\ \A j \in 1 .. Len(jobs) : jobs'[j] = jobs[j]
         /\ jobs'[Len(jobs) + 1] = Job(r, saved)
<1> DEFINE n == Len(jobs)
<1>1. n \in Nat /\ jobs \in Seq(Session(n))
  BY JobFields DEF TypeOK, FleetTypeOK
<1>2. Session(n) \subseteq Session(n + 1)
  BY <1>1 DEF Session
<1>3. jobs \in Seq(Session(n + 1))
  <2> HIDE DEF n
  <2>1. QED
    BY <1>1, <1>2, SeqMonotonic
<1>4. Job(r, saved) \in Session(n + 1)
  <2>1. Listing \in SUBSET (1 .. n + 1)
    BY <1>1 DEF Listing
  <2>2. QED
    BY <2>1 DEF Job, Session
<1>5. /\ Append(jobs, Job(r, saved)) \in Seq(Session(n + 1))
      /\ Len(Append(jobs, Job(r, saved))) = n + 1
      /\ \A j \in 1 .. n : Append(jobs, Job(r, saved))[j] = jobs[j]
      /\ Append(jobs, Job(r, saved))[n + 1] = Job(r, saved)
  BY <1>3, <1>4, AppendProperties
<1>6. QED
  BY <1>5

\* A session that changes keeps its place.
LEMMA ChangedJob ==
  ASSUME TypeOK, NEW j \in 1 .. Len(jobs), NEW k \in Session(Len(jobs)),
         jobs' = [jobs EXCEPT ![j] = k]
  PROVE  /\ Len(jobs') = Len(jobs)
         /\ jobs' \in Seq(Session(Len(jobs')))
         /\ jobs'[j] = k
         /\ \A i \in 1 .. Len(jobs) : i # j => jobs'[i] = jobs[i]
<1>1. jobs \in Seq(Session(Len(jobs)))
  BY DEF TypeOK, FleetTypeOK
<1>2. QED
  BY <1>1, ExceptSeq

-----------------------------------------------------------------------------
(* The steps of the fleet, of the processes and of the sessions.             *)

\* Nothing that the invariant says of reviewer q changes.
Kept(q) ==
  /\ Outlived(q) => Outlived(q)'
  /\ q \in fleet'.todo <=> q \in fleet.todo
  /\ q \in fleet.missed => q \in fleet'.missed
  /\ proc'[q] = proc[q]
  /\ said'[q] = said[q]
  /\ report'[run.cycle][q] = report[run.cycle][q]
  /\ WaitsFor(q)' = WaitsFor(q)
  /\ \A j \in WaitsFor(q) : jobs[j].state = "ended"
       => jobs'[j].state = "ended" /\ jobs'[j].text = jobs[j].text

\* A reviewer that a step leaves alone is as it was.
LEMMA KeptReviewer ==
  ASSUME NEW q \in Reviewers, ReviewerOK(q), Kept(q), UNCHANGED <<conf, run>>
  PROVE  ReviewerOK(q)'
BY DEF ReviewerOK, Kept, InBackground

\* What the barrier waits for: one session for a reviewer.
LEMMA Waiting ==
  ASSUME IInv
  PROVE  /\ \A j \in fleet.wait : /\ j \in 1 .. Len(jobs)
                                  /\ j # fleet.current
                                  /\ jobs[j].who \in Reviewers
                                  /\ jobs[j].who \notin fleet.todo
                                  /\ InBackground(jobs[j].who)
                                  /\ WaitsFor(jobs[j].who) = {j}
         /\ \A r \in Reviewers : r \in fleet.todo \/ ~ InBackground(r) => WaitsFor(r) = {}
<1>1. \A j \in fleet.wait : j \in 1 .. Len(jobs) /\ jobs[j].who \in Reviewers
  BY FleetFields, JobFields DEF IInv
<1>2. QED
  BY <1>1 DEF IInv, FleetOK, WaitsFor

\* The fleet goes on with the same sessions to wait for, or fewer.
LEMMA FleetKeeps ==
  ASSUME IInv, conf' = conf, run' = run,
         fleet'.todo \subseteq fleet.todo,
         fleet'.wait \subseteq fleet.wait,
         fleet'.stage # "spawn" => fleet'.todo = {},
         fleet'.stage \in {"teardown", "remove"} => fleet'.current # NoJob,
         fleet'.stage = "done" => Waited',
         fleet'.current \notin fleet'.wait,
         \A j \in fleet'.wait : jobs'[j].who = jobs[j].who
  PROVE  FleetOK'
<1>1. ASSUME NEW j \in fleet'.wait
      PROVE  /\ InBackground(jobs[j].who)'
             /\ jobs'[j].who \in run'.avail \ fleet'.todo
             /\ WaitsFor(jobs[j].who)' = {j}
  <2>1. /\ InBackground(jobs[j].who)
        /\ jobs[j].who \in run.avail \ fleet.todo
        /\ {i \in fleet.wait : jobs[i].who = jobs[j].who} = {j}
    BY <1>1 DEF IInv, FleetOK, WaitsFor
  <2>2. {i \in fleet'.wait : jobs'[i].who = jobs'[j].who} = {j}
    BY <1>1, <2>1
  <2>3. QED
    BY <1>1, <2>1, <2>2 DEF InBackground, WaitsFor
<1>2. QED
  BY <1>1 DEF FleetOK

\* The driver's part holds on, as long as a fleet that is done stays so.
LEMMA DriverKeeps ==
  ASSUME IInv, UNCHANGED <<conf, run>>, fleet.strays \subseteq fleet'.strays,
         fleet.stage = "done" => fleet'.stage = "done" /\ said' = said
  PROVE  DriverOK'
<1>1. \A r \in Reviewers : Outlived(r) => Outlived(r)'
  BY DEF Outlived
<1>2. QED
  BY <1>1 DEF IInv, DriverOK

\* A reviewer process is started, or cannot be.
LEMMA SpawnProcessKeeps ==
  ASSUME IInv, NEW r \in Reviewers, SpawnProcess(r) \/ SpawnUnrunnable(r)
  PROVE  IInv'
<1>0. /\ TypeOK
      /\ fleet \in Fleet(Len(jobs))
      /\ proc \in [Reviewers -> {"none", "running", "ended"}]
      /\ r \in fleet.todo
      /\ r \in run.avail
      /\ said[r] # "changes"
      /\ ~ InBackground(r)
      /\ fleet.stage = "spawn"
      /\ UNCHANGED <<conf, run, jobs, sids, said>>
      /\ fleet' = [fleet EXCEPT !.todo = fleet.todo \ {r}]
  BY DEF IInv, TypeOK, FleetTypeOK, ReviewerOK, SpawnProcess, SpawnUnrunnable, Started
<1>1. PICK p \in {"none", "running", "ended"} : proc' = [proc EXCEPT ![r] = p]
  BY <1>0 DEF SpawnProcess, SpawnUnrunnable
<1>2. /\ proc' \in [Reviewers -> {"none", "running", "ended"}]
      /\ \A q \in Reviewers : q # r => proc'[q] = proc[q]
  BY <1>0, <1>1
<1>3. /\ report' \in [1 .. MaxCycles -> [Reviewers -> Report]]
      /\ Kind[r] = "codex" \/ report'[run.cycle][r].fresh
      /\ \A q \in Reviewers : q # r => report'[run.cycle][q] = report[run.cycle][q]
  <2>1. CASE UNCHANGED report /\ Kind[r] = "codex"
    BY <1>0, <2>1 DEF TypeOK, FleetTypeOK
  <2>2. CASE \E text \in Texts \cup {"noise"} : Written(r, text)
    BY <1>0, <2>2, WrittenType
  <2>3. QED
    BY <2>1, <2>2 DEF SpawnProcess, SpawnUnrunnable, Texts
<1>4. /\ fleet' \in Fleet(Len(jobs))
      /\ fleet'.todo = fleet.todo \ {r}
      /\ UNCHANGED <<fleet.stage, fleet.wait, fleet.current, fleet.missed, fleet.strays>>
  BY <1>0 DEF Fleet
<1>5. TypeOK'
  BY <1>0, <1>2, <1>3, <1>4 DEF TypeOK, FleetTypeOK
<1>6. FleetOK'
  <2>1. fleet.current \notin fleet.wait
    BY DEF IInv, FleetOK
  <2>2. QED
    BY <1>0, <1>4, <2>1, FleetKeeps
<1>7. DriverOK'
  BY <1>0, <1>4, DriverKeeps
<1>8. \A q \in Reviewers : WaitsFor(q)' = WaitsFor(q)
  BY <1>0, <1>4 DEF WaitsFor
<1>9. ASSUME NEW q \in Reviewers PROVE ReviewerOK(q)'
  <2>1. CASE q = r
    BY <1>0, <1>3, <1>4, <2>1 DEF ReviewerOK, InBackground
  <2>2. CASE q # r
    <3>1. Kept(q)
      BY <1>0, <1>2, <1>3, <1>4, <1>8, <2>2 DEF Kept, Outlived
    <3>2. ReviewerOK(q)
      BY DEF IInv
    <3>3. QED
      BY <1>0, <3>1, <3>2, KeptReviewer
  <2>3. QED
    BY <2>1, <2>2
<1>10. QED
  BY <1>5, <1>6, <1>7, <1>9 DEF IInv

\* A session that cannot be started leaves its reviewer missed.
LEMMA SpawnMissesKeeps ==
  ASSUME IInv, NEW r \in Reviewers, SpawnMisses(r)
  PROVE  IInv'
<1>0. /\ TypeOK
      /\ fleet \in Fleet(Len(jobs))
      /\ r \in fleet.todo
      /\ fleet.stage = "spawn"
      /\ said[r] # "changes"
      /\ UNCHANGED <<conf, run, report, proc, sids, said>>
      /\ fleet' = [fleet EXCEPT !.todo = fleet.todo \ {r}, !.missed = fleet.missed \cup {r}]
  BY DEF IInv, TypeOK, FleetTypeOK, ReviewerOK, SpawnMisses
<1>1. /\ Len(jobs) \in Nat
      /\ Len(jobs') \in Nat
      /\ Len(jobs) <= Len(jobs')
      /\ jobs' \in Seq(Session(Len(jobs')))
      /\ \A j \in 1 .. Len(jobs) : jobs'[j] = jobs[j]
  <2>1. CASE jobs' = jobs
    BY <1>0, <2>1, JobFields DEF TypeOK, FleetTypeOK
  <2>2. CASE jobs' = Append(jobs, Job(r, FALSE))
    <3>1. /\ Len(jobs') = Len(jobs) + 1
          /\ jobs' \in Seq(Session(Len(jobs')))
          /\ \A j \in 1 .. Len(jobs) : jobs'[j] = jobs[j]
      BY <1>0, <2>2, AppendedJob
    <3>2. Len(jobs) \in Nat
      BY <1>0, JobFields
    <3>3. QED
      BY <3>1, <3>2
  <2>3. QED
    BY <2>1, <2>2 DEF SpawnMisses
<1>2. /\ fleet' \in Fleet(Len(jobs'))
      /\ fleet'.todo = fleet.todo \ {r}
      /\ fleet'.missed = fleet.missed \cup {r}
      /\ UNCHANGED <<fleet.stage, fleet.wait, fleet.current, fleet.strays>>
  <2>1. fleet \in Fleet(Len(jobs'))
    BY <1>0, <1>1 DEF Fleet
  <2>2. QED
    BY <1>0, <2>1 DEF Fleet
<1>3. TypeOK'
  BY <1>0, <1>1, <1>2 DEF TypeOK, FleetTypeOK
<1>4. \A j \in fleet.wait : jobs'[j] = jobs[j]
  BY <1>1, Waiting
<1>5. FleetOK'
  <2>1. fleet.current \notin fleet.wait
    BY DEF IInv, FleetOK
  <2>2. QED
    BY <1>0, <1>2, <1>4, <2>1, FleetKeeps
<1>6. DriverOK'
  BY <1>0, <1>2, DriverKeeps
<1>7. \A q \in Reviewers : WaitsFor(q)' = WaitsFor(q)
  BY <1>2, <1>4 DEF WaitsFor
<1>8. ASSUME NEW q \in Reviewers PROVE ReviewerOK(q)'
  <2>0. ReviewerOK(q)
    BY DEF IInv
  <2>1. CASE q = r
    BY <1>0, <1>2, <2>0, <2>1 DEF ReviewerOK, InBackground
  <2>2. CASE q # r
    <3>1. \A j \in WaitsFor(q) : jobs'[j] = jobs[j]
      BY <1>4 DEF WaitsFor
    <3>2. Kept(q)
      BY <1>0, <1>2, <1>7, <2>2, <3>1 DEF Kept, Outlived
    <3>3. QED
      BY <1>0, <2>0, <3>2, KeptReviewer
  <2>3. QED
    BY <2>1, <2>2
<1>9. QED
  BY <1>3, <1>5, <1>6, <1>8 DEF IInv

\* A session is started, and the fleet waits for it.
LEMMA SpawnSessionKeeps ==
  ASSUME IInv, NEW r \in Reviewers, SpawnSession(r)
  PROVE  IInv'
<1> DEFINE n == Len(jobs)
<1>0. /\ TypeOK
      /\ fleet \in Fleet(n)
      /\ r \in fleet.todo
      /\ r \in run.avail
      /\ fleet.stage = "spawn"
      /\ said[r] # "changes"
      /\ proc[r] # "running"
      /\ InBackground(r)
      /\ UNCHANGED <<conf, run, report, proc, said>>
      /\ sids' \in {sids, sids \cup {r}}
      /\ fleet' = [fleet EXCEPT !.todo = fleet.todo \ {r}, !.wait = fleet.wait \cup {n + 1}]
  BY DEF IInv, TypeOK, FleetTypeOK, ReviewerOK, SpawnSession
<1>1. PICK saved \in BOOLEAN : jobs' = Append(jobs, Job(r, saved))
  BY DEF SpawnSession
<1>2. /\ n \in Nat
      /\ Len(jobs') = n + 1
      /\ jobs' \in Seq(Session(Len(jobs')))
      /\ \A j \in 1 .. n : jobs'[j] = jobs[j]
      /\ jobs'[n + 1].who = r
  <2>1. /\ Len(jobs') = Len(jobs) + 1
        /\ jobs' \in Seq(Session(Len(jobs')))
        /\ \A j \in 1 .. Len(jobs) : jobs'[j] = jobs[j]
        /\ jobs'[Len(jobs) + 1] = Job(r, saved)
    BY <1>0, <1>1, AppendedJob
  <2>2. Len(jobs) \in Nat
    BY <1>0, JobFields
  <2>3. Job(r, saved).who = r
    BY DEF Job
  <2>4. QED
    BY <2>1, <2>2, <2>3
<1>3. /\ fleet' \in Fleet(n + 1)
      /\ fleet'.todo = fleet.todo \ {r}
      /\ fleet'.wait = fleet.wait \cup {n + 1}
      /\ UNCHANGED <<fleet.stage, fleet.current, fleet.missed, fleet.strays>>
  <2>1. fleet \in Fleet(n + 1)
    BY <1>0, <1>2 DEF Fleet
  <2>2. fleet.wait \cup {n + 1} \in SUBSET (1 .. n + 1)
    BY <1>2, <2>1 DEF Fleet
  <2>3. QED
    BY <1>0, <2>1, <2>2 DEF Fleet
<1>4. TypeOK'
  <2>1. sids' \subseteq Reviewers
    BY <1>0 DEF TypeOK, FleetTypeOK
  <2>2. QED
    BY <1>0, <1>2, <1>3, <2>1 DEF TypeOK, FleetTypeOK
<1>5. \A j \in fleet.wait : j \in 1 .. n /\ j # n + 1 /\ jobs'[j] = jobs[j] /\ jobs[j].who # r
  BY <1>0, <1>2, Waiting
<1>6. /\ WaitsFor(r)' = {n + 1}
      /\ \A q \in Reviewers : q # r => WaitsFor(q)' = WaitsFor(q)
  BY <1>2, <1>3, <1>5 DEF WaitsFor
<1>7. FleetOK'
  <2>1. fleet.current \notin fleet.wait /\ fleet.current # n + 1
    BY <1>0, <1>2, FleetFields DEF IInv, FleetOK
  <2>2. ASSUME NEW j \in fleet'.wait
        PROVE  /\ InBackground(jobs[j].who)'
               /\ jobs'[j].who \in run'.avail \ fleet'.todo
               /\ WaitsFor(jobs[j].who)' = {j}
    <3>1. CASE j = n + 1
      BY <1>0, <1>2, <1>3, <1>6, <3>1 DEF InBackground
    <3>2. CASE j \in fleet.wait
      <4>1. /\ InBackground(jobs[j].who)
            /\ jobs[j].who \in run.avail \ fleet.todo
            /\ WaitsFor(jobs[j].who) = {j}
            /\ jobs[j].who \in Reviewers
        BY <3>2, Waiting DEF IInv, FleetOK
      <4>2. QED
        BY <1>0, <1>3, <1>5, <1>6, <3>2, <4>1 DEF InBackground
    <3>3. QED
      BY <1>3, <3>1, <3>2
  <2>3. QED
    BY <1>0, <1>3, <2>1, <2>2 DEF FleetOK
<1>8. DriverOK'
  BY <1>0, <1>3, DriverKeeps
<1>9. ASSUME NEW q \in Reviewers PROVE ReviewerOK(q)'
  <2>0. ReviewerOK(q)
    BY DEF IInv
  <2>1. CASE q = r
    BY <1>0, <1>3, <1>6, <2>0, <2>1 DEF ReviewerOK, InBackground
  <2>2. CASE q # r
    <3>1. \A j \in WaitsFor(q) : jobs'[j] = jobs[j]
      BY <1>5 DEF WaitsFor
    <3>2. Kept(q)
      BY <1>0, <1>3, <1>6, <2>2, <3>1 DEF Kept, Outlived
    <3>3. QED
      BY <1>0, <2>0, <3>2, KeptReviewer
  <2>3. QED
    BY <2>1, <2>2
<1>10. QED
  BY <1>4, <1>7, <1>8, <1>9 DEF IInv


\* The steps that only move the barrier on.
LEMMA BarrierKeeps ==
  ASSUME IInv, Spawned \/ TimesOut \/ Keep \/ FindsNone \/ Assembled
  PROVE  IInv'
<1>0. /\ TypeOK
      /\ fleet \in Fleet(Len(jobs))
      /\ Len(jobs) \in Nat
      /\ fleet.current \notin fleet.wait
      /\ UNCHANGED <<conf, run, report, jobs, proc, sids, said>>
      /\ fleet.stage # "done"
  BY JobFields
  DEF IInv, FleetOK, TypeOK, FleetTypeOK, Spawned, TimesOut, Keep, FindsNone, Assembled
<1>1. /\ fleet' \in Fleet(Len(jobs))
      /\ UNCHANGED <<fleet.todo, fleet.wait, fleet.missed, fleet.strays>>
      /\ fleet'.current \in {fleet.current, NoJob}
      /\ \/ fleet'.stage = "poll"
         \/ fleet'.stage = "remove" /\ fleet'.current # NoJob
         \/ fleet'.stage = "done" /\ Assembled
      /\ fleet.todo = {}
  <2>1. CASE Spawned
    BY <1>0, <2>1 DEF Spawned, Fleet
  <2>2. CASE TimesOut
    BY <1>0, <2>2 DEF TimesOut, Fleet, IInv, FleetOK
  <2>3. CASE Keep
    <3>1. /\ fleet' = [fleet EXCEPT !.stage = "poll", !.current = NoJob, !.own = FALSE]
          /\ fleet.stage = "teardown"
      BY <2>3 DEF Keep, TornDown
    <3>2. NoJob \in 0 .. Len(jobs)
      BY <1>0 DEF NoJob
    <3>3. QED
      BY <1>0, <3>1, <3>2 DEF Fleet, IInv, FleetOK
  <2>4. CASE Assembled
    BY <1>0, <2>4 DEF Assembled, Fleet, IInv, FleetOK
  <2>5. CASE FindsNone
    <3>1. fleet.stage = "teardown" /\ fleet.current # NoJob
      BY <2>5 DEF FindsNone, IInv, FleetOK
    <3>2. PICK own \in BOOLEAN : fleet' = [fleet EXCEPT !.stage = "remove", !.own = own]
      BY <2>5 DEF FindsNone
    <3>3. QED
      BY <1>0, <3>1, <3>2 DEF Fleet, IInv, FleetOK
  <2>6. QED
    BY <2>1, <2>2, <2>3, <2>4, <2>5
<1>2. TypeOK'
  BY <1>0, <1>1 DEF TypeOK, FleetTypeOK
<1>3. FleetOK'
  <2>1. NoJob \notin fleet.wait
    BY <1>0, FleetFields DEF NoJob
  <2>2. fleet'.stage = "done" => Waited'
    BY <1>0, <1>1 DEF Assembled, Waited
  <2>3. QED
    BY <1>0, <1>1, <2>1, <2>2, FleetKeeps
<1>4. DriverOK'
  BY <1>0, <1>1, DriverKeeps
<1>5. ASSUME NEW q \in Reviewers PROVE ReviewerOK(q)'
  <2>1. Kept(q)
    BY <1>0, <1>1 DEF Kept, WaitsFor, Outlived
  <2>2. ReviewerOK(q)
    BY DEF IInv
  <2>3. QED
    BY <1>0, <2>1, <2>2, KeptReviewer
<1>6. QED
  BY <1>2, <1>3, <1>4, <1>5 DEF IInv

\* A session is no longer waited for when its report is written, and what it
\* asked for is in the report.
LEMMA CollectReportKeeps ==
  ASSUME IInv, NEW j \in 1 .. Len(jobs), CollectReport(j)
  PROVE  IInv'
<1> DEFINE r == jobs[j].who
<1>0. /\ TypeOK
      /\ fleet \in Fleet(Len(jobs))
      /\ fleet.stage = "poll"
      /\ j \in fleet.wait
      /\ UNCHANGED <<conf, run, proc, sids, said>>
      /\ fleet' = [fleet EXCEPT !.stage = "teardown", !.current = j,
                                !.wait = fleet.wait \ {j}]
      /\ jobs \in [1 .. Len(jobs) -> Session(Len(jobs))]
      /\ jobs[j] \in Session(Len(jobs))
      /\ r \in Reviewers
      /\ jobs[j].text \in Texts \cup {"noise"}
      /\ Len(jobs) \in Nat
  BY JobFields DEF IInv, TypeOK, FleetTypeOK, CollectReport
<1>1. PICK text \in Texts \cup {"noise"} :
        /\ Written(r, text)
        /\ jobs[j].state # "running" => text = jobs[j].text
  BY <1>0 DEF CollectReport
<1>2. /\ report' \in [1 .. MaxCycles -> [Reviewers -> Report]]
      /\ report'[run.cycle][r].text = text
      /\ report'[run.cycle][r].fresh
      /\ \A q \in Reviewers : q # r => report'[run.cycle][q] = report[run.cycle][q]
  BY <1>0, <1>1, WrittenType
<1>3. /\ fleet' \in Fleet(Len(jobs))
      /\ fleet'.stage = "teardown"
      /\ fleet'.current = j
      /\ fleet'.wait = fleet.wait \ {j}
      /\ UNCHANGED <<fleet.todo, fleet.missed, fleet.strays>>
  <2>1. fleet.wait \ {j} \in SUBSET (1 .. Len(jobs)) /\ j \in 0 .. Len(jobs)
    BY <1>0 DEF Fleet
  <2>2. QED
    BY <1>0, <2>1 DEF Fleet
<1>4. PICK k \in Session(Len(jobs)) : jobs' = [jobs EXCEPT ![j] = k] /\ k.who = r
  <2>1. PICK s \in {jobs[j].state, "ended"} :
          jobs' = [jobs EXCEPT ![j].state = s, ![j].text = "noise"]
    BY DEF CollectReport
  <2>2. [jobs[j] EXCEPT !.state = s, !.text = "noise"] \in Session(Len(jobs))
    BY <1>0 DEF Session
  <2>3. [jobs[j] EXCEPT !.state = s, !.text = "noise"].who = r
    BY <1>0 DEF Session
  <2>4. jobs' = [jobs EXCEPT ![j] = [jobs[j] EXCEPT !.state = s, !.text = "noise"]]
    BY <1>0, <2>1
  <2>5. QED
    BY <2>2, <2>3, <2>4
<1>5. /\ Len(jobs') = Len(jobs)
      /\ jobs' \in Seq(Session(Len(jobs')))
      /\ jobs'[j].who = r
      /\ \A i \in 1 .. Len(jobs) : i # j => jobs'[i] = jobs[i]
  BY <1>0, <1>4, ChangedJob
<1>6. TypeOK'
  BY <1>0, <1>2, <1>3, <1>5 DEF TypeOK, FleetTypeOK
<1>7. /\ fleet.wait \subseteq 1 .. Len(jobs)
      /\ WaitsFor(r) = {j}
      /\ InBackground(r)
      /\ fleet.todo = {}
  BY <1>0, Waiting, FleetFields DEF IInv, FleetOK
<1>8. FleetOK'
  <2>1. j # NoJob
    BY DEF NoJob
  <2>2. \A i \in fleet'.wait : jobs'[i].who = jobs[i].who
    BY <1>3, <1>5, <1>7
  <2>3. QED
    BY <1>0, <1>3, <1>7, <2>1, <2>2, FleetKeeps
<1>9. DriverOK'
  BY <1>0, <1>3, DriverKeeps
<1>10. \A q \in Reviewers : WaitsFor(q)' = IF q = r THEN {} ELSE WaitsFor(q)
  BY <1>0, <1>3, <1>5, <1>7 DEF WaitsFor
<1>11. ASSUME NEW q \in Reviewers PROVE ReviewerOK(q)'
  <2>0. ReviewerOK(q)
    BY DEF IInv
  <2>1. CASE q = r
    <3>1. said[r] = "changes" => jobs[j].state = "ended" /\ jobs[j].text = "changes"
      BY <1>7, <2>0, <2>1 DEF ReviewerOK
    <3>2. said[r] = "changes" => text = "changes"
      BY <1>1, <3>1
    <3>3. /\ report'[run'.cycle][q].text = text
          /\ report'[run'.cycle][q].fresh
          /\ WaitsFor(q)' = {}
      BY <1>0, <1>2, <1>10, <2>1
    <3>4. /\ proc'[q] = proc[q]
          /\ said'[q] = said[q]
          /\ fleet'.todo = fleet.todo
          /\ run' = run
          /\ InBackground(q)' = InBackground(q)
      BY <1>0, <1>3 DEF InBackground
    <3>5. said[q] = "changes" => text = "changes"
      BY <2>1, <3>2
    <3> HIDE DEF r
    <3>6. QED
      BY <2>0, <3>3, <3>4, <3>5 DEF ReviewerOK
  <2>2. CASE q # r
    <3>1. \A i \in WaitsFor(q) : jobs'[i] = jobs[i]
      BY <1>0, <1>5, <1>7, <2>2 DEF WaitsFor
    <3>2. Kept(q)
      BY <1>0, <1>2, <1>3, <1>10, <2>2, <3>1 DEF Kept, Outlived
    <3>3. QED
      BY <1>0, <2>0, <3>2, KeptReviewer
  <2>3. QED
    BY <2>1, <2>2
<1>12. QED
  BY <1>6, <1>8, <1>9, <1>11 DEF IInv

\* A session changes that nobody waits for, or that goes on.
LEMMA OtherJobKeeps ==
  ASSUME IInv, NEW j \in 1 .. Len(jobs), NEW k \in Session(Len(jobs)),
         jobs' = [jobs EXCEPT ![j] = k], k.who = jobs[j].who,
         j \notin fleet.wait \/ jobs[j].state # "ended",
         UNCHANGED <<conf, run, report, proc, sids, said>>,
         fleet' \in Fleet(Len(jobs)),
         UNCHANGED <<fleet.todo, fleet.wait, fleet.missed, fleet.strays>>,
         \/ UNCHANGED <<fleet.stage, fleet.current>>
         \/ fleet.stage = "remove" /\ fleet'.stage = "poll" /\ fleet'.current = NoJob
  PROVE  IInv'
<1>0. TypeOK /\ fleet.current \notin fleet.wait /\ fleet.wait \subseteq 1 .. Len(jobs)
  BY FleetFields DEF IInv, FleetOK
<1>1. /\ Len(jobs') = Len(jobs)
      /\ jobs' \in Seq(Session(Len(jobs')))
      /\ jobs'[j] = k
      /\ \A i \in 1 .. Len(jobs) : i # j => jobs'[i] = jobs[i]
  BY <1>0, ChangedJob
<1>2. \A i \in fleet.wait : jobs'[i].who = jobs[i].who
  BY <1>0, <1>1
<1>3. TypeOK'
  BY <1>0, <1>1 DEF TypeOK, FleetTypeOK
<1>4. FleetOK'
  <2>1. NoJob \notin fleet.wait
    BY <1>0 DEF NoJob
  <2>2. /\ fleet'.stage # "spawn" => fleet.todo = {}
        /\ fleet'.stage \in {"teardown", "remove"} => fleet'.current # NoJob
        /\ fleet'.stage = "done" => Waited'
    BY DEF IInv, FleetOK, Waited
  <2>3. QED
    BY <1>0, <1>2, <2>1, <2>2, FleetKeeps
<1>5. DriverOK'
  BY DriverKeeps
<1>6. ASSUME NEW q \in Reviewers PROVE ReviewerOK(q)'
  <2>1. WaitsFor(q)' = WaitsFor(q)
    BY <1>2 DEF WaitsFor
  <2>2. \A i \in WaitsFor(q) : jobs[i].state = "ended" => jobs'[i] = jobs[i]
    BY <1>0, <1>1 DEF WaitsFor
  <2>3. Kept(q)
    BY <2>1, <2>2 DEF Kept, Outlived
  <2>4. ReviewerOK(q)
    BY DEF IInv
  <2>5. QED
    BY <2>3, <2>4, KeptReviewer
<1>7. QED
  BY <1>3, <1>4, <1>5, <1>6 DEF IInv

\* A session is removed after its report was collected.
LEMMA RemoveKeeps ==
  ASSUME IInv, Remove
  PROVE  IInv'
<1> DEFINE j == fleet.current
<1>0. /\ TypeOK
      /\ fleet \in Fleet(Len(jobs))
      /\ fleet.stage = "remove"
      /\ j \notin fleet.wait
      /\ j # NoJob
      /\ j \in 0 .. Len(jobs)
      /\ Len(jobs) \in Nat
      /\ UNCHANGED <<conf, run, report, proc, sids, said>>
      /\ fleet' = [fleet EXCEPT !.stage = "poll", !.current = NoJob, !.own = FALSE]
  BY FleetFields, JobFields DEF IInv, FleetOK, TypeOK, FleetTypeOK, Remove, TornDown
<1>1. j \in 1 .. Len(jobs)
  BY <1>0 DEF NoJob
<1>2. jobs[j] \in Session(Len(jobs))
  BY <1>0, <1>1, JobFields
<1>3. PICK k \in Session(Len(jobs)) : jobs' = [jobs EXCEPT ![j] = k] /\ k.who = jobs[j].who
  <2>1. Removed(jobs[j]) \in Session(Len(jobs)) /\ Removed(jobs[j]).who = jobs[j].who
    BY <1>2 DEF Removed, Session
  <2>2. PICK k \in {Removed(jobs[j]), jobs[j]} : jobs' = [jobs EXCEPT ![j] = k]
    BY DEF Remove
  <2>3. QED
    BY <1>2, <2>1, <2>2
<1>4. /\ fleet' \in Fleet(Len(jobs))
      /\ UNCHANGED <<fleet.todo, fleet.wait, fleet.missed, fleet.strays>>
      /\ fleet'.stage = "poll"
      /\ fleet'.current = NoJob
  <2>1. NoJob \in 0 .. Len(jobs)
    BY <1>0 DEF NoJob
  <2>2. QED
    BY <1>0, <2>1 DEF Fleet
<1> HIDE DEF j
<1>5. QED
  BY <1>0, <1>1, <1>3, <1>4, OtherJobKeeps DEF j

\* A process that ends has written what it says.
LEMMA ProcessEndsKeeps ==
  ASSUME IInv, NEW r \in Reviewers, ProcessEnds(r)
  PROVE  IInv'
<1>0. /\ TypeOK
      /\ proc \in [Reviewers -> {"none", "running", "ended"}]
      /\ said \in [Reviewers -> Texts \cup {"none"}]
      /\ report \in [1 .. MaxCycles -> [Reviewers -> Report]]
      /\ proc[r] = "running"
      /\ r \in run.avail \ fleet.todo
      /\ ~ InBackground(r)
      /\ proc' = [proc EXCEPT ![r] = "ended"]
      /\ UNCHANGED <<conf, run, fleet, jobs, sids>>
      /\ fleet.stage # "done"
      /\ WaitsFor(r) = {}
  BY Waiting
  DEF IInv, FleetOK, Waited, TypeOK, FleetTypeOK, ReviewerOK, ProcessEnds
<1>1. /\ proc' \in [Reviewers -> {"none", "running", "ended"}]
      /\ proc'[r] = "ended"
      /\ \A q \in Reviewers : q # r => proc'[q] = proc[q]
  BY <1>0
<1>2. /\ report' \in [1 .. MaxCycles -> [Reviewers -> Report]]
      /\ said' \in [Reviewers -> Texts \cup {"none"}]
      /\ \A q \in Reviewers : q # r => /\ report'[run.cycle][q] = report[run.cycle][q]
                                       /\ said'[q] = said[q]
      /\ said'[r] = "changes" => report'[run.cycle][r].text = "changes"
      /\ Kind[r] = "codex" \/ report'[run.cycle][r].fresh
  <2>1. CASE \E text \in Texts : Written(r, text) /\ said' = [said EXCEPT ![r] = text]
    <3>1. PICK text \in Texts : Written(r, text) /\ said' = [said EXCEPT ![r] = text]
      BY <2>1
    <3>2. /\ report' \in [1 .. MaxCycles -> [Reviewers -> Report]]
          /\ report'[run.cycle][r].text = text
          /\ report'[run.cycle][r].fresh
          /\ \A q \in Reviewers : q # r => report'[run.cycle][q] = report[run.cycle][q]
      BY <1>0, <3>1, WrittenType
    <3>3. QED
      BY <1>0, <3>1, <3>2
  <2>2. CASE Kind[r] = "codex" /\ UNCHANGED <<report, said>>
    <3>1. said[r] # "changes"
      BY <1>0 DEF IInv, ReviewerOK
    <3>2. QED
      BY <1>0, <2>2, <3>1
  <2>3. QED
    BY <2>1, <2>2 DEF ProcessEnds
<1>3. TypeOK'
  BY <1>0, <1>1, <1>2 DEF TypeOK, FleetTypeOK
<1>4. FleetOK'
  BY <1>0, FleetKeeps DEF IInv, FleetOK
<1>5. DriverOK'
  BY <1>0, DriverKeeps
<1>6. \A q \in Reviewers : WaitsFor(q)' = WaitsFor(q)
  BY <1>0 DEF WaitsFor
<1>7. ASSUME NEW q \in Reviewers PROVE ReviewerOK(q)'
  <2>1. CASE q = r
    BY <1>0, <1>1, <1>2, <1>6, <2>1 DEF ReviewerOK, InBackground
  <2>2. CASE q # r
    <3>1. Kept(q)
      BY <1>0, <1>1, <1>2, <1>6, <2>2 DEF Kept, Outlived
    <3>2. ReviewerOK(q)
      BY DEF IInv
    <3>3. QED
      BY <1>0, <3>1, <3>2, KeptReviewer
  <2>3. QED
    BY <2>1, <2>2
<1>8. QED
  BY <1>3, <1>4, <1>5, <1>7 DEF IInv

\* A process outlives its timeout, having said nothing.
LEMMA ProcessOutlivesKeeps ==
  ASSUME IInv, NEW r \in Reviewers, ProcessOutlives(r)
  PROVE  IInv'
<1>0. /\ TypeOK
      /\ fleet \in Fleet(Len(jobs))
      /\ proc \in [Reviewers -> {"none", "running", "ended"}]
      /\ proc[r] = "running"
      /\ r \in run.avail \ fleet.todo
      /\ ~ InBackground(r)
      /\ said[r] # "changes"
      /\ proc' = [proc EXCEPT ![r] = "ended"]
      /\ fleet' = [fleet EXCEPT !.strays = fleet.strays \cup {<<run.cycle, r>>}]
      /\ UNCHANGED <<conf, run, report, jobs, sids, said>>
      /\ fleet.stage # "done"
      /\ WaitsFor(r) = {}
      /\ run.cycle \in 1 .. MaxCycles
      /\ fleet.current \notin fleet.wait
  BY Waiting, RunFields
  DEF IInv, FleetOK, Waited, TypeOK, FleetTypeOK, ReviewerOK, ProcessOutlives
<1>1. /\ proc' \in [Reviewers -> {"none", "running", "ended"}]
      /\ proc'[r] = "ended"
      /\ \A q \in Reviewers : q # r => proc'[q] = proc[q]
  BY <1>0
<1>2. /\ fleet' \in Fleet(Len(jobs))
      /\ UNCHANGED <<fleet.stage, fleet.todo, fleet.wait, fleet.current, fleet.missed>>
      /\ fleet.strays \subseteq fleet'.strays
      /\ <<run.cycle, r>> \in fleet'.strays
  BY <1>0 DEF Fleet
<1>3. TypeOK'
  BY <1>0, <1>1, <1>2 DEF TypeOK, FleetTypeOK
<1>4. FleetOK'
  <2>1. /\ fleet'.stage # "spawn" => fleet'.todo = {}
        /\ fleet'.stage \in {"teardown", "remove"} => fleet'.current # NoJob
    BY <1>2 DEF IInv, FleetOK
  <2>2. QED
    BY <1>0, <1>2, <2>1, FleetKeeps
<1>5. DriverOK'
  BY <1>0, <1>2, DriverKeeps
<1>6. \A q \in Reviewers : WaitsFor(q)' = WaitsFor(q)
  BY <1>0, <1>2 DEF WaitsFor
<1>7. ASSUME NEW q \in Reviewers PROVE ReviewerOK(q)'
  <2>1. CASE q = r
    BY <1>0, <1>1, <1>2, <1>6, <2>1 DEF ReviewerOK, InBackground, Outlived
  <2>2. CASE q # r
    <3>1. Kept(q)
      BY <1>0, <1>1, <1>2, <1>6, <2>2 DEF Kept, Outlived
    <3>2. ReviewerOK(q)
      BY DEF IInv
    <3>3. QED
      BY <1>0, <3>1, <3>2, KeptReviewer
  <2>3. QED
    BY <2>1, <2>2
<1>8. QED
  BY <1>3, <1>4, <1>5, <1>7 DEF IInv

\* What it writes is a report of which nothing more is said.
LEMMA StrayWritesKeeps ==
  ASSUME IInv, StrayWrites
  PROVE  IInv'
<1>0. /\ TypeOK
      /\ report \in [1 .. MaxCycles -> [Reviewers -> Report]]
      /\ fleet.strays \in SUBSET ((1 .. MaxCycles) \X Reviewers)
      /\ UNCHANGED <<conf, run, fleet, jobs, proc, sids, said>>
      /\ run.cycle \in 1 .. MaxCycles
  BY FleetFields, RunFields DEF IInv, TypeOK, FleetTypeOK, StrayWrites
<1>1. PICK s \in fleet.strays, text \in Texts :
        report' = [report EXCEPT ![s[1]][s[2]] = [text |-> text, fresh |-> FALSE]]
  BY DEF StrayWrites
<1>2. /\ [text |-> text, fresh |-> FALSE] \in Report
      /\ s = <<s[1], s[2]>>
      /\ s[1] \in 1 .. MaxCycles
      /\ s[2] \in Reviewers
  BY <1>0, <1>1 DEF Report
<1>3. /\ report' \in [1 .. MaxCycles -> [Reviewers -> Report]]
      /\ \A q \in Reviewers : ~ Outlived(q) => report'[run.cycle][q] = report[run.cycle][q]
  BY <1>0, <1>1, <1>2 DEF Outlived
<1>4. TypeOK'
  BY <1>0, <1>3 DEF TypeOK, FleetTypeOK
<1>5. FleetOK'
  BY <1>0 DEF IInv, FleetOK, WaitsFor, InBackground, Waited
<1>6. DriverOK'
  BY <1>0, DriverKeeps
<1>7. ASSUME NEW q \in Reviewers PROVE ReviewerOK(q)'
  <2>1. /\ ReviewerOK(q)
        /\ Outlived(q)' = Outlived(q)
        /\ WaitsFor(q)' = WaitsFor(q)
    BY <1>0 DEF IInv, Outlived, WaitsFor
  <2>2. CASE Outlived(q)
    BY <1>0, <2>1, <2>2 DEF ReviewerOK, InBackground
  <2>3. CASE ~ Outlived(q)
    BY <1>0, <1>3, <2>1, <2>3 DEF ReviewerOK, InBackground
  <2>4. QED
    BY <2>2, <2>3
<1>8. QED
  BY <1>4, <1>5, <1>6, <1>7 DEF IInv


\* What sessions do by themselves.
LEMMA JobStepKeeps ==
  ASSUME IInv, JobStep
  PROVE  IInv'
<1>0. PICK j \in 1 .. Len(jobs) : JobBegins(j) \/ JobCommits(j) \/ JobEnds(j)
  BY DEF JobStep
<1>1. /\ TypeOK
      /\ fleet \in Fleet(Len(jobs))
      /\ jobs \in [1 .. Len(jobs) -> Session(Len(jobs))]
      /\ jobs[j] \in Session(Len(jobs))
      /\ jobs[j].who \in Reviewers
      /\ jobs[j].state \in {"starting", "running"}
      /\ UNCHANGED <<conf, run, fleet, report, proc, sids>>
  BY <1>0, JobFields DEF IInv, TypeOK, FleetTypeOK, JobBegins, JobCommits, JobEnds
<1>2. CASE UNCHANGED said
  <2>1. PICK k \in Session(Len(jobs)) : /\ jobs' = [jobs EXCEPT ![j] = k]
                                        /\ k.who = jobs[j].who
    <3>1. CASE JobBegins(j)
      <4>1. jobs' = [jobs EXCEPT ![j] = [jobs[j] EXCEPT !.state = "running", !.tree = TRUE]]
        BY <1>1, <3>1 DEF JobBegins
      <4>2. /\ [jobs[j] EXCEPT !.state = "running", !.tree = TRUE] \in Session(Len(jobs))
            /\ [jobs[j] EXCEPT !.state = "running", !.tree = TRUE].who = jobs[j].who
        BY <1>1 DEF Session
      <4>3. QED
        BY <4>1, <4>2
    <3>2. CASE JobCommits(j)
      <4>1. PICK when \in {"early", "late"} :
              jobs' = [jobs EXCEPT ![j] = [jobs[j] EXCEPT !.commits = when]]
        BY <1>1, <3>2 DEF JobCommits
      <4>2. /\ [jobs[j] EXCEPT !.commits = when] \in Session(Len(jobs))
            /\ [jobs[j] EXCEPT !.commits = when].who = jobs[j].who
        BY <1>1 DEF Session
      <4>3. QED
        BY <4>1, <4>2
    <3>3. CASE JobEnds(j)
      <4>1. PICK text \in Texts \cup {"noise"} :
              jobs' = [jobs EXCEPT ![j].state = "ended", ![j].text = text]
        <5>1. jobs[j].text \in Texts \cup {"noise"}
          BY <1>1 DEF Session
        <5>2. CASE j \in fleet.wait
          BY <3>3, <5>2 DEF JobEnds
        <5>3. CASE j \notin fleet.wait
          <6>1. jobs' = [jobs EXCEPT ![j].state = "ended"]
            BY <3>3, <5>3 DEF JobEnds
          <6>2. [jobs[j] EXCEPT !.state = "ended"]
                  = [jobs[j] EXCEPT !.state = "ended", !.text = jobs[j].text]
            BY <1>1 DEF Session
          <6>3. jobs' = [jobs EXCEPT ![j].state = "ended", ![j].text = jobs[j].text]
            BY <1>1, <6>1, <6>2
          <6>4. QED
            BY <5>1, <6>3
        <5>4. QED
          BY <5>2, <5>3
      <4>2. jobs' = [jobs EXCEPT ![j] = [jobs[j] EXCEPT !.state = "ended", !.text = text]]
        BY <1>1, <4>1
      <4>3. /\ [jobs[j] EXCEPT !.state = "ended", !.text = text] \in Session(Len(jobs))
            /\ [jobs[j] EXCEPT !.state = "ended", !.text = text].who = jobs[j].who
        BY <1>1 DEF Session
      <4>4. QED
        BY <4>2, <4>3
    <3>4. QED
      BY <1>0, <3>1, <3>2, <3>3
  <2>2. QED
    BY <1>1, <1>2, <2>1, OtherJobKeeps
<1>3. CASE ~ UNCHANGED said
  <2> DEFINE r == jobs[j].who
  <2>1. PICK text \in Texts :
          /\ j \in fleet.wait
          /\ jobs' = [jobs EXCEPT ![j].state = "ended", ![j].text = text]
          /\ said' = [said EXCEPT ![r] = text]
    BY <1>0, <1>3 DEF JobBegins, JobCommits, JobEnds
  <2>2. PICK k \in Session(Len(jobs)) : /\ jobs' = [jobs EXCEPT ![j] = k]
                                        /\ k.who = jobs[j].who
                                        /\ k.state = "ended"
                                        /\ k.text = text
    <3>1. jobs' = [jobs EXCEPT ![j] = [jobs[j] EXCEPT !.state = "ended", !.text = text]]
      BY <1>1, <2>1
    <3>2. /\ [jobs[j] EXCEPT !.state = "ended", !.text = text] \in Session(Len(jobs))
          /\ [jobs[j] EXCEPT !.state = "ended", !.text = text].who = jobs[j].who
          /\ [jobs[j] EXCEPT !.state = "ended", !.text = text].state = "ended"
          /\ [jobs[j] EXCEPT !.state = "ended", !.text = text].text = text
      BY <1>1 DEF Session
    <3>3. QED
      BY <3>1, <3>2
  <2>3. /\ Len(jobs') = Len(jobs)
        /\ jobs' \in Seq(Session(Len(jobs')))
        /\ jobs'[j] = k
        /\ \A i \in 1 .. Len(jobs) : i # j => jobs'[i] = jobs[i]
    BY <1>1, <2>2, ChangedJob
  <2>4. /\ said' \in [Reviewers -> Texts \cup {"none"}]
        /\ said'[r] = text
        /\ \A q \in Reviewers : q # r => said'[q] = said[q]
    BY <1>1, <2>1 DEF TypeOK, FleetTypeOK
  <2>5. TypeOK'
    BY <1>1, <2>3, <2>4 DEF TypeOK, FleetTypeOK
  <2>6. /\ fleet.wait \subseteq 1 .. Len(jobs)
        /\ WaitsFor(r) = {j}
        /\ InBackground(r)
        /\ fleet.stage # "done"
    BY <1>1, <2>1, Waiting, FleetFields DEF IInv, FleetOK, Waited
  <2>7. \A i \in fleet.wait : jobs'[i].who = jobs[i].who
    BY <2>2, <2>3, <2>6
  <2>8. FleetOK'
    BY <1>1, <2>7, FleetKeeps DEF IInv, FleetOK, Waited
  <2>9. DriverOK'
    BY <1>1, <2>6, DriverKeeps
  <2>10. \A q \in Reviewers : WaitsFor(q)' = WaitsFor(q)
    BY <1>1, <2>7 DEF WaitsFor
  <2>11. ASSUME NEW q \in Reviewers PROVE ReviewerOK(q)'
    <3>0. ReviewerOK(q)
      BY DEF IInv
    <3>1. CASE q = r
      <4>1. /\ WaitsFor(q)' = {j}
            /\ jobs'[j].state = "ended"
            /\ said'[q] = text
            /\ jobs'[j].text = text
        BY <2>2, <2>3, <2>4, <2>6, <2>10, <3>1
      <4>2. q \in run.avail \ fleet.todo /\ proc[q] # "running"
        BY <2>1, <2>6, <3>0, <3>1 DEF IInv, FleetOK, ReviewerOK
      <4> HIDE DEF r
      <4>3. QED
        BY <1>1, <3>0, <4>1, <4>2 DEF ReviewerOK, InBackground
    <3>2. CASE q # r
      <4>1. \A i \in WaitsFor(q) : jobs'[i] = jobs[i]
        BY <1>1, <2>3, <2>6, <3>2 DEF WaitsFor
      <4>2. Kept(q)
        BY <1>1, <2>4, <2>10, <3>2, <4>1 DEF Kept, Outlived
      <4>3. QED
        BY <1>1, <3>0, <4>2, KeptReviewer
    <3>3. QED
      BY <3>1, <3>2
  <2>12. QED
    BY <2>5, <2>8, <2>9, <2>11 DEF IInv
<1>4. QED
  BY <1>2, <1>3

\* A step of the fleet or of a process is one of these.
LEMMA FleetStepKeeps ==
  ASSUME IInv, FleetStep \/ ProcessStep
  PROVE  IInv'
BY SpawnProcessKeeps, SpawnSessionKeeps, SpawnMissesKeeps, BarrierKeeps,
   CollectReportKeeps, RemoveKeeps, ProcessEndsKeeps, ProcessOutlivesKeeps
DEF FleetStep, ProcessStep
-----------------------------------------------------------------------------
(* The steps of the scripts.                                                 *)

\* A fleet that is sent out has said nothing yet, and every reviewer of it is
\* still to be started.
LEMMA SentOutKeeps ==
  ASSUME IInv, NEW avail \in SUBSET Reviewers, SentOut(avail), run' \in Driver(conf),
         run'.avail = avail, UNCHANGED <<conf, jobs>>, sids' \subseteq Reviewers
  PROVE  /\ TypeOK'
         /\ FleetOK'
         /\ \A q \in Reviewers : ReviewerOK(q)'
         /\ \A q \in Reviewers : said'[q] # "changes"
<1>0. TypeOK
  BY DEF IInv
<1>1. /\ fleet' \in Fleet(Len(jobs))
      /\ fleet'.stage = "spawn"
      /\ fleet'.todo = avail
      /\ fleet'.wait = {}
      /\ fleet'.current = NoJob
      /\ report' \in [1 .. MaxCycles -> [Reviewers -> Report]]
      /\ proc' = Quiet
      /\ said' = Quiet
  BY <1>0, SentOutType
<1>2. \A q \in Reviewers : proc'[q] = "none" /\ said'[q] = "none"
  BY <1>1 DEF Quiet
<1>3. TypeOK'
  <2>1. /\ proc' \in [Reviewers -> {"none", "running", "ended"}]
        /\ said' \in [Reviewers -> Texts \cup {"none"}]
    BY <1>1 DEF Quiet
  <2>2. QED
    BY <1>0, <1>1, <2>1 DEF TypeOK, FleetTypeOK
<1>4. FleetOK'
  BY <1>1 DEF FleetOK
<1>5. \A q \in Reviewers : ReviewerOK(q)'
  BY <1>1, <1>2 DEF ReviewerOK
<1>6. QED
  BY <1>2, <1>3, <1>4, <1>5

\* While the script only takes note, the fleet's part holds on.
LEMMA NotedKeeps ==
  ASSUME IInv, UNCHANGED <<conf, fleet, report, jobs, proc, sids, said>>,
         run' \in Driver(conf), UNCHANGED <<run.avail, run.cycle>>
  PROVE  /\ TypeOK'
         /\ FleetOK'
         /\ \A q \in Reviewers : ReviewerOK(q)'
<1>1. TypeOK'
  BY DEF IInv, TypeOK, FleetTypeOK
<1>2. FleetOK'
  BY DEF IInv, FleetOK, WaitsFor, InBackground, Waited
<1>3. \A q \in Reviewers : ReviewerOK(q)'
  BY DEF IInv, ReviewerOK, WaitsFor, InBackground, Outlived
<1>4. QED
  BY <1>1, <1>2, <1>3

\* When the fleet is done, the reports say what its reviewers ask for.
LEMMA ReportsSay ==
  ASSUME IInv, fleet.stage = "done", NEW r \in Reviewers, said[r] = "changes",
         ~ Outlived(r)
  PROVE  r \in run.avail /\ Said(r) = "changes"
<1>1. WaitsFor(r) = {}
  BY DEF IInv, FleetOK, Waited, WaitsFor
<1>2. QED
  BY <1>1 DEF IInv, ReviewerOK, Said


\* The types of the script's variables, field by field.
LEMMA DriverFields ==
  ASSUME IInv
  PROVE  /\ TypeOK
         /\ conf \in Confs
         /\ run \in Driver(conf)
         /\ run.phase \in Nat
         /\ run.cycle \in Nat
         /\ conf.fleet \in SUBSET Reviewers
         /\ conf.phases \in Nat
         /\ conf.cycles \in Nat
         /\ 1 \in 1 .. conf.cycles
         /\ {} \in SUBSET conf.fleet
<1>1. TypeOK /\ conf \in Confs /\ run \in Driver(conf)
  BY DEF IInv, TypeOK, FleetTypeOK
<1>2. /\ conf.fleet \in SUBSET Reviewers
      /\ conf.phases \in Nat
      /\ conf.cycles \in Nat
      /\ 1 \in 1 .. conf.cycles
  BY <1>1, ConfFields
<1>3. run.phase \in Nat /\ run.cycle \in Nat
  BY <1>1, <1>2, RunFields
<1>4. QED
  BY <1>1, <1>2, <1>3

\* A phase begins, and the script waits for its reviewers.
LEMMA ReviewStartsKeeps ==
  ASSUME IInv, ReviewStarts
  PROVE  IInv'
<1>1. PICK avail \in SUBSET conf.fleet :
        /\ run' = [run EXCEPT !.pc = "review", !.phase = run.phase + 1, !.cycle = 1,
                              !.avail = avail, !.tasks = {}, !.outcome = "none"]
        /\ SentOut(avail)
        /\ run.phase < conf.phases
        /\ UNCHANGED <<conf, jobs>>
  BY DriverFields DEF ReviewStarts, Driver
<1>2. run.phase + 1 \in 0 .. conf.phases
  BY <1>1, DriverFields
<1>3. run' \in Driver(conf) /\ run'.avail = avail /\ run'.pc = "review" /\ run'.outcome = "none"
  BY <1>1, <1>2, DriverFields DEF Driver
<1>4. avail \in SUBSET Reviewers /\ sids' \subseteq Reviewers
  BY <1>1, <1>3, DriverFields DEF ReviewStarts
<1>5. TypeOK' /\ FleetOK' /\ \A q \in Reviewers : ReviewerOK(q)'
  BY <1>1, <1>3, <1>4, SentOutKeeps
<1>6. DriverOK'
  BY <1>3 DEF DriverOK
<1>7. QED
  BY <1>5, <1>6 DEF IInv

\* The implementer has worked, or the next audit begins: the fleet of before
\* is sent out again.
LEMMA NextCycleKeeps ==
  ASSUME IInv, NextCycle \/ NextAudit
  PROVE  IInv'
<1>1. /\ CyclesLeft
      /\ SentOut(run.avail)
      /\ UNCHANGED <<conf, jobs, sids>>
      /\ run.pc \in {"review", "next"}
  BY DEF NextCycle, NextAudit
<1>2. run.cycle + 1 \in 1 .. conf.cycles
  BY <1>1, DriverFields DEF CyclesLeft
<1>3. run.avail \in SUBSET conf.fleet /\ run.avail \in SUBSET Reviewers
  BY DriverFields, RunFields
<1>4. Reporting \in SUBSET conf.fleet
  BY <1>3 DEF Reporting
<1>5. /\ run' \in Driver(conf)
      /\ run'.avail = run.avail
      /\ run'.outcome = run.outcome
      /\ run'.pc \in {"review", "audit"}
      /\ run'.pc = "audit" => run.pc = "next"
  <2>1. CASE NextCycle
    <3>1. PICK given \in SUBSET conf.fleet :
            run' = [run EXCEPT !.cycle = run.cycle + 1, !.tasks = given]
      <4>1. run' = [run EXCEPT !.cycle = run.cycle + 1,
                               !.tasks = IF Invocable THEN Reporting ELSE {}]
        BY <2>1, DriverFields DEF NextCycle, Driver
      <4>2. (IF Invocable THEN Reporting ELSE {}) \in SUBSET conf.fleet
        BY <1>4
      <4>3. QED
        BY <4>1, <4>2
    <3>2. run.pc = "review"
      BY <2>1 DEF NextCycle
    <3>3. QED
      BY <1>2, <3>1, <3>2, DriverFields DEF Driver
  <2>2. CASE NextAudit
    <3>1. run' = [run EXCEPT !.pc = "audit", !.cycle = run.cycle + 1, !.tasks = {}]
      BY <2>2, DriverFields DEF NextAudit, Driver
    <3>2. run.pc = "next"
      BY <2>2 DEF NextAudit
    <3>3. QED
      BY <1>2, <3>1, <3>2, DriverFields DEF Driver
  <2>3. QED
    BY <2>1, <2>2
<1>6. TypeOK' /\ FleetOK' /\ \A q \in Reviewers : ReviewerOK(q)'
  <2>1. sids' \subseteq Reviewers
    BY <1>1, DriverFields DEF TypeOK, FleetTypeOK
  <2>2. QED
    BY <1>1, <1>3, <1>5, <2>1, SentOutKeeps
<1>7. DriverOK'
  <2>1. run.outcome = "none"
    BY <1>1 DEF IInv, DriverOK
  <2>2. QED
    BY <1>1, <1>5, <2>1 DEF IInv, DriverOK
<1>8. QED
  BY <1>6, <1>7 DEF IInv

\* A polish cycle begins with a new audit.
LEMMA PolishStartsKeeps ==
  ASSUME IInv, PolishStarts
  PROVE  IInv'
<1>1. PICK avail \in SUBSET conf.fleet :
        /\ run' = [run EXCEPT !.pc = "audit", !.avail = avail, !.status = "running"]
        /\ SentOut(avail)
        /\ UNCHANGED <<conf, jobs, sids>>
  BY DEF PolishStarts
<1>2. /\ run' \in Driver(conf)
      /\ run'.avail = avail
      /\ run'.pc = "audit"
      /\ run'.outcome = run.outcome
  BY <1>1, DriverFields DEF Driver
<1>3. avail \in SUBSET Reviewers /\ sids' \subseteq Reviewers
  BY <1>1, DriverFields DEF TypeOK, FleetTypeOK
<1>4. TypeOK' /\ FleetOK' /\ \A q \in Reviewers : ReviewerOK(q)'
  BY <1>1, <1>2, <1>3, SentOutKeeps
<1>5. DriverOK'
  <2>1. conf.driver = "polish" /\ run.outcome = "none"
    BY DEF IInv, DriverOK, PolishStarts
  <2>2. QED
    BY <1>1, <1>2, <2>1 DEF DriverOK
<1>6. QED
  BY <1>4, <1>5 DEF IInv

\* The script concludes: every step that sends out no fleet.
Concluding == \/ ReviewSkipped \/ LoopOver \/ Approved \/ CyclesExhausted
              \/ PolishFails \/ AuditAborts \/ Synthesize \/ Architect \/ InnerLoop
              \/ PolishDone

\* The steps that end a phase or a loop keep the types of the driver.
LEMMA ConcludingType ==
  ASSUME IInv, Concluding
  PROVE  /\ run' \in Driver(conf)
         /\ UNCHANGED <<run.avail, run.cycle>>
         /\ DriverUnchanged
<1>1. run \in Driver(conf) /\ run.phase \in Nat /\ conf.phases \in Nat
  BY DriverFields
<1>2. Reporting \in SUBSET conf.fleet
  BY DriverFields, RunFields DEF Reporting
<1>3. CASE ReviewSkipped
  <2>1. run' = [run EXCEPT !.phase = run.phase + 1, !.outcome = "none"] /\ DriverUnchanged
    BY <1>1, <1>3 DEF ReviewSkipped, Driver
  <2>2. run.phase + 1 \in 0 .. conf.phases
    BY <1>1, <1>3 DEF ReviewSkipped
  <2>3. QED
    BY <1>1, <2>1, <2>2 DEF Driver
<1>4. CASE LoopOver
  BY <1>1, <1>4 DEF LoopOver, Goto, Driver
<1>5. CASE Approved
  BY <1>1, <1>5 DEF Approved, Driver
<1>6. CASE CyclesExhausted
  <2>1. PICK pc \in {"exit", "start"} :
          run' = [run EXCEPT !.pc = pc, !.outcome = "exhausted"] /\ DriverUnchanged
    BY <1>6 DEF CyclesExhausted
  <2>2. QED
    BY <1>1, <2>1 DEF Driver
<1>7. CASE PolishFails
  BY <1>1, <1>7 DEF PolishFails, Driver
<1>8. CASE Synthesize
  BY <1>1, <1>2, <1>8 DEF Synthesize, Driver
<1>9. CASE Architect
  BY <1>1, <1>9 DEF Architect, Driver
<1>10. CASE InnerLoop
  BY <1>1, <1>10 DEF InnerLoop, Driver
<1>11. CASE PolishDone
  BY <1>1, <1>11 DEF PolishDone, Driver
<1>12. CASE AuditAborts
  BY <1>1, <1>12 DEF AuditAborts, Driver
<1>13. QED
  BY <1>3, <1>4, <1>5, <1>6, <1>7, <1>8, <1>9, <1>10, <1>11, <1>12 DEF Concluding

\* The steps that end a phase or a loop.
LEMMA ConcludingKeeps ==
  ASSUME IInv, Concluding
  PROVE  IInv'
<1>0. /\ run' \in Driver(conf)
      /\ UNCHANGED <<run.avail, run.cycle>>
      /\ UNCHANGED <<conf, fleet, report, jobs, proc, sids, said>>
  BY ConcludingType DEF DriverUnchanged
<1>1. TypeOK' /\ FleetOK' /\ \A q \in Reviewers : ReviewerOK(q)'
  BY <1>0, NotedKeeps
<1> SUFFICES DriverOK'
  BY <1>1 DEF IInv
<1>2. run \in Driver(conf)
  BY DriverFields
<1>3. DriverOK /\ \A r \in Reviewers : Outlived(r)' = Outlived(r)
  BY <1>0 DEF IInv, Outlived
<1>4. CASE ReviewSkipped
  BY <1>0, <1>2, <1>3, <1>4 DEF ReviewSkipped, DriverOK, Driver
<1>5. CASE LoopOver
  BY <1>0, <1>2, <1>3, <1>5 DEF LoopOver, Goto, DriverOK, Driver
<1>6. CASE Approved
  <2>1. \A r \in Reviewers : said[r] = "changes" => Outlived(r)
    <3>1. SUFFICES ASSUME NEW r \in Reviewers, said[r] = "changes", ~ Outlived(r) PROVE FALSE
      OBVIOUS
    <3>2. r \in run.avail /\ Said(r) = "changes"
      BY <1>6, <3>1, ReportsSay DEF Approved
    <3>3. Verdict(r) # "changes"
      BY <1>6, <3>2 DEF Approved, AllApproved
    <3>4. Verdict(r) = "changes"
      BY <3>2 DEF Verdict
    <3>5. QED
      BY <3>3, <3>4
  <2>2. run' = [run EXCEPT !.pc = "start", !.outcome = "approved"]
    BY <1>6 DEF Approved
  <2>3. /\ run'.pc = "start"
        /\ conf.driver = "review"
        /\ fleet.stage = "done"
    BY <1>2, <1>6, <2>2 DEF Approved, Driver
  <2>4. QED
    BY <1>0, <1>3, <2>1, <2>3 DEF DriverOK
<1>7. CASE CyclesExhausted
  <2>1. run'.outcome = "exhausted" /\ run'.pc \in {"start", "exit"} /\ conf.driver = "review"
    BY <1>2, <1>7 DEF CyclesExhausted, Driver
  <2>2. QED
    BY <1>0, <2>1 DEF DriverOK
<1>8. CASE PolishFails
  BY <1>0, <1>2, <1>3, <1>8 DEF PolishFails, DriverOK, Driver
<1>9. CASE Synthesize
  <2>1. /\ run'.pc = "architect"
        /\ run'.tasks = Reporting
        /\ run'.outcome = run.outcome
        /\ run.pc = "audit"
        /\ fleet.stage = "done"
    BY <1>2, <1>9 DEF Synthesize, Driver
  <2>2. \A r \in Reviewers : said[r] = "changes" /\ ~ Outlived(r) => r \in Reporting
    BY <2>1, ReportsSay DEF Reporting
  <2>3. QED
    BY <1>0, <1>3, <2>1, <2>2 DEF DriverOK
<1>10. CASE Architect
  BY <1>0, <1>2, <1>3, <1>10 DEF Architect, DriverOK, Driver
<1>11. CASE InnerLoop
  BY <1>0, <1>2, <1>3, <1>11 DEF InnerLoop, DriverOK, Driver
<1>12. CASE PolishDone
  BY <1>0, <1>2, <1>3, <1>12 DEF PolishDone, DriverOK, Driver
<1>13. CASE AuditAborts
  BY <1>0, <1>2, <1>3, <1>13 DEF AuditAborts, DriverOK, Driver
<1>14. QED
  BY <1>4, <1>5, <1>6, <1>7, <1>8, <1>9, <1>10, <1>11, <1>12, <1>13 DEF Concluding

\* A step of the driver is one of these.
LEMMA DriverStepKeeps ==
  ASSUME IInv, DriverStep
  PROVE  IInv'
BY ReviewStartsKeeps, NextCycleKeeps, PolishStartsKeeps, ConcludingKeeps
DEF DriverStep, Concluding

-----------------------------------------------------------------------------
(* The inductive invariant.                                                  *)

LEMMA InitIInv == Init => IInv
<1> SUFFICES ASSUME Init PROVE IInv
  OBVIOUS
<1>1. /\ conf \in Confs
      /\ conf.fleet \in SUBSET Reviewers
      /\ conf.phases \in Nat
      /\ 1 \in 1 .. conf.cycles
      /\ run = [pc |-> "start", phase |-> 0, cycle |-> 1, avail |-> {},
                tasks |-> {}, outcome |-> "none", status |-> "absent"]
      /\ fleet = [stage |-> "idle", todo |-> {}, wait |-> {}, current |-> NoJob,
                  missed |-> {}, over |-> FALSE, strays |-> {}, own |-> FALSE]
      /\ jobs = <<>>
      /\ proc = Quiet
      /\ said = Quiet
      /\ sids = {}
  BY ConfFields DEF Init, FleetInit
<1>2. TypeOK
  <2>1. run \in Driver(conf)
    BY <1>1 DEF Driver
  <2>2. Len(jobs) = 0 /\ jobs \in Seq(Session(Len(jobs)))
    BY <1>1, EmptySeq
  <2>3. fleet \in Fleet(Len(jobs))
    BY <1>1, <2>2 DEF Fleet, NoJob
  <2>4. report \in [1 .. MaxCycles -> [Reviewers -> Report]]
    <3>1. NoReport \in Report
      BY DEF NoReport, Report
    <3>2. QED
      BY <3>1 DEF Init, FleetInit
  <2>5. /\ proc \in [Reviewers -> {"none", "running", "ended"}]
        /\ said \in [Reviewers -> Texts \cup {"none"}]
    BY <1>1 DEF Quiet
  <2>6. QED
    BY <1>1, <2>1, <2>2, <2>3, <2>4, <2>5 DEF TypeOK, FleetTypeOK
<1>3. FleetOK
  BY <1>1 DEF FleetOK
<1>4. DriverOK
  BY <1>1 DEF DriverOK
<1>5. \A r \in Reviewers : ReviewerOK(r)
  BY <1>1 DEF ReviewerOK, Quiet
<1>6. QED
  BY <1>2, <1>3, <1>4, <1>5 DEF IInv

\* A step that changes nothing.
LEMMA StutterKeeps ==
  ASSUME IInv, UNCHANGED vars
  PROVE  IInv'
<1>1. UNCHANGED <<conf, run, fleet, report, jobs, proc, sids, said>>
  BY DEF vars, fleetVars
<1>2. run \in Driver(conf)
  BY DEF IInv, TypeOK
<1>3. TypeOK' /\ FleetOK' /\ \A q \in Reviewers : ReviewerOK(q)'
  BY <1>1, <1>2, NotedKeeps
<1>4. DriverOK'
  BY <1>1 DEF IInv, DriverOK, Outlived
<1>5. QED
  BY <1>3, <1>4 DEF IInv

\* Every step preserves the invariant.
LEMMA NextIInv == IInv /\ [Next]_vars => IInv'
BY DriverStepKeeps, FleetStepKeeps, JobStepKeeps, StrayWritesKeeps, StutterKeeps
DEF Next, ScriptStep

\* The invariant holds at all times.
LEMMA Invariant == Spec => []IInv
<1>1. Init => IInv
  BY InitIInv
<1>2. IInv /\ [Next]_vars => IInv'
  BY NextIInv
<1>3. QED
  BY <1>1, <1>2, PTL DEF Spec
-----------------------------------------------------------------------------
(* What the scripts promise.                                                 *)

(* Every variable of the scripts and of their fleet keeps its type, and no   *)
(* cycle beyond the configured number begins.                                *)
THEOREM TypeCorrect == Spec => []TypeOK
<1>1. IInv => TypeOK
  BY DEF IInv
<1>2. QED
  BY <1>1, Invariant, PTL

(* R-FLEET: no approval while a reviewer asks for changes, or may still do   *)
(* so; and the architect is given what every auditor asks for.               *)
THEOREM FindingsKept == Spec => []NoFindingLost
<1>1. IInv => NoFindingLost
  BY DEF IInv, DriverOK, NoFindingLost
<1>2. QED
  BY <1>1, Invariant, PTL

(* The reports that are counted are those of this cycle, but for the ways in *)
(* which a reviewer leaves the report of an earlier one.                     *)
THEOREM FreshVerdicts == Spec => []VerdictsAreFresh
<1>1. IInv => VerdictsAreFresh
  <2> SUFFICES ASSUME IInv, fleet.stage = "done", NEW r \in run.avail
               PROVE  \/ report[run.cycle][r].fresh
                      \/ Kind[r] = "codex"
                      \/ r \in fleet.missed
                      \/ Outlived(r)
    BY DEF VerdictsAreFresh
  <2>1. r \in Reviewers
    BY RunFields DEF IInv
  <2>2. fleet.todo = {} /\ WaitsFor(r) = {}
    BY DEF IInv, FleetOK, Waited, WaitsFor
  <2>3. QED
    BY <2>1, <2>2 DEF IInv, ReviewerOK
<1>2. QED
  BY <1>1, Invariant, PTL

\* Only the teardown removes a session, and only the one that it tears down;
\* every other step leaves each session in its place.
LEMMA GoneByRemove ==
  ASSUME IInv, [Next]_vars, NEW j \in 1 .. Len(jobs),
         jobs'[j].state = "gone", jobs[j].state # "gone"
  PROVE  Remove /\ j = fleet.current
<1>0. TypeOK /\ jobs \in [1 .. Len(jobs) -> Session(Len(jobs))] /\ Len(jobs) \in Nat
  BY JobFields DEF IInv
<1>1. jobs'[j] # jobs[j]
  OBVIOUS
<1>2. CASE DriverStep \/ ProcessStep \/ StrayWrites \/ UNCHANGED vars
  <2>1. UNCHANGED jobs
    BY <1>2 DEF DriverStep, ProcessStep, ProcessEnds, ProcessOutlives, StrayWrites, vars,
       fleetVars, DriverUnchanged, ReviewSkipped, ReviewStarts, LoopOver, Approved,
       NextCycle, CyclesExhausted, PolishFails, PolishStarts, AuditAborts, Synthesize,
       Architect, InnerLoop, NextAudit, PolishDone
  <2>2. QED
    BY <1>1, <2>1
<1>3. CASE JobStep
  <2>1. PICK i \in 1 .. Len(jobs) : JobBegins(i) \/ JobCommits(i) \/ JobEnds(i)
    BY <1>3 DEF JobStep
  <2>2. jobs[i] \in Session(Len(jobs))
    BY <1>0
  <2>3. i # j => jobs'[j] = jobs[j]
    BY <1>0, <2>1 DEF JobBegins, JobCommits, JobEnds
  <2>4. jobs'[i].state # "gone"
    BY <1>0, <2>1, <2>2 DEF JobBegins, JobCommits, JobEnds, Session
  <2>5. QED
    BY <1>1, <2>3, <2>4
<1>4. CASE FleetStep
  <2>1. CASE UNCHANGED jobs
    BY <1>1, <2>1
  <2>2. CASE \E r \in Reviewers, saved \in BOOLEAN : jobs' = Append(jobs, Job(r, saved))
    BY <1>0, <1>1, <2>2, AppendedJob
  <2>3. CASE \E i \in 1 .. Len(jobs) : CollectReport(i)
    <3>0. PICK i \in 1 .. Len(jobs) : CollectReport(i)
      BY <2>3
    <3>1. PICK s \in {jobs[i].state, "ended"} :
            jobs' = [jobs EXCEPT ![i].state = s, ![i].text = "noise"]
      BY <3>0 DEF CollectReport
    <3>2. jobs[i] \in Session(Len(jobs))
      BY <1>0
    <3>3. i # j => jobs'[j] = jobs[j]
      BY <1>0, <3>1
    <3>4. jobs'[i].state = s
      BY <1>0, <3>1, <3>2 DEF Session
    <3>5. QED
      BY <1>1, <3>1, <3>3, <3>4
  <2>4. CASE Remove
    <3>1. PICK k \in {Removed(jobs[fleet.current]), jobs[fleet.current]} :
            jobs' = [jobs EXCEPT ![fleet.current] = k]
      BY <2>4 DEF Remove
    <3>2. j # fleet.current => jobs'[j] = jobs[j]
      BY <1>0, <3>1
    <3>3. QED
      BY <1>1, <2>4, <3>2
  <2>5. QED
    BY <1>4, <2>1, <2>2, <2>3, <2>4
    DEF FleetStep, SpawnProcess, SpawnUnrunnable, SpawnSession, SpawnMisses, Spawned,
        TimesOut, Keep, FindsNone, Assembled
<1>5. QED
  BY <1>2, <1>3, <1>4 DEF Next, ScriptStep

\* Whatever a session commits while it is to be removed comes too late for
\* the look that was taken at its worktree.
LEMMA LookKeeps ==
  ASSUME IInv, LookOK, [Next]_vars
  PROVE  LookOK'
<1>0. /\ fleet \in Fleet(Len(jobs))
      /\ jobs \in [1 .. Len(jobs) -> Session(Len(jobs))]
      /\ Len(jobs) \in Nat
      /\ fleet.stage = "remove" => fleet.current \in 1 .. Len(jobs)
  <2>1. TypeOK /\ (fleet.stage = "remove" => fleet.current # NoJob)
    BY DEF IInv, FleetOK
  <2>2. QED
    BY <2>1, JobFields, FleetFields DEF TypeOK, FleetTypeOK, NoJob
<1>1. CASE JobStep
  <2>1. PICK i \in 1 .. Len(jobs) : JobBegins(i) \/ JobCommits(i) \/ JobEnds(i)
    BY <1>1 DEF JobStep
  <2>2. fleet' = fleet
    BY <2>1 DEF JobBegins, JobCommits, JobEnds
  <2> SUFFICES ASSUME fleet.stage = "remove", fleet.own
               PROVE  jobs'[fleet.current].commits # "early"
    BY <2>2 DEF LookOK
  <2>3. /\ fleet.current \in 1 .. Len(jobs)
        /\ jobs[fleet.current] \in Session(Len(jobs))
        /\ jobs[fleet.current].commits # "early"
    BY <1>0 DEF LookOK
  <2>4. CASE JobCommits(i)
    <3>1. CASE i = fleet.current
      <4>1. jobs' = [jobs EXCEPT ![i].commits = "late"]
        BY <2>4, <3>1 DEF JobCommits, LookedAt
      <4>2. QED
        BY <1>0, <2>3, <3>1, <4>1 DEF Session
    <3>2. CASE i # fleet.current
      <4>1. jobs'[fleet.current] = jobs[fleet.current]
        BY <1>0, <2>3, <2>4, <3>2 DEF JobCommits
      <4>2. QED
        BY <2>3, <4>1
    <3>3. QED
      BY <3>1, <3>2
  <2>5. CASE JobBegins(i) \/ JobEnds(i)
    <3>1. CASE i = fleet.current
      <4>1. \/ jobs'[i] = [jobs[i] EXCEPT !.state = "running", !.tree = TRUE]
            \/ jobs'[i] = [jobs[i] EXCEPT !.state = "ended"]
            \/ \E text : jobs'[i] = [jobs[i] EXCEPT !.state = "ended", !.text = text]
        <5>1. CASE JobBegins(i)
          BY <1>0, <5>1 DEF JobBegins
        <5>2. CASE JobEnds(i)
          BY <1>0, <5>2 DEF JobEnds
        <5>3. QED
          BY <2>5, <5>1, <5>2
      <4>2. jobs'[i].commits = jobs[i].commits
        BY <1>0, <2>3, <3>1, <4>1 DEF Session
      <4>3. QED
        BY <2>3, <3>1, <4>2
    <3>2. CASE i # fleet.current
      <4>1. jobs'[fleet.current] = jobs[fleet.current]
        BY <1>0, <2>3, <2>5, <3>2 DEF JobBegins, JobEnds
      <4>2. QED
        BY <2>3, <4>1
    <3>3. QED
      BY <3>1, <3>2
  <2>6. QED
    BY <2>1, <2>4, <2>5
<1>2. CASE FindsNone
  <2>1. jobs' = jobs /\ fleet.stage = "teardown"
    BY <1>2 DEF FindsNone
  <2>2. PICK read \in BOOLEAN :
          /\ read /\ NewTrees(fleet.current) # {} =>
               \E w \in NewTrees(fleet.current) : ~ HasCommits(fleet.current, w)
          /\ fleet' = [fleet EXCEPT !.stage = "remove",
                                    !.own = read /\ NewTrees(fleet.current) = {fleet.current}]
    BY <1>2 DEF FindsNone
  <2>3. /\ fleet'.current = fleet.current
        /\ fleet'.own => read /\ NewTrees(fleet.current) = {fleet.current}
    BY <1>0, <2>2 DEF Fleet
  <2>4. fleet'.own => jobs[fleet.current].commits = "none"
    BY <2>2, <2>3 DEF HasCommits
  <2>5. QED
    BY <2>1, <2>3, <2>4 DEF LookOK
<1>3. CASE FleetStep /\ ~ FindsNone
  <2>1. fleet'.stage # "remove"
    <3>1. CASE fleet.stage = "spawn"
      BY <1>0, <1>3, <3>1
      DEF FleetStep, SpawnProcess, SpawnUnrunnable, Started, SpawnSession, SpawnMisses,
          Spawned, TimesOut, CollectReport, Keep, Remove, Assembled, Fleet
    <3>2. CASE fleet.stage # "spawn"
      BY <1>0, <1>3, <3>2
      DEF FleetStep, SpawnProcess, SpawnUnrunnable, SpawnSession, SpawnMisses,
          Spawned, TimesOut, CollectReport, Keep, Remove, TornDown, Assembled, Fleet
    <3>3. QED
      BY <3>1, <3>2
  <2>2. QED
    BY <2>1 DEF LookOK
<1>4. CASE DriverStep
  <2>1. CASE ReviewStarts \/ NextCycle \/ PolishStarts \/ NextAudit
    <3>1. fleet'.stage = "spawn"
      BY <1>0, <2>1 DEF ReviewStarts, NextCycle, PolishStarts, NextAudit, SentOut, Fleet
    <3>2. QED
      BY <3>1 DEF LookOK
  <2>2. CASE Concluding
    <3>1. UNCHANGED <<fleet, jobs>>
      BY <2>2, ConcludingType DEF DriverUnchanged
    <3>2. QED
      BY <3>1 DEF LookOK
  <2>3. QED
    BY <1>4, <2>1, <2>2 DEF DriverStep, Concluding
<1>5. CASE ProcessStep \/ StrayWrites \/ UNCHANGED vars
  <2>1. UNCHANGED <<jobs, fleet.stage, fleet.current, fleet.own>>
    BY <1>0, <1>5
    DEF ProcessStep, ProcessEnds, ProcessOutlives, StrayWrites, vars, fleetVars, Fleet
  <2>2. QED
    BY <2>1 DEF LookOK
<1>6. QED
  BY <1>1, <1>2, <1>3, <1>4, <1>5 DEF Next, ScriptStep

(* A commit that claude rm destroys was made after the worktree was looked   *)
(* at; or the look failed, or took another session's worktree for its own.   *)
THEOREM CommitsKept == Spec => CommitsAreKept
<1>1. Init => LookOK
  BY DEF Init, FleetInit, LookOK
<1>2. IInv /\ LookOK /\ [Next]_vars => LookOK'
  BY LookKeeps
<1>3. ASSUME IInv, LookOK, [Next]_vars, NEW j \in 1 .. Len(jobs),
             jobs'[j].state = "gone", jobs[j].state # "gone"
      PROVE  jobs[j].commits # "early" \/ ~ fleet.own
  <2>1. Remove /\ j = fleet.current
    BY <1>3, GoneByRemove
  <2>2. QED
    BY <1>3, <2>1 DEF Remove, LookOK
<1>4. IInv /\ LookOK /\ [Next]_vars =>
        [\A j \in 1 .. Len(jobs) :
           jobs'[j].state = "gone" /\ jobs[j].state # "gone"
             => jobs[j].commits # "early" \/ ~ fleet.own]_vars
  BY <1>3
<1>5. QED
  BY <1>1, <1>2, <1>4, Invariant, PTL DEF Spec, CommitsAreKept
=============================================================================
