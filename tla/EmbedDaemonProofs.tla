------------------------- MODULE EmbedDaemonProofs -------------------------
(* Proofs about EmbedDaemon, for any number of commands and daemons. *)
EXTENDS EmbedDaemon, TLAPS
-----------------------------------------------------------------------------
(* Steps of commands and of daemons. *)

\* Command c goes on as k.
Becoming(c, k) == command' = [command EXCEPT ![c] = k]

\* A command that goes on changes no other command.
LEMMA BecomingType ==
  ASSUME TypeOK, NEW c \in Commands, NEW k \in Attempt, Becoming(c, k)
  PROVE  /\ command' \in [Commands -> Attempt]
         /\ command'[c] = k
         /\ \A b \in Commands : b # c => command'[b] = command[b]
BY DEF TypeOK, Becoming

\* A daemon that listens runs.
LEMMA ListeningRuns ==
  ASSUME TypeOK, NEW d \in Daemons \cup {None}, Listening(d)
  PROVE  d \in Daemons /\ Running(d)
BY DEF Listening, Running

\* A step of command c that starts no daemon preserves the invariant when it
\* takes or releases the lock as the attempt says, goes on waiting for a daemon
\* that is not ready, and removes the socket of no daemon.
LEMMA CommandStep ==
  ASSUME IInv, NEW c \in Commands, NEW k \in Attempt, Becoming(c, k), TypeOK',
         daemon' = daemon, socket' = socket \/ \A d \in Daemons : ~Running(d),
         AttemptFits(k), lock' = c <=> Holding(k),
         \A b \in Commands : b # c => (lock' = b <=> lock = b),
         \A d \in Daemons : Starting(d) /\ WaitsFor(command[c], d) => WaitsFor(k, d),
         \A d \in Daemons : Running(d) => Alone(k, d)
  PROVE  IInv'
<1>1. /\ command'[c] = k
      /\ \A b \in Commands : b # c => command'[b] = command[b]
  BY BecomingType DEF IInv
<1>2. \A d \in Daemons : (Running(d))' = Running(d) /\ (Starting(d))' = Starting(d)
  BY DEF Running, Starting
<1>3. LockInv'
  <2>1. ASSUME NEW b \in Commands PROVE AttemptFits(command'[b]) /\ (lock' = b <=> Holding(command'[b]))
    BY <1>1 DEF IInv, LockInv
  <2>2. QED
    BY <2>1 DEF LockInv
<1>4. StartingInv'
  <2>1. ASSUME NEW d \in Daemons, Starting(d) PROVE \E b \in Commands : WaitsFor(command'[b], d)
    <3>1. PICK b \in Commands : WaitsFor(command[b], d)
      BY <2>1 DEF IInv, StartingInv
    <3>2. WaitsFor(command'[b], d)
      BY <1>1, <2>1, <3>1
    <3>3. QED
      BY <3>2
  <2>2. QED
    BY <1>2, <2>1 DEF StartingInv
<1>5. SocketInv'
  <2>1. ASSUME NEW d \in Daemons, (Listening(d))' PROVE socket' = d
    <3>1. Listening(d) /\ Running(d)
      BY <2>1, ListeningRuns DEF Listening, IInv
    <3>2. QED
      BY <3>1 DEF IInv, SocketInv
  <2>2. QED
    BY <2>1 DEF SocketInv
<1>6. AloneInv'
  <2>1. ASSUME NEW b \in Commands, NEW d \in Daemons, Running(d) PROVE Alone(command'[b], d)
    BY <1>1, <2>1 DEF IInv, AloneInv
  <2>2. QED
    BY <1>2, <2>1 DEF AloneInv
<1>7. OneDaemon'
  BY <1>2 DEF OneDaemon, IInv
<1>8. QED
  BY <1>3, <1>4, <1>5, <1>6, <1>7 DEF IInv

\* A step of a running daemon preserves it when the daemon still has its
\* socket afterwards, if it has bound it.
LEMMA DaemonStep ==
  ASSUME IInv, NEW d \in Daemons, NEW label \in DaemonLabels, Running(d), label # "none",
         daemon' = [daemon EXCEPT ![d] = label], TypeOK', UNCHANGED <<command, lock>>,
         label \in {"check pid", "load", "write pid", "bind", "chmod"} => Starting(d),
         label \in {"chmod", "serve", "remove pid", "remove socket"} => socket' = d
  PROVE  IInv'
<1>1. daemon'[d] = label /\ \A e \in Daemons : e # d => daemon'[e] = daemon[e]
  BY DEF IInv, TypeOK
<1>2. \A e \in Daemons : (Running(e))' => Running(e)
  BY <1>1 DEF Running
<1>3. \A e \in Daemons : (Starting(e))' => Starting(e)
  BY <1>1 DEF Starting
<1>4. LockInv'
  BY DEF IInv, LockInv
<1>5. StartingInv'
  BY <1>3 DEF IInv, StartingInv
<1>6. AloneInv'
  BY <1>2 DEF IInv, AloneInv
<1>7. OneDaemon'
  BY <1>2 DEF IInv, OneDaemon
<1>8. SocketInv'
  <2>1. ASSUME NEW e \in Daemons, (Listening(e))' PROVE socket' = e
    <3>1. (Running(e))'
      BY <2>1 DEF Listening, Running
    <3>2. e = d
      BY <1>2, <3>1 DEF IInv, OneDaemon
    <3>3. QED
      BY <1>1, <2>1, <3>2 DEF Listening
  <2>2. QED
    BY <2>1 DEF SocketInv
<1>9. QED
  BY <1>4, <1>5, <1>6, <1>7, <1>8 DEF IInv
-----------------------------------------------------------------------------
(* Types. *)

LEMMA CommandType ==
  ASSUME TypeOK, NEW c \in Commands, NEW k \in Attempt, Becoming(c, k),
         daemon' = daemon, socket' \in {socket, None}, pidFile' \in {pidFile, None},
         lock' \in {lock, c, NoCommand}, requests' \in 0..MaxRequests,
         trouble' = trouble \/ trouble' = [trouble EXCEPT ![c] = FALSE]
  PROVE  TypeOK'
<1>1. command' \in [Commands -> Attempt]
  BY BecomingType
<1>2. QED
  BY <1>1 DEF TypeOK

\* A step of a daemon keeps every type.
LEMMA DaemonType ==
  ASSUME TypeOK, NEW d \in Daemons, NEW label \in DaemonLabels,
         daemon' = [daemon EXCEPT ![d] = label],
         socket' \in {socket, None, d}, pidFile' \in {pidFile, None, d},
         UNCHANGED <<lock, command, requests>>, trouble' = trouble \/ Trouble
  PROVE  TypeOK'
<1>1. trouble' \in [Commands -> BOOLEAN]
  BY DEF TypeOK, Trouble
<1>2. daemon' \in [Daemons -> DaemonLabels]
  BY DEF TypeOK
<1>3. QED
  BY <1>1, <1>2 DEF TypeOK

\* A command that rests makes no attempt and holds no lock.
LEMMA AttemptEnds == Idle \in Attempt /\ AttemptFits(Idle) /\ ~Holding(Idle)
<1>1. Idle.at = "idle" /\ Idle.stage = "none" /\ Idle.conn = None /\ Idle.mine = None
  BY DEF Idle
<1>2. Idle \in Attempt
  BY DEF Idle, Attempt
<1>3. QED
  BY <1>1, <1>2 DEF AttemptFits, Holding
-----------------------------------------------------------------------------
(* The steps of commands. *)

\* What the invariant says of the command that takes a step.
LEMMA ThisCommand ==
  ASSUME IInv, NEW c \in Commands
  PROVE  /\ command[c] \in Attempt /\ AttemptFits(command[c])
         /\ lock = c <=> Holding(command[c])
         /\ \A d \in Daemons : Running(d) => Alone(command[c], d)
         /\ NoCommand # c /\ lock \in Commands \cup {NoCommand} /\ requests \in 0..MaxRequests
<1>1. NoCommand # c
  BY EmbedDaemonAssumption
<1>2. QED
  BY <1>1 DEF IInv, TypeOK, LockInv, AloneInv

\* A command leaves that nobody counts on.
LEMMA LeaveStep ==
  ASSUME IInv, NEW c \in Commands, Becoming(c, Idle), lock' = Unlocked(c),
         UNCHANGED <<files, daemon, requests>>, trouble' = [trouble EXCEPT ![c] = FALSE],
         \A d \in Daemons : Starting(d) => ~WaitsFor(command[c], d)
  PROVE  IInv'
<1>1. lock' \in {lock, NoCommand} /\ lock' # c
      /\ \A b \in Commands : b # c => (lock' = b <=> lock = b)
  BY ThisCommand, EmbedDaemonAssumption DEF Unlocked
<1>2. UNCHANGED <<socket, pidFile, daemon, requests>>
  BY DEF files
<1>3. TypeOK'
  BY <1>1, <1>2, AttemptEnds, ThisCommand, CommandType DEF IInv
<1>4. \A d \in Daemons : Alone(Idle, d)
  BY DEF Alone, Idle
<1>5. QED
  BY <1>1, <1>2, <1>3, <1>4, AttemptEnds, CommandStep

\* A command goes on and holds the lock as before.
LEMMA GoOnStep ==
  ASSUME IInv, NEW c \in Commands, NEW k \in Attempt, Becoming(c, k), AttemptFits(k),
         Holding(k) <=> Holding(command[c]),
         \A d \in Daemons : Starting(d) /\ WaitsFor(command[c], d) => WaitsFor(k, d),
         \A d \in Daemons : Running(d) => Alone(k, d),
         socket' = socket \/ \A d \in Daemons : ~Running(d),
         socket' \in {socket, None}, pidFile' \in {pidFile, None},
         requests' \in 0..MaxRequests, lock' = lock, daemon' = daemon, trouble' = trouble
  PROVE  IInv'
<1>1. TypeOK'
  BY CommandType DEF IInv
<1>2. lock' = c <=> Holding(k)
  BY ThisCommand
<1>3. QED
  BY <1>1, <1>2, CommandStep

\* A command begins by dialling.
LEMMA RequestStep == ASSUME IInv, NEW c \in Commands, Request(c) PROVE IInv'
<1>1. PICK k \in Attempt : k = [command[c] EXCEPT !.at = "dial", !.stage = "first"]
  BY ThisCommand DEF Attempt
<1>2. k.at = "dial" /\ k.stage = "first"
  BY <1>1, ThisCommand DEF Attempt
<1>3. Becoming(c, k)
  BY <1>1 DEF Request, Becoming, IInv, TypeOK
<1>4. command[c].at = "idle" /\ socket' = socket /\ pidFile' = pidFile
      /\ lock' = lock /\ daemon' = daemon /\ trouble' = trouble
  BY DEF Request, At, files
<1>5. ~Holding(command[c]) /\ ~Holding(k) /\ AttemptFits(k) /\ \A d \in Daemons : Alone(k, d)
  BY <1>2, <1>4, ThisCommand DEF Holding, AttemptFits, Alone
<1>6. requests' \in 0..MaxRequests
  <2>1. requests \in 0..MaxRequests /\ requests' = requests + 1 /\ requests < MaxRequests
    BY ThisCommand DEF Request
  <2>2. MaxRequests \in Nat
    BY EmbedDaemonAssumption
  <2>3. QED
    BY <2>1, <2>2
<1>7. \A d \in Daemons : ~WaitsFor(command[c], d)
  BY <1>5 DEF WaitsFor
<1>8. QED
  BY <1>3, <1>4, <1>5, <1>6, <1>7, GoOnStep

\* tryConnect failed; under the lock no daemon runs then.
LEMMA FailedStep ==
  ASSUME IInv, NEW c \in Commands, command[c].at \in {"dial", "health"}, Failed(c),
         UNCHANGED <<files, lock, daemon, requests, trouble>>,
         command[c].stage = "locked" => \A d \in Daemons : ~Running(d)
  PROVE  IInv'
<1>1. command[c].stage \in {"first", "fast", "locked", "wait"}
  BY ThisCommand DEF Attempt, AttemptFits
<1>2. PICK next \in {"check", "lock", "clean socket", "dial"} :
        /\ command[c].stage = "first" => next = "check"
        /\ command[c].stage = "fast" => next = "lock"
        /\ command[c].stage = "locked" => next = "clean socket"
        /\ command[c].stage = "wait" => next = "dial"
        /\ command' = [command EXCEPT ![c].at = next, ![c].conn = None]
  BY <1>1 DEF Failed
<1>3. PICK k \in Attempt : k = [command[c] EXCEPT !.at = next, !.conn = None]
  BY ThisCommand DEF Attempt
<1>4. k.at = next /\ k.stage = command[c].stage /\ k.mine = command[c].mine
  BY <1>3, ThisCommand DEF Attempt
<1>5. Becoming(c, k)
  BY <1>2, <1>3 DEF Becoming, IInv, TypeOK
<1>6. AttemptFits(k) /\ (Holding(k) <=> Holding(command[c]))
  BY <1>1, <1>2, <1>4 DEF AttemptFits, Holding
<1>7. \A d \in Daemons : Running(d) => Alone(k, d)
  BY <1>1, <1>2, <1>4 DEF Alone
<1>8. \A d \in Daemons : WaitsFor(command[c], d) => WaitsFor(k, d)
  BY <1>4, <1>6 DEF WaitsFor
<1>9. socket' = socket /\ pidFile' = pidFile /\ lock' = lock /\ daemon' = daemon
      /\ trouble' = trouble /\ requests' \in 0..MaxRequests
  BY ThisCommand DEF files
<1>10. QED
  BY <1>5, <1>6, <1>7, <1>8, <1>9, GoOnStep

\* Under the lock, nobody listens when nobody runs: a daemon that is not ready
\* would be waited for by another holder of the lock.
LEMMA NobodyRuns ==
  ASSUME IInv, NEW c \in Commands, command[c].stage = "locked", command[c].at # "embed",
         ~Listening(socket), NEW d \in Daemons
  PROVE  ~Running(d)
<1> SUFFICES ASSUME Running(d) PROVE FALSE
  OBVIOUS
<1>1. CASE Starting(d)
  <2>1. PICK b \in Commands : WaitsFor(command[b], d)
    BY <1>1 DEF IInv, StartingInv
  <2>2. lock = b /\ lock = c
    BY <2>1, ThisCommand DEF WaitsFor, Holding
  <2>3. QED
    BY <2>1, <2>2 DEF WaitsFor
<1>2. CASE ~Starting(d)
  <2>1. d # None
    BY EmbedDaemonAssumption DEF Daemons, None
  <2>2. daemon[d] \in DaemonLabels
    BY DEF IInv, TypeOK
  <2>3. Listening(d)
    BY <1>2, <2>1, <2>2 DEF DaemonLabels, Running, Starting, Listening
  <2>4. QED
    BY <2>3 DEF IInv, SocketInv
<1>3. QED
  BY <1>1, <1>2

\* A dial finds a daemon that listens, or fails.
LEMMA DialStep == ASSUME IInv, NEW c \in Commands, Dial(c) PROVE IInv'
<1>1. command[c].at = "dial" /\ UNCHANGED <<files, lock, daemon, requests, trouble>>
  BY DEF Dial, At
<1>2. CASE Listening(socket)
  <2>1. socket \in Daemons /\ Running(socket) /\ socket \in Daemons \cup {None}
    BY <1>2, ListeningRuns DEF IInv, TypeOK
  <2>2. PICK k \in Attempt : k = [command[c] EXCEPT !.at = "health", !.conn = socket]
    BY <2>1, ThisCommand DEF Attempt
  <2>3. k.at = "health" /\ k.conn = socket /\ k.stage = command[c].stage /\ k.mine = command[c].mine
    BY <2>1, <2>2, ThisCommand DEF Attempt
  <2>4. Becoming(c, k)
    BY <1>2, <2>2 DEF Dial, Becoming, IInv, TypeOK
  <2>5. AttemptFits(k) /\ (Holding(k) <=> Holding(command[c]))
    BY <1>1, <2>1, <2>3, ThisCommand DEF AttemptFits, Holding, Attempt
  <2>6. \A d \in Daemons : Running(d) => Alone(k, d)
    BY <2>1, <2>3 DEF Alone, IInv, OneDaemon
  <2>7. \A d \in Daemons : WaitsFor(command[c], d) => WaitsFor(k, d)
    BY <2>3, <2>5 DEF WaitsFor
  <2>8. socket' = socket /\ pidFile' = pidFile /\ lock' = lock /\ daemon' = daemon
        /\ trouble' = trouble /\ requests' \in 0..MaxRequests
    BY <1>1, ThisCommand DEF files
  <2>9. QED
    BY <2>4, <2>5, <2>6, <2>7, <2>8, GoOnStep
<1>3. CASE ~Listening(socket)
  <2>1. Failed(c)
    BY <1>3 DEF Dial
  <2>2. command[c].stage = "locked" => \A d \in Daemons : ~Running(d)
    BY <1>1, <1>3, NobodyRuns
  <2>3. QED
    BY <1>1, <2>1, <2>2, FailedStep
<1>4. QED
  BY <1>2, <1>3

\* Who asks under the lock asks the daemon that runs.
LEMMA UnhealthyStep == ASSUME IInv, ~Slow, NEW c \in Commands, Unhealthy(c) PROVE IInv'
<1>1. /\ command[c].at = "health" /\ daemon[command[c].conn] = "gone" /\ Failed(c)
      /\ UNCHANGED <<files, lock, daemon, requests, trouble>>
  BY DEF Unhealthy, At
<1>2. command[c].stage = "locked" => \A d \in Daemons : ~Running(d)
  BY <1>1, ThisCommand DEF Alone, Running
<1>3. QED
  BY <1>1, <1>2, FailedStep

\* A PID alive leads to another dial, none alive to the lock.
LEMMA CheckRunningStep == ASSUME IInv, NEW c \in Commands, CheckRunning(c) PROVE IInv'
<1>1. command[c].at = "check" /\ command[c].stage = "first"
  BY ThisCommand DEF CheckRunning, At, Attempt, AttemptFits
<1>2. PICK k \in Attempt :
        /\ k = [command[c] EXCEPT !.at = "dial", !.stage = "fast"] \/ k = [command[c] EXCEPT !.at = "lock"]
        /\ Becoming(c, k)
  <2>1. CASE Alive(pidFile)
    BY <2>1, ThisCommand DEF CheckRunning, Becoming, Attempt, IInv, TypeOK
  <2>2. CASE ~Alive(pidFile)
    BY <2>2, ThisCommand DEF CheckRunning, Becoming, Attempt, IInv, TypeOK
  <2>3. QED
    BY <2>1, <2>2
<1>3. (k.at = "dial" /\ k.stage = "fast") \/ (k.at = "lock" /\ k.stage = "first")
  BY <1>1, <1>2, ThisCommand DEF Attempt
<1>4. ~Holding(command[c]) /\ ~Holding(k) /\ AttemptFits(k) /\ \A d \in Daemons : Alone(k, d)
  BY <1>1, <1>3 DEF Holding, AttemptFits, Alone
<1>5. \A d \in Daemons : ~WaitsFor(command[c], d)
  BY <1>4 DEF WaitsFor
<1>6. socket' = socket /\ pidFile' = pidFile /\ lock' = lock /\ daemon' = daemon
      /\ trouble' = trouble /\ requests' \in 0..MaxRequests
  BY ThisCommand DEF CheckRunning, files
<1>7. QED
  BY <1>2, <1>4, <1>5, <1>6, GoOnStep

\* Who takes the lock finds it free.
LEMMA LockStep == ASSUME IInv, NEW c \in Commands, Lock(c) PROVE IInv'
<1>1. command[c].at = "lock" /\ command[c].stage \in {"first", "fast"}
  BY ThisCommand DEF Lock, At, Attempt, AttemptFits
<1>2. PICK k \in Attempt : k = [command[c] EXCEPT !.at = "dial", !.stage = "locked"]
  BY ThisCommand DEF Attempt
<1>3. k.at = "dial" /\ k.stage = "locked"
  BY <1>2, ThisCommand DEF Attempt
<1>4. Becoming(c, k)
  BY <1>2 DEF Lock, Becoming, IInv, TypeOK
<1>5. ~Holding(command[c]) /\ Holding(k) /\ AttemptFits(k) /\ \A d \in Daemons : Alone(k, d)
  BY <1>1, <1>3 DEF Holding, AttemptFits, Alone
<1>6. \A d \in Daemons : ~WaitsFor(command[c], d)
  BY <1>5 DEF WaitsFor
<1>7. lock = NoCommand /\ lock' = c /\ \A b \in Commands : b # c => (lock' = b <=> lock = b)
  BY EmbedDaemonAssumption DEF Lock
<1>8. socket' = socket /\ pidFile' = pidFile /\ daemon' = daemon
      /\ trouble' = trouble /\ requests' \in 0..MaxRequests
  BY ThisCommand DEF Lock, files
<1>9. TypeOK'
  BY <1>4, <1>7, <1>8, CommandType DEF IInv
<1>10. QED
  BY <1>4, <1>5, <1>6, <1>7, <1>8, <1>9, CommandStep

\* A socket is removed while no daemon runs.
LEMMA CleanSocketStep == ASSUME IInv, NEW c \in Commands, CleanSocket(c) PROVE IInv'
<1>1. command[c].at = "clean socket" /\ command[c].stage = "locked"
  BY ThisCommand DEF CleanSocket, At, Attempt, AttemptFits
<1>2. PICK k \in Attempt : k = [command[c] EXCEPT !.at = "clean pid"]
  BY ThisCommand DEF Attempt
<1>3. k.at = "clean pid" /\ k.stage = "locked"
  BY <1>1, <1>2, ThisCommand DEF Attempt
<1>4. Becoming(c, k)
  BY <1>2 DEF CleanSocket, Goto, Becoming, IInv, TypeOK
<1>5. Holding(command[c]) /\ Holding(k) /\ AttemptFits(k)
  BY <1>1, <1>3 DEF Holding, AttemptFits
<1>6. \A d \in Daemons : ~Running(d) /\ ~WaitsFor(command[c], d)
  BY <1>1, ThisCommand DEF Alone, WaitsFor
<1>7. socket' = None /\ pidFile' = pidFile /\ lock' = lock /\ daemon' = daemon
      /\ trouble' = trouble /\ requests' \in 0..MaxRequests
  BY ThisCommand DEF CleanSocket
<1>8. QED
  BY <1>4, <1>5, <1>6, <1>7, GoOnStep

\* A PID file is removed by the holder of the lock.
LEMMA CleanPidStep == ASSUME IInv, NEW c \in Commands, CleanPid(c) PROVE IInv'
<1>1. command[c].at = "clean pid" /\ command[c].stage = "locked"
  BY ThisCommand DEF CleanPid, At, Attempt, AttemptFits
<1>2. PICK k \in Attempt : k = [command[c] EXCEPT !.at = "start"]
  BY ThisCommand DEF Attempt
<1>3. k.at = "start" /\ k.stage = "locked"
  BY <1>1, <1>2, ThisCommand DEF Attempt
<1>4. Becoming(c, k)
  BY <1>2 DEF CleanPid, Goto, Becoming, IInv, TypeOK
<1>5. Holding(command[c]) /\ Holding(k) /\ AttemptFits(k)
  BY <1>1, <1>3 DEF Holding, AttemptFits
<1>6. \A d \in Daemons : ~Running(d) /\ ~WaitsFor(command[c], d)
  BY <1>1, ThisCommand DEF Alone, WaitsFor
<1>7. socket' = socket /\ pidFile' = None /\ lock' = lock /\ daemon' = daemon
      /\ trouble' = trouble /\ requests' \in 0..MaxRequests
  BY ThisCommand DEF CleanPid
<1>8. QED
  BY <1>4, <1>5, <1>6, <1>7, GoOnStep

\* The daemon that is started is the only one, and its starter has the lock.
LEMMA StartDaemonStep == ASSUME IInv, NEW c \in Commands, StartDaemon(c) PROVE IInv'
<1>1. command[c].at = "start" /\ command[c].stage = "locked" /\ lock = c
      /\ \A e \in Daemons : ~Running(e)
  <2>1. command[c].at = "start" /\ command[c].stage = "locked"
    BY ThisCommand DEF StartDaemon, At, Attempt, AttemptFits
  <2>2. Holding(command[c])
    BY <2>1 DEF Holding
  <2>3. QED
    BY <2>1, <2>2, ThisCommand DEF Alone
<1>2. PICK d \in Daemons :
        /\ daemon' = [daemon EXCEPT ![d] = "check pid"]
        /\ command' = [command EXCEPT ![c].at = "dial", ![c].stage = "wait", ![c].mine = d]
  BY DEF StartDaemon
<1>3. PICK k \in Attempt : k = [command[c] EXCEPT !.at = "dial", !.stage = "wait", !.mine = d]
  BY ThisCommand DEF Attempt
<1>4. k.at = "dial" /\ k.stage = "wait" /\ k.mine = d
  BY <1>3, ThisCommand DEF Attempt
<1>5. Becoming(c, k)
  BY <1>2, <1>3 DEF Becoming, IInv, TypeOK
<1>6. Holding(k) /\ AttemptFits(k) /\ WaitsFor(k, d) /\ \A e \in Daemons : Alone(k, e)
  BY <1>4 DEF Holding, AttemptFits, WaitsFor, Alone
<1>7. /\ command'[c] = k
      /\ \A b \in Commands : b # c => command'[b] = command[b]
  BY <1>5, BecomingType DEF IInv
<1>8. daemon'[d] = "check pid" /\ \A e \in Daemons : e # d => daemon'[e] = daemon[e]
  BY <1>2 DEF IInv, TypeOK
<1>9. UNCHANGED <<socket, pidFile, lock, requests, trouble>>
  BY DEF StartDaemon, files
<1>10. \A e \in Daemons : (Running(e))' => e = d
  BY <1>1, <1>8 DEF Running
<1>11. \A e \in Daemons : (Starting(e))' => e = d
  BY <1>10 DEF Starting, Running
<1>12. \A e \in Daemons : ~(Listening(e))'
  BY <1>8, <1>10 DEF Listening, Running
<1>13. TypeOK'
  <2>1. command' \in [Commands -> Attempt]
    BY <1>5, BecomingType DEF IInv
  <2>2. daemon' \in [Daemons -> DaemonLabels]
    BY <1>2 DEF IInv, TypeOK, DaemonLabels
  <2>3. QED
    BY <1>9, <2>1, <2>2 DEF IInv, TypeOK
<1>14. LockInv'
  <2>1. ASSUME NEW b \in Commands
        PROVE  AttemptFits(command'[b]) /\ (lock' = b <=> Holding(command'[b]))
    BY <1>1, <1>6, <1>7, <1>9 DEF IInv, LockInv
  <2>2. QED
    BY <2>1 DEF LockInv
<1>15. StartingInv'
  <2>1. WaitsFor(command'[c], d)
    BY <1>6, <1>7
  <2>2. QED
    BY <1>11, <2>1 DEF StartingInv
<1>16. SocketInv'
  BY <1>12 DEF SocketInv
<1>17. AloneInv'
  <2>1. ASSUME NEW b \in Commands, NEW e \in Daemons PROVE Alone(command'[b], e)
    <3>1. CASE b = c
      BY <1>6, <1>7, <3>1
    <3>2. CASE b # c
      <4>1. command'[b] = command[b] /\ ~Holding(command[b]) /\ AttemptFits(command[b])
            /\ command[b] \in Attempt
        BY <1>1, <1>7, <3>2, ThisCommand DEF IInv, LockInv
      <4>2. Alone(command[b], e)
        BY <4>1 DEF Alone, Holding, AttemptFits, Attempt
      <4>3. QED
        BY <4>1, <4>2
    <3>3. QED
      BY <3>1, <3>2
  <2>2. QED
    BY <2>1 DEF AloneInv
<1>18. OneDaemon'
  BY <1>10 DEF OneDaemon
<1>19. QED
  BY <1>13, <1>14, <1>15, <1>16, <1>17, <1>18 DEF IInv

\* A command has its client: from here it does not hold the lock.
LEMMA HealthyStep == ASSUME IInv, NEW c \in Commands, Healthy(c) PROVE IInv'
<1>1. command[c].at = "health" /\ daemon[command[c].conn] = "serve"
  BY DEF Healthy, At
<1>2. PICK k \in Attempt : k = [command[c] EXCEPT !.at = "embed"]
  BY ThisCommand DEF Attempt
<1>3. /\ k.at = "embed" /\ k.stage = command[c].stage /\ k.mine = command[c].mine
      /\ k.conn = command[c].conn
  BY <1>2, ThisCommand DEF Attempt
<1>4. Becoming(c, k)
  BY <1>2 DEF Healthy, Goto, Becoming, IInv, TypeOK
<1>5. ~Holding(k) /\ AttemptFits(k) /\ \A d \in Daemons : Alone(k, d)
  BY <1>1, <1>3, ThisCommand DEF Holding, AttemptFits, Alone, Attempt
<1>6. command[c].conn \in Daemons /\ Running(command[c].conn) /\ ~Starting(command[c].conn)
  BY <1>1, ThisCommand DEF AttemptFits, Running, Starting
<1>7. \A d \in Daemons : ~Starting(d) \/ d = command[c].conn
  BY <1>6 DEF IInv, OneDaemon, Starting, Running
<1>8. lock' \in {lock, NoCommand} /\ lock' # c
      /\ \A b \in Commands : b # c => (lock' = b <=> lock = b)
  BY ThisCommand, EmbedDaemonAssumption DEF Healthy, Unlocked
<1>9. socket' = socket /\ pidFile' = pidFile /\ daemon' = daemon
      /\ trouble' = trouble /\ requests' \in 0..MaxRequests
  BY ThisCommand DEF Healthy, files
<1>10. TypeOK'
  BY <1>4, <1>8, <1>9, CommandType DEF IInv
<1>11. QED
  BY <1>4, <1>5, <1>6, <1>7, <1>8, <1>9, <1>10, CommandStep

\* Nobody leaves a daemon that is not ready, unless a timeout is too short.
LEMMA LeaveSteps ==
  ASSUME IInv, ~Slow, NEW c \in Commands,
         StartFails(c) \/ GiveUp(c) \/ Embedded(c) \/ NotEmbedded(c) \/ Crash(c)
  PROVE  IInv'
<1>1. Becoming(c, Idle) /\ lock' = Unlocked(c) /\ UNCHANGED <<files, daemon, requests>>
      /\ trouble' = [trouble EXCEPT ![c] = FALSE]
  BY DEF StartFails, GiveUp, Embedded, NotEmbedded, Crash, Leave, Becoming
<1>2. ASSUME NEW d \in Daemons, Starting(d) PROVE ~WaitsFor(command[c], d)
  <2>1. Running(d) /\ daemon[d] # "gone"
    BY <1>2 DEF Starting, Running
  <2>2. CASE StartFails(c)
    BY <2>1, <2>2, ThisCommand DEF StartFails, At, Alone
  <2>3. CASE GiveUp(c)
    BY <2>1, <2>3 DEF GiveUp, WaitsFor
  <2>4. CASE Embedded(c) \/ NotEmbedded(c)
    BY <2>4 DEF Embedded, NotEmbedded, At, WaitsFor, Holding
  <2>5. CASE Crash(c)
    BY <2>5 DEF Crash, WaitsFor
  <2>6. QED
    BY <2>2, <2>3, <2>4, <2>5
<1>3. QED
  BY <1>1, <1>2, LeaveStep
-----------------------------------------------------------------------------
(* The steps of daemons. *)

\* What a step of daemon d does, whatever it is.
Proceeds(d, label) ==
  /\ label # "none"
  /\ daemon' = [daemon EXCEPT ![d] = label]
  /\ label \in {"check pid", "load", "write pid", "bind", "chmod"} => Starting(d)
  /\ label \in {"chmod", "serve", "remove pid", "remove socket"} => socket' = d
  /\ socket' \in {socket, None, d}
  /\ pidFile' \in {pidFile, None, d}
  /\ lock' = lock /\ command' = command /\ requests' = requests
  /\ trouble' = trouble \/ Trouble

\* A daemon that runs goes on to its next step.
LEMMA DaemonProceeds ==
  ASSUME IInv, NEW d \in Daemons, Running(d), NEW label \in DaemonLabels, Proceeds(d, label)
  PROVE  IInv'
<1>1. TypeOK'
  BY DaemonType DEF Proceeds, IInv
<1>2. QED
  BY <1>1, DaemonStep DEF Proceeds

\* Every step of a daemon preserves the invariant.
LEMMA DaemonSteps ==
  ASSUME IInv, NEW d \in Daemons, Run(d) \/ LoadFails(d) \/ Kill(d)
  PROVE  IInv'
<1>1. Running(d)
  BY DEF Run, CheckPid, Loaded, LoadFails, WritePid, Bind, Chmod, Stop, RemovePid, RemoveSocket,
         Kill, Running
<1>2. d # None
  BY EmbedDaemonAssumption DEF Daemons, None
<1>3. Listening(d) => socket = d
  BY DEF IInv, SocketInv
<1>4. \E label \in DaemonLabels : Proceeds(d, label)
  <2>1. CASE CheckPid(d)
    <3>1. PICK label \in {"gone", "load"} : daemon' = [daemon EXCEPT ![d] = label]
      BY <2>1 DEF CheckPid, Becomes
    <3>2. Proceeds(d, label)
      BY <2>1, <3>1 DEF CheckPid, Proceeds, Starting, files
    <3>3. QED
      BY <3>1, <3>2 DEF DaemonLabels
  <2>2. CASE Loaded(d)
    <3>1. Proceeds(d, "write pid")
      BY <2>2 DEF Loaded, Becomes, Proceeds, Starting
    <3>2. QED
      BY <3>1 DEF DaemonLabels
  <2>3. CASE LoadFails(d) \/ Kill(d)
    <3>1. Proceeds(d, "gone")
      BY <2>3 DEF LoadFails, Kill, Becomes, Proceeds, files
    <3>2. QED
      BY <3>1 DEF DaemonLabels
  <2>4. CASE WritePid(d)
    <3>1. Proceeds(d, "bind")
      BY <2>4 DEF WritePid, Becomes, Proceeds, Starting
    <3>2. QED
      BY <3>1 DEF DaemonLabels
  <2>5. CASE Bind(d)
    <3>1. CASE socket = None
      <4>1. Proceeds(d, "chmod")
        BY <2>5, <3>1 DEF Bind, Becomes, Proceeds, Starting
      <4>2. QED
        BY <4>1 DEF DaemonLabels
    <3>2. CASE socket # None
      <4>1. Proceeds(d, "gone")
        BY <2>5, <3>2 DEF Bind, Becomes, Proceeds
      <4>2. QED
        BY <4>1 DEF DaemonLabels
    <3>3. QED
      BY <3>1, <3>2
  <2>6. CASE Chmod(d)
    <3>1. socket = d
      BY <1>2, <1>3, <2>6 DEF Chmod, Listening
    <3>2. Proceeds(d, "serve")
      BY <1>2, <2>6, <3>1 DEF Chmod, Becomes, Proceeds, files
    <3>3. QED
      BY <3>2 DEF DaemonLabels
  <2>7. CASE Stop(d)
    <3>1. Proceeds(d, "remove pid")
      BY <1>2, <1>3, <2>7 DEF Stop, Listening, Becomes, Proceeds, files
    <3>2. QED
      BY <3>1 DEF DaemonLabels
  <2>8. CASE RemovePid(d)
    <3>1. Proceeds(d, "remove socket")
      BY <1>2, <1>3, <2>8 DEF RemovePid, Listening, Becomes, Proceeds
    <3>2. QED
      BY <3>1 DEF DaemonLabels
  <2>9. CASE RemoveSocket(d)
    <3>1. Proceeds(d, "gone")
      BY <2>9 DEF RemoveSocket, Becomes, Proceeds
    <3>2. QED
      BY <3>1 DEF DaemonLabels
  <2>10. QED
    BY <2>1, <2>2, <2>3, <2>4, <2>5, <2>6, <2>7, <2>8, <2>9 DEF Run
<1>5. QED
  BY <1>1, <1>4, DaemonProceeds
-----------------------------------------------------------------------------
(* The theorems. *)

LEMMA InvariantInit == Init => IInv
<1> SUFFICES ASSUME Init PROVE IInv
  OBVIOUS
<1>1. \A d \in Daemons : ~Running(d) /\ ~Starting(d) /\ ~Listening(d)
  BY DEF Init, Running, Starting, Listening
<1>2. TypeOK
  BY AttemptEnds, EmbedDaemonAssumption DEF Init, TypeOK, DaemonLabels
<1>3. LockInv
  BY AttemptEnds, EmbedDaemonAssumption DEF Init, LockInv
<1>4. QED
  BY <1>1, <1>2, <1>3 DEF IInv, StartingInv, SocketInv, AloneInv, OneDaemon

\* Every step preserves the invariant.
LEMMA InvariantStep == ASSUME ~Slow, IInv, [Next]_vars PROVE IInv'
<1>1. ASSUME NEW c \in Commands, Request(c) \/ Step(c) \/ GiveUp(c) \/ Crash(c) PROVE IInv'
  BY <1>1, RequestStep, DialStep, HealthyStep, UnhealthyStep, CheckRunningStep, LockStep,
     CleanSocketStep, CleanPidStep, StartDaemonStep, LeaveSteps DEF Step
<1>2. ASSUME NEW d \in Daemons, Run(d) \/ LoadFails(d) \/ Kill(d) PROVE IInv'
  BY <1>2, DaemonSteps
<1>3. CASE UNCHANGED vars
  <2>1. UNCHANGED <<socket, lock, daemon, command>> /\ TypeOK'
    BY <1>3 DEF vars, IInv, TypeOK
  <2>2. LockInv' /\ AloneInv' /\ OneDaemon'
    BY <2>1 DEF IInv, LockInv, AloneInv, OneDaemon, Running
  <2>3. StartingInv' /\ SocketInv'
    BY <2>1 DEF IInv, StartingInv, Starting, SocketInv, Listening
  <2>4. QED
    BY <2>1, <2>2, <2>3 DEF IInv
<1>4. QED
  BY <1>1, <1>2, <1>3 DEF Next

\* When no timeout is too short, and no command is killed while it waits for
\* the daemon it started, the flock around EnsureDaemon and the health check
\* under it keep any number of commands from ever having two daemons run at
\* the same time, whichever of them die and whatever files they leave.
THEOREM DaemonsAreNeverTwo == ASSUME ~Slow PROVE Spec => []OneDaemon
<1>1. IInv /\ [Next]_vars => IInv'
  BY InvariantStep
<1>2. IInv => OneDaemon
  BY DEF IInv
<1>3. QED
  BY <1>1, <1>2, InvariantInit, PTL DEF Spec

\* Under the same conditions CleanStaleSocket never removes the socket of a daemon that listens:
\* the one of its own tryConnect is gone, and no other can have been started.
THEOREM CleaningIsSafe == ASSUME ~Slow PROVE Spec => OnlyStaleSocketsAreCleaned
<1>1. IInv /\ [Next]_vars => IInv'
  BY InvariantStep
<1>2. IInv => [\A c \in Commands :
                At(c, "clean socket") /\ command'[c].at = "clean pid" => ~Listening(socket)]_vars
  <2>1. ASSUME IInv, NEW c \in Commands, At(c, "clean socket") PROVE ~Listening(socket)
    <3>1. \A d \in Daemons : ~Running(d)
      BY <2>1, ThisCommand DEF At, Alone
    <3>2. QED
      BY <2>1, <3>1, ListeningRuns DEF IInv, TypeOK
  <2>2. QED
    BY <2>1
<1>3. QED
  BY <1>1, <1>2, InvariantInit, PTL DEF Spec, OnlyStaleSocketsAreCleaned

-----------------------------------------------------------------------------
(* Leftovers of dead daemons.                                               *)

\* A step of a command that starts no daemon only removes files: it is in the
\* way of no other command, and not in its own when it goes on like this.
LEMMA CommandFares ==
  ASSUME IInv, TroubleInv, NEW c \in Commands, NEW k \in Attempt, Becoming(c, k),
         daemon' = daemon, socket' \in {socket, None}, pidFile' \in {pidFile, None},
         \A b \in Commands : b # c => trouble'[b] = trouble[b],
         k.at = "start" => pidFile' = None,
         k.at = "embed" => daemon[k.conn] = "serve",
         k.stage = "wait" => /\ command[c].stage = "wait" /\ k.mine = command[c].mine
                             /\ trouble'[c] = trouble[c]
  PROVE  TroubleInv'
<1>1. /\ command'[c] = k
      /\ \A b \in Commands : b # c => command'[b] = command[b]
  BY BecomingType DEF IInv
<1>2. \A d : Unhindered(d) => (Unhindered(d))'
  BY DEF Unhindered, Starting
<1>3. ASSUME NEW b \in Commands, b # c PROVE Fares(b)'
  <2>1. command'[b] = command[b] /\ trouble'[b] = trouble[b] /\ Fares(b)
    BY <1>1, <1>3 DEF TroubleInv
  <2>2. QED
    BY <1>2, <2>1 DEF Fares, Unhindered, Starting
<1>4. Fares(c)'
  <2>1. Fares(c)
    BY DEF TroubleInv
  <2>2. QED
    BY <1>1, <2>1 DEF Fares, Unhindered, Starting
<1>5. QED
  BY <1>3, <1>4 DEF TroubleInv

\* While no daemon runs, every command that counts on one knows of trouble.
LEMMA NoneServes ==
  ASSUME TypeOK, NEW c \in Commands, AttemptFits(command[c]), Fares(c),
         \A d \in Daemons : ~Running(d)
  PROVE  (command[c].at = "embed" \/ command[c].stage = "wait") => trouble[c]
<1>1. command[c].at = "embed" => command[c].conn \in Daemons
  BY DEF AttemptFits
<1>2. \A d \in Daemons : daemon[d] # "serve" /\ ~Starting(d)
  BY DEF Running, Starting
<1>3. QED
  BY <1>1, <1>2 DEF Fares, Unhindered

\* A command that starts a daemon has cleaned up before, while no other ran.
LEMMA StartFares ==
  ASSUME IInv, TroubleInv, NEW c \in Commands, StartDaemon(c)
  PROVE  TroubleInv'
<1>1. PICK d \in Daemons :
        /\ daemon' = [daemon EXCEPT ![d] = "check pid"]
        /\ command' = [command EXCEPT ![c].at = "dial", ![c].stage = "wait", ![c].mine = d]
  BY DEF StartDaemon
<1>2. /\ command[c].at = "start"
      /\ UNCHANGED <<socket, pidFile, trouble>>
  BY DEF StartDaemon, At, files
<1>3. \A e \in Daemons : ~Running(e)
  BY <1>2, ThisCommand DEF Alone
<1>4. pidFile = None
  BY <1>2 DEF TroubleInv, Fares
<1>5. PICK k \in Attempt : k = [command[c] EXCEPT !.at = "dial", !.stage = "wait", !.mine = d]
  BY ThisCommand DEF Attempt
<1>6. k.at = "dial" /\ k.stage = "wait" /\ k.mine = d /\ Becoming(c, k)
  BY <1>1, <1>5, ThisCommand DEF Attempt, Becoming, IInv, TypeOK
<1>7. /\ command'[c] = k
      /\ \A b \in Commands : b # c => command'[b] = command[b]
  BY <1>6, BecomingType DEF IInv
<1>8. daemon'[d] = "check pid"
  BY <1>1 DEF IInv, TypeOK
<1>9. Fares(c)'
  BY <1>2, <1>4, <1>6, <1>7, <1>8 DEF Fares, Unhindered, Starting
<1>10. ASSUME NEW b \in Commands, b # c PROVE Fares(b)'
  <2>1. (command[b].at = "embed" \/ command[b].stage = "wait") => trouble[b]
    BY <1>3, NoneServes, ThisCommand DEF IInv, TroubleInv
  <2>2. QED
    BY <1>2, <1>4, <1>7, <1>10, <2>1 DEF Fares
<1>11. QED
  BY <1>9, <1>10 DEF TroubleInv

\* Every other step of a command.
LEMMA CommandFaresOn ==
  ASSUME IInv, TroubleInv, NEW c \in Commands,
         Request(c) \/ Step(c) \/ GiveUp(c) \/ Crash(c)
  PROVE  TroubleInv'
<1> DEFINE k == command[c]
<1>0. /\ k \in Attempt /\ AttemptFits(k) /\ command \in [Commands -> Attempt]
      /\ trouble \in [Commands -> BOOLEAN] /\ socket \in Daemons \cup {None}
  BY ThisCommand DEF IInv, TypeOK
<1> HIDE DEF k
<1>1. CASE Request(c)
  <2>1. PICK n \in Attempt : n = [k EXCEPT !.at = "dial", !.stage = "first"]
    BY <1>0 DEF Attempt
  <2>2. n.at = "dial" /\ n.stage = "first" /\ Becoming(c, n)
    BY <1>0, <1>1, <2>1 DEF Request, Becoming, Attempt, k
  <2>3. QED
    BY <1>1, <2>2, CommandFares DEF Request, files
<1>2. ASSUME Failed(c), k.at \in {"dial", "health"},
             UNCHANGED <<files, daemon, trouble>>
      PROVE  TroubleInv'
  <2>1. PICK next \in {"check", "lock", "clean socket", "dial"} :
          command' = [command EXCEPT ![c].at = next, ![c].conn = None]
    BY <1>0, <1>2 DEF Failed, AttemptFits, Attempt, k
  <2>2. PICK n \in Attempt : n = [k EXCEPT !.at = next, !.conn = None]
    BY <1>0 DEF Attempt
  <2>3. n.at = next /\ n.stage = k.stage /\ n.mine = k.mine
    BY <1>0, <2>2, ZenonT(30) DEF Attempt
  <2>4. Becoming(c, n)
    BY <2>1, <2>2 DEF Becoming, k
  <2>5. QED
    BY <1>2, <2>3, <2>4, CommandFares DEF files, k
<1>3. CASE Dial(c)
  <2>1. CASE Listening(socket)
    <3>1. socket \in Daemons
      BY <1>0, <2>1 DEF Listening
    <3>2. PICK n \in Attempt : n = [k EXCEPT !.at = "health", !.conn = socket]
      BY <1>0, <3>1 DEF Attempt
    <3>3. n.at = "health" /\ n.stage = k.stage /\ n.mine = k.mine /\ Becoming(c, n)
      BY <1>0, <1>3, <2>1, <3>2 DEF Dial, Becoming, Attempt, k
    <3>4. QED
      BY <1>3, <3>3, CommandFares DEF Dial, files, k
  <2>2. CASE ~Listening(socket)
    BY <1>2, <1>3, <2>2 DEF Dial, At, k
  <2>3. QED
    BY <2>1, <2>2
<1>4. CASE Healthy(c)
  <2>1. PICK n \in Attempt : n = [k EXCEPT !.at = "embed"]
    BY <1>0 DEF Attempt
  <2>2. /\ n.at = "embed" /\ n.stage = k.stage /\ n.conn = k.conn /\ n.mine = k.mine
        /\ Becoming(c, n)
    BY <1>0, <1>4, <2>1 DEF Healthy, Goto, Becoming, Attempt, k
  <2>3. QED
    BY <1>4, <2>2, CommandFares DEF Healthy, files, k
<1>5. CASE Unhealthy(c)
  BY <1>2, <1>5 DEF Unhealthy, At, k
<1>6. CASE CheckRunning(c)
  <2>1. PICK at \in {"dial", "lock"}, stage \in {"fast", k.stage} :
          command' = [command EXCEPT ![c].at = at, ![c].stage = stage]
    <3>1. CASE Alive(pidFile)
      BY <1>6, <3>1 DEF CheckRunning
    <3>2. CASE ~Alive(pidFile)
      <4>1. command' = [command EXCEPT ![c].at = "lock", ![c].stage = k.stage]
        BY <1>0, <1>6, <3>2 DEF CheckRunning, Attempt, k
      <4>2. QED
        BY <4>1
    <3>3. QED
      BY <3>1, <3>2
  <2>2. k.stage = "first"
    BY <1>0, <1>6 DEF CheckRunning, At, AttemptFits, Attempt, k
  <2>3. PICK n \in Attempt : n = [k EXCEPT !.at = at, !.stage = stage]
    BY <1>0, <2>1 DEF Attempt
  <2>4. n.at = at /\ n.stage # "wait" /\ Becoming(c, n)
    BY <1>0, <2>1, <2>2, <2>3 DEF Becoming, Attempt, k
  <2>5. QED
    BY <1>6, <2>1, <2>4, CommandFares DEF CheckRunning, files
<1>7. CASE Lock(c)
  <2>1. PICK n \in Attempt : n = [k EXCEPT !.at = "dial", !.stage = "locked"]
    BY <1>0 DEF Attempt
  <2>2. n.at = "dial" /\ n.stage = "locked" /\ Becoming(c, n)
    BY <1>0, <1>7, <2>1 DEF Lock, Becoming, Attempt, k
  <2>3. QED
    BY <1>7, <2>2, CommandFares DEF Lock, files
<1>8. CASE CleanSocket(c) \/ CleanPid(c)
  <2>1. PICK at \in {"clean pid", "start"} :
          /\ command' = [command EXCEPT ![c].at = at]
          /\ at = "start" => pidFile' = None
    BY <1>8 DEF CleanSocket, CleanPid, Goto
  <2>2. PICK n \in Attempt : n = [k EXCEPT !.at = at]
    BY <1>0 DEF Attempt
  <2>3. n.at = at /\ n.stage = k.stage /\ n.mine = k.mine /\ Becoming(c, n)
    BY <1>0, <2>1, <2>2 DEF Becoming, Attempt, k
  <2>4. QED
    BY <1>8, <2>1, <2>3, CommandFares DEF CleanSocket, CleanPid, k
<1>9. CASE StartDaemon(c)
  BY <1>9, StartFares
<1>10. CASE StartFails(c) \/ GiveUp(c) \/ Embedded(c) \/ NotEmbedded(c) \/ Crash(c)
  <2>1. /\ Becoming(c, Idle) /\ UNCHANGED <<files, daemon>>
        /\ \A b \in Commands : b # c => trouble'[b] = trouble[b]
    BY <1>0, <1>10 DEF StartFails, GiveUp, Embedded, NotEmbedded, Crash, Leave, Becoming
  <2>2. Idle \in Attempt /\ Idle.at = "idle" /\ Idle.stage = "none"
    BY AttemptEnds DEF Idle
  <2>3. QED
    BY <2>1, <2>2, CommandFares DEF files
<1>11. QED
  BY <1>1, <1>3, <1>4, <1>5, <1>6, <1>7, <1>8, <1>9, <1>10 DEF Step

\* A daemon goes on unhindered, or is the trouble of all that run.
LEMMA DaemonFares ==
  ASSUME IInv, TroubleInv, NEW d \in Daemons, Run(d) \/ LoadFails(d) \/ Kill(d)
  PROVE  TroubleInv'
<1>1. Running(d)
  BY DEF Run, CheckPid, Loaded, LoadFails, WritePid, Bind, Chmod, Stop, RemovePid, RemoveSocket,
         Kill, Running
<1>2. /\ command' = command
      /\ trouble' = trouble \/ Trouble
      /\ trouble \in [Commands -> BOOLEAN]
  BY DEF Run, CheckPid, Loaded, LoadFails, WritePid, Bind, Chmod, Stop, RemovePid, RemoveSocket,
         Kill, files, IInv, TypeOK
<1>3. SUFFICES ASSUME NEW c \in Commands PROVE Fares(c)'
  BY DEF TroubleInv
<1>4. /\ Fares(c) /\ AttemptFits(command[c]) /\ command[c].at # "start"
  BY <1>1, ThisCommand DEF TroubleInv, Alone
<1>5. CASE Trouble
  <2>1. command[c].at # "idle" => trouble'[c]
    BY <1>5 DEF Trouble, At
  <2>2. command[c].stage = "wait" => command[c].at # "idle"
    BY <1>4 DEF AttemptFits
  <2>3. (command[c].at = "embed" \/ command[c].stage = "wait") => trouble'[c]
    BY <2>1, <2>2
  <2>4. QED
    BY <1>2, <1>4, <2>3 DEF Fares, Unhindered, Starting
<1>6. CASE ~Trouble
  <2>1. trouble' = trouble
    BY <1>2, <1>6
  <2>2. \/ CheckPid(d) \/ Loaded(d) \/ WritePid(d) \/ Bind(d) \/ Chmod(d)
        \/ RemovePid(d) \/ RemoveSocket(d)
    BY <1>6 DEF Run, LoadFails, Kill, Stop
  <2>3. daemon[d] # "serve" /\ daemon \in [Daemons -> DaemonLabels]
    BY <2>2 DEF CheckPid, Loaded, WritePid, Bind, Chmod, RemovePid, RemoveSocket, IInv, TypeOK
  <2>4. \A e \in Daemons : daemon[e] = "serve" \/ Starting(e) => e = d
    BY <1>1 DEF IInv, OneDaemon, Running, Starting
  <2>5. command[c].at = "embed" => trouble[c]
    BY <1>4, <2>3, <2>4 DEF Fares, AttemptFits
  <2>6. Unhindered(d) => (Unhindered(d))'
    <3>1. ~Alive(None) /\ d # None
      BY EmbedDaemonAssumption DEF Alive, Daemons, None
    <3>2. daemon[d] = "chmod" => socket = d
      BY <3>1 DEF IInv, SocketInv, Listening
    <3>3. CASE CheckPid(d) \/ Loaded(d) \/ WritePid(d)
      BY <2>3, <3>1, <3>3 DEF CheckPid, Loaded, WritePid, Becomes, Unhindered, Starting, files
    <3>4. CASE Bind(d) \/ Chmod(d)
      BY <2>3, <3>1, <3>2, <3>4 DEF Bind, Chmod, Becomes, Unhindered, Starting, files
    <3>5. CASE RemovePid(d) \/ RemoveSocket(d)
      BY <3>5 DEF RemovePid, RemoveSocket, Unhindered, Starting
    <3>6. QED
      BY <2>2, <3>3, <3>4, <3>5
  <2>7. command[c].stage = "wait" => trouble[c] \/ (command[c].mine = d /\ Unhindered(d))
    BY <1>4, <2>3, <2>4 DEF Fares, Unhindered
  <2>8. command[c].stage = "wait" => trouble'[c] \/ (Unhindered(command[c].mine))'
    <3>1. CASE command[c].mine = d /\ Unhindered(d)
      BY <1>2, <2>6, <3>1 DEF Unhindered, Starting
    <3>2. QED
      BY <2>1, <2>7, <3>1
  <2>9. QED
    BY <1>2, <1>4, <2>1, <2>5, <2>8 DEF Fares
<1>7. QED
  BY <1>5, <1>6

\* When no timeout is too short, and no command is killed while it waits for
\* its daemon, a command falls back to keywords only when a daemon failed, was
\* stopped or was killed while it ran: what dead daemons left in the way is
\* cleaned before a start, and nobody puts anything there.
THEOREM OnlyTroubleCostsVectors == ASSUME ~Slow PROVE Spec => LeftoversDoNotMatter
<1> DEFINE Body == \A c \in Commands : GiveUp(c) \/ NotEmbedded(c) => trouble[c]
<1>1. Init => TroubleInv
  <2>1. ASSUME Init, NEW c \in Commands PROVE Fares(c)
    <3>1. command[c].at = "idle" /\ command[c].stage = "none"
      BY <2>1 DEF Init, Idle
    <3>2. QED
      BY <3>1 DEF Fares
  <2>2. QED
    BY <2>1 DEF TroubleInv
<1>2. IInv /\ TroubleInv /\ [Next]_vars => IInv' /\ TroubleInv'
  <2> SUFFICES ASSUME IInv, TroubleInv, [Next]_vars PROVE IInv' /\ TroubleInv'
    OBVIOUS
  <2>1. IInv'
    BY InvariantStep
  <2>2. ASSUME UNCHANGED vars PROVE TroubleInv'
    <3>1. ASSUME NEW c \in Commands PROVE Fares(c)'
      <4>1. Fares(c) /\ command'[c] = command[c] /\ trouble'[c] = trouble[c]
        BY <2>2 DEF TroubleInv, vars
      <4>2. QED
        BY <2>2, <4>1 DEF Fares, Unhindered, Starting, vars
    <3>2. QED
      BY <3>1 DEF TroubleInv
  <2>3. TroubleInv'
    BY <2>2, CommandFaresOn, DaemonFares DEF Next
  <2>4. QED
    BY <2>1, <2>3
<1>3. IInv /\ TroubleInv => Body
  <2>1. ASSUME IInv, NEW c \in Commands, Fares(c), GiveUp(c) \/ NotEmbedded(c) PROVE trouble[c]
    <3>1. CASE GiveUp(c)
      BY <2>1, <3>1 DEF GiveUp, Fares, Unhindered, Starting
    <3>2. CASE NotEmbedded(c)
      BY <2>1, <3>2 DEF NotEmbedded, At, Fares
    <3>3. QED
      BY <2>1, <3>1, <3>2
  <2>2. QED
    BY <2>1 DEF TroubleInv
<1> HIDE DEF Body
<1>4. IInv /\ TroubleInv => [Body]_vars
  BY <1>3
<1>5. Spec => [][Body]_vars
  BY <1>1, <1>2, <1>4, InvariantInit, PTL DEF Spec
<1>6. QED
  BY <1>5 DEF LeftoversDoNotMatter, Body

-----------------------------------------------------------------------------
(* Types, however slow daemons are.                                         *)

\* Where a command is goes with the attempt that it makes.
TypeInv == TypeOK /\ \A c \in Commands : AttemptFits(command[c])

\* Command c goes on in a place that fits.
GoesOn(c) ==
  \E k \in Attempt : Becoming(c, k) /\ AttemptFits(k)

\* A command that goes on as one of its attempts keeps every type.
LEMMA GoesOnType ==
  ASSUME TypeInv, NEW c \in Commands, GoesOn(c),
         daemon' \in [Daemons -> DaemonLabels], socket' \in {socket, None},
         pidFile' \in {pidFile, None}, lock' \in {lock, c, NoCommand},
         requests' \in 0..MaxRequests,
         trouble' = trouble \/ trouble' = [trouble EXCEPT ![c] = FALSE]
  PROVE  TypeInv'
<1>1. PICK k \in Attempt : Becoming(c, k) /\ AttemptFits(k)
  BY DEF GoesOn
<1>2. /\ command' \in [Commands -> Attempt]
      /\ \A b \in Commands : AttemptFits(command'[b])
  BY <1>1, BecomingType DEF TypeInv
<1>3. QED
  BY <1>2 DEF TypeInv, TypeOK

\* A command that leaves gives the lock back.
LEMMA LeaveType ==
  ASSUME TypeInv, NEW c \in Commands, command' = [command EXCEPT ![c] = Idle],
         trouble' = [trouble EXCEPT ![c] = FALSE], lock' = Unlocked(c),
         UNCHANGED <<files, daemon, requests>>
  PROVE  TypeInv'
<1>1. GoesOn(c)
  BY AttemptEnds DEF GoesOn, Becoming
<1>2. QED
  BY <1>1, GoesOnType DEF TypeInv, TypeOK, Unlocked, files

\* A dial or a health check that fails goes on with the next attempt.
LEMMA FailedType ==
  ASSUME TypeInv, NEW c \in Commands, command[c].at \in {"dial", "health"}, Failed(c)
  PROVE  GoesOn(c)
<1>1. command[c] \in Attempt /\ command[c].stage \in {"first", "fast", "locked", "wait"}
  BY DEF TypeInv, TypeOK, Attempt, AttemptFits
<1>2. PICK next \in {"check", "lock", "clean socket", "dial"} :
        /\ command[c].stage = "first" => next = "check"
        /\ command[c].stage = "fast" => next = "lock"
        /\ command[c].stage = "locked" => next = "clean socket"
        /\ command[c].stage = "wait" => next = "dial"
        /\ command' = [command EXCEPT ![c].at = next, ![c].conn = None]
  BY <1>1 DEF Failed
<1>3. PICK k \in Attempt : k = [command[c] EXCEPT !.at = next, !.conn = None]
  BY <1>1 DEF Attempt
<1>4. k.at = next /\ k.stage = command[c].stage
  BY <1>1, <1>3, ZenonT(30) DEF Attempt
<1>5. Becoming(c, k)
  BY <1>2, <1>3 DEF Becoming, TypeInv, TypeOK
<1>6. AttemptFits(k)
  BY <1>1, <1>2, <1>4 DEF AttemptFits
<1>7. QED
  BY <1>5, <1>6 DEF GoesOn

\* Every step of a command keeps every type.
LEMMA CommandTypes ==
  ASSUME TypeInv, NEW c \in Commands, Request(c) \/ Step(c) \/ GiveUp(c) \/ Crash(c)
  PROVE  TypeInv'
<1> DEFINE k == command[c]
<1>0. /\ k \in Attempt /\ AttemptFits(k) /\ command \in [Commands -> Attempt]
      /\ daemon \in [Daemons -> DaemonLabels] /\ requests \in 0..MaxRequests
      /\ socket \in Daemons \cup {None}
  BY DEF TypeInv, TypeOK, Attempt
<1>1. CASE Request(c)
  <2>1. PICK n \in Attempt : n = [k EXCEPT !.at = "dial", !.stage = "first"]
    BY <1>0 DEF Attempt
  <2>2. n.at = "dial" /\ n.stage = "first" /\ Becoming(c, n)
    BY <1>0, <1>1, <2>1 DEF Request, Becoming, Attempt
  <2>3. GoesOn(c)
    BY <2>2 DEF GoesOn, AttemptFits
  <2>4. requests' \in 0..MaxRequests
    BY <1>0, <1>1, EmbedDaemonAssumption DEF Request
  <2>5. QED
    BY <1>0, <1>1, <2>3, <2>4, GoesOnType DEF Request, files
<1>2. CASE Dial(c)
  <2>1. ASSUME Listening(socket) PROVE GoesOn(c)
    <3>1. socket \in Daemons
      BY <1>0, <2>1 DEF Listening
    <3>2. PICK n \in Attempt : n = [k EXCEPT !.at = "health", !.conn = socket]
      BY <1>0, <3>1 DEF Attempt
    <3>3. n.at = "health" /\ n.stage = k.stage /\ n.conn = socket /\ Becoming(c, n)
      BY <1>0, <1>2, <2>1, <3>2 DEF Dial, Becoming, Attempt
    <3>4. AttemptFits(n)
      BY <1>0, <1>2, <3>1, <3>3 DEF AttemptFits, Dial, At, Attempt
    <3>5. QED
      BY <3>3, <3>4 DEF GoesOn
  <2>2. ASSUME ~Listening(socket) PROVE GoesOn(c)
    BY <1>2, <2>2, FailedType DEF Dial, At
  <2>3. QED
    BY <1>0, <1>2, <2>1, <2>2, GoesOnType DEF Dial, files
<1>3. CASE Healthy(c)
  <2>1. PICK n \in Attempt : n = [k EXCEPT !.at = "embed"]
    BY <1>0 DEF Attempt
  <2>2. n.at = "embed" /\ n.stage = k.stage /\ n.conn = k.conn /\ Becoming(c, n)
    BY <1>0, <1>3, <2>1 DEF Healthy, Goto, Becoming, Attempt
  <2>3. AttemptFits(n)
    BY <1>0, <1>3, <2>2 DEF AttemptFits, Healthy, At, Attempt
  <2>4. GoesOn(c)
    BY <2>2, <2>3 DEF GoesOn
  <2>5. QED
    BY <1>0, <1>3, <2>4, GoesOnType DEF Healthy, Unlocked, files
<1>4. CASE Unhealthy(c)
  BY <1>0, <1>4, FailedType, GoesOnType DEF Unhealthy, At, files
<1>5. CASE CheckRunning(c)
  <2>1. k.stage = "first"
    BY <1>0, <1>5 DEF CheckRunning, At, AttemptFits, Attempt
  <2>2. PICK n \in Attempt :
          /\ n = [k EXCEPT !.at = "dial", !.stage = "fast"] \/ n = [k EXCEPT !.at = "lock"]
          /\ Becoming(c, n)
    <3>1. CASE Alive(pidFile)
      BY <1>0, <1>5, <3>1 DEF CheckRunning, Becoming, Attempt
    <3>2. CASE ~Alive(pidFile)
      BY <1>0, <1>5, <3>2 DEF CheckRunning, Becoming, Attempt
    <3>3. QED
      BY <3>1, <3>2
  <2>3. \/ n.at = "dial" /\ n.stage = "fast"
        \/ n.at = "lock" /\ n.stage = "first"
    BY <1>0, <2>1, <2>2 DEF Attempt
  <2>4. GoesOn(c)
    BY <2>2, <2>3 DEF GoesOn, AttemptFits
  <2>5. QED
    BY <1>0, <1>5, <2>4, GoesOnType DEF CheckRunning, files
<1>6. CASE Lock(c)
  <2>1. PICK n \in Attempt : n = [k EXCEPT !.at = "dial", !.stage = "locked"]
    BY <1>0 DEF Attempt
  <2>2. n.at = "dial" /\ n.stage = "locked" /\ Becoming(c, n)
    BY <1>0, <1>6, <2>1 DEF Lock, Becoming, Attempt
  <2>3. GoesOn(c)
    BY <2>2 DEF GoesOn, AttemptFits
  <2>4. QED
    BY <1>0, <1>6, <2>3, GoesOnType DEF Lock, files
<1>7. CASE CleanSocket(c) \/ CleanPid(c)
  <2>1. k.stage = "locked"
    BY <1>0, <1>7 DEF CleanSocket, CleanPid, At, AttemptFits, Attempt
  <2>2. PICK at \in {"clean pid", "start"} : command' = [command EXCEPT ![c].at = at]
    BY <1>7 DEF CleanSocket, CleanPid, Goto
  <2>3. PICK n \in Attempt : n = [k EXCEPT !.at = at]
    BY <1>0 DEF Attempt
  <2>4. n.at = at /\ n.stage = "locked" /\ Becoming(c, n)
    BY <1>0, <2>1, <2>2, <2>3 DEF Becoming, Attempt
  <2>5. GoesOn(c)
    BY <2>4 DEF GoesOn, AttemptFits
  <2>6. QED
    BY <1>0, <1>7, <2>5, GoesOnType DEF CleanSocket, CleanPid
<1>8. CASE StartDaemon(c)
  <2>1. PICK d \in Daemons :
          /\ daemon' = [daemon EXCEPT ![d] = "check pid"]
          /\ command' = [command EXCEPT ![c].at = "dial", ![c].stage = "wait", ![c].mine = d]
    BY <1>8 DEF StartDaemon
  <2>2. PICK n \in Attempt : n = [k EXCEPT !.at = "dial", !.stage = "wait", !.mine = d]
    BY <1>0 DEF Attempt
  <2>3. n.at = "dial" /\ n.stage = "wait" /\ Becoming(c, n)
    BY <1>0, <2>1, <2>2 DEF Becoming, Attempt
  <2>4. GoesOn(c)
    BY <2>3 DEF GoesOn, AttemptFits
  <2>5. daemon' \in [Daemons -> DaemonLabels]
    BY <1>0, <2>1 DEF DaemonLabels
  <2>6. QED
    BY <1>0, <1>8, <2>4, <2>5, GoesOnType DEF StartDaemon, files
<1>9. CASE StartFails(c) \/ GiveUp(c) \/ Embedded(c) \/ NotEmbedded(c) \/ Crash(c)
  BY <1>9, LeaveType DEF StartFails, GiveUp, Embedded, NotEmbedded, Crash, Leave
<1>10. QED
  BY <1>1, <1>2, <1>3, <1>4, <1>5, <1>6, <1>7, <1>8, <1>9 DEF Step

\* Every step of a daemon keeps every type.
LEMMA DaemonTypes ==
  ASSUME TypeInv, NEW d \in Daemons, Run(d) \/ LoadFails(d) \/ Kill(d)
  PROVE  TypeInv'
<1>1. PICK label \in DaemonLabels : Becomes(d, label)
  BY DEF Run, LoadFails, Kill, CheckPid, Loaded, WritePid, Bind, Chmod, Stop, RemovePid,
     RemoveSocket, DaemonLabels
<1>2. /\ socket' \in {socket, None, d} /\ pidFile' \in {pidFile, None, d}
      /\ UNCHANGED <<lock, command, requests>>
      /\ trouble' = trouble \/ Trouble
  BY DEF Run, LoadFails, Kill, CheckPid, Loaded, WritePid, Bind, Chmod, Stop, RemovePid,
     RemoveSocket, files
<1>3. TypeOK'
  BY <1>1, <1>2, DaemonType DEF TypeInv, Becomes
<1>4. QED
  BY <1>2, <1>3 DEF TypeInv

\* Every variable keeps its type, and every command is where its attempt has
\* led it, also when timeouts are too short and daemons displace each other.
THEOREM TypeCorrect == Spec => []TypeOK
<1>1. Init => TypeInv
  BY InvariantInit DEF IInv, LockInv, TypeInv
<1>2. TypeInv /\ [Next]_vars => TypeInv'
  <2> SUFFICES ASSUME TypeInv, [Next]_vars PROVE TypeInv'
    OBVIOUS
  <2>1. CASE UNCHANGED vars
    BY <2>1 DEF vars, TypeInv, TypeOK
  <2>2. QED
    BY <2>1, CommandTypes, DaemonTypes DEF Next
<1>3. TypeInv => TypeOK
  BY DEF TypeInv
<1>4. QED
  BY <1>1, <1>2, <1>3, PTL DEF Spec
=============================================================================
