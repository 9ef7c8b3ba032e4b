---------------------------- MODULE EmbedDaemon ----------------------------
(***************************************************************************)
(* The embedding daemon (ca-embed, Rust) and the commands (`ca`, Go) that  *)
(* find it, start it and ask it for vectors.  They share three files: the  *)
(* socket, the PID file and a lock file (flock).  A command that gets no   *)
(* vectors falls back to keyword search.                                   *)
(*                                                                         *)
(* Time is left open: a timeout may fire whenever it could.  With Slow     *)
(* FALSE every health check, exit and start of a daemon is faster than the *)
(* timeout that waits for it, and a command does not die while it waits    *)
(* for a daemon that it started.                                           *)
(***************************************************************************)
EXTENDS Integers

CONSTANTS Commands,     \* `ca` processes
          NoCommand,    \* nobody holds the lock
          Slow,         \* timeouts may be too short
          MaxDaemons,   \* bound: daemons ever started
          MaxRequests   \* bound: times a command asks for vectors

ASSUME EmbedDaemonAssumption ==
  /\ NoCommand \notin Commands
  /\ Slow \in BOOLEAN
  /\ MaxDaemons \in Nat /\ MaxRequests \in 0..MaxDaemons  \* no start lacks a number

Daemons == 1..MaxDaemons

None == 0  \* no daemon, no file

VARIABLES
  socket,    \* the daemon that bound the file at the socket path
  pidFile,   \* the daemon that the PID file names
  lock,      \* who holds the flock
  daemon,    \* what each daemon does next
  command,   \* where each command is
  requests,  \* requests so far (MaxRequests bounds it)
  trouble    \* history: a daemon failed or was stopped while the command ran

vars == <<socket, pidFile, lock, daemon, command, requests, trouble>>

files == <<socket, pidFile>>

Idle == [at |-> "idle", stage |-> "none", conn |-> None, mine |-> None]

Running(d) == daemon[d] \notin {"none", "gone"}

\* A daemon that died stays a zombie until the command that started it ends.
Alive(d) ==
  /\ d # None
  /\ \/ Running(d)
     \/ daemon[d] = "gone" /\ \E c \in Commands : command[c].mine = d

\* The kernel accepts connections for a daemon from bind to its last breath.
Listening(d) == d # None /\ daemon[d] \in {"chmod", "serve", "remove pid", "remove socket"}
-----------------------------------------------------------------------------
(* Commands. *)

At(c, label) == command[c].at = label

Goto(c, label) == command' = [command EXCEPT ![c].at = label]

Unlocked(c) == IF lock = c THEN NoCommand ELSE lock

\* MUTANT of Leave: the error path keeps the lock.
LeaveLocked(c) ==
  /\ command' = [command EXCEPT ![c] = Idle]
  /\ trouble' = [trouble EXCEPT ![c] = FALSE]
  /\ UNCHANGED lock

Leave(c) ==
  /\ command' = [command EXCEPT ![c] = Idle]
  /\ trouble' = [trouble EXCEPT ![c] = FALSE]
  /\ lock' = Unlocked(c)

\* Where a command goes when tryConnect fails: getOrStartEmbedder tries first,
\* then EnsureDaemon when the PID file names a live process, then under the
\* lock, then every 50 ms after a start.
Failed(c) ==
  LET next == CASE command[c].stage = "first"  -> "check"
                [] command[c].stage = "fast"   -> "lock"
                [] command[c].stage = "locked" -> "clean socket"
                [] command[c].stage = "wait"   -> "dial"
  IN  command' = [command EXCEPT ![c].at = next, ![c].conn = None]

Request(c) ==
  /\ At(c, "idle")
  /\ requests < MaxRequests
  /\ requests' = requests + 1
  /\ command' = [command EXCEPT ![c].at = "dial", ![c].stage = "first"]
  /\ UNCHANGED <<files, lock, daemon, trouble>>

Dial(c) ==
  /\ At(c, "dial")
  /\ IF Listening(socket)
     THEN command' = [command EXCEPT ![c].at = "health", ![c].conn = socket]
     ELSE Failed(c)
  /\ UNCHANGED <<files, lock, daemon, requests, trouble>>

\* The accept loop takes the connection, a thread answers the health check,
\* and the command has its client; leaving ensureDaemonLocked releases the lock.
Healthy(c) ==
  /\ At(c, "health")
  /\ daemon[command[c].conn] = "serve"
  /\ Goto(c, "embed")
  /\ lock' = Unlocked(c)
  /\ UNCHANGED <<files, daemon, requests, trouble>>

\* No answer within 500 ms, or the connection is broken.
Unhealthy(c) ==
  /\ At(c, "health")
  /\ Slow \/ daemon[command[c].conn] = "gone"
  /\ Failed(c)
  /\ UNCHANGED <<files, lock, daemon, requests, trouble>>

\* IsDaemonRunning: a PID file that names a live process.
CheckRunning(c) ==
  /\ At(c, "check")
  /\ command' = IF Alive(pidFile)
                THEN [command EXCEPT ![c].at = "dial", ![c].stage = "fast"]
                ELSE [command EXCEPT ![c].at = "lock"]
  /\ UNCHANGED <<files, lock, daemon, requests, trouble>>

\* MUTANT of Lock: the lock is a shared one.
LockShared(c) ==
  /\ At(c, "lock")
  /\ lock' = c
  /\ command' = [command EXCEPT ![c].at = "dial", ![c].stage = "locked"]
  /\ UNCHANGED <<files, daemon, requests, trouble>>

\* MUTANT of Lock: the daemon is not looked for again under the lock.
LockUnchecked(c) ==
  /\ At(c, "lock")
  /\ lock = NoCommand
  /\ lock' = c
  /\ command' = [command EXCEPT ![c].at = "clean socket", ![c].stage = "locked"]
  /\ UNCHANGED <<files, daemon, requests, trouble>>

Lock(c) ==
  /\ At(c, "lock")
  /\ lock = NoCommand
  /\ lock' = c
  /\ command' = [command EXCEPT ![c].at = "dial", ![c].stage = "locked"]
  /\ UNCHANGED <<files, daemon, requests, trouble>>

\* CleanStaleSocket.
CleanSocket(c) ==
  /\ At(c, "clean socket")
  /\ socket' = None
  /\ Goto(c, "clean pid")
  /\ UNCHANGED <<pidFile, lock, daemon, requests, trouble>>

\* MUTANT of CleanPid: the PID file stays.
PidFileKept(c) ==
  /\ At(c, "clean pid")
  /\ Goto(c, "start")
  /\ UNCHANGED <<files, lock, daemon, requests, trouble>>

CleanPid(c) ==
  /\ At(c, "clean pid")
  /\ pidFile' = None
  /\ Goto(c, "start")
  /\ UNCHANGED <<socket, lock, daemon, requests, trouble>>

StartDaemon(c) ==
  /\ At(c, "start")
  /\ \E d \in Daemons :
       /\ daemon[d] = "none"
       /\ \A e \in Daemons : e < d => daemon[e] # "none"
       /\ daemon' = [daemon EXCEPT ![d] = "check pid"]
       /\ command' = [command EXCEPT ![c].at = "dial", ![c].stage = "wait", ![c].mine = d]
  /\ UNCHANGED <<files, lock, requests, trouble>>

\* There is no ca-embed binary, or it cannot be executed.
StartFails(c) ==
  /\ At(c, "start")
  /\ Leave(c)
  /\ UNCHANGED <<files, daemon, requests>>

\* waitForReady gives up after 2 s.
GiveUp(c) ==
  /\ At(c, "dial")
  /\ command[c].stage = "wait"
  /\ Slow \/ daemon[command[c].mine] = "gone"
  /\ Leave(c)
  /\ UNCHANGED <<files, daemon, requests>>

Embedded(c) ==
  /\ At(c, "embed")
  /\ daemon[command[c].conn] # "gone"
  /\ Leave(c)
  /\ UNCHANGED <<files, daemon, requests>>

\* No vectors within 500 ms, or the connection is broken.
NotEmbedded(c) ==
  /\ At(c, "embed")
  /\ Slow \/ daemon[command[c].conn] = "gone"
  /\ Leave(c)
  /\ UNCHANGED <<files, daemon, requests>>

\* The command is killed; the kernel releases its lock.  Where no timeout is
\* too short, not while it waits for its daemon: its lock would be released
\* before the daemon is ready, as it is by a timeout of waitForReady.
Crash(c) ==
  /\ ~At(c, "idle")
  /\ Slow \/ command[c].stage # "wait"
  /\ command' = [command EXCEPT ![c] = Idle]
  /\ trouble' = [trouble EXCEPT ![c] = FALSE]
  /\ lock' = Unlocked(c)
  /\ UNCHANGED <<files, daemon, requests>>
-----------------------------------------------------------------------------
(* Daemons: main of ca-embed. *)

Becomes(d, label) == daemon' = [daemon EXCEPT ![d] = label]

Trouble == trouble' = [c \in Commands |-> ~At(c, "idle")]

CheckPid(d) ==
  /\ daemon[d] = "check pid"
  /\ Becomes(d, IF Alive(pidFile) THEN "gone" ELSE "load")
  /\ UNCHANGED <<files, lock, command, requests, trouble>>

\* The model is loaded; whatever is at the socket path is removed.
Loaded(d) ==
  /\ daemon[d] = "load"
  /\ socket' = None
  /\ Becomes(d, "write pid")
  /\ UNCHANGED <<pidFile, lock, command, requests, trouble>>

LoadFails(d) ==
  /\ daemon[d] = "load"
  /\ Becomes(d, "gone")
  /\ Trouble
  /\ UNCHANGED <<files, lock, command, requests>>

\* MUTANT of WritePid: the PID of a child process is written.
WriteChildPid(d) ==
  /\ daemon[d] = "write pid"
  /\ pidFile' = d + 1
  /\ Becomes(d, "bind")
  /\ UNCHANGED <<socket, lock, command, requests, trouble>>

WritePid(d) ==
  /\ daemon[d] = "write pid"
  /\ pidFile' = d
  /\ Becomes(d, "bind")
  /\ UNCHANGED <<socket, lock, command, requests, trouble>>

\* MUTANT of Bind: it waits until the path is free.
BindWhenFree(d) ==
  /\ daemon[d] = "bind"
  /\ socket = None
  /\ socket' = d
  /\ Becomes(d, "chmod")
  /\ UNCHANGED <<pidFile, lock, command, requests, trouble>>

\* bind fails when there is a file at the path; the PID file stays.
Bind(d) ==
  /\ daemon[d] = "bind"
  /\ IF socket = None
     THEN socket' = d /\ Becomes(d, "chmod")
     ELSE Becomes(d, "gone") /\ UNCHANGED socket
  /\ UNCHANGED <<pidFile, lock, command, requests, trouble>>

\* set_permissions fails when the file is gone.
Chmod(d) ==
  /\ daemon[d] = "chmod"
  /\ Becomes(d, IF socket = None THEN "gone" ELSE "serve")
  /\ UNCHANGED <<files, lock, command, requests, trouble>>

\* Idle for 5 minutes, SIGTERM, or a shutdown request.
Stop(d) ==
  /\ daemon[d] = "serve"
  /\ Becomes(d, "remove pid")
  /\ Trouble
  /\ UNCHANGED <<files, lock, command, requests>>

RemovePid(d) ==
  /\ daemon[d] = "remove pid"
  /\ pidFile' = None
  /\ Becomes(d, "remove socket")
  /\ UNCHANGED <<socket, lock, command, requests, trouble>>

RemoveSocket(d) ==
  /\ daemon[d] = "remove socket"
  /\ socket' = None
  /\ Becomes(d, "gone")
  /\ UNCHANGED <<pidFile, lock, command, requests, trouble>>

\* SIGKILL, out of memory: the files stay.
Kill(d) ==
  /\ Running(d)
  /\ Becomes(d, "gone")
  /\ Trouble
  /\ UNCHANGED <<files, lock, command, requests>>
-----------------------------------------------------------------------------
Step(c) ==
  \/ Dial(c) \/ Healthy(c) \/ Unhealthy(c) \/ CheckRunning(c) \/ Lock(c)
  \/ CleanSocket(c) \/ CleanPid(c) \/ StartDaemon(c) \/ StartFails(c)
  \/ Embedded(c) \/ NotEmbedded(c)

Run(d) ==
  \/ CheckPid(d) \/ Loaded(d) \/ WritePid(d) \/ Bind(d) \/ Chmod(d)
  \/ Stop(d) \/ RemovePid(d) \/ RemoveSocket(d)

Init ==
  /\ socket = None
  /\ pidFile = None
  /\ lock = NoCommand
  /\ daemon = [d \in Daemons |-> "none"]
  /\ command = [c \in Commands |-> Idle]
  /\ requests = 0
  /\ trouble = [c \in Commands |-> FALSE]

Next ==
  \/ \E c \in Commands : Request(c) \/ Step(c) \/ GiveUp(c) \/ Crash(c)
  \/ \E d \in Daemons : Run(d) \/ LoadFails(d) \/ Kill(d)

Spec == Init /\ [][Next]_vars

\* A started process goes on.  GiveUp is strongly fair: the deadline of
\* waitForReady is looked at before every attempt, and it does not recede.
\* Stop is fair: without requests the 5 minutes go by.
FairSpec ==
  /\ Spec
  /\ \A c \in Commands : WF_vars(Step(c)) /\ SF_vars(GiveUp(c))
  /\ \A d \in Daemons : WF_vars(Run(d))
-----------------------------------------------------------------------------
(* Properties. *)

Attempt == [at: {"idle", "dial", "health", "check", "lock", "clean socket", "clean pid",
                 "start", "embed"},
            stage: {"none", "first", "fast", "locked", "wait"},
            conn: Daemons \cup {None}, mine: Daemons \cup {None}]

DaemonLabels == {"none", "check pid", "load", "write pid", "bind", "chmod",
                 "serve", "remove pid", "remove socket", "gone"}

\* Every variable has its type.
TypeOK ==
  /\ socket \in Daemons \cup {None} /\ pidFile \in Daemons \cup {None}
  /\ lock \in Commands \cup {NoCommand}
  /\ daemon \in [Daemons -> DaemonLabels]
  /\ command \in [Commands -> Attempt]
  /\ requests \in 0..MaxRequests
  /\ trouble \in [Commands -> BOOLEAN]

\* The flock keeps commands from starting daemons at the same time.  It does
\* so as long as a daemon is ready before the command gives up.
OneDaemon == \A d, e \in Daemons : Running(d) /\ Running(e) => d = e

\* CleanStaleSocket removes only the socket of a daemon that is gone.
OnlyStaleSocketsAreCleaned ==
  [][\A c \in Commands :
       At(c, "clean socket") /\ command'[c].at = "clean pid" => ~Listening(socket)]_vars

\* Files that dead daemons left never keep a command from its vectors: it
\* falls back to keywords only when a daemon failed or was stopped in the
\* meantime, never because two of them were in each other's way.
LeftoversDoNotMatter ==
  [][\A c \in Commands : GiveUp(c) \/ NotEmbedded(c) => trouble[c]]_vars

\* A request ends, whatever dies around it: nobody waits for ever for the
\* lock, for a dead daemon or for one that another daemon displaced.
EveryRequestEnds == \A c \in Commands : ~At(c, "idle") ~> At(c, "idle")

\* No daemon stays for ever, not even one whose socket path was taken over
\* so that no command can reach it.
EveryDaemonEnds == \A d \in Daemons : daemon[d] = "check pid" ~> daemon[d] = "gone"
-----------------------------------------------------------------------------
(* The inductive invariant behind OneDaemon, when no timeout is too short. *)

\* A command in the locked part of EnsureDaemon, from the lock to the client.
Holding(k) == k.stage \in {"locked", "wait"} /\ k.at # "embed"

\* Where a command can be in each attempt.
AttemptFits(k) ==
  /\ k.stage = "none" => k.at = "idle"
  /\ k.stage = "first" => k.at \in {"dial", "health", "check", "lock", "embed"}
  /\ k.stage = "fast" => k.at \in {"dial", "health", "lock", "embed"}
  /\ k.stage = "locked" => k.at \in {"dial", "health", "clean socket", "clean pid", "start", "embed"}
  /\ k.stage = "wait" => k.at \in {"dial", "health", "embed"}
  /\ k.at \in {"health", "embed"} => k.conn \in Daemons

LockInv == \A c \in Commands : AttemptFits(command[c]) /\ (lock = c <=> Holding(command[c]))

Starting(d) == daemon[d] \in {"check pid", "load", "write pid", "bind", "chmod"}

\* k is the attempt that has started d and waits for it under the lock.
WaitsFor(k, d) == Holding(k) /\ k.stage = "wait" /\ k.mine = d

\* A daemon that is not ready yet is waited for.
StartingInv ==
  \A d \in Daemons : Starting(d) => \E c \in Commands : WaitsFor(command[c], d)

\* A daemon that has bound the socket still has it.
SocketInv == \A d \in Daemons : Listening(d) => socket = d

\* While d runs nobody cleans up or starts, and who asks under the lock, asks d.
Alone(k, d) ==
  /\ k.at \notin {"clean socket", "clean pid", "start"}
  /\ k.stage = "locked" /\ k.at = "health" => k.conn = d

AloneInv == \A c \in Commands : \A d \in Daemons : Running(d) => Alone(command[c], d)

IInv ==
  /\ TypeOK
  /\ LockInv
  /\ StartingInv
  /\ SocketInv
  /\ AloneInv
  /\ OneDaemon

(* What LeftoversDoNotMatter rests on besides. *)

\* No file is in the way of d, which is about to serve, or serves.
Unhindered(d) ==
  /\ d \in Daemons
  /\ Starting(d) \/ daemon[d] = "serve"
  /\ daemon[d] = "check pid" => pidFile = None
  /\ daemon[d] \in {"write pid", "bind"} => socket = None

\* Unless something died while c ran: the files are cleaned before it starts a
\* daemon, the one it has started is unhindered, the one it found serves.
Fares(c) ==
  LET k == command[c] IN
    /\ k.at = "start" => pidFile = None
    /\ k.at = "embed" => daemon[k.conn] = "serve" \/ trouble[c]
    /\ k.stage = "wait" => Unhindered(k.mine) \/ trouble[c]

TroubleInv == \A c \in Commands : Fares(c)
=============================================================================
