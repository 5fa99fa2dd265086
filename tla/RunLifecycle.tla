---------------------------- MODULE RunLifecycle ----------------------------
(***************************************************************************)
(* The control plane's engine manager: the HTTP handlers that start and    *)
(* stop runs, the goroutine that monitors each worker process, the rows    *)
(* of the runs table, the worker processes, and the life of the server     *)
(* itself: start-up, crash, and the shutdown on SIGTERM.                   *)
(*                                                                         *)
(* Three kinds of state meet here.  The store (taskState .. runPurged)     *)
(* survives a crash of the server.  So do the processes and files of the   *)
(* operating system (worker, sig, files): a worker has a process group of  *)
(* its own and is not killed with the server.  Everything else is memory   *)
(* of the server and is lost with it.                                      *)
(*                                                                         *)
(* SQLite is opened with one connection, so a statement or transaction of  *)
(* the store is one step.  A handler is split where another goroutine can  *)
(* run between two of its steps with an effect that tells them apart.      *)
(***************************************************************************)
EXTENDS Integers, FiniteSets

CONSTANTS
  Tasks,
  Runs,               \* run identifiers, each used by one Start request
  TaskOf,             \* the task a Start request names
  ScanRuns,           \* runs whose task snapshot has mode scan
  MaxConcurrentRuns,  \* REDISSHAKE_MAX_CONCURRENT_RUNS
  MaxRevision,        \* bound: revisions of a task
  MaxServerStarts,    \* bound: times the server is started
  MaxStreams,         \* bound: event streams open at a time
  MaxErrors           \* bound: failing writes to the store or to process.json

ASSUME LifecycleAssumption ==
  /\ IsFiniteSet(Runs)
  /\ TaskOf \in [Runs -> Tasks]
  /\ ScanRuns \subseteq Runs
  /\ MaxConcurrentRuns \in Nat \ {0}
  /\ MaxRevision \in Nat \ {0}
  /\ MaxServerStarts \in Nat \ {0}
  /\ MaxStreams \in Nat
  /\ MaxErrors \in Nat

VARIABLES
  \* the store
  taskState, taskRev,
  runState,        \* runs.state, "NONE" when there is no row
  runStop,         \* runs.stop_requested_by_user
  runPurged,       \* runs.artifacts_deleted_at is set
  \* the operating system
  worker,          \* "none", "alive", or how it exited: "zero", "failed"
  sig,             \* the strongest signal a live worker was sent
  files,           \* the run directory: "none", "present", "removed"
  \* the server's memory
  start,           \* where the Start handler of a run is
  startRev,        \* the revision that handler read
  managed,         \* keys of m.processes
  expectedStop, startupFailure,  \* fields of managedProcess
  watch,           \* where the monitor goroutine (or handleExit) is
  stopPc,          \* where the Stop / ForceStop handler of a run is
  streams,         \* runs with an open /events response
  todo, cur,       \* Shutdown: processes to visit, the one being visited
  \* the server process
  server, lastExit, serverStarts, errors

store  == <<taskState, taskRev, runState, runStop, runPurged>>
os     == <<worker, sig, files>>
memory == <<start, startRev, managed, expectedStop, startupFailure, watch,
            stopPc, streams, todo, cur>>
life   == <<server, lastExit, serverStarts, errors>>
vars   == <<store, os, memory, life>>

Owned    == {"STARTING", "RUNNING", "STOPPING"}
Active   == Owned \cup {"UNKNOWN"}
Terminal == {"STOPPED", "SUCCEEDED", "FAILED"}
Signals  == {"SIGTERM", "SIGKILL"}
Exited   == {"zero", "failed"}

ActiveRuns == {r \in Runs : runState[r] \in Active}
Live       == {r \in Runs : worker[r] = "alive"}

(* Server memory when the process starts. *)
NoMemory ==
  /\ start = [r \in Runs |-> "idle"]
  /\ startRev = [r \in Runs |-> 0]
  /\ managed = {}
  /\ expectedStop = [r \in Runs |-> FALSE]
  /\ startupFailure = [r \in Runs |-> FALSE]
  /\ watch = [r \in Runs |-> "off"]
  /\ stopPc = [r \in Runs |-> [k \in Signals |-> "idle"]]
  /\ streams = {}
  /\ todo = {}
  /\ cur = {}

Init ==
  /\ taskState = [t \in Tasks |-> "DRAFT"]
  /\ taskRev = [t \in Tasks |-> 1]
  /\ runState = [r \in Runs |-> "NONE"]
  /\ runStop = [r \in Runs |-> FALSE]
  /\ runPurged = [r \in Runs |-> FALSE]
  /\ worker = [r \in Runs |-> "none"]
  /\ sig = [r \in Runs |-> "none"]
  /\ files = [r \in Runs |-> "none"]
  /\ NoMemory
  /\ server = "down"
  /\ lastExit = "none"
  /\ serverStarts = 0
  /\ errors = 0

(* One of the bounded number of I/O errors happens. *)
Error == errors < MaxErrors /\ errors' = errors + 1

-----------------------------------------------------------------------------
(* Statements of the store. *)

(* Fault: the check for an active run of the task leaves out UNKNOWN. *)
MayCreateRunIgnoringUnknown(r) ==
  /\ taskState[TaskOf[r]] = "READY" /\ taskRev[TaskOf[r]] = startRev[r]
  /\ \A q \in ActiveRuns : runState[q] # "UNKNOWN" => TaskOf[q] # TaskOf[r]
  /\ Cardinality(ActiveRuns) < MaxConcurrentRuns

(* Fault: the transaction relies on what Start read before. *)
MayCreateRunUnchecked(r) ==
  /\ \A q \in ActiveRuns : TaskOf[q] # TaskOf[r]
  /\ Cardinality(ActiveRuns) < MaxConcurrentRuns

(* What CreateRunIfNoActive checks before it inserts, in one transaction. *)
MayCreateRun(r) ==
  /\ taskState[TaskOf[r]] = "READY" /\ taskRev[TaskOf[r]] = startRev[r]
  /\ \A q \in ActiveRuns : TaskOf[q] # TaskOf[r]
  /\ Cardinality(ActiveRuns) < MaxConcurrentRuns

RequestRunStop(r) ==
  IF runState[r] \in {"STARTING", "RUNNING"}
    THEN /\ runState' = [runState EXCEPT ![r] = "STOPPING"]
         /\ runStop' = [runStop EXCEPT ![r] = TRUE]
    ELSE UNCHANGED <<runState, runStop>>

FinalizeRun(r, final) ==
  IF runState[r] \in Active
    THEN runState' = [runState EXCEPT ![r] = final]
    ELSE UNCHANGED runState

MarkActiveRunsUnknown ==
  runState' = [r \in Runs |-> IF runState[r] \in Owned THEN "UNKNOWN" ELSE runState[r]]

-----------------------------------------------------------------------------
(* Tasks, as far as runs depend on them. *)

(* UpdateTask: an edit makes a new revision, back in DRAFT. *)
UpdateTask(t) ==
  /\ server = "up"
  /\ taskState[t] # "ARCHIVED" /\ taskRev[t] < MaxRevision
  /\ taskState' = [taskState EXCEPT ![t] = "DRAFT"]
  /\ taskRev' = [taskRev EXCEPT ![t] = @ + 1]
  /\ UNCHANGED <<runState, runStop, runPurged, os, memory, life>>

MarkTaskReady(t) ==
  /\ server = "up"
  /\ taskState[t] = "DRAFT"
  /\ taskState' = [taskState EXCEPT ![t] = "READY"]
  /\ UNCHANGED <<taskRev, runState, runStop, runPurged, os, memory, life>>

(* A precheck that fails takes the task back to DRAFT. *)
SaveTaskPrecheckResult(t) ==
  /\ server = "up"
  /\ taskState[t] = "READY"
  /\ taskState' = [taskState EXCEPT ![t] = "DRAFT"]
  /\ UNCHANGED <<taskRev, runState, runStop, runPurged, os, memory, life>>

ArchiveTask(t) ==
  /\ server = "up"
  /\ taskState[t] # "ARCHIVED"
  /\ \A r \in ActiveRuns : TaskOf[r] # t
  /\ taskState' = [taskState EXCEPT ![t] = "ARCHIVED"]
  /\ UNCHANGED <<taskRev, runState, runStop, runPurged, os, memory, life>>

-----------------------------------------------------------------------------
(* Start. *)

(* The handler has read a READY task at the revision the request expects. *)
StartRead(r) ==
  /\ server = "up"
  /\ start[r] = "idle" /\ runState[r] = "NONE"
  /\ taskState[TaskOf[r]] = "READY"
  /\ start' = [start EXCEPT ![r] = "read"]
  /\ startRev' = [startRev EXCEPT ![r] = taskRev[TaskOf[r]]]
  /\ UNCHANGED <<store, os, managed, expectedStop, startupFailure, watch,
                 stopPc, streams, todo, cur, life>>

(* A connection cannot be resolved, no port, rendering fails, or the transaction refuses. *)
StartRefused(r) ==
  /\ start[r] = "read"
  /\ start' = [start EXCEPT ![r] = "idle"]
  /\ startRev' = [startRev EXCEPT ![r] = 0]
  /\ UNCHANGED <<store, os, managed, expectedStop, startupFailure, watch,
                 stopPc, streams, todo, cur, life>>

CreateRunIfNoActive(r) ==
  /\ start[r] = "read"
  /\ MayCreateRun(r)
  /\ runState' = [runState EXCEPT ![r] = "STARTING"]
  /\ start' = [start EXCEPT ![r] = "created"]
  /\ startRev' = [startRev EXCEPT ![r] = 0]
  /\ UNCHANGED <<taskState, taskRev, runStop, runPurged, os, managed,
                 expectedStop, startupFailure, watch, stopPc,
                 streams, todo, cur, life>>

(* materializeArtifact, the log file or exec fails; the store's error is ignored. *)
StartFails(r) ==
  /\ start[r] = "created"
  /\ start' = [start EXCEPT ![r] = "idle"]
  /\ \E f \in {"none", "present"} : files' = [files EXCEPT ![r] = f]
  /\ \/ FinalizeRun(r, "FAILED") /\ UNCHANGED errors
     \/ Error /\ UNCHANGED runState
  /\ UNCHANGED <<taskState, taskRev, runStop, runPurged, worker, sig, startRev, managed,
                 expectedStop, startupFailure, watch, stopPc, streams,
                 todo, cur, server, lastExit, serverStarts>>

SpawnWorker(r) ==
  /\ start[r] = "created"
  /\ files' = [files EXCEPT ![r] = "present"]
  /\ worker' = [worker EXCEPT ![r] = "alive"]
  /\ start' = [start EXCEPT ![r] = "spawned"]
  /\ UNCHANGED <<store, sig, startRev, managed, expectedStop, startupFailure, watch,
                 stopPc, streams, todo, cur, life>>

RegisterProcess(r) ==
  /\ start[r] = "spawned"
  /\ managed' = managed \cup {r}
  /\ start' = [start EXCEPT ![r] = "registered"]
  /\ UNCHANGED <<store, os, startRev, expectedStop, startupFailure, watch,
                 stopPc, streams, todo, cur, life>>

(* UpdateRunStarted and writeProcessMetadata both succeed. *)
PersistStarted(r) ==
  /\ start[r] = "registered"
  /\ runState[r] = "STARTING"
  /\ start' = [start EXCEPT ![r] = "waiting"]
  /\ UNCHANGED <<store, os, startRev, managed, expectedStop, startupFailure, watch,
                 stopPc, streams, todo, cur, life>>

(* Deliver a signal to the process group; nothing happens when it is gone. *)
Signal(r, k) ==
  sig' = IF worker[r] = "alive" /\ sig[r] # "SIGKILL"
           THEN [sig EXCEPT ![r] = k] ELSE sig

(* Fault: the process is left without a monitor. *)
AbandonStartUnwatched(r, k) ==
  /\ startupFailure' = [startupFailure EXCEPT ![r] = TRUE]
  /\ Signal(r, k)
  /\ start' = [start EXCEPT ![r] = "idle"]
  /\ UNCHANGED <<store, worker, files, startRev, managed, expectedStop, watch,
                 stopPc, streams, todo, cur, server, lastExit, serverStarts>>

(* Fault: the process leaves the map before it has exited. *)
AbandonStartUnmanaged(r, k) ==
  /\ startupFailure' = [startupFailure EXCEPT ![r] = TRUE]
  /\ Signal(r, k)
  /\ watch' = [watch EXCEPT ![r] = "monitor"]
  /\ start' = [start EXCEPT ![r] = "idle"]
  /\ managed' = managed \ {r}
  /\ UNCHANGED <<store, worker, files, startRev, expectedStop,
                 stopPc, streams, todo, cur, server, lastExit, serverStarts>>

(* The handler gives up on the worker and leaves it to a monitor. *)
AbandonStart(r, k) ==
  /\ startupFailure' = [startupFailure EXCEPT ![r] = TRUE]
  /\ Signal(r, k)
  /\ watch' = [watch EXCEPT ![r] = "monitor"]
  /\ start' = [start EXCEPT ![r] = "idle"]
  /\ UNCHANGED <<store, worker, files, startRev, managed, expectedStop,
                 stopPc, streams, todo, cur, server, lastExit, serverStarts>>

(* UpdateRunStarted no longer finds STARTING, or one of the two writes fails. *)
PersistFails(r) ==
  /\ start[r] = "registered"
  /\ \/ runState[r] # "STARTING" /\ UNCHANGED errors
     \/ Error
  /\ AbandonStart(r, "SIGKILL")

(* waitUntilStarted: the timer fires or the request is cancelled. *)
StartGivenUp(r) ==
  /\ start[r] = "waiting"
  /\ AbandonStart(r, "SIGTERM")
  /\ UNCHANGED errors

(* waitUntilStarted: fetchStatus succeeds ... *)
StatusReady(r) ==
  /\ start[r] = "waiting"
  /\ worker[r] = "alive"
  /\ start' = [start EXCEPT ![r] = "answered"]
  /\ UNCHANGED <<store, os, startRev, managed, expectedStop, startupFailure, watch,
                 stopPc, streams, todo, cur, life>>

(* ... and the row is marked, if it is still STARTING; a monitor takes over either way. *)
MarkRunRunning(r) ==
  /\ start[r] = "answered"
  /\ \/ /\ runState[r] = "STARTING"
        /\ runState' = [runState EXCEPT ![r] = "RUNNING"]
        /\ UNCHANGED errors
     \/ /\ \/ runState[r] # "STARTING" /\ UNCHANGED errors
           \/ Error
        /\ UNCHANGED runState
  /\ watch' = [watch EXCEPT ![r] = "monitor"]
  /\ start' = [start EXCEPT ![r] = "idle"]
  /\ UNCHANGED <<taskState, taskRev, runStop, runPurged, os, startRev, managed,
                 expectedStop, startupFailure, stopPc, streams, todo, cur,
                 server, lastExit, serverStarts>>

-----------------------------------------------------------------------------
(* The worker, its monitor and handleExit. *)

(* A worker may exit at any moment; a killed one does not exit with status 0. *)
WorkerExits(r) ==
  /\ worker[r] = "alive"
  /\ \E how \in Exited :
       /\ how = "zero" => sig[r] # "SIGKILL"
       /\ worker' = [worker EXCEPT ![r] = how]
  /\ sig' = [sig EXCEPT ![r] = "none"]
  /\ UNCHANGED <<store, files, memory, life>>

(* Fault: the exit status of a scan is not looked at. *)
OutcomeAnyExit(r, stopped) ==
  IF startupFailure[r] THEN "FAILED"
  ELSE IF stopped THEN "STOPPED"
  ELSE IF r \in ScanRuns THEN "SUCCEEDED" ELSE "FAILED"

(* The final state handleExit decides on. *)
Outcome(r, stopped) ==
  IF startupFailure[r] THEN "FAILED"
  ELSE IF stopped THEN "STOPPED"
  ELSE IF r \in ScanRuns /\ worker[r] = "zero" THEN "SUCCEEDED"
  ELSE "FAILED"

(* handleExit, run by the monitor or by a Start still waiting: GetRun and the decision. *)
ExitDecided(r) ==
  /\ r \in managed
  /\ worker[r] \in Exited
  /\ \/ watch[r] = "monitor" /\ UNCHANGED start
     \/ start[r] = "waiting" /\ start' = [start EXCEPT ![r] = "exiting"]
  /\ \/ /\ watch' = [watch EXCEPT ![r] = Outcome(r, expectedStop[r] \/ runStop[r])]
        /\ UNCHANGED errors
     \/ /\ watch' = [watch EXCEPT ![r] = Outcome(r, expectedStop[r])]
        /\ Error
  /\ UNCHANGED <<store, os, startRev, managed, expectedStop, startupFailure,
                 stopPc, streams, todo, cur, server, lastExit, serverStarts>>

(* handleExit: FinalizeRun, whose error is ignored. *)
ExitStored(r) ==
  /\ watch[r] \in Terminal
  /\ \/ FinalizeRun(r, watch[r]) /\ UNCHANGED errors
     \/ Error /\ UNCHANGED runState
  /\ watch' = [watch EXCEPT ![r] = "delete"]
  /\ UNCHANGED <<taskState, taskRev, runStop, runPurged, os, start, startRev, managed,
                 expectedStop, startupFailure, stopPc, streams, todo, cur,
                 server, lastExit, serverStarts>>

(* handleExit: the process leaves the map; a Start that waited for it returns.    *)
(* The managedProcess is garbage: what a late Stop writes to it is read by nobody. *)
ExitDeleted(r) ==
  /\ watch[r] = "delete"
  /\ managed' = managed \ {r}
  /\ watch' = [watch EXCEPT ![r] = "off"]
  /\ start' = [start EXCEPT ![r] = "idle"]
  /\ expectedStop' = [expectedStop EXCEPT ![r] = FALSE]
  /\ startupFailure' = [startupFailure EXCEPT ![r] = FALSE]
  /\ UNCHANGED <<store, os, startRev, stopPc, streams, todo, cur, life>>

-----------------------------------------------------------------------------
(* Stop (SIGTERM) and ForceStop (SIGKILL). *)

(* managed(id) finds the process; a run that is not managed is refused. *)
StopFound(r, k) ==
  /\ server = "up"
  /\ r \in managed
  /\ stopPc[r][k] = "idle"
  /\ stopPc' = [stopPc EXCEPT ![r][k] = "found"]
  /\ UNCHANGED <<store, os, start, startRev, managed, expectedStop, startupFailure,
                 watch, streams, todo, cur, life>>

StopRequested(r, k) ==
  /\ stopPc[r][k] = "found"
  /\ runState[r] \in Owned
  /\ RequestRunStop(r)
  /\ stopPc' = [stopPc EXCEPT ![r][k] = "requested"]
  /\ UNCHANGED <<taskState, taskRev, runPurged, os, start, startRev, managed,
                 expectedStop, startupFailure, watch, streams, todo, cur, life>>

(* RequestRunStop returns ErrConflict, or the store fails. *)
StopRefused(r, k) ==
  /\ stopPc[r][k] = "found"
  /\ \/ runState[r] \notin Owned /\ UNCHANGED errors
     \/ Error
  /\ stopPc' = [stopPc EXCEPT ![r][k] = "idle"]
  /\ UNCHANGED <<store, os, start, startRev, managed, expectedStop, startupFailure, watch,
                 streams, todo, cur, server, lastExit, serverStarts>>

(* Fault: only the flag is set, the process is not signalled. *)
StopUnsignalled(r, k) ==
  /\ stopPc[r][k] = "requested"
  /\ expectedStop' = [expectedStop EXCEPT ![r] = r \in managed]
  /\ stopPc' = [stopPc EXCEPT ![r][k] = "idle"]
  /\ UNCHANGED <<store, os, start, startRev, managed, startupFailure, watch,
                 streams, todo, cur, life>>

(* setExpectedStop and the signal, whose error only changes the response. *)
StopSignalled(r, k) ==
  /\ stopPc[r][k] = "requested"
  /\ expectedStop' = [expectedStop EXCEPT ![r] = r \in managed]
  /\ Signal(r, k)
  /\ stopPc' = [stopPc EXCEPT ![r][k] = "idle"]
  /\ UNCHANGED <<store, worker, files, start, startRev, managed, startupFailure, watch,
                 streams, todo, cur, life>>

-----------------------------------------------------------------------------
(* handleRunEvents: a response that lasts until the run is over or the client leaves. *)

OpenStream(r) ==
  /\ server = "up"
  /\ r \notin streams /\ runState[r] # "NONE"
  /\ Cardinality(streams) < MaxStreams
  /\ streams' = streams \cup {r}
  /\ UNCHANGED <<store, os, start, startRev, managed, expectedStop, startupFailure, watch,
                 stopPc, todo, cur, life>>

CloseStream(r) ==
  /\ r \in streams
  /\ streams' = streams \ {r}
  /\ UNCHANGED <<store, os, start, startRev, managed, expectedStop, startupFailure, watch,
                 stopPc, todo, cur, life>>

-----------------------------------------------------------------------------
(* The server process. *)

(* The process is gone, and its memory with it. *)
MemoryLost ==
  /\ start' = [r \in Runs |-> "idle"]
  /\ startRev' = [r \in Runs |-> 0]
  /\ managed' = {}
  /\ expectedStop' = [r \in Runs |-> FALSE]
  /\ startupFailure' = [r \in Runs |-> FALSE]
  /\ watch' = [r \in Runs |-> "off"]
  /\ stopPc' = [r \in Runs |-> [k \in Signals |-> "idle"]]
  /\ streams' = {}
  /\ todo' = {}
  /\ cur' = {}

Exit(how) ==
  /\ server' = "down"
  /\ lastExit' = how
  /\ MemoryLost
  /\ UNCHANGED <<store, os, serverStarts, errors>>

(* Manager.Initialize. *)
Initialize ==
  /\ server = "down" /\ serverStarts < MaxServerStarts
  /\ MarkActiveRunsUnknown
  /\ server' = "init"
  /\ serverStarts' = serverStarts + 1
  /\ lastExit' = "none"
  /\ UNCHANGED <<taskState, taskRev, runStop, runPurged, os, memory, errors>>

(* ListExpiredRunArtifacts selects the run; its age is left open. *)
Expired(r) == runState[r] \in Terminal /\ ~runPurged[r]

(* Fault: old directories are removed whatever the state of the run. *)
RemoveAnyArtifacts(r) ==
  /\ server = "init"
  /\ files[r] = "present"
  /\ files' = [files EXCEPT ![r] = "removed"]
  /\ UNCHANGED <<store, worker, sig, memory, life>>

(* cleanupExpiredArtifacts: RemoveAll on a terminal run old enough ... *)
RemoveArtifacts(r) ==
  /\ server = "init"
  /\ Expired(r)
  /\ files[r] = "present"
  /\ files' = [files EXCEPT ![r] = "removed"]
  /\ UNCHANGED <<store, worker, sig, memory, life>>

(* ... then MarkRunArtifactsDeleted, at this start or, after a crash, at the next. *)
MarkRunArtifactsDeleted(r) ==
  /\ server = "init"
  /\ Expired(r)
  /\ files[r] # "present"
  /\ runPurged' = [runPurged EXCEPT ![r] = TRUE]
  /\ UNCHANGED <<taskState, taskRev, runState, runStop, os, memory, life>>

Serve ==
  /\ server = "init"
  /\ server' = "up"
  /\ UNCHANGED <<store, os, memory, lastExit, serverStarts, errors>>

(* SIGTERM: httpServer.Shutdown accepts no request and waits for the handlers. *)
Terminate ==
  /\ server = "up"
  /\ server' = "draining"
  /\ UNCHANGED <<store, os, memory, lastExit, serverStarts, errors>>

InFlight ==
  \/ \E r \in Runs : start[r] # "idle"
  \/ \E r \in Runs, k \in Signals : stopPc[r][k] # "idle"
  \/ streams # {}

(* Fault: the handlers are not waited for. *)
NotDrained ==
  /\ server = "draining"
  /\ server' = "stopping"
  /\ todo' = managed
  /\ UNCHANGED <<store, os, start, startRev, managed, expectedStop, startupFailure, watch,
                 stopPc, streams, cur, lastExit, serverStarts, errors>>

(* The handlers have returned: engineManager.Shutdown takes the processes. *)
Drained ==
  /\ server = "draining" /\ ~InFlight
  /\ server' = "stopping"
  /\ todo' = managed
  /\ UNCHANGED <<store, os, start, startRev, managed, expectedStop, startupFailure, watch,
                 stopPc, streams, cur, lastExit, serverStarts, errors>>

(* The handlers have not returned in 10 s: the server exits. *)
DrainTimeout ==
  /\ server = "draining" /\ InFlight
  /\ Exit("error")

(* Shutdown: RequestRunStop, whose error is ignored ... *)
ShutdownRequested(r) ==
  /\ server = "stopping"
  /\ r \in todo /\ cur = {}
  /\ \/ RequestRunStop(r) /\ UNCHANGED errors
     \/ Error /\ UNCHANGED <<runState, runStop>>
  /\ todo' = todo \ {r}
  /\ cur' = {r}
  /\ UNCHANGED <<taskState, taskRev, runPurged, os, start, startRev, managed,
                 expectedStop, startupFailure, watch, stopPc, streams,
                 server, lastExit, serverStarts>>

(* ... then setExpectedStop and SIGTERM. *)
ShutdownSignalled(r) ==
  /\ r \in cur
  /\ expectedStop' = [expectedStop EXCEPT ![r] = r \in managed]
  /\ Signal(r, "SIGTERM")
  /\ cur' = {}
  /\ UNCHANGED <<store, worker, files, start, startRev, managed, startupFailure, watch,
                 stopPc, streams, todo, life>>

(* managedCount() = 0: every process has left the map. *)
ShutdownDone ==
  /\ server \in {"stopping", "killing"}
  /\ todo = {} /\ cur = {} /\ managed = {}
  /\ Exit("ok")

(* StopTimeout: forceAll. *)
ShutdownForced ==
  /\ server = "stopping"
  /\ todo = {} /\ cur = {} /\ managed # {}
  /\ sig' = [r \in Runs |-> IF r \in managed /\ worker[r] = "alive" THEN "SIGKILL" ELSE sig[r]]
  /\ server' = "killing"
  /\ UNCHANGED <<store, worker, files, memory, lastExit, serverStarts, errors>>

(* Three seconds later the server exits whatever is left. *)
ShutdownGivesUp ==
  /\ server = "killing" /\ managed # {}
  /\ Exit("error")

Crash ==
  /\ server # "down"
  /\ Exit("crash")

-----------------------------------------------------------------------------
StartStep(r) ==
  \/ StartRefused(r) \/ CreateRunIfNoActive(r) \/ StartFails(r)
  \/ SpawnWorker(r) \/ RegisterProcess(r) \/ PersistStarted(r) \/ PersistFails(r)
  \/ StatusReady(r) \/ MarkRunRunning(r) \/ StartGivenUp(r)

ExitStep(r) == ExitDecided(r) \/ ExitStored(r) \/ ExitDeleted(r)

StopStep(r, k) == StopRequested(r, k) \/ StopRefused(r, k) \/ StopSignalled(r, k)

ShutdownStep ==
  \/ Drained \/ DrainTimeout \/ ShutdownDone \/ ShutdownForced \/ ShutdownGivesUp
  \/ \E r \in Runs : ShutdownRequested(r) \/ ShutdownSignalled(r)

Next ==
  \/ \E t \in Tasks : UpdateTask(t) \/ MarkTaskReady(t) \/ SaveTaskPrecheckResult(t) \/ ArchiveTask(t)
  \/ \E r \in Runs :
       \/ StartRead(r) \/ StartStep(r) \/ ExitStep(r)
       \/ WorkerExits(r)
       \/ OpenStream(r) \/ CloseStream(r)
       \/ RemoveArtifacts(r) \/ MarkRunArtifactsDeleted(r)
       \/ \E k \in Signals : StopFound(r, k) \/ StopStep(r, k)
  \/ Initialize \/ Serve \/ Terminate \/ ShutdownStep \/ Crash

Spec == Init /\ [][Next]_vars

(* Fairness: goroutines and timers of the server run while it does, and the       *)
(* kernel ends a process that was sent SIGKILL.  SIGTERM only asks: the worker    *)
(* cancels its context and may take for ever.  Users, crashes and restarts owe    *)
(* nothing, and an event stream may stay open.                                    *)
Fairness ==
  /\ \A r \in Runs :
       /\ WF_vars(StartStep(r))
       /\ WF_vars(ExitStep(r))
       /\ WF_vars(sig[r] = "SIGKILL" /\ WorkerExits(r))
       /\ \A k \in Signals : WF_vars(StopStep(r, k))
  /\ WF_vars(ShutdownStep)

FairSpec == Spec /\ Fairness

-----------------------------------------------------------------------------
StartPcs == {"idle", "read", "created", "spawned", "registered", "waiting", "answered", "exiting"}

(* Every variable stays within its type. *)
TypeOK ==
  /\ taskState \in [Tasks -> {"DRAFT", "READY", "ARCHIVED"}]
  /\ taskRev \in [Tasks -> 1..MaxRevision]
  /\ runState \in [Runs -> {"NONE"} \cup Active \cup Terminal]
  /\ runStop \in [Runs -> BOOLEAN]
  /\ runPurged \in [Runs -> BOOLEAN]
  /\ worker \in [Runs -> {"none", "alive"} \cup Exited]
  /\ sig \in [Runs -> {"none"} \cup Signals]
  /\ files \in [Runs -> {"none", "present", "removed"}]
  /\ start \in [Runs -> StartPcs]
  /\ startRev \in [Runs -> 0..MaxRevision]
  /\ managed \subseteq Runs
  /\ expectedStop \in [Runs -> BOOLEAN]
  /\ startupFailure \in [Runs -> BOOLEAN]
  /\ watch \in [Runs -> {"off", "monitor", "delete"} \cup Terminal]
  /\ stopPc \in [Runs -> [Signals -> {"idle", "found", "requested"}]]
  /\ streams \subseteq Runs
  /\ todo \subseteq Runs
  /\ cur \subseteq Runs
  /\ server \in {"down", "init", "up", "draining", "stopping", "killing"}
  /\ lastExit \in {"none", "ok", "error", "crash"}
  /\ serverStarts \in 0..MaxServerStarts
  /\ errors \in 0..MaxErrors

(***************************************************************************)
(* Two workers of one task never run at the same time, whatever handlers   *)
(* race, whichever store write fails, and although workers outlive the     *)
(* server that started them (Start, handleExit, Initialize).               *)
(***************************************************************************)
NoDuplicateWorker ==
  \A r, q \in Live : r # q => TaskOf[r] # TaskOf[q]

(***************************************************************************)
(* No more than MaxConcurrentRuns workers run on the host, those a crashed *)
(* server left behind included: a live worker always has an active row,    *)
(* and CreateRunIfNoActive bounds the active rows.                         *)
(***************************************************************************)
ConcurrencyLimit ==
  /\ Live \subseteq ActiveRuns
  /\ Cardinality(ActiveRuns) <= MaxConcurrentRuns

(***************************************************************************)
(* An archived task has no worker and no active run: ArchiveTask cannot    *)
(* slip between the moment Start reads the task and the insert.            *)
(***************************************************************************)
ArchivedIsIdle ==
  \A r \in Runs : taskState[TaskOf[r]] = "ARCHIVED" =>
    r \notin ActiveRuns /\ r \notin Live

(***************************************************************************)
(* The retention clean-up never deletes the directory of a run that is     *)
(* still active or whose worker still runs (ListExpiredRunArtifacts).      *)
(***************************************************************************)
ArtifactsInUseAreKept ==
  \A r \in Runs : files[r] = "removed" => r \notin ActiveRuns /\ r \notin Live

(***************************************************************************)
(* A serving control plane loses no worker: every live one is in           *)
(* m.processes, is about to be registered by its Start, or is marked       *)
(* UNKNOWN because an earlier server started it.                           *)
(***************************************************************************)
NoWorkerIsLost ==
  server # "down" =>
    \A r \in Live : r \in managed \/ start[r] = "spawned" \/ runState[r] = "UNKNOWN"

(***************************************************************************)
(* The final state tells the truth about the worker (handleExit):          *)
(* SUCCEEDED is a scan that exited with status 0, STOPPED is a worker that *)
(* exited after a stop was recorded or, when a store write failed, asked   *)
(* for, and no final state is recorded while the worker runs.              *)
(***************************************************************************)
FinalStateIsTrue ==
  \A r \in Runs :
    /\ runState[r] = "SUCCEEDED" => r \in ScanRuns /\ worker[r] = "zero"
    /\ runState[r] = "STOPPED" => worker[r] \in Exited /\ (runStop[r] \/ errors > 0)
    /\ runState[r] = "FAILED" => r \notin Live

(***************************************************************************)
(* When the server exits with status 0 after SIGTERM, the only workers     *)
(* left are those an earlier server lost (Shutdown waits for the map to    *)
(* be empty and no handler can add to it any more).                        *)
(***************************************************************************)
CleanExitStopsWorkers ==
  server = "down" /\ lastExit = "ok" => \A r \in Live : runState[r] = "UNKNOWN"

(***************************************************************************)
(* A run that is over stays as it is, and so does one whose worker's       *)
(* ownership was lost: no late handler, monitor or restart revives it.     *)
(***************************************************************************)
FinalStatesStay ==
  [][\A r \in Runs : runState[r] \in Terminal \cup {"UNKNOWN"} => runState'[r] = runState[r]]_vars

(***************************************************************************)
(* "The API will not signal that PID": the worker of an UNKNOWN run never  *)
(* receives a signal (Stop and ForceStop ask managed() first).             *)
(***************************************************************************)
UnknownIsNotSignalled ==
  [][\A r \in Runs : runState[r] = "UNKNOWN" => sig'[r] \in {sig[r], "none"}]_vars

(***************************************************************************)
(* A ForceStop the store accepted ends the run, unless the server dies     *)
(* first: the signal, the exit and handleExit follow, also while the Start *)
(* of the run, a Stop or the server's shutdown is in progress.             *)
(***************************************************************************)
ForceStopIsCarriedOut ==
  \A r \in Runs : stopPc[r]["SIGKILL"] = "requested"
                    ~> runState[r] \in Terminal \/ server = "down" \/ errors > 0

(***************************************************************************)
(* The exit of a worker reaches its row while the server lives             *)
(* (waitForProcess, handleExit), unless a write to the store failed:       *)
(* handleExit ignores the error of FinalizeRun and nobody tries again.     *)
(***************************************************************************)
ExitIsRecorded ==
  \A r \in Runs : (worker[r] \in Exited /\ r \in ActiveRuns /\ runState[r] # "UNKNOWN")
                    ~> runState[r] \in Terminal \/ server = "down" \/ errors > 0

(***************************************************************************)
(* "Stop the console so workers exit gracefully": once the server has      *)
(* exited on SIGTERM, every worker that was RUNNING has been signalled.    *)
(***************************************************************************)
TerminationReachesWorkers ==
  server = "down" /\ lastExit \in {"ok", "error"} =>
    \A r \in Live : runState[r] = "RUNNING" => sig[r] # "none"

=============================================================================
