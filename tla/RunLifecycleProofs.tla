------------------------- MODULE RunLifecycleProofs -------------------------
(***************************************************************************)
(* What holds of the engine manager for every set of tasks and runs, every *)
(* concurrency limit, any number of restarts and of failing writes.        *)
(***************************************************************************)
EXTENDS RunLifecycle, FiniteSetTheorems, TLAPS

(***************************************************************************)
(* Type correctness.                                                       *)
(***************************************************************************)
(* The initial state is well typed. *)
LEMMA TypeInit == Init => TypeOK
BY LifecycleAssumption
   DEF Init, NoMemory, TypeOK, Active, Owned, Terminal, Signals, Exited, StartPcs

(* RequestRunStop, or its failure, keeps the types of the row. *)
LEMMA RequestRunStopType ==
  ASSUME runState \in [Runs -> {"NONE"} \cup Active \cup Terminal],
         runStop \in [Runs -> BOOLEAN],
         NEW r \in Runs, RequestRunStop(r) \/ UNCHANGED <<runState, runStop>>
  PROVE  /\ runState' \in [Runs -> {"NONE"} \cup Active \cup Terminal]
         /\ runStop' \in [Runs -> BOOLEAN]
<1>1. runState' = [runState EXCEPT ![r] = "STOPPING"] \/ runState' = runState
  BY DEF RequestRunStop
<1>2. runStop' = [runStop EXCEPT ![r] = TRUE] \/ runStop' = runStop
  BY DEF RequestRunStop
<1>3. runState' \in [Runs -> {"NONE"} \cup Active \cup Terminal]
  BY <1>1 DEF Active, Owned
<1>4. runStop' \in [Runs -> BOOLEAN]
  BY <1>2
<1>5. QED
  BY <1>3, <1>4

(* Every action keeps the types. *)
LEMMA TypeStep == TypeOK /\ [Next]_vars => TypeOK'
<1> SUFFICES ASSUME TypeOK, [Next]_vars PROVE TypeOK'
  OBVIOUS
<1> USE LifecycleAssumption DEF TypeOK, Active, Owned, Terminal, Signals, Exited, StartPcs
<1>1. ASSUME NEW t \in Tasks, UpdateTask(t) PROVE TypeOK'
  <2>1. taskRev' \in [Tasks -> 1..MaxRevision]
    BY <1>1 DEF UpdateTask
  <2>2. taskState' \in [Tasks -> {"DRAFT", "READY", "ARCHIVED"}]
    BY <1>1 DEF UpdateTask
  <2>3. QED
    BY <1>1, <2>1, <2>2 DEF UpdateTask, os, memory, life
<1>2. ASSUME NEW t \in Tasks, MarkTaskReady(t) PROVE TypeOK'
  BY <1>2 DEF MarkTaskReady, os, memory, life
<1>3. ASSUME NEW t \in Tasks, SaveTaskPrecheckResult(t) PROVE TypeOK'
  BY <1>3 DEF SaveTaskPrecheckResult, os, memory, life
<1>4. ASSUME NEW t \in Tasks, ArchiveTask(t) PROVE TypeOK'
  BY <1>4 DEF ArchiveTask, os, memory, life
<1>5. ASSUME NEW r \in Runs, StartRead(r) PROVE TypeOK'
  BY <1>5 DEF StartRead, store, os, life
<1>6. ASSUME NEW r \in Runs, StartRefused(r) PROVE TypeOK'
  BY <1>6 DEF StartRefused, store, os, life
<1>7. ASSUME NEW r \in Runs, CreateRunIfNoActive(r) PROVE TypeOK'
  BY <1>7 DEF CreateRunIfNoActive, os, life
<1>8. ASSUME NEW r \in Runs, StartFails(r) PROVE TypeOK'
  <2>1. runState' \in [Runs -> {"NONE"} \cup Active \cup Terminal]
    BY <1>8 DEF StartFails, FinalizeRun
  <2>2. errors' \in 0..MaxErrors
    BY <1>8 DEF StartFails, Error
  <2>3. /\ start' = [start EXCEPT ![r] = "idle"]
        /\ \E f \in {"none", "present"} : files' = [files EXCEPT ![r] = f]
        /\ UNCHANGED <<taskState, taskRev, runStop, runPurged, worker, sig, startRev, managed,
                       expectedStop, startupFailure, watch, stopPc, streams,
                       todo, cur, server, lastExit, serverStarts>>
    BY <1>8, Zenon DEF StartFails
  <2>4. QED
    BY <2>1, <2>2, <2>3
<1>9. ASSUME NEW r \in Runs, SpawnWorker(r) PROVE TypeOK'
  BY <1>9 DEF SpawnWorker, store, life
<1>10. ASSUME NEW r \in Runs, RegisterProcess(r) PROVE TypeOK'
  BY <1>10 DEF RegisterProcess, store, os, life
<1>11. ASSUME NEW r \in Runs, PersistStarted(r) PROVE TypeOK'
  BY <1>11 DEF PersistStarted, store, os, life
<1>12. ASSUME NEW r \in Runs, PersistFails(r) PROVE TypeOK'
  BY <1>12 DEF PersistFails, AbandonStart, Signal, Error, store
<1>13. ASSUME NEW r \in Runs, StartGivenUp(r) PROVE TypeOK'
  BY <1>13 DEF StartGivenUp, AbandonStart, Signal, store
<1>14. ASSUME NEW r \in Runs, StatusReady(r) PROVE TypeOK'
  BY <1>14 DEF StatusReady, store, os, life
<1>15. ASSUME NEW r \in Runs, MarkRunRunning(r) PROVE TypeOK'
  BY <1>15 DEF MarkRunRunning, Error, os
<1>16. ASSUME NEW r \in Runs, WorkerExits(r) PROVE TypeOK'
  BY <1>16 DEF WorkerExits, store, memory, life
<1>17. ASSUME NEW r \in Runs, ExitDecided(r) PROVE TypeOK'
  BY <1>17 DEF ExitDecided, Outcome, Error, store, os
<1>18. ASSUME NEW r \in Runs, ExitStored(r) PROVE TypeOK'
  BY <1>18 DEF ExitStored, FinalizeRun, Error, os
<1>19. ASSUME NEW r \in Runs, ExitDeleted(r) PROVE TypeOK'
  BY <1>19 DEF ExitDeleted, store, os, life
<1>20. ASSUME NEW r \in Runs, NEW k \in Signals, StopFound(r, k) PROVE TypeOK'
  BY <1>20 DEF StopFound, store, os, life
<1>21. ASSUME NEW r \in Runs, NEW k \in Signals, StopRequested(r, k) PROVE TypeOK'
  <2>1. /\ runState' \in [Runs -> {"NONE"} \cup Active \cup Terminal]
        /\ runStop' \in [Runs -> BOOLEAN]
    <3>1. RequestRunStop(r)
      BY <1>21 DEF StopRequested
    <3>2. runState \in [Runs -> {"NONE"} \cup Active \cup Terminal] /\ runStop \in [Runs -> BOOLEAN]
      OBVIOUS
    <3> HIDE DEF TypeOK, Active, Terminal
    <3>3. QED
      BY <3>1, <3>2, RequestRunStopType
  <2>2. /\ stopPc' = [stopPc EXCEPT ![r][k] = "requested"]
        /\ UNCHANGED <<taskState, taskRev, runPurged, os, start, startRev, managed,
                       expectedStop, startupFailure, watch, streams, todo, cur, life>>
    BY <1>21, Zenon DEF StopRequested
  <2>3. QED
    BY <2>1, <2>2 DEF os, life
<1>22. ASSUME NEW r \in Runs, NEW k \in Signals, StopRefused(r, k) PROVE TypeOK'
  BY <1>22 DEF StopRefused, Error, store, os
<1>23. ASSUME NEW r \in Runs, NEW k \in Signals, StopSignalled(r, k) PROVE TypeOK'
  BY <1>23 DEF StopSignalled, Signal, store, life
<1>24. ASSUME NEW r \in Runs, OpenStream(r) PROVE TypeOK'
  BY <1>24 DEF OpenStream, store, os, life
<1>25. ASSUME NEW r \in Runs, CloseStream(r) PROVE TypeOK'
  BY <1>25 DEF CloseStream, store, os, life
<1>26. ASSUME NEW r \in Runs, RemoveArtifacts(r) PROVE TypeOK'
  BY <1>26 DEF RemoveArtifacts, store, memory, life
<1>27. ASSUME NEW r \in Runs, MarkRunArtifactsDeleted(r) PROVE TypeOK'
  BY <1>27 DEF MarkRunArtifactsDeleted, os, memory, life
<1>28. ASSUME Initialize PROVE TypeOK'
  BY <1>28 DEF Initialize, MarkActiveRunsUnknown, os, memory
<1>29. ASSUME Serve PROVE TypeOK'
  BY <1>29 DEF Serve, store, os, memory
<1>30. ASSUME Terminate PROVE TypeOK'
  BY <1>30 DEF Terminate, store, os, memory
<1>31. ASSUME Drained PROVE TypeOK'
  BY <1>31 DEF Drained, store, os
<1>32. ASSUME NEW how \in {"ok", "error", "crash"}, Exit(how) PROVE TypeOK'
  BY <1>32 DEF Exit, MemoryLost, store, os
<1>33. ASSUME NEW r \in Runs, ShutdownRequested(r) PROVE TypeOK'
  <2>1. /\ runState' \in [Runs -> {"NONE"} \cup Active \cup Terminal]
        /\ runStop' \in [Runs -> BOOLEAN]
    <3>1. RequestRunStop(r) \/ UNCHANGED <<runState, runStop>>
      BY <1>33, Zenon DEF ShutdownRequested
    <3>2. runState \in [Runs -> {"NONE"} \cup Active \cup Terminal] /\ runStop \in [Runs -> BOOLEAN]
      OBVIOUS
    <3> HIDE DEF TypeOK, Active, Terminal
    <3>3. QED
      BY <3>1, <3>2, RequestRunStopType
  <2>2. errors' \in 0..MaxErrors
    BY <1>33 DEF ShutdownRequested, Error
  <2>3. /\ todo' = todo \ {r} /\ cur' = {r}
        /\ UNCHANGED <<taskState, taskRev, runPurged, os, start, startRev, managed,
                       expectedStop, startupFailure, watch, stopPc, streams,
                       server, lastExit, serverStarts>>
    BY <1>33, Zenon DEF ShutdownRequested
  <2>4. QED
    BY <2>1, <2>2, <2>3 DEF os
<1>34. ASSUME NEW r \in Runs, ShutdownSignalled(r) PROVE TypeOK'
  BY <1>34 DEF ShutdownSignalled, Signal, store, life
<1>35. ASSUME ShutdownForced PROVE TypeOK'
  BY <1>35 DEF ShutdownForced, store, memory
<1>36. ASSUME UNCHANGED vars PROVE TypeOK'
  BY <1>36 DEF vars, store, os, memory, life
<1> HIDE LifecycleAssumption DEF TypeOK, Active, Owned, Terminal, Signals, Exited, StartPcs
<1>37. QED
  BY <1>1, <1>2, <1>3, <1>4, <1>5, <1>6, <1>7, <1>8, <1>9, <1>10, <1>11, <1>12, <1>13,
     <1>14, <1>15, <1>16, <1>17, <1>18, <1>19, <1>20, <1>21, <1>22, <1>23, <1>24, <1>25,
     <1>26, <1>27, <1>28, <1>29, <1>30, <1>31, <1>32, <1>33, <1>34, <1>35, <1>36
     DEF Next, StartStep, ExitStep, StopStep, ShutdownStep, DrainTimeout, ShutdownDone,
         ShutdownGivesUp, Crash

(* Every variable of the engine manager, the store and the workers keeps its type. *)
THEOREM TypeCorrect == Spec => []TypeOK
<1>1. QED
  BY TypeInit, TypeStep, PTL DEF Spec

-----------------------------------------------------------------------------
(***************************************************************************)
(* The inductive invariant.  The server holds a run when some goroutine or *)
(* the map refers to it.  A stopped server holds nothing; what it holds is *)
(* never UNKNOWN, because only Initialize makes runs UNKNOWN; and a Start  *)
(* handler and handleExit know what the row and the worker look like.      *)
(***************************************************************************)
Held(r) ==
  \/ start[r] # "idle" \/ watch[r] # "off"
  \/ r \in managed \/ r \in todo \/ r \in cur
  \/ \E k \in Signals : stopPc[r][k] # "idle"

RunInv(r) ==
  /\ Held(r) => server # "down" /\ runState[r] # "UNKNOWN"
  /\ start[r] = "read" => runState[r] = "NONE"
  /\ start[r] = "created" => runState[r] \in Owned /\ worker[r] = "none"
  /\ runState[r] = "NONE" => worker[r] = "none"
  /\ watch[r] \in Terminal \cup {"delete"} => worker[r] \in Exited
  /\ worker[r] = "alive" => runState[r] \in Active
  /\ worker[r] = "alive" /\ server # "down" =>
       r \in managed \/ start[r] = "spawned" \/ runState[r] = "UNKNOWN"

OwnInv == \A r \in Runs : RunInv(r)

(* What makes the final state true: where a decision to record STOPPED or  *)
(* SUCCEEDED comes from.  Asked: a stop was recorded, or a write failed.   *)
Asked(r) == runStop[r] \/ errors > 0

Rowed(r) == r \in managed \/ r \in todo \/ r \in cur

FinalInv(r) ==
  /\ start[r] \notin {"idle", "exiting"} => watch[r] = "off"
  /\ start[r] = "spawned" => runState[r] \in Owned
  /\ start[r] \notin {"idle", "read", "created"} \/ watch[r] # "off" \/ Rowed(r)
       => worker[r] # "none"
  /\ r \in managed /\ runState[r] \in Terminal => watch[r] = "delete"
  /\ runState[r] = "STOPPING" => runStop[r]
  /\ \A k \in Signals : stopPc[r][k] = "requested" => runStop[r]
  /\ r \in cur => Asked(r) \/ runState[r] \in Terminal
  /\ expectedStop[r] => Asked(r) \/ watch[r] = "delete"
  /\ watch[r] = "STOPPED" \/ runState[r] = "STOPPED" => Asked(r)
  /\ runState[r] = "STOPPED" => worker[r] \in Exited
  /\ watch[r] = "SUCCEEDED" \/ runState[r] = "SUCCEEDED" => r \in ScanRuns /\ worker[r] = "zero"

OutcomeInv == \A r \in Runs : FinalInv(r)

(* At most one active run per task, none of an archived task.                *)
ActiveInv ==
  /\ \A r, q \in Runs : r # q /\ runState[r] \in Active /\ runState[q] \in Active
                          => TaskOf[r] # TaskOf[q]
  /\ \A r \in Runs : runState[r] \in Active => taskState[TaskOf[r]] # "ARCHIVED"
  /\ \A r \in Runs : files[r] = "removed" => runState[r] \in Terminal
  /\ Cardinality(ActiveRuns) <= MaxConcurrentRuns

(* Once the handlers have returned no Start is in progress, and a server that *)
(* exited with status 0 leaves only workers it had lost before.               *)
ExitInv ==
  /\ server \in {"stopping", "killing"} => \A r \in Runs : start[r] = "idle"
  /\ CleanExitStopsWorkers

(* Who owns a run: every action, crashes and failing writes included, keeps OwnInv. *)
LEMMA OwnStep == TypeOK /\ OwnInv /\ [Next]_vars => OwnInv'
<1> SUFFICES ASSUME TypeOK, OwnInv, [Next]_vars PROVE OwnInv'
  OBVIOUS
<1> USE DEF TypeOK, OwnInv, RunInv, Held, Active, Owned, Terminal, Signals, Exited, StartPcs
<1>1. ASSUME NEW t \in Tasks, UpdateTask(t) PROVE OwnInv'
  BY <1>1 DEF UpdateTask, os, memory, life
<1>2. ASSUME NEW t \in Tasks, MarkTaskReady(t) PROVE OwnInv'
  BY <1>2 DEF MarkTaskReady, os, memory, life
<1>3. ASSUME NEW t \in Tasks, SaveTaskPrecheckResult(t) PROVE OwnInv'
  BY <1>3 DEF SaveTaskPrecheckResult, os, memory, life
<1>4. ASSUME NEW t \in Tasks, ArchiveTask(t) PROVE OwnInv'
  BY <1>4 DEF ArchiveTask, os, memory, life
<1>5. ASSUME NEW r \in Runs, StartRead(r) PROVE OwnInv'
  BY <1>5 DEF StartRead, store, os, life
<1>6. ASSUME NEW r \in Runs, StartRefused(r) PROVE OwnInv'
  BY <1>6 DEF StartRefused, store, os, life
<1>7. ASSUME NEW r \in Runs, CreateRunIfNoActive(r) PROVE OwnInv'
  BY <1>7 DEF CreateRunIfNoActive, os, life
<1>8. ASSUME NEW r \in Runs, StartFails(r) PROVE OwnInv'
  BY <1>8 DEF StartFails, FinalizeRun, Error
<1>9. ASSUME NEW r \in Runs, SpawnWorker(r) PROVE OwnInv'
  BY <1>9 DEF SpawnWorker, store, life
<1>10. ASSUME NEW r \in Runs, RegisterProcess(r) PROVE OwnInv'
  BY <1>10 DEF RegisterProcess, store, os, life
<1>11. ASSUME NEW r \in Runs, PersistStarted(r) PROVE OwnInv'
  BY <1>11 DEF PersistStarted, store, os, life
<1>12. ASSUME NEW r \in Runs, PersistFails(r) PROVE OwnInv'
  BY <1>12 DEF PersistFails, AbandonStart, Signal, Error, store
<1>13. ASSUME NEW r \in Runs, StartGivenUp(r) PROVE OwnInv'
  BY <1>13 DEF StartGivenUp, AbandonStart, Signal, store
<1>14. ASSUME NEW r \in Runs, StatusReady(r) PROVE OwnInv'
  BY <1>14 DEF StatusReady, store, os, life
<1>15. ASSUME NEW r \in Runs, MarkRunRunning(r) PROVE OwnInv'
  BY <1>15 DEF MarkRunRunning, Error, os
<1>16. ASSUME NEW r \in Runs, WorkerExits(r) PROVE OwnInv'
  BY <1>16 DEF WorkerExits, store, memory, life
<1>17. ASSUME NEW r \in Runs, ExitDecided(r) PROVE OwnInv'
  BY <1>17 DEF ExitDecided, Outcome, Error, store, os
<1>18. ASSUME NEW r \in Runs, ExitStored(r) PROVE OwnInv'
  BY <1>18 DEF ExitStored, FinalizeRun, Error, os
<1>19. ASSUME NEW r \in Runs, ExitDeleted(r) PROVE OwnInv'
  BY <1>19 DEF ExitDeleted, store, os, life
<1>20. ASSUME NEW r \in Runs, NEW k \in Signals, StopFound(r, k) PROVE OwnInv'
  BY <1>20 DEF StopFound, store, os, life
<1>21. ASSUME NEW r \in Runs, NEW k \in Signals, StopRequested(r, k) PROVE OwnInv'
  BY <1>21 DEF StopRequested, RequestRunStop, os, life
<1>22. ASSUME NEW r \in Runs, NEW k \in Signals, StopRefused(r, k) PROVE OwnInv'
  BY <1>22 DEF StopRefused, Error, store, os
<1>23. ASSUME NEW r \in Runs, NEW k \in Signals, StopSignalled(r, k) PROVE OwnInv'
  BY <1>23 DEF StopSignalled, Signal, store, life
<1>24. ASSUME NEW r \in Runs, OpenStream(r) PROVE OwnInv'
  BY <1>24 DEF OpenStream, store, os, life
<1>25. ASSUME NEW r \in Runs, CloseStream(r) PROVE OwnInv'
  BY <1>25 DEF CloseStream, store, os, life
<1>26. ASSUME NEW r \in Runs, RemoveArtifacts(r) PROVE OwnInv'
  BY <1>26 DEF RemoveArtifacts, Expired, store, memory, life
<1>27. ASSUME NEW r \in Runs, MarkRunArtifactsDeleted(r) PROVE OwnInv'
  BY <1>27 DEF MarkRunArtifactsDeleted, os, memory, life
<1>28. ASSUME Initialize PROVE OwnInv'
  BY <1>28 DEF Initialize, MarkActiveRunsUnknown, os, memory
<1>29. ASSUME Serve PROVE OwnInv'
  BY <1>29 DEF Serve, store, os, memory
<1>30. ASSUME Terminate PROVE OwnInv'
  BY <1>30 DEF Terminate, store, os, memory
<1>31. ASSUME Drained PROVE OwnInv'
  BY <1>31 DEF Drained, store, os
<1>32. ASSUME NEW r \in Runs, ShutdownRequested(r) PROVE OwnInv'
  BY <1>32 DEF ShutdownRequested, RequestRunStop, Error, os
<1>33. ASSUME NEW r \in Runs, ShutdownSignalled(r) PROVE OwnInv'
  BY <1>33 DEF ShutdownSignalled, Signal, store, life
<1>34. ASSUME ShutdownForced PROVE OwnInv'
  BY <1>34 DEF ShutdownForced, store, memory
<1>35. ASSUME NEW how, Exit(how) PROVE OwnInv'
  BY <1>35 DEF Exit, MemoryLost, store, os
<1>36. ASSUME UNCHANGED vars PROVE OwnInv'
  BY <1>36 DEF vars, store, os, memory, life
<1> HIDE DEF TypeOK, OwnInv, RunInv, Held, Active, Owned, Terminal, Signals, Exited, StartPcs
<1>37. QED
  BY <1>1, <1>2, <1>3, <1>4, <1>5, <1>6, <1>7, <1>8, <1>9, <1>10, <1>11, <1>12, <1>13,
     <1>14, <1>15, <1>16, <1>17, <1>18, <1>19, <1>20, <1>21, <1>22, <1>23, <1>24, <1>25,
     <1>26, <1>27, <1>28, <1>29, <1>30, <1>31, <1>32, <1>33, <1>34, <1>35, <1>36
     DEF Next, StartStep, ExitStep, StopStep, ShutdownStep, DrainTimeout, ShutdownDone,
         ShutdownGivesUp, Crash

(* Where a final state comes from: every action keeps OutcomeInv. *)
LEMMA OutcomeStep == TypeOK /\ OwnInv /\ OutcomeInv /\ [Next]_vars => OutcomeInv'
<1> SUFFICES ASSUME TypeOK, OwnInv, OutcomeInv, [Next]_vars PROVE OutcomeInv'
  OBVIOUS
<1> USE DEF TypeOK, OwnInv, RunInv, Held, OutcomeInv, FinalInv, Rowed, Asked, Active, Owned, Terminal, Signals, Exited
<1>1. ASSUME NEW t \in Tasks, UpdateTask(t) PROVE OutcomeInv'
  BY <1>1 DEF UpdateTask, os, memory, life
<1>2. ASSUME NEW t \in Tasks, MarkTaskReady(t) PROVE OutcomeInv'
  BY <1>2 DEF MarkTaskReady, os, memory, life
<1>3. ASSUME NEW t \in Tasks, SaveTaskPrecheckResult(t) PROVE OutcomeInv'
  BY <1>3 DEF SaveTaskPrecheckResult, os, memory, life
<1>4. ASSUME NEW t \in Tasks, ArchiveTask(t) PROVE OutcomeInv'
  BY <1>4 DEF ArchiveTask, os, memory, life
<1>5. ASSUME NEW r \in Runs, StartRead(r) PROVE OutcomeInv'
  BY <1>5 DEF StartRead, store, os, life
<1>6. ASSUME NEW r \in Runs, StartRefused(r) PROVE OutcomeInv'
  BY <1>6 DEF StartRefused, store, os, life
<1>7. ASSUME NEW r \in Runs, CreateRunIfNoActive(r) PROVE OutcomeInv'
  BY <1>7 DEF CreateRunIfNoActive, os, life
<1>8. ASSUME NEW r \in Runs, StartFails(r) PROVE OutcomeInv'
  BY <1>8 DEF StartFails, FinalizeRun, Error
<1>9. ASSUME NEW r \in Runs, SpawnWorker(r) PROVE OutcomeInv'
  BY <1>9 DEF SpawnWorker, store, life
<1>10. ASSUME NEW r \in Runs, RegisterProcess(r) PROVE OutcomeInv'
  BY <1>10 DEF RegisterProcess, store, os, life
<1>11. ASSUME NEW r \in Runs, PersistStarted(r) PROVE OutcomeInv'
  BY <1>11 DEF PersistStarted, store, os, life
<1>12. ASSUME NEW r \in Runs, PersistFails(r) PROVE OutcomeInv'
  BY <1>12 DEF PersistFails, AbandonStart, Signal, Error, store
<1>13. ASSUME NEW r \in Runs, StartGivenUp(r) PROVE OutcomeInv'
  BY <1>13 DEF StartGivenUp, AbandonStart, Signal, store
<1>14. ASSUME NEW r \in Runs, StatusReady(r) PROVE OutcomeInv'
  BY <1>14 DEF StatusReady, store, os, life
<1>15. ASSUME NEW r \in Runs, MarkRunRunning(r) PROVE OutcomeInv'
  BY <1>15 DEF MarkRunRunning, Error, os
<1>16. ASSUME NEW r \in Runs, WorkerExits(r) PROVE OutcomeInv'
  BY <1>16 DEF WorkerExits, store, memory, life
<1>17. ASSUME NEW r \in Runs, ExitDecided(r) PROVE OutcomeInv'
  BY <1>17 DEF ExitDecided, Outcome, Error, store, os
<1>18. ASSUME NEW r \in Runs, ExitStored(r) PROVE OutcomeInv'
  BY <1>18 DEF ExitStored, FinalizeRun, Error, os
<1>19. ASSUME NEW r \in Runs, ExitDeleted(r) PROVE OutcomeInv'
  BY <1>19 DEF ExitDeleted, store, os, life
<1>20. ASSUME NEW r \in Runs, NEW k \in Signals, StopFound(r, k) PROVE OutcomeInv'
  BY <1>20 DEF StopFound, store, os, life
<1>21. ASSUME NEW r \in Runs, NEW k \in Signals, StopRequested(r, k) PROVE OutcomeInv'
  BY <1>21 DEF StopRequested, RequestRunStop, os, life
<1>22. ASSUME NEW r \in Runs, NEW k \in Signals, StopRefused(r, k) PROVE OutcomeInv'
  BY <1>22 DEF StopRefused, Error, store, os
<1>23. ASSUME NEW r \in Runs, NEW k \in Signals, StopSignalled(r, k) PROVE OutcomeInv'
  BY <1>23 DEF StopSignalled, Signal, store, life
<1>24. ASSUME NEW r \in Runs, OpenStream(r) PROVE OutcomeInv'
  BY <1>24 DEF OpenStream, store, os, life
<1>25. ASSUME NEW r \in Runs, CloseStream(r) PROVE OutcomeInv'
  BY <1>25 DEF CloseStream, store, os, life
<1>26. ASSUME NEW r \in Runs, RemoveArtifacts(r) PROVE OutcomeInv'
  BY <1>26 DEF RemoveArtifacts, Expired, store, memory, life
<1>27. ASSUME NEW r \in Runs, MarkRunArtifactsDeleted(r) PROVE OutcomeInv'
  BY <1>27 DEF MarkRunArtifactsDeleted, os, memory, life
<1>28. ASSUME Initialize PROVE OutcomeInv'
  BY <1>28 DEF Initialize, MarkActiveRunsUnknown, os, memory
<1>29. ASSUME Serve PROVE OutcomeInv'
  BY <1>29 DEF Serve, store, os, memory
<1>30. ASSUME Terminate PROVE OutcomeInv'
  BY <1>30 DEF Terminate, store, os, memory
<1>31. ASSUME Drained PROVE OutcomeInv'
  BY <1>31 DEF Drained, store, os
<1>32. ASSUME NEW r \in Runs, ShutdownRequested(r) PROVE OutcomeInv'
  BY <1>32 DEF ShutdownRequested, RequestRunStop, Error, os
<1>33. ASSUME NEW r \in Runs, ShutdownSignalled(r) PROVE OutcomeInv'
  BY <1>33 DEF ShutdownSignalled, Signal, store, life
<1>34. ASSUME ShutdownForced PROVE OutcomeInv'
  BY <1>34 DEF ShutdownForced, store, memory
<1>35. ASSUME NEW how, Exit(how) PROVE OutcomeInv'
  BY <1>35 DEF Exit, MemoryLost, store, os
<1>36. ASSUME UNCHANGED vars PROVE OutcomeInv'
  BY <1>36 DEF vars, store, os, memory, life
<1> HIDE DEF TypeOK, OwnInv, RunInv, Held, OutcomeInv, FinalInv, Rowed, Asked, Active, Owned, Terminal, Signals, Exited
<1>37. QED
  BY <1>1, <1>2, <1>3, <1>4, <1>5, <1>6, <1>7, <1>8, <1>9, <1>10, <1>11, <1>12, <1>13,
     <1>14, <1>15, <1>16, <1>17, <1>18, <1>19, <1>20, <1>21, <1>22, <1>23, <1>24, <1>25,
     <1>26, <1>27, <1>28, <1>29, <1>30, <1>31, <1>32, <1>33, <1>34, <1>35, <1>36
     DEF Next, StartStep, ExitStep, StopStep, ShutdownStep, DrainTimeout, ShutdownDone,
         ShutdownGivesUp, Crash

(* What a step may do to the rows and to the signals: a run that is over or   *)
(* lost keeps its row, a row appears only by CreateRunIfNoActive, a task is     *)
(* archived only by ArchiveTask, no UNKNOWN worker is signalled, and only the   *)
(* directory of a run that is over is removed.                                  *)
RowFacts ==
  /\ \A r \in Runs : runState[r] \in Terminal \cup {"UNKNOWN"} => runState'[r] = runState[r]
  /\ \A r \in Runs : runState[r] = "NONE" /\ runState'[r] # "NONE" => CreateRunIfNoActive(r)
  /\ \A t \in Tasks : taskState'[t] = "ARCHIVED" => taskState[t] = "ARCHIVED" \/ ArchiveTask(t)
  /\ \A r \in Runs : runState[r] = "UNKNOWN" => sig'[r] \in {sig[r], "none"}
  /\ \A r \in Runs : files'[r] = "removed" => files[r] = "removed" \/ runState[r] \in Terminal

(* Every action obeys RowFacts; the handlers by OwnInv, since what they hold is not UNKNOWN. *)
LEMMA RowStep == TypeOK /\ OwnInv /\ [Next]_vars => RowFacts
<1> SUFFICES ASSUME TypeOK, OwnInv, [Next]_vars PROVE RowFacts
  OBVIOUS
<1> USE DEF TypeOK, OwnInv, RunInv, Held, RowFacts, Active, Owned, Terminal, Signals, Exited
<1>1. ASSUME NEW t \in Tasks, UpdateTask(t) PROVE RowFacts
  BY <1>1 DEF UpdateTask, os, memory, life
<1>2. ASSUME NEW t \in Tasks, MarkTaskReady(t) PROVE RowFacts
  BY <1>2 DEF MarkTaskReady, os, memory, life
<1>3. ASSUME NEW t \in Tasks, SaveTaskPrecheckResult(t) PROVE RowFacts
  BY <1>3 DEF SaveTaskPrecheckResult, os, memory, life
<1>4. ASSUME NEW t \in Tasks, ArchiveTask(t) PROVE RowFacts
  <2>1. runState' = runState /\ sig' = sig /\ files' = files /\ taskState' = [taskState EXCEPT ![t] = "ARCHIVED"]
    BY <1>4 DEF ArchiveTask, os
  <2>2. QED
    BY <1>4, <2>1
<1>5. ASSUME NEW r \in Runs, StartRead(r) PROVE RowFacts
  BY <1>5 DEF StartRead, store, os, life
<1>6. ASSUME NEW r \in Runs, StartRefused(r) PROVE RowFacts
  BY <1>6 DEF StartRefused, store, os, life
<1>7. ASSUME NEW r \in Runs, CreateRunIfNoActive(r) PROVE RowFacts
  <2>1. /\ taskState' = taskState /\ sig' = sig /\ files' = files
        /\ runState' = [runState EXCEPT ![r] = "STARTING"] /\ runState[r] = "NONE"
    BY <1>7 DEF CreateRunIfNoActive, os
  <2>2. QED
    BY <1>7, <2>1
<1>8. ASSUME NEW r \in Runs, StartFails(r) PROVE RowFacts
  BY <1>8 DEF StartFails, FinalizeRun, Error
<1>9. ASSUME NEW r \in Runs, SpawnWorker(r) PROVE RowFacts
  BY <1>9 DEF SpawnWorker, store, life
<1>10. ASSUME NEW r \in Runs, RegisterProcess(r) PROVE RowFacts
  BY <1>10 DEF RegisterProcess, store, os, life
<1>11. ASSUME NEW r \in Runs, PersistStarted(r) PROVE RowFacts
  BY <1>11 DEF PersistStarted, store, os, life
<1>12. ASSUME NEW r \in Runs, PersistFails(r) PROVE RowFacts
  BY <1>12 DEF PersistFails, AbandonStart, Signal, Error, store
<1>13. ASSUME NEW r \in Runs, StartGivenUp(r) PROVE RowFacts
  BY <1>13 DEF StartGivenUp, AbandonStart, Signal, store
<1>14. ASSUME NEW r \in Runs, StatusReady(r) PROVE RowFacts
  BY <1>14 DEF StatusReady, store, os, life
<1>15. ASSUME NEW r \in Runs, MarkRunRunning(r) PROVE RowFacts
  BY <1>15 DEF MarkRunRunning, Error, os
<1>16. ASSUME NEW r \in Runs, WorkerExits(r) PROVE RowFacts
  BY <1>16 DEF WorkerExits, store, memory, life
<1>17. ASSUME NEW r \in Runs, ExitDecided(r) PROVE RowFacts
  BY <1>17 DEF ExitDecided, Outcome, Error, store, os
<1>18. ASSUME NEW r \in Runs, ExitStored(r) PROVE RowFacts
  BY <1>18 DEF ExitStored, FinalizeRun, Error, os
<1>19. ASSUME NEW r \in Runs, ExitDeleted(r) PROVE RowFacts
  BY <1>19 DEF ExitDeleted, store, os, life
<1>20. ASSUME NEW r \in Runs, NEW k \in Signals, StopFound(r, k) PROVE RowFacts
  BY <1>20 DEF StopFound, store, os, life
<1>21. ASSUME NEW r \in Runs, NEW k \in Signals, StopRequested(r, k) PROVE RowFacts
  BY <1>21 DEF StopRequested, RequestRunStop, os, life
<1>22. ASSUME NEW r \in Runs, NEW k \in Signals, StopRefused(r, k) PROVE RowFacts
  BY <1>22 DEF StopRefused, Error, store, os
<1>23. ASSUME NEW r \in Runs, NEW k \in Signals, StopSignalled(r, k) PROVE RowFacts
  BY <1>23 DEF StopSignalled, Signal, store, life
<1>24. ASSUME NEW r \in Runs, OpenStream(r) PROVE RowFacts
  BY <1>24 DEF OpenStream, store, os, life
<1>25. ASSUME NEW r \in Runs, CloseStream(r) PROVE RowFacts
  BY <1>25 DEF CloseStream, store, os, life
<1>26. ASSUME NEW r \in Runs, RemoveArtifacts(r) PROVE RowFacts
  BY <1>26 DEF RemoveArtifacts, Expired, store, memory, life
<1>27. ASSUME NEW r \in Runs, MarkRunArtifactsDeleted(r) PROVE RowFacts
  BY <1>27 DEF MarkRunArtifactsDeleted, os, memory, life
<1>28. ASSUME Initialize PROVE RowFacts
  BY <1>28 DEF Initialize, MarkActiveRunsUnknown, os, memory
<1>29. ASSUME Serve PROVE RowFacts
  BY <1>29 DEF Serve, store, os, memory
<1>30. ASSUME Terminate PROVE RowFacts
  BY <1>30 DEF Terminate, store, os, memory
<1>31. ASSUME Drained PROVE RowFacts
  BY <1>31 DEF Drained, store, os
<1>32. ASSUME NEW r \in Runs, ShutdownRequested(r) PROVE RowFacts
  BY <1>32 DEF ShutdownRequested, RequestRunStop, Error, os
<1>33. ASSUME NEW r \in Runs, ShutdownSignalled(r) PROVE RowFacts
  BY <1>33 DEF ShutdownSignalled, Signal, store, life
<1>34. ASSUME ShutdownForced PROVE RowFacts
  BY <1>34 DEF ShutdownForced, store, memory
<1>35. ASSUME NEW how, Exit(how) PROVE RowFacts
  BY <1>35 DEF Exit, MemoryLost, store, os
<1>36. ASSUME UNCHANGED vars PROVE RowFacts
  BY <1>36 DEF vars, store, os, memory, life
<1> HIDE DEF TypeOK, OwnInv, RunInv, Held, RowFacts, Active, Owned, Terminal, Signals, Exited
<1>37. QED
  BY <1>1, <1>2, <1>3, <1>4, <1>5, <1>6, <1>7, <1>8, <1>9, <1>10, <1>11, <1>12, <1>13,
     <1>14, <1>15, <1>16, <1>17, <1>18, <1>19, <1>20, <1>21, <1>22, <1>23, <1>24, <1>25,
     <1>26, <1>27, <1>28, <1>29, <1>30, <1>31, <1>32, <1>33, <1>34, <1>35, <1>36
     DEF Next, StartStep, ExitStep, StopStep, ShutdownStep, DrainTimeout, ShutdownDone,
         ShutdownGivesUp, Crash

(* Shutdown: every action keeps ExitInv. *)
LEMMA ExitStepInv == TypeOK /\ OwnInv /\ ExitInv /\ [Next]_vars => ExitInv'
<1> SUFFICES ASSUME TypeOK, OwnInv, ExitInv, [Next]_vars PROVE ExitInv'
  OBVIOUS
<1> USE DEF TypeOK, OwnInv, RunInv, Held, ExitInv, CleanExitStopsWorkers, Live, Active, Owned, Terminal, Signals, Exited
<1>1. ASSUME NEW t \in Tasks, UpdateTask(t) PROVE ExitInv'
  BY <1>1 DEF UpdateTask, os, memory, life
<1>2. ASSUME NEW t \in Tasks, MarkTaskReady(t) PROVE ExitInv'
  BY <1>2 DEF MarkTaskReady, os, memory, life
<1>3. ASSUME NEW t \in Tasks, SaveTaskPrecheckResult(t) PROVE ExitInv'
  BY <1>3 DEF SaveTaskPrecheckResult, os, memory, life
<1>4. ASSUME NEW t \in Tasks, ArchiveTask(t) PROVE ExitInv'
  BY <1>4 DEF ArchiveTask, os, memory, life
<1>5. ASSUME NEW r \in Runs, StartRead(r) PROVE ExitInv'
  BY <1>5 DEF StartRead, store, os, life
<1>6. ASSUME NEW r \in Runs, StartRefused(r) PROVE ExitInv'
  BY <1>6 DEF StartRefused, store, os, life
<1>7. ASSUME NEW r \in Runs, CreateRunIfNoActive(r) PROVE ExitInv'
  BY <1>7 DEF CreateRunIfNoActive, os, life
<1>8. ASSUME NEW r \in Runs, StartFails(r) PROVE ExitInv'
  BY <1>8 DEF StartFails, FinalizeRun, Error
<1>9. ASSUME NEW r \in Runs, SpawnWorker(r) PROVE ExitInv'
  BY <1>9 DEF SpawnWorker, store, life
<1>10. ASSUME NEW r \in Runs, RegisterProcess(r) PROVE ExitInv'
  BY <1>10 DEF RegisterProcess, store, os, life
<1>11. ASSUME NEW r \in Runs, PersistStarted(r) PROVE ExitInv'
  BY <1>11 DEF PersistStarted, store, os, life
<1>12. ASSUME NEW r \in Runs, PersistFails(r) PROVE ExitInv'
  BY <1>12 DEF PersistFails, AbandonStart, Signal, Error, store
<1>13. ASSUME NEW r \in Runs, StartGivenUp(r) PROVE ExitInv'
  BY <1>13 DEF StartGivenUp, AbandonStart, Signal, store
<1>14. ASSUME NEW r \in Runs, StatusReady(r) PROVE ExitInv'
  BY <1>14 DEF StatusReady, store, os, life
<1>15. ASSUME NEW r \in Runs, MarkRunRunning(r) PROVE ExitInv'
  BY <1>15 DEF MarkRunRunning, Error, os
<1>16. ASSUME NEW r \in Runs, WorkerExits(r) PROVE ExitInv'
  BY <1>16 DEF WorkerExits, store, memory, life
<1>17. ASSUME NEW r \in Runs, ExitDecided(r) PROVE ExitInv'
  BY <1>17 DEF ExitDecided, Outcome, Error, store, os
<1>18. ASSUME NEW r \in Runs, ExitStored(r) PROVE ExitInv'
  BY <1>18 DEF ExitStored, FinalizeRun, Error, os
<1>19. ASSUME NEW r \in Runs, ExitDeleted(r) PROVE ExitInv'
  BY <1>19 DEF ExitDeleted, store, os, life
<1>20. ASSUME NEW r \in Runs, NEW k \in Signals, StopFound(r, k) PROVE ExitInv'
  BY <1>20 DEF StopFound, store, os, life
<1>21. ASSUME NEW r \in Runs, NEW k \in Signals, StopRequested(r, k) PROVE ExitInv'
  BY <1>21 DEF StopRequested, RequestRunStop, os, life
<1>22. ASSUME NEW r \in Runs, NEW k \in Signals, StopRefused(r, k) PROVE ExitInv'
  BY <1>22 DEF StopRefused, Error, store, os
<1>23. ASSUME NEW r \in Runs, NEW k \in Signals, StopSignalled(r, k) PROVE ExitInv'
  BY <1>23 DEF StopSignalled, Signal, store, life
<1>24. ASSUME NEW r \in Runs, OpenStream(r) PROVE ExitInv'
  BY <1>24 DEF OpenStream, store, os, life
<1>25. ASSUME NEW r \in Runs, CloseStream(r) PROVE ExitInv'
  BY <1>25 DEF CloseStream, store, os, life
<1>26. ASSUME NEW r \in Runs, RemoveArtifacts(r) PROVE ExitInv'
  BY <1>26 DEF RemoveArtifacts, Expired, store, memory, life
<1>27. ASSUME NEW r \in Runs, MarkRunArtifactsDeleted(r) PROVE ExitInv'
  BY <1>27 DEF MarkRunArtifactsDeleted, os, memory, life
<1>28. ASSUME Initialize PROVE ExitInv'
  BY <1>28 DEF Initialize, MarkActiveRunsUnknown, os, memory
<1>29. ASSUME Serve PROVE ExitInv'
  BY <1>29 DEF Serve, store, os, memory
<1>30. ASSUME Terminate PROVE ExitInv'
  BY <1>30 DEF Terminate, store, os, memory
<1>31. ASSUME Drained PROVE ExitInv'
  BY <1>31 DEF Drained, InFlight, store, os
<1>32. ASSUME NEW r \in Runs, ShutdownRequested(r) PROVE ExitInv'
  BY <1>32 DEF ShutdownRequested, RequestRunStop, Error, os
<1>33. ASSUME NEW r \in Runs, ShutdownSignalled(r) PROVE ExitInv'
  BY <1>33 DEF ShutdownSignalled, Signal, store, life
<1>34. ASSUME ShutdownForced PROVE ExitInv'
  BY <1>34 DEF ShutdownForced, store, memory
<1>35. ASSUME NEW how, Exit(how), how = "ok" => server \in {"stopping", "killing"} /\ managed = {} PROVE ExitInv'
  BY <1>35 DEF Exit, MemoryLost, store, os
<1>36. ASSUME UNCHANGED vars PROVE ExitInv'
  BY <1>36 DEF vars, store, os, memory, life
<1> HIDE DEF TypeOK, OwnInv, RunInv, Held, ExitInv, CleanExitStopsWorkers, Live, Active, Owned, Terminal, Signals, Exited
<1>37. QED
  BY <1>1, <1>2, <1>3, <1>4, <1>5, <1>6, <1>7, <1>8, <1>9, <1>10, <1>11, <1>12, <1>13,
     <1>14, <1>15, <1>16, <1>17, <1>18, <1>19, <1>20, <1>21, <1>22, <1>23, <1>24, <1>25,
     <1>26, <1>27, <1>28, <1>29, <1>30, <1>31, <1>32, <1>33, <1>34, <1>35, <1>36
     DEF Next, StartStep, ExitStep, StopStep, ShutdownStep, DrainTimeout, ShutdownDone,
         ShutdownGivesUp, Crash

(* The parts of the inductive invariant hold before the first start of the server. *)
LEMMA InvariantsInit == Init => OwnInv /\ OutcomeInv /\ ActiveInv /\ ExitInv
<1> SUFFICES ASSUME Init PROVE OwnInv /\ OutcomeInv /\ ActiveInv /\ ExitInv
  OBVIOUS
<1> USE DEF Init, NoMemory, Active, Owned, Terminal, Signals, Exited
<1>1. OwnInv
  BY DEF OwnInv, RunInv, Held
<1>2. OutcomeInv
  BY DEF OutcomeInv, FinalInv, Rowed, Asked
<1>3. ActiveInv
  <2>1. ActiveRuns = {}
    BY DEF ActiveRuns
  <2>2. QED
    BY <2>1, FS_EmptySet, LifecycleAssumption DEF ActiveInv
<1>4. ExitInv
  BY DEF ExitInv, CleanExitStopsWorkers, Live
<1>5. QED
  BY <1>1, <1>2, <1>3, <1>4

(* The active rows: they grow by CreateRunIfNoActive alone, which checks the  *)
(* task, the other rows of the task and the limit in the same transaction.    *)
LEMMA ActiveStep == TypeOK /\ ActiveInv /\ RowFacts /\ TypeOK' => ActiveInv'
<1> SUFFICES ASSUME TypeOK, ActiveInv, RowFacts, TypeOK' PROVE ActiveInv'
  OBVIOUS
<1> DEFINE Grown == \E r \in Runs : CreateRunIfNoActive(r)
<1>1. ASSUME ~Grown PROVE \A q \in Runs : runState'[q] \in Active => runState[q] \in Active
  BY <1>1 DEF RowFacts, TypeOK, Active, Owned, Terminal
<1>2. ASSUME NEW r \in Runs, CreateRunIfNoActive(r)
      PROVE  /\ taskState' = taskState
             /\ taskState[TaskOf[r]] = "READY"
             /\ \A q \in Runs : q # r => runState'[q] = runState[q]
             /\ \A q \in Runs : runState[q] \in Active => TaskOf[q] # TaskOf[r]
             /\ Cardinality(ActiveRuns) < MaxConcurrentRuns
  BY <1>2 DEF CreateRunIfNoActive, MayCreateRun, ActiveRuns, TypeOK
<1>3. \A r, q \in Runs : r # q /\ runState'[r] \in Active /\ runState'[q] \in Active
                          => TaskOf[r] # TaskOf[q]
  <2>1. CASE ~Grown
    BY <2>1, <1>1 DEF ActiveInv
  <2>2. CASE Grown
    BY <2>2, <1>2 DEF ActiveInv
  <2>3. QED
    BY <2>1, <2>2
<1>4. \A r \in Runs : runState'[r] \in Active => taskState'[TaskOf[r]] # "ARCHIVED"
  <2>1. CASE ~Grown
    <3> SUFFICES ASSUME NEW r \in Runs, runState'[r] \in Active, taskState'[TaskOf[r]] = "ARCHIVED"
                 PROVE  FALSE
      OBVIOUS
    <3>1. runState[r] \in Active /\ taskState[TaskOf[r]] # "ARCHIVED" /\ TaskOf[r] \in Tasks
      BY <2>1, <1>1, LifecycleAssumption DEF ActiveInv
    <3>2. ArchiveTask(TaskOf[r])
      BY <3>1 DEF RowFacts
    <3>3. QED
      BY <3>1, <3>2 DEF ArchiveTask, ActiveRuns
  <2>2. CASE Grown
    BY <2>2, <1>2, LifecycleAssumption DEF ActiveInv, TypeOK
  <2>3. QED
    BY <2>1, <2>2
<1>5. \A r \in Runs : files'[r] = "removed" => runState'[r] \in Terminal
  BY DEF ActiveInv, RowFacts
<1>6. Cardinality(ActiveRuns') <= MaxConcurrentRuns
  <2>1. IsFiniteSet(ActiveRuns) /\ IsFiniteSet(ActiveRuns')
    BY FS_Subset, LifecycleAssumption DEF ActiveRuns
  <2>2. CASE ~Grown
    <3>1. ActiveRuns' \subseteq ActiveRuns
      BY <2>2, <1>1 DEF ActiveRuns
    <3>2. QED
      BY <3>1, <2>1, FS_Subset, FS_CardinalityType, LifecycleAssumption DEF ActiveInv
  <2>3. CASE Grown
    <3>1. PICK r \in Runs : CreateRunIfNoActive(r)
      BY <2>3
    <3>2. ActiveRuns' \subseteq ActiveRuns \cup {r}
      BY <3>1, <1>2 DEF ActiveRuns
    <3>3. IsFiniteSet(ActiveRuns \cup {r}) /\ Cardinality(ActiveRuns \cup {r}) <= Cardinality(ActiveRuns) + 1
      <4>1. Cardinality(ActiveRuns) \in Nat
        BY <2>1, FS_CardinalityType
      <4>2. /\ IsFiniteSet(ActiveRuns \cup {r})
            /\ Cardinality(ActiveRuns \cup {r})
                 = IF r \in ActiveRuns THEN Cardinality(ActiveRuns) ELSE Cardinality(ActiveRuns) + 1
        BY <2>1, FS_AddElement, Zenon
      <4>3. QED
        BY <4>1, <4>2
    <3>4. Cardinality(ActiveRuns') <= Cardinality(ActiveRuns) + 1
      BY <3>2, <3>3, <2>1, FS_Subset, FS_CardinalityType
    <3>5. QED
      BY <3>1, <3>4, <1>2, <2>1, FS_CardinalityType, LifecycleAssumption
  <2>4. QED
    BY <2>2, <2>3
<1>7. QED
  BY <1>3, <1>4, <1>5, <1>6 DEF ActiveInv

(* The inductive invariant the safety theorems share. *)
IInv == TypeOK /\ OwnInv /\ OutcomeInv /\ ActiveInv /\ ExitInv

(* The conjunction is an invariant. *)
LEMMA Invariant == Spec => []IInv
<1>1. Init => IInv
  BY TypeInit, InvariantsInit DEF IInv
<1>2. IInv /\ [Next]_vars => IInv'
  BY TypeStep, OwnStep, OutcomeStep, RowStep, ActiveStep, ExitStepInv DEF IInv
<1>3. QED
  BY <1>1, <1>2, PTL DEF Spec

(***************************************************************************)
(* However handlers, monitors, crashes and failing writes interleave, one  *)
(* task never has two live workers: a live worker has an active row, and   *)
(* CreateRunIfNoActive admits one active row per task.                     *)
(***************************************************************************)
THEOREM OneWorkerPerTask == Spec => []NoDuplicateWorker
<1>1. IInv => NoDuplicateWorker
  BY DEF IInv, OwnInv, RunInv, ActiveInv, NoDuplicateWorker, Live
<1>2. QED
  BY <1>1, Invariant, PTL

(***************************************************************************)
(* The number of workers on the host, those of crashed servers included,   *)
(* never exceeds REDISSHAKE_MAX_CONCURRENT_RUNS.                           *)
(***************************************************************************)
THEOREM WorkersAreLimited == Spec => []ConcurrencyLimit
<1>1. IInv => ConcurrencyLimit
  BY DEF IInv, OwnInv, RunInv, ActiveInv, ConcurrencyLimit, Live, ActiveRuns
<1>2. QED
  BY <1>1, Invariant, PTL

(* No Start slips past ArchiveTask: an archived task has neither an active run nor a worker. *)
THEOREM ArchivedTasksAreIdle == Spec => []ArchivedIsIdle
<1>1. IInv => ArchivedIsIdle
  BY DEF IInv, OwnInv, RunInv, ActiveInv, ArchivedIsIdle, Live, ActiveRuns
<1>2. QED
  BY <1>1, Invariant, PTL

(* The retention clean-up removes the directory of no active run and of no live worker. *)
THEOREM CleanupIsSafe == Spec => []ArtifactsInUseAreKept
<1>1. IInv => ArtifactsInUseAreKept
  BY DEF IInv, OwnInv, RunInv, ActiveInv, ArtifactsInUseAreKept, Live, ActiveRuns, Active, Owned, Terminal
<1>2. QED
  BY <1>1, Invariant, PTL

(* While the server runs, every live worker is in its map, being registered, or UNKNOWN. *)
THEOREM NothingIsLost == Spec => []NoWorkerIsLost
<1>1. IInv => NoWorkerIsLost
  BY DEF IInv, OwnInv, RunInv, NoWorkerIsLost, Live
<1>2. QED
  BY <1>1, Invariant, PTL

(* What handleExit and Start record as final agrees with how the worker ended. *)
THEOREM FinalStatesAreTrue == Spec => []FinalStateIsTrue
<1>1. IInv => FinalStateIsTrue
  BY DEF IInv, OwnInv, RunInv, OutcomeInv, FinalInv, Asked, FinalStateIsTrue, Live, Active, Owned, Exited
<1>2. QED
  BY <1>1, Invariant, PTL

(* A server that shut down with status 0 has stopped every worker it was responsible for. *)
THEOREM CleanExit == Spec => []CleanExitStopsWorkers
<1>1. IInv => CleanExitStopsWorkers
  BY DEF IInv, ExitInv
<1>2. QED
  BY <1>1, Invariant, PTL

(* Neither a late handler nor a restart changes the row of a run that is over or UNKNOWN. *)
THEOREM FinalStatesAreFinal == Spec => FinalStatesStay
<1>1. IInv /\ [Next]_vars => [\A r \in Runs : runState[r] \in Terminal \cup {"UNKNOWN"}
                                               => runState'[r] = runState[r]]_vars
  BY RowStep DEF IInv, RowFacts
<1>2. QED
  BY <1>1, Invariant, PTL DEF Spec, FinalStatesStay

(* No handler and no shutdown signals the worker of an UNKNOWN run. *)
THEOREM UnknownIsLeftAlone == Spec => UnknownIsNotSignalled
<1>1. IInv /\ [Next]_vars => [\A r \in Runs : runState[r] = "UNKNOWN" => sig'[r] \in {sig[r], "none"}]_vars
  BY RowStep DEF IInv, RowFacts
<1>2. QED
  BY <1>1, Invariant, PTL DEF Spec, UnknownIsNotSignalled

=============================================================================
