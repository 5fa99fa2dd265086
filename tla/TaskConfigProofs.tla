-------------------------- MODULE TaskConfigProofs --------------------------
(***************************************************************************)
(* Proofs about TaskConfig, for any connections, tasks, handlers, keys,    *)
(* request bodies and Redis servers: what a READY task and a started run   *)
(* were checked against, that no edit of a task is lost, and where         *)
(* credentials are.                                                        *)
(***************************************************************************)
EXTENDS TaskConfig, TLAPS

-----------------------------------------------------------------------------
(***************************************************************************)
(* The inductive invariant, in parts.                                      *)

(* What normalizeSpec returns is not changed by normalizing it again.      *)
Normal(spec) == DOMAIN spec = TaskFields /\ NormalizeTask(spec) = spec

(* A request that read a task at some revision: the task is still there,   *)
(* its revision has not gone back, and while it has not moved on either,   *)
(* spec is what the row holds.                                             *)
ReadAt(w, spec) ==
  /\ w.id \in DOMAIN tasks
  /\ w.rev \in Nat /\ w.rev <= tasks[w.id].rev
  /\ w.rev = tasks[w.id].rev => spec = tasks[w.id].spec

PreOps    == {"preTest", "preTested", "preResolve", "preSave"}
StartOps  == {"startResolve", "startInsert"}
PreFields == {"op", "id", "rev", "spec", "ack", "fail", "warn", "conn", "row", "purpose",
              "source", "target", "digest"}

TaskWork(w) ==
  /\ w.op \in {"updateConn", "copyConn"} => DOMAIN w.row = Fields
  /\ w.op \in {"insertTask", "updateTask"} => Normal(w.spec)
  /\ w.op = "updateTask" => ReadAt(w, w.base)
  /\ w.op \in PreOps => DOMAIN w = PreFields
  /\ w.op \in PreOps \cup StartOps => ReadAt(w, w.spec)

TaskInv ==
  /\ TypeOK
  /\ \A t \in DOMAIN tasks : Normal(tasks[t].spec)
  /\ \A h \in Handlers : TaskWork(req[h])

(* The foreign keys of table tasks.                                        *)
ReferencesHold == \A t \in DOMAIN tasks : ReferencesFound(tasks[t].spec)

(* Rows sealed by a handler open under the key of the process it runs in.  *)
SecretInv ==
  /\ StoredSecretsOpen
  /\ server = "down" => \A h \in Handlers : req[h] = Idle
  /\ \A h \in Handlers : req[h].op \in {"updateConn", "copyConn"} => CanResolve(req[h].row)

(* What a precheck has established when it comes to be saved.              *)
Passed(p) == p.source.success /\ p.target.success /\ p.source.address # p.target.address
CheckWork(w) ==
  /\ w.op \in PreOps => (w.spec.emptyDb => w.warn)
  /\ w.op = "preSave" => w.fail \/ Passed(w)
CheckInv == ReadyWasChecked /\ \A h \in Handlers : CheckWork(req[h])

NoSecret(digest) ==
  digest # Nothing => \A e \in {digest.reader, digest.writer} :
                        e.password = "" /\ e.sentinelPassword = ""
DigestInv ==
  /\ DigestHoldsNoSecret
  /\ \A h \in Handlers : req[h].op \in PreOps => NoSecret(req[h].digest)

-----------------------------------------------------------------------------
(* The operators.                                                          *)

(* tasks.normalizeSpec is idempotent: decodeTask, which normalizes what it *)
(* reads, returns a stored row as it is.                                   *)
LEMMA Normalized ==
  ASSUME NEW spec, DOMAIN spec = TaskFields
  PROVE  Normal(NormalizeTask(spec))
<1> DEFINE n == NormalizeTask(spec)
<1>1. /\ DOMAIN n = TaskFields
      /\ n = [f \in TaskFields |-> n[f]]
      /\ \A f \in TaskFields : n[f] = NormalizeField(spec, f)
  BY DEF NormalizeTask
<1>2. NormalizeTask(n) = [f \in TaskFields |-> NormalizeField(n, f)]
  BY <1>1 DEF NormalizeTask
<1> HIDE DEF n
<1>3. n["mode"] = spec["mode"]
  <2>1. NormalizeField(spec, "mode") = spec["mode"]
    BY DEF NormalizeField
  <2> QED BY <1>1, <2>1 DEF TaskFields
<1>4. ASSUME NEW f \in {"sync", "scan"}
      PROVE  NormalizeField(n, f) = n[f]
  <2>1. f \in TaskFields
    BY DEF TaskFields
  <2>2. \A s : NormalizeField(s, f) = ReaderOptions(s, f)
    BY DEF NormalizeField
  <2>3. DefaultOptions(f).on
    BY DEF DefaultOptions
  <2> QED BY <1>1, <1>3, <2>1, <2>2, <2>3 DEF ReaderOptions
<1>5. ASSUME NEW f \in TaskFields, f \notin {"sync", "scan"}
      PROVE  NormalizeField(n, f) = n[f]
  BY <1>1, <1>5 DEF NormalizeField
<1>6. NormalizeTask(n) = n
  BY <1>1, <1>2, <1>4, <1>5
<1> QED BY <1>1, <1>6 DEF Normal, n

(* A row toStored could seal opens under the key it was sealed with.       *)
LEMMA SealedOpens ==
  ASSUME NEW spec, CanEncrypt(spec)
  PROVE  DOMAIN ToStored(spec) = Fields /\ CanResolve(ToStored(spec))
  BY DEF CanEncrypt, ToStored, CanResolve, Encrypt, Opens, NoText, Fields

(* redactCredentials empties every password of a document.                 *)
LEMMA Redacted ==
  ASSUME NEW spec, NEW source, NEW target
  PROVE  NoSecret(RedactCredentials(Render(spec, source, target).doc))
  BY DEF NoSecret, RedactCredentials, RedactEndpoint, Render, Endpoint

(* Merge, for the paths of secret files.                                   *)
LEMMA MergedFiles ==
  ASSUME NEW f, NEW g, NEW p, NEW text
  PROVE  /\ Holds(f, p, text) => Holds(Merge(f, g), p, text)
         /\ Holds(g, p, text) /\ p \notin DOMAIN f => Holds(Merge(f, g), p, text)
  BY DEF Holds, Merge

(* buildTLS: every secret that is set gets a file, under its own prefix.   *)
LEMMA SecretFilesOf ==
  ASSUME NEW conn, NEW prefix, NEW field, NEW enabled, NEW k \in TlsSecrets,
         enabled, conn[field[k]] # ""
  PROVE  Holds(SecretFiles(conn, prefix, field, enabled), <<prefix, k>>, conn[field[k]])
<1> DEFINE D == {<<prefix, j>> : j \in {i \in TlsSecrets : enabled /\ conn[field[i]] # ""}}
<1>1. <<prefix, k>> \in D
  OBVIOUS
<1>2. SecretFiles(conn, prefix, field, enabled) = [p \in D |-> conn[field[p[2]]]]
  BY DEF SecretFiles
<1>3. <<prefix, k>>[2] = k
  OBVIOUS
<1> HIDE DEF D
<1> QED BY <1>1, <1>2, <1>3 DEF Holds

(* and under no other.                                                     *)
LEMMA SecretFilesOnly ==
  ASSUME NEW conn, NEW prefix, NEW field, NEW enabled
  PROVE  \A p \in DOMAIN SecretFiles(conn, prefix, field, enabled) : p[1] = prefix
<1> DEFINE J == {i \in TlsSecrets : enabled /\ conn[field[i]] # ""}
<1>1. DOMAIN SecretFiles(conn, prefix, field, enabled) = {<<prefix, j>> : j \in J}
  BY DEF SecretFiles
<1> HIDE DEF J
<1> QED BY <1>1

(* buildEndpoint: the files of an endpoint and of its sentinel, under two  *)
(* prefixes.                                                               *)
LEMMA EndpointFilesOf ==
  ASSUME NEW conn, NEW prefix, NEW sentinelPrefix, prefix # sentinelPrefix
  PROVE  /\ FilesOf(conn, prefix, sentinelPrefix, EndpointFiles(conn, prefix, sentinelPrefix))
         /\ \A p \in DOMAIN EndpointFiles(conn, prefix, sentinelPrefix) :
              p[1] \in {prefix, sentinelPrefix}
<1> DEFINE f == SecretFiles(conn, prefix, TlsField, conn["tls"])
           g == SecretFiles(conn, sentinelPrefix, SentinelField, conn["sentinelTls"])
<1>1. \A p \in DOMAIN f : p[1] = prefix
  BY SecretFilesOnly
<1>2. \A p \in DOMAIN g : p[1] = sentinelPrefix
  BY SecretFilesOnly
<1>3. EndpointFiles(conn, prefix, sentinelPrefix) = Merge(f, g)
  BY DEF EndpointFiles
<1>4. ASSUME NEW k \in TlsSecrets, conn["tls"], conn[TlsField[k]] # ""
      PROVE  Holds(f, <<prefix, k>>, conn[TlsField[k]])
  BY <1>4, SecretFilesOf
<1>5. ASSUME NEW k \in TlsSecrets, conn["sentinelTls"], conn[SentinelField[k]] # ""
      PROVE  Holds(g, <<sentinelPrefix, k>>, conn[SentinelField[k]])
  BY <1>5, SecretFilesOf
<1>6. DOMAIN Merge(f, g) = DOMAIN f \cup DOMAIN g
  BY DEF Merge
<1> HIDE DEF f, g
<1>7. ASSUME NEW k \in TlsSecrets
      PROVE  <<sentinelPrefix, k>> \notin DOMAIN f
  BY <1>1
<1>8. FilesOf(conn, prefix, sentinelPrefix, Merge(f, g))
  BY <1>4, <1>5, <1>7, MergedFiles DEF FilesOf
<1> QED BY <1>1, <1>2, <1>3, <1>6, <1>8

(* Renderer.Render: the files of both endpoints are there, none over       *)
(* another.                                                                *)
LEMMA Rendered ==
  ASSUME NEW spec, NEW source, NEW target
  PROVE  LET files == Render(spec, source, target).files
         IN  /\ FilesOf(source, "source", "source-sentinel", files)
             /\ FilesOf(target, "target", "target-sentinel", files)
<1> DEFINE f == EndpointFiles(source, "source", "source-sentinel")
           g == EndpointFiles(target, "target", "target-sentinel")
<1>1. /\ FilesOf(source, "source", "source-sentinel", f)
      /\ \A p \in DOMAIN f : p[1] \in {"source", "source-sentinel"}
  BY EndpointFilesOf
<1>2. FilesOf(target, "target", "target-sentinel", g)
  BY EndpointFilesOf
<1>3. Render(spec, source, target).files = Merge(f, g)
  BY DEF Render
<1> HIDE DEF f, g
<1>4. FilesOf(source, "source", "source-sentinel", Merge(f, g))
  BY <1>1, MergedFiles DEF FilesOf
<1>5. ASSUME NEW k \in TlsSecrets
      PROVE  <<"target", k>> \notin DOMAIN f /\ <<"target-sentinel", k>> \notin DOMAIN f
  BY <1>1
<1>6. FilesOf(target, "target", "target-sentinel", Merge(f, g))
  BY <1>2, <1>5, MergedFiles DEF FilesOf
<1> QED BY <1>3, <1>4, <1>6

-----------------------------------------------------------------------------
(* Which action writes what: each table, the process and a handler's       *)
(* request are left alone by all others.                                   *)

ConnsMove ==
  \/ UNCHANGED conns
  \/ \E h \in Handlers : \/ \E input \in ConnInputs : CreateConn(h, input)
                         \/ UpdateConnWrite(h) \/ CopyConnWrite(h)
                         \/ TestWrite(h) \/ PrecheckTestWrite(h)
                         \/ \E c \in DOMAIN conns : DeleteConn(h, c)
IssuedMove == issued \subseteq issued' /\ issued' \subseteq issued \cup Conns \cup Tasks
TasksMove ==
  \/ UNCHANGED tasks
  \/ \E h \in Handlers : \/ CreateTaskWrite(h) \/ UpdateTaskWrite(h) \/ PrecheckSave(h)
                         \/ \E t \in DOMAIN tasks : ArchiveTask(h, t)
RunsMove ==
  \/ UNCHANGED runs
  \/ \E h \in Handlers : StartInsert(h)
  \/ \E t \in DOMAIN runs : RunEnds(t)
ServerMove ==
  \/ UNCHANGED <<server, key>>
  \/ ServerStop
  \/ \E k \in MasterKeys \cup {NoKey} : ServerStart(k)
ReqMove(h) ==
  \/ req'[h] = req[h] \/ req'[h] = Idle
  \/ \E c \in DOMAIN conns : \/ \E patch \in ConnPatches : UpdateConnRead(h, c, patch)
                             \/ CopyConnRead(h, c)
                             \/ \E purpose \in {"source", "target"} : TestRead(h, c, purpose)
  \/ \E input \in TaskInputs : CreateTaskCheck(h, input)
  \/ \E t \in DOMAIN tasks : \/ CopyTaskRead(h, t) \/ StartRead(h, t)
                             \/ \E patch \in TaskPatches : UpdateTaskRead(h, t, patch)
                             \/ \E ack \in BOOLEAN : PrecheckRead(h, t, ack)
  \/ PrecheckTestRead(h) \/ PrecheckTestWrite(h) \/ PrecheckResolve(h) \/ StartResolve(h)
Moves ==
  /\ IssuedMove /\ ConnsMove /\ TasksMove /\ RunsMove /\ ServerMove
  /\ DOMAIN req' = Handlers /\ \A h \in Handlers : ReqMove(h)

(* Every step of Next is one of those, for every table.                    *)
LEMMA NextMoves ==
  ASSUME DOMAIN req = Handlers, [Next]_vars
  PROVE  Moves
<1>1. ASSUME NEW h \in Handlers, NEW input \in ConnInputs, CreateConn(h, input)
      PROVE  Moves
  <2>1. /\ UNCHANGED <<tasks, runs, server, key>> /\ IssuedMove
        /\ req' = [req EXCEPT ![h] = Idle]
    BY <1>1 DEF CreateConn, InsertConn, Begin, IssuedMove
  <2> QED BY <1>1, <2>1 DEF Moves, IssuedMove, ConnsMove, TasksMove, RunsMove, ServerMove, ReqMove
<1>2. ASSUME NEW h \in Handlers, NEW c \in DOMAIN conns, NEW patch \in ConnPatches,
             UpdateConnRead(h, c, patch)
      PROVE  Moves
  <2>1. /\ UNCHANGED <<conns, tasks, runs, server, key, issued>>
        /\ DOMAIN req' = Handlers /\ \A g \in Handlers \ {h} : req'[g] = req[g]
    BY <1>2 DEF UpdateConnRead, Begin, store
  <2> QED BY <1>2, <2>1 DEF Moves, IssuedMove, ConnsMove, TasksMove, RunsMove, ServerMove, ReqMove
<1>3. ASSUME NEW h \in Handlers, NEW c \in DOMAIN conns, DeleteConn(h, c)
      PROVE  Moves
  <2>1. /\ UNCHANGED <<tasks, runs, server, key, issued>>
        /\ req' = [req EXCEPT ![h] = Idle]
    BY <1>3 DEF DeleteConn, Begin
  <2> QED BY <1>3, <2>1 DEF Moves, IssuedMove, ConnsMove, TasksMove, RunsMove, ServerMove, ReqMove
<1>4. ASSUME NEW h \in Handlers, NEW c \in DOMAIN conns, CopyConnRead(h, c)
      PROVE  Moves
  <2>1. /\ UNCHANGED <<conns, tasks, runs, server, key, issued>>
        /\ DOMAIN req' = Handlers /\ \A g \in Handlers \ {h} : req'[g] = req[g]
    BY <1>4 DEF CopyConnRead, Begin, store
  <2> QED BY <1>4, <2>1 DEF Moves, IssuedMove, ConnsMove, TasksMove, RunsMove, ServerMove, ReqMove
<1>5. ASSUME NEW h \in Handlers, NEW c \in DOMAIN conns, NEW purpose \in {"source", "target"},
             TestRead(h, c, purpose)
      PROVE  Moves
  <2>1. /\ UNCHANGED <<conns, tasks, runs, server, key, issued>>
        /\ DOMAIN req' = Handlers /\ \A g \in Handlers \ {h} : req'[g] = req[g]
    BY <1>5 DEF TestRead, Begin, store
  <2> QED BY <1>5, <2>1 DEF Moves, IssuedMove, ConnsMove, TasksMove, RunsMove, ServerMove, ReqMove
<1>6. ASSUME NEW h \in Handlers, NEW input \in TaskInputs, CreateTaskCheck(h, input)
      PROVE  Moves
  <2>1. /\ UNCHANGED <<conns, tasks, runs, server, key, issued>>
        /\ DOMAIN req' = Handlers /\ \A g \in Handlers \ {h} : req'[g] = req[g]
    BY <1>6 DEF CreateTaskCheck, Begin, store
  <2> QED BY <1>6, <2>1 DEF Moves, IssuedMove, ConnsMove, TasksMove, RunsMove, ServerMove, ReqMove
<1>7. ASSUME NEW h \in Handlers, NEW t \in DOMAIN tasks, CopyTaskRead(h, t)
      PROVE  Moves
  <2>1. /\ UNCHANGED <<conns, tasks, runs, server, key, issued>>
        /\ DOMAIN req' = Handlers /\ \A g \in Handlers \ {h} : req'[g] = req[g]
    BY <1>7 DEF CopyTaskRead, Begin, store
  <2> QED BY <1>7, <2>1 DEF Moves, IssuedMove, ConnsMove, TasksMove, RunsMove, ServerMove, ReqMove
<1>8. ASSUME NEW h \in Handlers, NEW t \in DOMAIN tasks, NEW patch \in TaskPatches,
             UpdateTaskRead(h, t, patch)
      PROVE  Moves
  <2>1. /\ UNCHANGED <<conns, tasks, runs, server, key, issued>>
        /\ DOMAIN req' = Handlers /\ \A g \in Handlers \ {h} : req'[g] = req[g]
    BY <1>8 DEF UpdateTaskRead, Begin, store
  <2> QED BY <1>8, <2>1 DEF Moves, IssuedMove, ConnsMove, TasksMove, RunsMove, ServerMove, ReqMove
<1>9. ASSUME NEW h \in Handlers, NEW t \in DOMAIN tasks, ArchiveTask(h, t)
      PROVE  Moves
  <2>1. /\ UNCHANGED <<conns, runs, server, key, issued>>
        /\ req' = [req EXCEPT ![h] = Idle]
    BY <1>9 DEF ArchiveTask, Begin
  <2> QED BY <1>9, <2>1 DEF Moves, IssuedMove, ConnsMove, TasksMove, RunsMove, ServerMove, ReqMove
<1>10. ASSUME NEW h \in Handlers, NEW t \in DOMAIN tasks, NEW ack \in BOOLEAN,
             PrecheckRead(h, t, ack)
      PROVE  Moves
  <2>1. /\ UNCHANGED <<conns, tasks, runs, server, key, issued>>
        /\ DOMAIN req' = Handlers /\ \A g \in Handlers \ {h} : req'[g] = req[g]
    BY <1>10 DEF PrecheckRead, Begin, store
  <2> QED BY <1>10, <2>1 DEF Moves, IssuedMove, ConnsMove, TasksMove, RunsMove, ServerMove, ReqMove
<1>11. ASSUME NEW h \in Handlers, NEW t \in DOMAIN tasks, StartRead(h, t)
      PROVE  Moves
  <2>1. /\ UNCHANGED <<conns, tasks, runs, server, key, issued>>
        /\ DOMAIN req' = Handlers /\ \A g \in Handlers \ {h} : req'[g] = req[g]
    BY <1>11 DEF StartRead, Begin, store
  <2> QED BY <1>11, <2>1 DEF Moves, IssuedMove, ConnsMove, TasksMove, RunsMove, ServerMove, ReqMove
<1>12. ASSUME NEW h \in Handlers, UpdateConnWrite(h)
      PROVE  Moves
  <2>1. /\ UNCHANGED <<tasks, runs, server, key, issued>>
        /\ req' = [req EXCEPT ![h] = Idle]
    BY <1>12 DEF UpdateConnWrite, Continue
  <2> QED BY <1>12, <2>1 DEF Moves, IssuedMove, ConnsMove, TasksMove, RunsMove, ServerMove, ReqMove
<1>13. ASSUME NEW h \in Handlers, CopyConnWrite(h)
      PROVE  Moves
  <2>1. /\ UNCHANGED <<tasks, runs, server, key>> /\ IssuedMove
        /\ req' = [req EXCEPT ![h] = Idle]
    BY <1>13 DEF CopyConnWrite, InsertConn, Continue, IssuedMove
  <2> QED BY <1>13, <2>1 DEF Moves, IssuedMove, ConnsMove, TasksMove, RunsMove, ServerMove, ReqMove
<1>14. ASSUME NEW h \in Handlers, TestWrite(h)
      PROVE  Moves
  <2>1. /\ UNCHANGED <<tasks, runs, server, key, issued>>
        /\ req' = [req EXCEPT ![h] = Idle]
    BY <1>14 DEF TestWrite, Continue
  <2> QED BY <1>14, <2>1 DEF Moves, IssuedMove, ConnsMove, TasksMove, RunsMove, ServerMove, ReqMove
<1>15. ASSUME NEW h \in Handlers, CreateTaskWrite(h)
      PROVE  Moves
  <2>1. /\ UNCHANGED <<conns, runs, server, key>> /\ IssuedMove
        /\ req' = [req EXCEPT ![h] = Idle]
    BY <1>15 DEF CreateTaskWrite, InsertTask, Continue, IssuedMove
  <2> QED BY <1>15, <2>1 DEF Moves, IssuedMove, ConnsMove, TasksMove, RunsMove, ServerMove, ReqMove
<1>16. ASSUME NEW h \in Handlers, UpdateTaskWrite(h)
      PROVE  Moves
  <2>1. /\ UNCHANGED <<conns, runs, server, key, issued>>
        /\ req' = [req EXCEPT ![h] = Idle]
    BY <1>16 DEF UpdateTaskWrite, Continue
  <2> QED BY <1>16, <2>1 DEF Moves, IssuedMove, ConnsMove, TasksMove, RunsMove, ServerMove, ReqMove
<1>17. ASSUME NEW h \in Handlers, PrecheckTestRead(h)
      PROVE  Moves
  <2>1. /\ UNCHANGED <<conns, tasks, runs, server, key, issued>>
        /\ DOMAIN req' = Handlers /\ \A g \in Handlers \ {h} : req'[g] = req[g]
    BY <1>17 DEF PrecheckTestRead, Continue, store
  <2> QED BY <1>17, <2>1 DEF Moves, IssuedMove, ConnsMove, TasksMove, RunsMove, ServerMove, ReqMove
<1>18. ASSUME NEW h \in Handlers, PrecheckTestWrite(h)
      PROVE  Moves
  <2>1. /\ UNCHANGED <<tasks, runs, server, key, issued>>
        /\ DOMAIN req' = Handlers /\ \A g \in Handlers \ {h} : req'[g] = req[g]
    BY <1>18 DEF PrecheckTestWrite, Continue
  <2> QED BY <1>18, <2>1 DEF Moves, IssuedMove, ConnsMove, TasksMove, RunsMove, ServerMove, ReqMove
<1>19. ASSUME NEW h \in Handlers, PrecheckResolve(h)
      PROVE  Moves
  <2>1. /\ UNCHANGED <<conns, tasks, runs, server, key, issued>>
        /\ DOMAIN req' = Handlers /\ \A g \in Handlers \ {h} : req'[g] = req[g]
    BY <1>19 DEF PrecheckResolve, Continue, store
  <2> QED BY <1>19, <2>1 DEF Moves, IssuedMove, ConnsMove, TasksMove, RunsMove, ServerMove, ReqMove
<1>20. ASSUME NEW h \in Handlers, PrecheckSave(h)
      PROVE  Moves
  <2>1. /\ UNCHANGED <<conns, runs, server, key, issued>>
        /\ req' = [req EXCEPT ![h] = Idle]
    BY <1>20 DEF PrecheckSave, Continue
  <2> QED BY <1>20, <2>1 DEF Moves, IssuedMove, ConnsMove, TasksMove, RunsMove, ServerMove, ReqMove
<1>21. ASSUME NEW h \in Handlers, StartResolve(h)
      PROVE  Moves
  <2>1. /\ UNCHANGED <<conns, tasks, runs, server, key, issued>>
        /\ DOMAIN req' = Handlers /\ \A g \in Handlers \ {h} : req'[g] = req[g]
    BY <1>21 DEF StartResolve, Continue, store
  <2> QED BY <1>21, <2>1 DEF Moves, IssuedMove, ConnsMove, TasksMove, RunsMove, ServerMove, ReqMove
<1>22. ASSUME NEW h \in Handlers, StartInsert(h)
      PROVE  Moves
  <2>1. /\ UNCHANGED <<conns, tasks, server, key, issued>>
        /\ req' = [req EXCEPT ![h] = Idle]
    BY <1>22 DEF StartInsert, Continue
  <2> QED BY <1>22, <2>1 DEF Moves, IssuedMove, ConnsMove, TasksMove, RunsMove, ServerMove, ReqMove
<1>23. ASSUME NEW t \in DOMAIN runs, RunEnds(t)
      PROVE  Moves
  <2>1. UNCHANGED <<conns, tasks, issued, req, server, key>>
    BY <1>23 DEF RunEnds
  <2> QED BY <1>23, <2>1 DEF Moves, IssuedMove, ConnsMove, TasksMove, RunsMove, ServerMove, ReqMove
<1>24. ASSUME NEW k \in MasterKeys \cup {NoKey}, ServerStart(k)
      PROVE  Moves
  <2>1. UNCHANGED <<conns, tasks, runs, issued, req>>
    BY <1>24 DEF ServerStart, store
  <2> QED BY <1>24, <2>1 DEF Moves, IssuedMove, ConnsMove, TasksMove, RunsMove, ServerMove, ReqMove
<1>25. CASE ServerStop
  <2>1. UNCHANGED <<conns, tasks, runs, issued>> /\ DOMAIN req' = Handlers
        /\ \A g \in Handlers : req'[g] = Idle
    BY <1>25 DEF ServerStop, store
  <2> QED BY <1>25, <2>1 DEF Moves, IssuedMove, ConnsMove, TasksMove, RunsMove, ServerMove, ReqMove
<1>26. CASE UNCHANGED vars
  BY <1>26 DEF Moves, IssuedMove, ConnsMove, TasksMove, RunsMove, ServerMove, ReqMove, vars, store
<1> QED
  <2>1. ASSUME NEW h \in Handlers, ConnRequest(h)
        PROVE  Moves
    BY <2>1, <1>1, <1>2, <1>3, <1>4, <1>5 DEF ConnRequest
  <2>2. ASSUME NEW h \in Handlers, TaskRequest(h)
        PROVE  Moves
    BY <2>2, <1>6, <1>7, <1>8, <1>9, <1>10, <1>11 DEF TaskRequest
  <2>3. ASSUME NEW h \in Handlers, Work(h)
        PROVE  Moves
    BY <2>3, <1>12, <1>13, <1>14, <1>15, <1>16, <1>17, <1>18, <1>19, <1>20, <1>21, <1>22
       DEF Work
  <2> QED BY <2>1, <2>2, <2>3, <1>23, <1>24, <1>25, <1>26 DEF Next

-----------------------------------------------------------------------------
(* Rows of table tasks and the requests that read them.                    *)

TaskRowOK(row) ==
  /\ DOMAIN row = TaskRow /\ Normal(row.spec)
  /\ row.state \in {"DRAFT", "READY", "ARCHIVED"} /\ row.rev \in Nat \ {0}
Kept(old, new) ==
  \/ new.rev = old.rev /\ new.spec = old.spec
  \/ new.rev = old.rev + 1
TasksOK ==
  /\ DOMAIN tasks \subseteq DOMAIN tasks' /\ DOMAIN tasks' \subseteq issued'
  /\ \A t \in DOMAIN tasks' : TaskRowOK(tasks'[t])
  /\ \A t \in DOMAIN tasks : Kept(tasks[t], tasks'[t])

(* decodeTask returns what is stored.                                      *)
LEMMA Decoded ==
  ASSUME TaskInv, NEW t \in DOMAIN tasks
  PROVE  DecodeTask(t) = tasks[t].spec /\ Normal(DecodeTask(t))
  BY DEF TaskInv, Normal, DecodeTask

(* No statement on table tasks takes a row or a revision back, or changes  *)
(* what a row holds without a new revision.                                *)
LEMMA TasksStep ==
  ASSUME TaskInv, [Next]_vars
  PROVE  TasksOK
<1>1. DOMAIN tasks \subseteq issued /\ issued \subseteq issued'
  BY NextMoves DEF TaskInv, TypeOK, Moves, IssuedMove
<1>2. \A t \in DOMAIN tasks : TaskRowOK(tasks[t])
  BY DEF TaskInv, TypeOK, TaskRowOK
<1>3. CASE UNCHANGED tasks
  BY <1>1, <1>2, <1>3 DEF TasksOK, Kept
<1>4. ASSUME NEW h \in Handlers, CreateTaskWrite(h)
      PROVE  TasksOK
  <2> DEFINE row == [spec |-> req[h].spec, state |-> "DRAFT", rev |-> 1, precheck |-> Nothing]
  <2>1. PICK t \in Tasks : InsertTask(t, req[h].spec)
    BY <1>4 DEF CreateTaskWrite
  <2>2. t \notin DOMAIN tasks /\ issued' = issued \cup {t} /\ tasks' = AddRow(tasks, t, row)
    BY <1>1, <2>1 DEF InsertTask
  <2>3. Normal(req[h].spec)
    BY <1>4 DEF CreateTaskWrite, At, TaskInv, TaskWork
  <2>4. TaskRowOK(row)
    BY <2>3 DEF TaskRowOK, TaskRow
  <2> HIDE DEF row
  <2>5. /\ DOMAIN tasks' = DOMAIN tasks \cup {t} /\ tasks'[t] = row
        /\ \A x \in DOMAIN tasks : tasks'[x] = tasks[x]
    BY <2>2 DEF AddRow, Merge
  <2> QED BY <1>1, <1>2, <2>2, <2>4, <2>5 DEF TasksOK, Kept
<1>5. ASSUME NEW h \in Handlers, UpdateTaskWrite(h)
      PROVE  TasksOK
  <2> DEFINE t == req[h].id
             row == [spec |-> req[h].spec, state |-> "DRAFT", rev |-> req[h].rev + 1,
                     precheck |-> Nothing]
  <2>1. t \in DOMAIN tasks /\ Normal(req[h].spec) /\ req[h].rev \in Nat
    BY <1>5 DEF UpdateTaskWrite, At, TaskInv, TaskWork, ReadAt
  <2>2. \/ UNCHANGED tasks
        \/ tasks[t].rev = req[h].rev /\ tasks' = [tasks EXCEPT ![t] = row]
    BY <1>5 DEF UpdateTaskWrite, Matches
  <2>3. TaskRowOK(row) /\ row.rev = req[h].rev + 1
    BY <2>1 DEF TaskRowOK, TaskRow
  <2> HIDE DEF t, row
  <2> QED BY <1>1, <1>2, <1>3, <2>1, <2>2, <2>3 DEF TasksOK, Kept
<1>6. ASSUME NEW h \in Handlers, PrecheckSave(h)
      PROVE  TasksOK
  <2> DEFINE t == req[h].id
             state == IF Ready(req[h]) THEN "READY" ELSE "DRAFT"
  <2>1. t \in DOMAIN tasks
    BY <1>6 DEF PrecheckSave, At, TaskInv, TaskWork, ReadAt, PreOps
  <2>2. \/ UNCHANGED tasks
        \/ \E p : tasks' = [tasks EXCEPT ![t].state = state, ![t].precheck = p]
    BY <1>6 DEF PrecheckSave
  <2>3. state \in {"DRAFT", "READY", "ARCHIVED"}
    OBVIOUS
  <2> HIDE DEF t, state
  <2>4. ASSUME NEW p, tasks' = [tasks EXCEPT ![t].state = state, ![t].precheck = p]
        PROVE  TasksOK
    <3>1. /\ DOMAIN tasks' = DOMAIN tasks
          /\ \A x \in DOMAIN tasks : x # t => tasks'[x] = tasks[x]
          /\ tasks'[t] = [tasks[t] EXCEPT !.state = state, !.precheck = p]
      BY <2>1, <2>4
    <3>2. DOMAIN tasks[t] = TaskRow
      BY <1>2, <2>1 DEF TaskRowOK
    <3>3. /\ DOMAIN tasks'[t] = TaskRow /\ tasks'[t].spec = tasks[t].spec
          /\ tasks'[t].rev = tasks[t].rev /\ tasks'[t].state = state
      BY <3>1, <3>2 DEF TaskRow
    <3> QED BY <1>1, <1>2, <2>1, <2>3, <3>1, <3>3 DEF TasksOK, TaskRowOK, Kept
  <2> QED BY <1>3, <2>2, <2>4
<1>7. ASSUME NEW h \in Handlers, NEW t \in DOMAIN tasks, ArchiveTask(h, t)
      PROVE  TasksOK
  <2>1. tasks' = [tasks EXCEPT ![t].state = "ARCHIVED"]
    BY <1>7 DEF ArchiveTask
  <2>2. /\ DOMAIN tasks' = DOMAIN tasks
        /\ \A x \in DOMAIN tasks : x # t => tasks'[x] = tasks[x]
        /\ tasks'[t] = [tasks[t] EXCEPT !.state = "ARCHIVED"]
    BY <2>1
  <2>3. DOMAIN tasks[t] = TaskRow
    BY <1>2 DEF TaskRowOK
  <2>4. /\ DOMAIN tasks'[t] = TaskRow /\ tasks'[t].spec = tasks[t].spec
        /\ tasks'[t].rev = tasks[t].rev /\ tasks'[t].state = "ARCHIVED"
    BY <2>2, <2>3 DEF TaskRow
  <2> QED BY <1>1, <1>2, <2>2, <2>4 DEF TasksOK, TaskRowOK, Kept
<1> QED
  BY <1>3, <1>4, <1>5, <1>6, <1>7, NextMoves DEF Moves, TasksMove, TaskInv, TypeOK

(* What a request read is still what the row holds, or the row has moved   *)
(* on for good.                                                            *)
LEMMA StillRead ==
  ASSUME TaskInv, TasksOK, NEW w, NEW spec, ReadAt(w, spec)
  PROVE  /\ w.id \in DOMAIN tasks'
         /\ w.rev \in Nat /\ w.rev <= tasks'[w.id].rev
         /\ w.rev = tasks'[w.id].rev => spec = tasks'[w.id].spec
<1>1. w.id \in DOMAIN tasks /\ tasks[w.id].rev \in Nat
  BY DEF TaskInv, TypeOK, ReadAt
<1>2. Kept(tasks[w.id], tasks'[w.id]) /\ w.id \in DOMAIN tasks'
  BY <1>1 DEF TasksOK
<1> QED BY <1>1, <1>2 DEF Kept, ReadAt

(* A precheck that goes on keeps what it read of its task.                 *)
LEMMA WorkGoesOn ==
  ASSUME TaskInv, TasksOK, NEW h \in Handlers, NEW w, req[h].op \in PreOps,
         DOMAIN w = DOMAIN req[h], w.op \in PreOps,
         w.id = req[h].id, w.rev = req[h].rev, w.spec = req[h].spec, req'[h] = w
  PROVE  TaskWork(req[h])'
<1>1. DOMAIN req[h] = PreFields /\ ReadAt(req[h], req[h].spec)
  BY DEF TaskInv, TaskWork
<1>2. /\ w.id \in DOMAIN tasks'
      /\ w.rev \in Nat /\ w.rev <= tasks'[w.id].rev
      /\ w.rev = tasks'[w.id].rev => w.spec = tasks'[w.id].spec
  BY <1>1, StillRead
<1>3. w.op \notin {"insertTask", "updateTask", "updateConn", "copyConn"}
  BY DEF PreOps
<1> QED BY <1>1, <1>2, <1>3 DEF TaskWork, ReadAt

(* A precheck's connection test: the request goes on, or is given up.       *)
LEMMA TestWritten ==
  ASSUME NEW h \in Handlers, DOMAIN req = Handlers, DOMAIN req[h] = PreFields,
         PrecheckTestWrite(h)
  PROVE  \/ req'[h] = Idle
         \/ /\ DOMAIN req'[h] = PreFields /\ req'[h].op \in {"preTest", "preResolve"}
            /\ req'[h].id = req[h].id /\ req'[h].rev = req[h].rev
            /\ req'[h].spec = req[h].spec /\ req'[h].digest = req[h].digest
            /\ req[h].warn => req'[h].warn
<1> DEFINE w == req[h]
           op == IF w.purpose = "source" THEN "preTest" ELSE "preResolve"
           next(result) == [w EXCEPT !.op = op, !.fail = @ \/ ~result.success,
                              !.warn = @ \/ result.warning,
                              !.purpose = "target", !.conn = None, !.row = Nothing]
<1>1. PICK fault \in Faults \cup {None} :
        LET result == Check(Resolved(w.row), w.purpose, fault)
        IN  \/ req' = [req EXCEPT ![h] = Idle]
            \/ req' = [req EXCEPT ![h] = [next(result) EXCEPT !.source = result]]
            \/ req' = [req EXCEPT ![h] = [next(result) EXCEPT !.target = result]]
  BY DEF PrecheckTestWrite, Continue
<1> DEFINE result == Check(Resolved(w.row), w.purpose, fault)
           n == next(result)
<1>2. /\ DOMAIN n = PreFields /\ n.op \in {"preTest", "preResolve"}
      /\ n.id = w.id /\ n.rev = w.rev /\ n.spec = w.spec /\ n.digest = w.digest
      /\ w.warn => n.warn
  BY DEF PreFields
<1>3. \/ req'[h] = Idle
      \/ req'[h] = [n EXCEPT !.source = result]
      \/ req'[h] = [n EXCEPT !.target = result]
  BY <1>1
<1> HIDE DEF n, result
<1> QED BY <1>2, <1>3 DEF PreFields

(* Every request, read or continued, keeps TaskWork.                       *)
LEMMA TaskWorkStep ==
  ASSUME TaskInv, [Next]_vars, NEW h \in Handlers
  PROVE  TaskWork(req[h])'
<1>1. TasksOK
  BY TasksStep
<1>2. DOMAIN req = Handlers /\ ReqMove(h) /\ TaskWork(req[h])
  BY NextMoves DEF TaskInv, TypeOK, Moves
<1>3. CASE req'[h] = req[h]
  <2>1. req[h].op = "updateTask" => ReadAt(req[h], req[h].base)'
    BY <1>1, <1>2, <1>3, StillRead DEF TaskWork, ReadAt
  <2>2. req[h].op \in PreOps \cup StartOps => ReadAt(req[h], req[h].spec)'
    BY <1>1, <1>2, <1>3, StillRead DEF TaskWork, ReadAt
  <2> QED BY <1>2, <1>3, <2>1, <2>2 DEF TaskWork
<1>4. CASE req'[h] = Idle
  BY <1>4 DEF TaskWork, Idle, PreOps, StartOps
<1>5. ASSUME NEW c \in DOMAIN conns, NEW patch \in ConnPatches, UpdateConnRead(h, c, patch)
      PROVE  TaskWork(req[h])'
  <2>1. req'[h].op = "updateConn" /\ DOMAIN req'[h].row = Fields
    BY <1>2, <1>5 DEF UpdateConnRead, Begin, ToStored
  <2> QED BY <2>1 DEF TaskWork, PreOps, StartOps
<1>6. ASSUME NEW c \in DOMAIN conns, CopyConnRead(h, c)
      PROVE  TaskWork(req[h])'
  <2>1. req'[h].op = "copyConn" /\ DOMAIN req'[h].row = Fields
    BY <1>2, <1>6 DEF CopyConnRead, Begin, ToStored
  <2> QED BY <2>1 DEF TaskWork, PreOps, StartOps
<1>7. ASSUME NEW c \in DOMAIN conns, NEW purpose \in {"source", "target"},
             TestRead(h, c, purpose)
      PROVE  TaskWork(req[h])'
  <2>1. req'[h].op = "test"
    BY <1>2, <1>7 DEF TestRead, Begin
  <2> QED BY <2>1 DEF TaskWork, PreOps, StartOps
<1>8. ASSUME NEW input \in TaskInputs, CreateTaskCheck(h, input)
      PROVE  TaskWork(req[h])'
  <2>1. req'[h] = [op |-> "insertTask", spec |-> NormalizeTask(input)]
    BY <1>2, <1>8 DEF CreateTaskCheck, Begin
  <2>2. Normal(NormalizeTask(input))
    BY TaskInputShape, Normalized
  <2> QED BY <2>1, <2>2 DEF TaskWork, PreOps, StartOps, Normal
<1>9. ASSUME NEW t \in DOMAIN tasks, CopyTaskRead(h, t)
      PROVE  TaskWork(req[h])'
  <2>1. req'[h] = [op |-> "insertTask", spec |-> NormalizeTask(DecodeTask(t))]
    BY <1>2, <1>9 DEF CopyTaskRead, Begin
  <2>2. Normal(NormalizeTask(DecodeTask(t)))
    BY Decoded DEF Normal
  <2> QED BY <2>1, <2>2 DEF TaskWork, PreOps, StartOps, Normal
<1>10. ASSUME NEW t \in DOMAIN tasks, StartRead(h, t)
       PROVE  TaskWork(req[h])'
  <2>1. /\ req'[h] = [op |-> "startResolve", id |-> t, rev |-> tasks[t].rev,
                      spec |-> tasks[t].spec]
        /\ UNCHANGED tasks
    BY <1>2, <1>10, Decoded DEF StartRead, Begin, store
  <2> QED BY <2>1 DEF TaskWork, ReadAt, PreOps, StartOps, TaskInv, TypeOK
<1>11. ASSUME NEW t \in DOMAIN tasks, NEW patch \in TaskPatches, UpdateTaskRead(h, t, patch)
       PROVE  TaskWork(req[h])'
  <2> DEFINE spec == NormalizeTask(ApplyTaskPatch(DecodeTask(t), patch))
  <2>1. /\ req'[h] = [op |-> "updateTask", id |-> t, rev |-> tasks[t].rev, spec |-> spec,
                      base |-> tasks[t].spec]
        /\ UNCHANGED tasks
    BY <1>2, <1>11, Decoded DEF UpdateTaskRead, Begin, store
  <2>2. DOMAIN ApplyTaskPatch(DecodeTask(t), patch) = TaskFields
    BY Decoded DEF Normal, ApplyTaskPatch
  <2>3. Normal(spec)
    BY <2>2, Normalized
  <2> HIDE DEF spec
  <2> QED BY <2>1, <2>3 DEF TaskWork, ReadAt, PreOps, StartOps, TaskInv, TypeOK, Normal
<1>12. ASSUME NEW t \in DOMAIN tasks, NEW ack \in BOOLEAN, PrecheckRead(h, t, ack)
       PROVE  TaskWork(req[h])'
  <2>1. /\ DOMAIN req'[h] = PreFields /\ req'[h].op \in PreOps
        /\ req'[h].id = t /\ req'[h].rev = tasks[t].rev /\ req'[h].spec = tasks[t].spec
        /\ UNCHANGED tasks
    BY <1>2, <1>12, Decoded DEF PrecheckRead, Begin, store, PreFields, PreOps
  <2> QED BY <2>1 DEF TaskWork, ReadAt, PreOps, StartOps, TaskInv, TypeOK
<1>13. CASE PrecheckTestRead(h)
  <2>1. PICK c, row : req'[h] \in {Idle, [req[h] EXCEPT !.op = "preTested", !.conn = c, !.row = row]}
    BY <1>2, <1>13 DEF PrecheckTestRead, Continue
  <2>2. req[h].op \in PreOps /\ DOMAIN req[h] = PreFields
    BY <1>2, <1>13 DEF PrecheckTestRead, At, PreOps, TaskWork
  <2>3. CASE req'[h] = [req[h] EXCEPT !.op = "preTested", !.conn = c, !.row = row]
    <3>1. /\ DOMAIN req'[h] = DOMAIN req[h] /\ req'[h].op \in PreOps
          /\ req'[h].id = req[h].id /\ req'[h].rev = req[h].rev /\ req'[h].spec = req[h].spec
      BY <2>2, <2>3 DEF PreFields, PreOps
    <3> QED BY <1>1, <2>2, <3>1, WorkGoesOn
  <2> QED BY <1>4, <2>1, <2>3
<1>14. CASE PrecheckTestWrite(h)
  <2>1. req[h].op \in PreOps /\ DOMAIN req[h] = PreFields
    BY <1>2, <1>14 DEF PrecheckTestWrite, At, PreOps, TaskWork
  <2>2. CASE req'[h] # Idle
    <3>1. /\ DOMAIN req'[h] = DOMAIN req[h] /\ req'[h].op \in PreOps
          /\ req'[h].id = req[h].id /\ req'[h].rev = req[h].rev /\ req'[h].spec = req[h].spec
      BY <1>2, <1>14, <2>1, <2>2, TestWritten DEF PreOps
    <3> QED BY <1>1, <2>1, <3>1, WorkGoesOn
  <2> QED BY <1>4, <2>2
<1>15. CASE PrecheckResolve(h)
  <2>1. PICK v : req'[h] \in {Idle, [req[h] EXCEPT !.op = "preSave", !.digest = v],
                              [req[h] EXCEPT !.op = "preSave", !.fail = TRUE]}
    BY <1>2, <1>15 DEF PrecheckResolve, Continue
  <2>2. req[h].op \in PreOps /\ DOMAIN req[h] = PreFields
    BY <1>2, <1>15 DEF PrecheckResolve, At, PreOps, TaskWork
  <2>3. CASE req'[h] = [req[h] EXCEPT !.op = "preSave", !.digest = v]
    <3>1. /\ DOMAIN req'[h] = DOMAIN req[h] /\ req'[h].op \in PreOps
          /\ req'[h].id = req[h].id /\ req'[h].rev = req[h].rev /\ req'[h].spec = req[h].spec
      BY <2>2, <2>3 DEF PreFields, PreOps
    <3> QED BY <1>1, <2>2, <3>1, WorkGoesOn
  <2>4. CASE req'[h] = [req[h] EXCEPT !.op = "preSave", !.fail = TRUE]
    <3>1. /\ DOMAIN req'[h] = DOMAIN req[h] /\ req'[h].op \in PreOps
          /\ req'[h].id = req[h].id /\ req'[h].rev = req[h].rev /\ req'[h].spec = req[h].spec
      BY <2>2, <2>4 DEF PreFields, PreOps
    <3> QED BY <1>1, <2>2, <3>1, WorkGoesOn
  <2> QED BY <1>4, <2>1, <2>3, <2>4
<1>16. CASE StartResolve(h)
  <2>1. \/ req'[h] = Idle
        \/ /\ req'[h].op = "startInsert" /\ req'[h].id = req[h].id
           /\ req'[h].rev = req[h].rev /\ req'[h].spec = req[h].spec
    BY <1>2, <1>16 DEF StartResolve, Continue
  <2>2. ReadAt(req[h], req[h].spec) /\ UNCHANGED tasks
    BY <1>2, <1>16 DEF StartResolve, At, TaskWork, StartOps, store
  <2> QED BY <1>4, <2>1, <2>2 DEF TaskWork, ReadAt, PreOps, StartOps
<1> QED
  BY <1>2, <1>3, <1>4, <1>5, <1>6, <1>7, <1>8, <1>9, <1>10, <1>11, <1>12, <1>13, <1>14,
     <1>15, <1>16 DEF ReqMove

-----------------------------------------------------------------------------
(* Rows of table connections: where they come from, and the key they open  *)
(* under.                                                                  *)

(* A row of connections is new and sealed by the request that writes it,   *)
(* or it was there.                                                        *)
RowFrom(c) ==
  \/ c \in DOMAIN conns /\ conns'[c].spec = conns[c].spec
  \/ /\ server = "up" /\ UNCHANGED <<server, key>>
     /\ \/ \E spec : CanEncrypt(spec) /\ conns'[c].spec = ToStored(spec)
        \/ \E h \in Handlers : /\ req[h].op \in {"updateConn", "copyConn"}
                               /\ conns'[c].spec = req[h].row
ConnsOK ==
  /\ DOMAIN conns' \subseteq issued'
  /\ \A c \in DOMAIN conns' : DOMAIN conns'[c] = ConnRow /\ RowFrom(c)

(* UpdateConnectionTestResult leaves the connection itself as it is.       *)
LEMMA TestSaved ==
  ASSUME TypeOK, NEW c \in DOMAIN conns, NEW row, NEW purpose, NEW result,
         SaveTest(c, row, purpose, result), issued \subseteq issued'
  PROVE  ConnsOK
<1> DEFINE test == [of |-> row, purpose |-> purpose, success |-> result.success]
<1>1. conns' = [conns EXCEPT ![c].tested = test]
  BY DEF SaveTest
<1>2. DOMAIN conns[c] = ConnRow
  BY DEF TypeOK
<1> HIDE DEF test
<1>3. /\ DOMAIN conns' = DOMAIN conns
      /\ \A x \in DOMAIN conns : x # c => conns'[x] = conns[x]
      /\ conns'[c] = [conns[c] EXCEPT !.tested = test]
  BY <1>1
<1>4. DOMAIN conns'[c] = ConnRow /\ conns'[c].spec = conns[c].spec
  BY <1>2, <1>3 DEF ConnRow
<1> QED BY <1>3, <1>4 DEF ConnsOK, RowFrom, TypeOK

(* Every statement on table connections writes rows of these kinds only.   *)
LEMMA ConnsStep ==
  ASSUME TaskInv, [Next]_vars
  PROVE  ConnsOK
<1>1. TypeOK /\ issued \subseteq issued'
  BY NextMoves DEF TaskInv, TypeOK, Moves, IssuedMove
<1>2. CASE UNCHANGED conns
  BY <1>1, <1>2 DEF ConnsOK, RowFrom, TypeOK
<1>3. ASSUME NEW c, NEW row, InsertConn(c, row), server = "up", UNCHANGED <<server, key>>,
             \/ \E spec : CanEncrypt(spec) /\ row = ToStored(spec)
             \/ \E h \in Handlers : req[h].op \in {"updateConn", "copyConn"} /\ row = req[h].row
      PROVE  ConnsOK
  <2> DEFINE new == [spec |-> row, tested |-> Nothing]
  <2>1. issued' = issued \cup {c} /\ conns' = AddRow(conns, c, new) /\ c \notin DOMAIN conns
    BY <1>1, <1>3 DEF InsertConn, TypeOK
  <2>2. DOMAIN new = ConnRow /\ new.spec = row
    BY DEF ConnRow
  <2> HIDE DEF new
  <2>3. /\ DOMAIN conns' = DOMAIN conns \cup {c} /\ conns'[c] = new
        /\ \A x \in DOMAIN conns : conns'[x] = conns[x]
    BY <2>1 DEF AddRow, Merge
  <2> QED BY <1>1, <1>3, <2>1, <2>2, <2>3 DEF ConnsOK, RowFrom, TypeOK
<1>4. ASSUME NEW h \in Handlers, NEW input \in ConnInputs, CreateConn(h, input)
      PROVE  ConnsOK
  <2>1. /\ server = "up" /\ UNCHANGED <<server, key>>
        /\ CanEncrypt(NormalizeConn(input))
        /\ \E c \in Conns : InsertConn(c, ToStored(NormalizeConn(input)))
    BY <1>4 DEF CreateConn, Begin
  <2> QED BY <1>3, <2>1
<1>5. ASSUME NEW h \in Handlers, UpdateConnWrite(h)
      PROVE  ConnsOK
  <2> DEFINE new == [spec |-> req[h].row, tested |-> Nothing]
  <2>1. /\ server = "up" /\ UNCHANGED <<server, key>> /\ req[h].op = "updateConn"
        /\ \/ UNCHANGED conns
           \/ req[h].id \in DOMAIN conns /\ conns' = [conns EXCEPT ![req[h].id] = new]
    BY <1>5 DEF UpdateConnWrite, At, Continue
  <2>2. DOMAIN new = ConnRow /\ new.spec = req[h].row
    BY DEF ConnRow
  <2> HIDE DEF new
  <2> QED BY <1>1, <1>2, <2>1, <2>2 DEF ConnsOK, RowFrom, TypeOK
<1>6. ASSUME NEW h \in Handlers, CopyConnWrite(h)
      PROVE  ConnsOK
  <2>1. /\ server = "up" /\ UNCHANGED <<server, key>> /\ req[h].op = "copyConn"
        /\ \E c \in Conns : InsertConn(c, req[h].row)
    BY <1>6 DEF CopyConnWrite, At, Continue
  <2> QED BY <1>3, <2>1
<1>7. ASSUME NEW h \in Handlers, NEW c \in DOMAIN conns, DeleteConn(h, c)
      PROVE  ConnsOK
  <2>1. /\ DOMAIN conns' = DOMAIN conns \ {c}
        /\ \A x \in DOMAIN conns' : conns'[x] = conns[x]
    BY <1>7 DEF DeleteConn, Restrict
  <2> QED BY <1>1, <2>1 DEF ConnsOK, RowFrom, TypeOK
<1>8. ASSUME NEW h \in Handlers, TestWrite(h)
      PROVE  ConnsOK
  <2>1. \/ UNCHANGED conns
        \/ \E result : req[h].id \in DOMAIN conns
                       /\ SaveTest(req[h].id, req[h].row, req[h].purpose, result)
    BY <1>8 DEF TestWrite
  <2> QED BY <1>1, <1>2, <2>1, TestSaved
<1>9. ASSUME NEW h \in Handlers, PrecheckTestWrite(h)
      PROVE  ConnsOK
  <2>1. \/ UNCHANGED conns
        \/ \E result : req[h].conn \in DOMAIN conns
                       /\ SaveTest(req[h].conn, req[h].row, req[h].purpose, result)
    BY <1>9 DEF PrecheckTestWrite
  <2> QED BY <1>1, <1>2, <2>1, TestSaved
<1> QED
  BY <1>2, <1>4, <1>5, <1>6, <1>7, <1>8, <1>9, NextMoves DEF Moves, ConnsMove, TaskInv, TypeOK

-----------------------------------------------------------------------------
(* Types, revisions and requests together.                                 *)

(* An empty store.                                                         *)
LEMMA InitTaskInv ==
  ASSUME Init
  PROVE  TaskInv
  BY DEF Init, TaskInv, TypeOK, TaskWork, Idle, PreOps, StartOps, NoKey

(* Every step preserves types, revisions and what requests have read.      *)
LEMMA TaskInvStep ==
  ASSUME TaskInv, [Next]_vars
  PROVE  TaskInv'
<1>1. TasksOK /\ ConnsOK /\ Moves
  BY TasksStep, ConnsStep, NextMoves DEF TaskInv, TypeOK
<1>2. (DOMAIN conns \cup DOMAIN tasks)' \subseteq issued' /\ issued' \subseteq Conns \cup Tasks
  BY <1>1 DEF TasksOK, ConnsOK, Moves, IssuedMove, TaskInv, TypeOK
<1>3. \A c \in DOMAIN conns' : DOMAIN conns'[c] = ConnRow /\ DOMAIN conns'[c].spec = Fields
  <2>1. \A spec : DOMAIN ToStored(spec) = Fields
    BY DEF ToStored
  <2> QED BY <1>1, <2>1 DEF ConnsOK, RowFrom, TaskInv, TypeOK, TaskWork
<1>4. \A t \in DOMAIN tasks' : /\ DOMAIN tasks'[t] = TaskRow
                               /\ DOMAIN tasks'[t].spec = TaskFields
                               /\ tasks'[t].state \in {"DRAFT", "READY", "ARCHIVED"}
                               /\ tasks'[t].rev \in Nat \ {0}
                               /\ Normal(tasks'[t].spec)
  BY <1>1 DEF TasksOK, TaskRowOK, Normal
<1>5. DOMAIN runs' \subseteq DOMAIN tasks'
  <2>1. DOMAIN runs \subseteq DOMAIN tasks /\ DOMAIN tasks \subseteq DOMAIN tasks'
    BY <1>1 DEF TasksOK, TaskInv, TypeOK
  <2>2. ASSUME NEW h \in Handlers, StartInsert(h)
        PROVE  DOMAIN runs' \subseteq DOMAIN tasks'
    <3>1. req[h].id \in DOMAIN tasks
      BY <2>2 DEF StartInsert, At, TaskInv, TaskWork, ReadAt, StartOps
    <3>2. DOMAIN runs' \subseteq DOMAIN runs \cup {req[h].id}
      BY <2>2 DEF StartInsert, AddRow, Merge
    <3> QED BY <2>1, <3>1, <3>2
  <2>3. ASSUME NEW t \in DOMAIN runs, RunEnds(t)
        PROVE  DOMAIN runs' \subseteq DOMAIN tasks'
    BY <2>1, <2>3 DEF RunEnds, Restrict
  <2> QED BY <1>1, <2>1, <2>2, <2>3 DEF Moves, RunsMove
<1>6. DOMAIN req' = Handlers
  BY <1>1 DEF Moves
<1>7. server' \in {"up", "down"} /\ (server' = "down" => key' = NoKey)
  BY <1>1 DEF Moves, ServerMove, ServerStart, ServerStop, TaskInv, TypeOK
<1>8. \A h \in Handlers : TaskWork(req[h])'
  BY TaskWorkStep
<1>9. (\A h \in Handlers : TaskWork(req[h]))'
  BY <1>8
<1> QED BY <1>2, <1>3, <1>4, <1>5, <1>6, <1>7, <1>9 DEF TaskInv, TypeOK, Normal

(* TaskInv is an invariant.                                                *)
LEMMA TaskInvAlways == Spec => []TaskInv
<1>1. Init => TaskInv
  BY InitTaskInv
<1>2. TaskInv /\ [Next]_vars => TaskInv'
  BY TaskInvStep
<1> QED BY <1>1, <1>2, PTL DEF Spec

(* The tables of the control plane hold rows of their shape under issued   *)
(* identifiers, with revisions from 1 on, for any number of requests.      *)
THEOREM Types == Spec => []TypeOK
<1>1. TaskInv => TypeOK
  BY DEF TaskInv
<1> QED BY <1>1, TaskInvAlways, PTL

-----------------------------------------------------------------------------
(* What may happen to a row of table tasks.                                *)

Result(w) == [rev |-> w.rev, ready |-> Ready(w), of |-> w.spec, source |-> w.source,
              target |-> w.target, ack |-> w.ack, digest |-> w.digest]

RowKept(t) == t \in DOMAIN tasks /\ tasks'[t] = tasks[t]
RowInserted(t) ==
  /\ t \notin DOMAIN tasks /\ UNCHANGED conns
  /\ ReferencesFound(tasks'[t].spec)
  /\ tasks'[t].state = "DRAFT" /\ tasks'[t].precheck = Nothing
RowEdited(t) ==
  /\ t \in DOMAIN tasks /\ tasks[t].state # "ARCHIVED" /\ UNCHANGED conns
  /\ ReferencesFound(tasks'[t].spec)
  /\ \E h \in Handlers : req[h].op = "updateTask" /\ req[h].base = tasks[t].spec
  /\ tasks'[t].state = "DRAFT" /\ tasks'[t].precheck = Nothing
RowChecked(t) ==
  /\ t \in DOMAIN tasks /\ tasks[t].state # "ARCHIVED" /\ UNCHANGED conns
  /\ \E h \in Handlers :
       /\ req[h].op = "preSave" /\ req[h].rev = tasks[t].rev /\ req[h].spec = tasks[t].spec
       /\ tasks'[t].state = IF Ready(req[h]) THEN "READY" ELSE "DRAFT"
       /\ tasks'[t].precheck = Result(req[h])
       /\ tasks'[t].spec = tasks[t].spec /\ tasks'[t].rev = tasks[t].rev
RowArchived(t) ==
  /\ t \in DOMAIN tasks /\ tasks[t].state # "ARCHIVED" /\ UNCHANGED conns
  /\ tasks'[t].state = "ARCHIVED" /\ tasks'[t].precheck = tasks[t].precheck
  /\ tasks'[t].spec = tasks[t].spec /\ tasks'[t].rev = tasks[t].rev
RowMove(t) ==
  RowKept(t) \/ RowInserted(t) \/ RowEdited(t) \/ RowChecked(t) \/ RowArchived(t)

(* Every step of Next does one of these to every row.                      *)
LEMMA RowMoves ==
  ASSUME TaskInv, [Next]_vars
  PROVE  \A t \in DOMAIN tasks' : RowMove(t)
<1>1. \A t \in DOMAIN tasks : DOMAIN tasks[t] = TaskRow
  BY DEF TaskInv, TypeOK
<1>2. CASE UNCHANGED tasks
  BY <1>2 DEF RowMove, RowKept
<1>3. ASSUME NEW h \in Handlers, CreateTaskWrite(h)
      PROVE  \A t \in DOMAIN tasks' : RowMove(t)
  <2> DEFINE row == [spec |-> req[h].spec, state |-> "DRAFT", rev |-> 1, precheck |-> Nothing]
  <2>1. PICK t \in Tasks : InsertTask(t, req[h].spec)
    BY <1>3 DEF CreateTaskWrite
  <2>2. /\ t \notin DOMAIN tasks /\ tasks' = AddRow(tasks, t, row) /\ UNCHANGED conns
        /\ ReferencesFound(req[h].spec)
    BY <2>1 DEF InsertTask, ReferencesFound, TaskInv, TypeOK
  <2>3. row.spec = req[h].spec /\ row.state = "DRAFT" /\ row.precheck = Nothing
    OBVIOUS
  <2> HIDE DEF row
  <2>4. /\ DOMAIN tasks' = DOMAIN tasks \cup {t} /\ tasks'[t] = row
        /\ \A x \in DOMAIN tasks : tasks'[x] = tasks[x]
    BY <2>2 DEF AddRow, Merge
  <2> QED BY <2>2, <2>3, <2>4 DEF RowMove, RowKept, RowInserted
<1>4. ASSUME NEW h \in Handlers, UpdateTaskWrite(h)
      PROVE  \A t \in DOMAIN tasks' : RowMove(t)
  <2> DEFINE t == req[h].id
             row == [spec |-> req[h].spec, state |-> "DRAFT", rev |-> req[h].rev + 1,
                     precheck |-> Nothing]
  <2>1. req[h].op = "updateTask" /\ t \in DOMAIN tasks /\ UNCHANGED conns
    BY <1>4 DEF UpdateTaskWrite, At, TaskInv, TaskWork, ReadAt
  <2>2. \/ UNCHANGED tasks
        \/ /\ tasks[t].rev = req[h].rev /\ tasks[t].state # "ARCHIVED"
           /\ ReferencesFound(req[h].spec) /\ tasks' = [tasks EXCEPT ![t] = row]
    BY <1>4 DEF UpdateTaskWrite, Matches
  <2>3. tasks[t].rev = req[h].rev => req[h].base = tasks[t].spec
    BY <2>1 DEF TaskInv, TaskWork, ReadAt
  <2>4. row.spec = req[h].spec /\ row.state = "DRAFT" /\ row.precheck = Nothing
    OBVIOUS
  <2> HIDE DEF t, row
  <2> QED BY <1>2, <2>1, <2>2, <2>3, <2>4 DEF RowMove, RowKept, RowEdited
<1>5. ASSUME NEW h \in Handlers, PrecheckSave(h)
      PROVE  \A t \in DOMAIN tasks' : RowMove(t)
  <2> DEFINE t == req[h].id
             state == IF Ready(req[h]) THEN "READY" ELSE "DRAFT"
             result == Result(req[h])
  <2>1. req[h].op = "preSave" /\ t \in DOMAIN tasks /\ UNCHANGED conns
    BY <1>5 DEF PrecheckSave, At, TaskInv, TaskWork, ReadAt, PreOps
  <2>2. \/ UNCHANGED tasks
        \/ /\ tasks[t].rev = req[h].rev /\ tasks[t].state # "ARCHIVED"
           /\ tasks' = [tasks EXCEPT ![t].state = state, ![t].precheck = result]
    BY <1>5 DEF PrecheckSave, Matches, Result
  <2>3. tasks[t].rev = req[h].rev => req[h].spec = tasks[t].spec
    BY <2>1 DEF TaskInv, TaskWork, ReadAt, PreOps
  <2> HIDE DEF t, state, result
  <2>4. CASE tasks' = [tasks EXCEPT ![t].state = state, ![t].precheck = result]
    <3>1. /\ DOMAIN tasks' = DOMAIN tasks
          /\ \A x \in DOMAIN tasks : x # t => tasks'[x] = tasks[x]
          /\ tasks'[t] = [tasks[t] EXCEPT !.state = state, !.precheck = result]
      BY <2>1, <2>4
    <3>2. /\ tasks'[t].spec = tasks[t].spec /\ tasks'[t].rev = tasks[t].rev
          /\ tasks'[t].state = state /\ tasks'[t].precheck = result
      BY <1>1, <2>1, <3>1 DEF TaskRow
    <3>3. \/ UNCHANGED tasks
          \/ RowChecked(t)
      BY <2>1, <2>2, <2>3, <3>2 DEF RowChecked, state, result
    <3> QED BY <1>2, <3>1, <3>3 DEF RowMove, RowKept
  <2> QED BY <1>2, <2>2, <2>4
<1>6. ASSUME NEW h \in Handlers, NEW t \in DOMAIN tasks, ArchiveTask(h, t)
      PROVE  \A x \in DOMAIN tasks' : RowMove(x)
  <2>1. /\ tasks[t].state # "ARCHIVED" /\ UNCHANGED conns
        /\ tasks' = [tasks EXCEPT ![t].state = "ARCHIVED"]
    BY <1>6 DEF ArchiveTask
  <2>2. /\ DOMAIN tasks' = DOMAIN tasks
        /\ \A x \in DOMAIN tasks : x # t => tasks'[x] = tasks[x]
        /\ tasks'[t] = [tasks[t] EXCEPT !.state = "ARCHIVED"]
    BY <2>1
  <2>3. /\ tasks'[t].spec = tasks[t].spec /\ tasks'[t].rev = tasks[t].rev
        /\ tasks'[t].state = "ARCHIVED" /\ tasks'[t].precheck = tasks[t].precheck
    BY <1>1, <2>2 DEF TaskRow
  <2>4. RowArchived(t)
    BY <2>1, <2>3 DEF RowArchived
  <2> QED BY <2>2, <2>4 DEF RowMove, RowKept
<1> QED
  BY <1>2, <1>3, <1>4, <1>5, <1>6, NextMoves DEF Moves, TasksMove, TaskInv, TypeOK

(* Optimistic concurrency on tasks: what is written over a row was made    *)
(* from what the row held, and an archived row stays as it is.             *)
THEOREM EditsAreNotLost == Spec => NoLostTaskEdit
<1> DEFINE NoLost == \A t \in DOMAIN tasks :
             /\ tasks'[t].spec # tasks[t].spec =>
                  \E h \in Handlers : req[h].op = "updateTask" /\ req[h].base = tasks[t].spec
             /\ tasks[t].state = "ARCHIVED" => tasks'[t] = tasks[t]
<1>1. TaskInv /\ [Next]_vars => NoLost
  <2> SUFFICES ASSUME TaskInv, [Next]_vars
               PROVE  NoLost
    OBVIOUS
  <2>1. \A t \in DOMAIN tasks : t \in DOMAIN tasks' /\ RowMove(t)
    BY TasksStep, RowMoves DEF TasksOK
  <2> QED
    BY <2>1 DEF RowMove, RowKept, RowInserted, RowEdited, RowChecked, RowArchived
<1>2. TaskInv /\ [Next]_vars => [NoLost]_vars
  BY <1>1
<1> QED BY <1>2, TaskInvAlways, PTL DEF Spec, NoLostTaskEdit

(* The foreign keys: a task's connections exist, whatever is deleted while *)
(* a request that named them is on its way.                                *)
LEMMA ReferencesStep ==
  ASSUME TaskInv, ReferencesHold, [Next]_vars
  PROVE  ReferencesHold'
<1>1. \A t \in DOMAIN tasks' : RowMove(t)
  BY RowMoves
<1>2. CASE DOMAIN conns \subseteq DOMAIN conns'
  BY <1>1, <1>2 DEF ReferencesHold, ReferencesFound, RowMove, RowKept, RowInserted, RowEdited,
                    RowChecked, RowArchived
<1>3. ASSUME NEW h \in Handlers, NEW c \in DOMAIN conns, DeleteConn(h, c)
      PROVE  ReferencesHold'
  <2>1. UNCHANGED tasks /\ DOMAIN conns' = DOMAIN conns \ {c} /\ ~Referenced(c)
    BY <1>3 DEF DeleteConn, Restrict
  <2> QED BY <2>1 DEF ReferencesHold, ReferencesFound, Referenced
<1>4. ASSUME NEW c, NEW row, InsertConn(c, row)
      PROVE  DOMAIN conns \subseteq DOMAIN conns'
  BY <1>4 DEF InsertConn, AddRow, Merge
<1>5. ASSUME NEW h \in Handlers, NEW input \in ConnInputs, CreateConn(h, input)
      PROVE  DOMAIN conns \subseteq DOMAIN conns'
  BY <1>4, <1>5 DEF CreateConn
<1>6. ASSUME NEW h \in Handlers, UpdateConnWrite(h)
      PROVE  DOMAIN conns \subseteq DOMAIN conns'
  BY <1>6 DEF UpdateConnWrite
<1>7. ASSUME NEW h \in Handlers, CopyConnWrite(h)
      PROVE  DOMAIN conns \subseteq DOMAIN conns'
  BY <1>4, <1>7 DEF CopyConnWrite
<1>8. ASSUME NEW h \in Handlers, TestWrite(h)
      PROVE  DOMAIN conns \subseteq DOMAIN conns'
  BY <1>8 DEF TestWrite, SaveTest
<1>9. ASSUME NEW h \in Handlers, PrecheckTestWrite(h)
      PROVE  DOMAIN conns \subseteq DOMAIN conns'
  BY <1>9 DEF PrecheckTestWrite, SaveTest
<1> QED
  BY <1>2, <1>3, <1>5, <1>6, <1>7, <1>8, <1>9, NextMoves DEF Moves, ConnsMove, TaskInv, TypeOK

-----------------------------------------------------------------------------
(* Prechecks and runs.                                                     *)

(* A saved precheck is not the absence of one.                             *)
LEMMA ResultIsSomething ==
  ASSUME NEW w
  PROVE  Result(w) # Nothing
<1>1. "rev" \in DOMAIN Result(w) /\ "rev" \notin DOMAIN Nothing
  BY DEF Result, Nothing
<1> QED BY <1>1

(* What a precheck's request has established so far.                       *)
LEMMA CheckWorkStep ==
  ASSUME TaskInv, CheckInv, [Next]_vars, NEW h \in Handlers
  PROVE  CheckWork(req[h])'
<1>1. DOMAIN req = Handlers /\ ReqMove(h) /\ TaskWork(req[h]) /\ CheckWork(req[h])
  BY NextMoves DEF TaskInv, TypeOK, Moves, CheckInv
<1>2. CASE req'[h] = req[h]
  BY <1>1, <1>2 DEF CheckWork, Passed
<1>3. CASE req'[h].op \notin PreOps
  BY <1>3 DEF CheckWork, PreOps
<1>4. CASE req'[h] = Idle
  BY <1>3, <1>4 DEF Idle, PreOps
<1>5. ASSUME NEW c \in DOMAIN conns, NEW patch \in ConnPatches, UpdateConnRead(h, c, patch)
      PROVE  req'[h].op \notin PreOps
  BY <1>1, <1>5 DEF UpdateConnRead, Begin, PreOps
<1>6. ASSUME NEW c \in DOMAIN conns, CopyConnRead(h, c)
      PROVE  req'[h].op \notin PreOps
  BY <1>1, <1>6 DEF CopyConnRead, Begin, PreOps
<1>7. ASSUME NEW c \in DOMAIN conns, NEW purpose \in {"source", "target"},
             TestRead(h, c, purpose)
      PROVE  req'[h].op \notin PreOps
  BY <1>1, <1>7 DEF TestRead, Begin, PreOps
<1>8. ASSUME NEW input \in TaskInputs, CreateTaskCheck(h, input)
      PROVE  req'[h].op \notin PreOps
  BY <1>1, <1>8 DEF CreateTaskCheck, Begin, PreOps
<1>9. ASSUME NEW t \in DOMAIN tasks, CopyTaskRead(h, t)
      PROVE  req'[h].op \notin PreOps
  BY <1>1, <1>9 DEF CopyTaskRead, Begin, PreOps
<1>10. ASSUME NEW t \in DOMAIN tasks, StartRead(h, t)
       PROVE  req'[h].op \notin PreOps
  BY <1>1, <1>10 DEF StartRead, Begin, PreOps
<1>11. ASSUME NEW t \in DOMAIN tasks, NEW patch \in TaskPatches, UpdateTaskRead(h, t, patch)
       PROVE  req'[h].op \notin PreOps
  BY <1>1, <1>11 DEF UpdateTaskRead, Begin, PreOps
<1>12. ASSUME NEW t \in DOMAIN tasks, NEW ack \in BOOLEAN, PrecheckRead(h, t, ack)
       PROVE  CheckWork(req[h])'
  <2> DEFINE spec == DecodeTask(t)
  <2>1. /\ req'[h].op = "preSave" => req'[h].fail
        /\ req'[h].spec = spec /\ req'[h].warn = spec.emptyDb
    BY <1>1, <1>12 DEF PrecheckRead, Begin
  <2> QED BY <2>1 DEF CheckWork
<1>13. CASE PrecheckTestRead(h)
  <2>1. req[h].op \in PreOps /\ DOMAIN req[h] = PreFields
    BY <1>1, <1>13 DEF PrecheckTestRead, At, PreOps, TaskWork
  <2>2. PICK c, row : req'[h] \in {Idle, [req[h] EXCEPT !.op = "preTested", !.conn = c, !.row = row]}
    BY <1>1, <1>13 DEF PrecheckTestRead, Continue
  <2>3. CASE req'[h] = [req[h] EXCEPT !.op = "preTested", !.conn = c, !.row = row]
    <3>1. /\ req'[h].op = "preTested" /\ req'[h].spec = req[h].spec
          /\ req'[h].warn = req[h].warn
      BY <2>1, <2>3 DEF PreFields
    <3> QED BY <1>1, <2>1, <3>1 DEF CheckWork
  <2> QED BY <1>4, <2>2, <2>3
<1>14. CASE PrecheckTestWrite(h)
  <2>1. req[h].op \in PreOps /\ DOMAIN req[h] = PreFields
    BY <1>1, <1>14 DEF PrecheckTestWrite, At, PreOps, TaskWork
  <2>2. CASE req'[h] # Idle
    <3>1. /\ req'[h].op # "preSave" /\ req'[h].spec = req[h].spec
          /\ req[h].warn => req'[h].warn
      BY <1>1, <1>14, <2>1, <2>2, TestWritten
    <3> QED BY <1>1, <2>1, <3>1 DEF CheckWork
  <2> QED BY <1>4, <2>2
<1>15. CASE PrecheckResolve(h)
  <2> DEFINE w == req[h]
  <2>1. w.op \in PreOps /\ DOMAIN w = PreFields
    BY <1>1, <1>15 DEF PrecheckResolve, At, PreOps, TaskWork
  <2>2. PICK v : \/ req'[h] = Idle
                 \/ Passed(w) /\ req'[h] = [w EXCEPT !.op = "preSave", !.digest = v]
                 \/ req'[h] = [w EXCEPT !.op = "preSave", !.fail = TRUE]
    BY <1>1, <1>15 DEF PrecheckResolve, Continue, Passed
  <2>3. CASE Passed(w) /\ req'[h] = [w EXCEPT !.op = "preSave", !.digest = v]
    <3>1. /\ req'[h].spec = w.spec /\ req'[h].warn = w.warn
          /\ req'[h].source = w.source /\ req'[h].target = w.target
      BY <2>1, <2>3 DEF PreFields
    <3> QED BY <1>1, <2>1, <2>3, <3>1 DEF CheckWork, Passed
  <2>4. CASE req'[h] = [w EXCEPT !.op = "preSave", !.fail = TRUE]
    <3>1. req'[h].spec = w.spec /\ req'[h].warn = w.warn /\ req'[h].fail
      BY <2>1, <2>4 DEF PreFields
    <3> QED BY <1>1, <2>1, <3>1 DEF CheckWork
  <2> QED BY <1>4, <2>2, <2>3, <2>4
<1>16. CASE StartResolve(h)
  <2>1. req'[h].op \notin PreOps
    BY <1>1, <1>16 DEF StartResolve, Continue, PreOps, Idle
  <2> QED BY <1>3, <2>1
<1> QED
  BY <1>1, <1>2, <1>3, <1>4, <1>5, <1>6, <1>7, <1>8, <1>9, <1>10, <1>11, <1>12, <1>13, <1>14,
     <1>15, <1>16 DEF ReqMove

(* A row becomes READY only by a precheck of what the row still holds.     *)
LEMMA CheckInvStep ==
  ASSUME TaskInv, ReferencesHold, CheckInv, [Next]_vars
  PROVE  CheckInv'
<1>1. \A t \in DOMAIN tasks' : RowMove(t)
  BY RowMoves
<1>2. ReferencesHold'
  BY ReferencesStep
<1>3. ASSUME NEW t \in DOMAIN tasks', tasks'[t].state = "READY"
      PROVE  LET p == tasks'[t].precheck
             IN  /\ p # Nothing /\ p.ready /\ p.rev = tasks'[t].rev /\ p.of = tasks'[t].spec
                 /\ p.source.success /\ p.target.success
                 /\ p.source.address # p.target.address
                 /\ (tasks'[t].spec.emptyDb => p.ack)
  <2>1. CASE RowKept(t)
    BY <1>3, <2>1 DEF RowKept, CheckInv, ReadyWasChecked
  <2>2. CASE RowChecked(t)
    <3>1. PICK h \in Handlers :
            /\ req[h].op = "preSave" /\ req[h].rev = tasks[t].rev /\ req[h].spec = tasks[t].spec
            /\ tasks'[t].state = IF Ready(req[h]) THEN "READY" ELSE "DRAFT"
            /\ tasks'[t].precheck = Result(req[h])
            /\ tasks'[t].spec = tasks[t].spec /\ tasks'[t].rev = tasks[t].rev
      BY <2>2 DEF RowChecked
    <3>2. Ready(req[h])
      BY <1>3, <3>1
    <3>3. CheckWork(req[h]) /\ req[h].op \in PreOps
      BY <3>1 DEF CheckInv, PreOps
    <3>4. Passed(req[h]) /\ (req[h].spec.emptyDb => req[h].ack)
      BY <3>1, <3>2, <3>3 DEF CheckWork, Ready
    <3>5. tasks'[t].precheck # Nothing
      BY <3>1, ResultIsSomething
    <3> QED BY <3>1, <3>2, <3>4, <3>5 DEF Result, Passed
  <2> QED
    BY <1>1, <1>3, <2>1, <2>2 DEF RowMove, RowInserted, RowEdited, RowArchived
<1>4. ReadyWasChecked'
  BY <1>2, <1>3 DEF ReadyWasChecked, ReferencesHold
<1>5. \A h \in Handlers : CheckWork(req[h])'
  BY CheckWorkStep
<1> QED BY <1>4, <1>5 DEF CheckInv

(* CheckInv is an invariant, with the foreign keys it needs.               *)
LEMMA CheckInvAlways == Spec => [](TaskInv /\ ReferencesHold /\ CheckInv)
<1>1. Init => ReferencesHold /\ CheckInv
  BY DEF Init, ReferencesHold, CheckInv, ReadyWasChecked, CheckWork, Idle, PreOps
<1>2. TaskInv /\ ReferencesHold /\ CheckInv /\ [Next]_vars => (ReferencesHold /\ CheckInv)'
  BY ReferencesStep, CheckInvStep
<1> QED BY <1>1, <1>2, TaskInvAlways, PTL DEF Spec

(* MarkTaskReady and SaveTaskPrecheckResult compare the revision the       *)
(* precheck read: a READY task is the configuration that was checked.      *)
THEOREM ReadyMeansChecked == Spec => []ReadyWasChecked
<1>1. CheckInv => ReadyWasChecked
  BY DEF CheckInv
<1> QED BY <1>1, CheckInvAlways, PTL

(* CreateRunIfNoActive compares state and revision in the statement that   *)
(* inserts the run: it starts from a configuration a precheck found ready. *)
THEOREM RunsAreChecked == Spec => RunsStartChecked
<1> DEFINE Inv == TaskInv /\ ReferencesHold /\ CheckInv
           Checked == \A t \in DOMAIN runs' \ DOMAIN runs :
                        /\ tasks[t].state = "READY" /\ tasks[t].precheck.ready
                        /\ runs'[t].spec = tasks[t].precheck.of
                        /\ runs'[t].rev = tasks[t].precheck.rev
<1>1. Inv /\ [Next]_vars => Checked
  <2> SUFFICES ASSUME TaskInv, CheckInv, [Next]_vars
               PROVE  Checked
    OBVIOUS
  <2>1. CASE UNCHANGED runs
    BY <2>1
  <2>2. ASSUME NEW t \in DOMAIN runs, RunEnds(t)
        PROVE  Checked
    BY <2>2 DEF RunEnds, Restrict
  <2>3. ASSUME NEW h \in Handlers, StartInsert(h)
        PROVE  Checked
    <3> DEFINE w == req[h]
               run == [spec |-> w.spec, rev |-> w.rev, source |-> w.source, target |-> w.target,
                       files |-> Render(w.spec, w.source, w.target).files]
    <3>1. w.id \in DOMAIN tasks /\ (w.rev = tasks[w.id].rev => w.spec = tasks[w.id].spec)
      BY <2>3 DEF StartInsert, At, TaskInv, TaskWork, ReadAt, StartOps
    <3>2. \/ UNCHANGED runs
          \/ /\ tasks[w.id].state = "READY" /\ tasks[w.id].rev = w.rev
             /\ runs' = AddRow(runs, w.id, run)
      BY <2>3 DEF StartInsert
    <3>3. run.spec = w.spec /\ run.rev = w.rev
      OBVIOUS
    <3> HIDE DEF run
    <3>4. CASE /\ tasks[w.id].state = "READY" /\ tasks[w.id].rev = w.rev
               /\ runs' = AddRow(runs, w.id, run)
      <4>1. DOMAIN runs' \ DOMAIN runs \subseteq {w.id} /\ runs'[w.id] = run
        BY <3>4 DEF AddRow, Merge
      <4>2. LET p == tasks[w.id].precheck
            IN  p.ready /\ p.rev = tasks[w.id].rev /\ p.of = tasks[w.id].spec
        BY <3>1, <3>4 DEF CheckInv, ReadyWasChecked
      <4> QED BY <3>1, <3>3, <3>4, <4>1, <4>2
    <3> QED BY <2>1, <3>2, <3>4
  <2> QED BY <2>1, <2>2, <2>3, NextMoves DEF Moves, RunsMove, TaskInv, TypeOK
<1>2. Inv /\ [Next]_vars => [Checked]_vars
  BY <1>1
<1> QED BY <1>2, CheckInvAlways, PTL DEF Spec, RunsStartChecked

-----------------------------------------------------------------------------
(* Credentials.                                                            *)

(* A row a handler has sealed opens under the key it was sealed with.      *)
LEMMA SealedWorkStep ==
  ASSUME TaskInv, SecretInv, [Next]_vars, UNCHANGED key, NEW h \in Handlers
  PROVE  req'[h].op \in {"updateConn", "copyConn"} => CanResolve(req'[h].row)
<1> DEFINE Other == req'[h].op \notin {"updateConn", "copyConn"}
<1>1. DOMAIN req = Handlers /\ ReqMove(h)
  BY NextMoves DEF TaskInv, TypeOK, Moves
<1>2. CASE req'[h] = req[h]
  BY <1>2 DEF SecretInv
<1>3. ASSUME NEW c \in DOMAIN conns, NEW patch \in ConnPatches, UpdateConnRead(h, c, patch)
      PROVE  CanResolve(req'[h].row)
  <2> DEFINE spec == NormalizeConn(ApplyConnPatch(Resolved(StoredConn(c)), patch))
  <2>1. req'[h].row = ToStored(spec) /\ CanEncrypt(spec)
    BY <1>1, <1>3 DEF UpdateConnRead, Begin
  <2> QED BY <2>1, SealedOpens
<1>4. ASSUME NEW c \in DOMAIN conns, CopyConnRead(h, c)
      PROVE  CanResolve(req'[h].row)
  <2> DEFINE old  == Resolved(StoredConn(c))
             spec == NormalizeConn(old)
  <2>1. req'[h].row = ToStored(spec) /\ CanResolve(StoredConn(c))
    BY <1>1, <1>4 DEF CopyConnRead, Begin
  <2>2. SecretFields \subseteq Fields /\ SecretFields \cap Switches = {}
    BY DEF Fields, SecretFields, Switches, TlsSecrets, SentinelSecrets
  <2>3. key = NoKey => \A f \in SecretFields : old[f] = ""
    <3>1. NoText.text = ""
      BY DEF NoText
    <3>2. \A f \in SecretFields : old[f] = StoredConn(c)[f].text
      BY <2>2 DEF Resolved
    <3> QED BY <2>1, <3>1, <3>2 DEF CanResolve, Opens
  <2>4. PICK fields : spec = Blank(old, fields)
    BY DEF NormalizeConn
  <2> HIDE DEF old, spec
  <2>5. \A f \in SecretFields : spec[f] = IF f \in fields THEN "" ELSE old[f]
    BY <2>2, <2>4 DEF Blank
  <2>6. CanEncrypt(spec)
    BY <2>3, <2>5 DEF CanEncrypt
  <2> QED BY <2>1, <2>6, SealedOpens
<1>5. ASSUME NEW c \in DOMAIN conns, NEW purpose \in {"source", "target"},
             TestRead(h, c, purpose)
      PROVE  Other
  BY <1>1, <1>5 DEF TestRead, Begin
<1>6. ASSUME NEW input \in TaskInputs, CreateTaskCheck(h, input)
      PROVE  Other
  BY <1>1, <1>6 DEF CreateTaskCheck, Begin
<1>7. ASSUME NEW t \in DOMAIN tasks, CopyTaskRead(h, t)
      PROVE  Other
  BY <1>1, <1>7 DEF CopyTaskRead, Begin
<1>8. ASSUME NEW t \in DOMAIN tasks, StartRead(h, t)
      PROVE  Other
  BY <1>1, <1>8 DEF StartRead, Begin
<1>9. ASSUME NEW t \in DOMAIN tasks, NEW patch \in TaskPatches, UpdateTaskRead(h, t, patch)
      PROVE  Other
  BY <1>1, <1>9 DEF UpdateTaskRead, Begin
<1>10. ASSUME NEW t \in DOMAIN tasks, NEW ack \in BOOLEAN, PrecheckRead(h, t, ack)
       PROVE  Other
  BY <1>1, <1>10 DEF PrecheckRead, Begin
<1>11. ASSUME PrecheckTestRead(h)
       PROVE  Other
  <2>1. DOMAIN req[h] = PreFields
    BY <1>11 DEF PrecheckTestRead, At, PreOps, TaskInv, TaskWork
  <2>2. PICK c, row : \/ req'[h] = Idle
                      \/ req'[h] = [req[h] EXCEPT !.op = "preTested", !.conn = c, !.row = row]
    BY <1>1, <1>11 DEF PrecheckTestRead, Continue
  <2>3. CASE req'[h] = [req[h] EXCEPT !.op = "preTested", !.conn = c, !.row = row]
    <3>1. req'[h].op = "preTested"
      BY <2>1, <2>3 DEF PreFields
    <3> QED BY <3>1
  <2>4. CASE req'[h] = Idle
    BY <2>4 DEF Idle
  <2> QED BY <2>2, <2>3, <2>4
<1>12. ASSUME PrecheckTestWrite(h)
       PROVE  Other
  <2>1. DOMAIN req[h] = PreFields
    BY <1>12 DEF PrecheckTestWrite, At, PreOps, TaskInv, TaskWork
  <2> QED BY <1>1, <1>12, <2>1, TestWritten DEF Idle
<1>13. ASSUME PrecheckResolve(h)
       PROVE  Other
  <2>1. DOMAIN req[h] = PreFields
    BY <1>13 DEF PrecheckResolve, At, PreOps, TaskInv, TaskWork
  <2>2. PICK v : \/ req'[h] = Idle
                 \/ req'[h] = [req[h] EXCEPT !.op = "preSave", !.digest = v]
                 \/ req'[h] = [req[h] EXCEPT !.op = "preSave", !.fail = TRUE]
    BY <1>1, <1>13 DEF PrecheckResolve, Continue
  <2>3. CASE \/ req'[h] = [req[h] EXCEPT !.op = "preSave", !.digest = v]
             \/ req'[h] = [req[h] EXCEPT !.op = "preSave", !.fail = TRUE]
    <3>1. req'[h].op = "preSave"
      BY <2>1, <2>3 DEF PreFields
    <3> QED BY <3>1
  <2>4. CASE req'[h] = Idle
    BY <2>4 DEF Idle
  <2> QED BY <2>2, <2>3, <2>4
<1>14. ASSUME StartResolve(h)
       PROVE  Other
  BY <1>1, <1>14 DEF StartResolve, Continue, Idle
<1>15. CASE req'[h] = Idle
  BY <1>15 DEF Idle
<1> QED
  BY <1>1, <1>2, <1>3, <1>4, <1>5, <1>6, <1>7, <1>8, <1>9, <1>10, <1>11, <1>12, <1>13, <1>14,
     <1>15 DEF ReqMove

(* Rows and requests open under the serving process's key after every step, *)
(* restarts included.                                                      *)
LEMMA SecretInvStep ==
  ASSUME TaskInv, SecretInv, [Next]_vars
  PROVE  SecretInv'
<1>1. ConnsOK /\ Moves
  BY ConnsStep, NextMoves DEF TaskInv, TypeOK
<1>2. CASE UNCHANGED <<server, key>>
  <2>1. \A h \in Handlers : req'[h].op \in {"updateConn", "copyConn"} => CanResolve(req'[h].row)
    BY <1>2, SealedWorkStep
  <2>2. \A h \in Handlers : (req[h].op \in {"updateConn", "copyConn"} => CanResolve(req[h].row))'
    BY <1>2, <2>1 DEF CanResolve, Opens
  <2>3. StoredSecretsOpen'
    <3> SUFFICES ASSUME server = "up", NEW c \in DOMAIN conns'
                 PROVE  CanResolve(conns'[c].spec)
      BY <1>2 DEF StoredSecretsOpen, CanResolve, Opens
    <3>1. RowFrom(c)
      BY <1>1 DEF ConnsOK
    <3>2. CASE c \in DOMAIN conns /\ conns'[c].spec = conns[c].spec
      BY <3>2 DEF SecretInv, StoredSecretsOpen
    <3>3. ASSUME NEW spec, CanEncrypt(spec), conns'[c].spec = ToStored(spec)
          PROVE  CanResolve(conns'[c].spec)
      BY <3>3, SealedOpens
    <3>4. ASSUME NEW h \in Handlers, req[h].op \in {"updateConn", "copyConn"},
                 conns'[c].spec = req[h].row
          PROVE  CanResolve(conns'[c].spec)
      BY <3>4 DEF SecretInv
    <3> QED BY <3>1, <3>2, <3>3, <3>4 DEF RowFrom
  <2>4. server' = "down" => \A h \in Handlers : req'[h] = Idle
    <3> SUFFICES ASSUME server = "down", NEW h \in Handlers
                 PROVE  req'[h] \in {req[h], Idle}
      BY <1>2 DEF SecretInv
    <3> QED
      BY <1>1 DEF Moves, ReqMove, UpdateConnRead, CopyConnRead, TestRead, CreateTaskCheck,
                  CopyTaskRead, StartRead, UpdateTaskRead, PrecheckRead, PrecheckTestRead,
                  PrecheckTestWrite, PrecheckResolve, StartResolve, Begin, At
  <2> QED BY <2>2, <2>3, <2>4 DEF SecretInv
<1>3. CASE ServerStop
  <2>1. server' = "down" /\ \A h \in Handlers : req'[h] = Idle
    BY <1>3 DEF ServerStop
  <2> QED BY <2>1 DEF SecretInv, StoredSecretsOpen, Idle
<1>4. ASSUME NEW k \in MasterKeys \cup {NoKey}, ServerStart(k)
      PROVE  SecretInv'
  <2>1. /\ server = "down" /\ server' = "up" /\ key' = k
        /\ UNCHANGED <<conns, req>> /\ ValidateStoredSecrets(k)
    BY <1>4 DEF ServerStart, store
  <2>2. \A h \in Handlers : req'[h] = Idle
    BY <2>1 DEF SecretInv
  <2>3. StoredSecretsOpen'
    BY <2>1 DEF StoredSecretsOpen, CanResolve, ValidateStoredSecrets
  <2> QED BY <2>1, <2>2, <2>3 DEF SecretInv, Idle
<1> QED BY <1>1, <1>2, <1>3, <1>4 DEF Moves, ServerMove

(* ValidateStoredSecrets and toStored: a process that serves can open every *)
(* stored credential, through every restart and change of key.             *)
THEOREM SecretsOpen == Spec => []StoredSecretsOpen
<1>1. Init => SecretInv
  BY DEF Init, SecretInv, StoredSecretsOpen, Idle
<1>2. TaskInv /\ SecretInv /\ [Next]_vars => SecretInv'
  BY SecretInvStep
<1>3. SecretInv => StoredSecretsOpen
  BY DEF SecretInv
<1> QED BY <1>1, <1>2, <1>3, TaskInvAlways, PTL DEF Spec

(* A precheck in progress carries no digest, or one without passwords.     *)
LEMMA DigestWorkStep ==
  ASSUME TaskInv, DigestInv, [Next]_vars, NEW h \in Handlers
  PROVE  req'[h].op \in PreOps => NoSecret(req'[h].digest)
<1>1. DOMAIN req = Handlers /\ ReqMove(h) /\ TaskWork(req[h])
  BY NextMoves DEF TaskInv, TypeOK, Moves
<1>2. CASE req'[h] = req[h]
  BY <1>2 DEF DigestInv
<1>3. ASSUME NEW t \in DOMAIN tasks, NEW ack \in BOOLEAN, PrecheckRead(h, t, ack)
      PROVE  NoSecret(req'[h].digest)
  <2>1. req'[h].digest = Nothing
    BY <1>1, <1>3 DEF PrecheckRead, Begin
  <2> QED BY <2>1 DEF NoSecret
<1>4. ASSUME PrecheckTestRead(h), req'[h] # Idle
      PROVE  NoSecret(req'[h].digest)
  <2>1. req[h].op \in PreOps /\ DOMAIN req[h] = PreFields
    BY <1>1, <1>4 DEF PrecheckTestRead, At, PreOps, TaskWork
  <2>2. PICK c, row : req'[h] = [req[h] EXCEPT !.op = "preTested", !.conn = c, !.row = row]
    BY <1>1, <1>4 DEF PrecheckTestRead, Continue
  <2>3. req'[h].digest = req[h].digest
    BY <2>1, <2>2 DEF PreFields
  <2> QED BY <2>1, <2>3 DEF DigestInv
<1>5. ASSUME PrecheckTestWrite(h), req'[h] # Idle
      PROVE  NoSecret(req'[h].digest)
  <2>1. req[h].op \in PreOps /\ DOMAIN req[h] = PreFields
    BY <1>1, <1>5 DEF PrecheckTestWrite, At, PreOps, TaskWork
  <2>2. req'[h].digest = req[h].digest
    BY <1>1, <1>5, <2>1, TestWritten
  <2> QED BY <2>1, <2>2 DEF DigestInv
<1>6. ASSUME PrecheckResolve(h), req'[h] # Idle
      PROVE  NoSecret(req'[h].digest)
  <2> DEFINE w == req[h]
             digest == RedactCredentials(Render(w.spec, Resolved(StoredConn(w.spec.source)),
                                                Resolved(StoredConn(w.spec.target))).doc)
  <2>1. w.op \in PreOps /\ DOMAIN w = PreFields
    BY <1>1, <1>6 DEF PrecheckResolve, At, PreOps, TaskWork
  <2>2. NoSecret(digest)
    BY Redacted
  <2>3. \/ req'[h] = [w EXCEPT !.op = "preSave", !.digest = digest]
        \/ req'[h] = [w EXCEPT !.op = "preSave", !.fail = TRUE]
    BY <1>1, <1>6 DEF PrecheckResolve, Continue
  <2> HIDE DEF digest
  <2>4. req'[h].digest \in {digest, w.digest}
    BY <2>1, <2>3 DEF PreFields
  <2> QED BY <2>1, <2>2, <2>4 DEF DigestInv
<1>7. Idle.op \notin PreOps
  BY DEF Idle, PreOps
<1>8. ASSUME NEW c \in DOMAIN conns,
             \/ \E patch \in ConnPatches : UpdateConnRead(h, c, patch)
             \/ CopyConnRead(h, c)
             \/ \E purpose \in {"source", "target"} : TestRead(h, c, purpose)
      PROVE  req'[h].op \notin PreOps
  BY <1>1, <1>8 DEF UpdateConnRead, CopyConnRead, TestRead, Begin, PreOps
<1>9. ASSUME NEW input \in TaskInputs, CreateTaskCheck(h, input)
      PROVE  req'[h].op \notin PreOps
  BY <1>1, <1>9 DEF CreateTaskCheck, Begin, PreOps
<1>10. ASSUME NEW t \in DOMAIN tasks,
              \/ CopyTaskRead(h, t) \/ StartRead(h, t)
              \/ \E patch \in TaskPatches : UpdateTaskRead(h, t, patch)
       PROVE  req'[h].op \notin PreOps
  BY <1>1, <1>10 DEF CopyTaskRead, StartRead, UpdateTaskRead, Begin, PreOps
<1>11. ASSUME StartResolve(h)
       PROVE  req'[h].op \notin PreOps
  BY <1>1, <1>11 DEF StartResolve, Continue, PreOps, Idle
<1> QED
  BY <1>1, <1>2, <1>3, <1>4, <1>5, <1>6, <1>7, <1>8, <1>9, <1>10, <1>11 DEF ReqMove

(* A saved digest is the one the precheck's request carried.               *)
LEMMA DigestInvStep ==
  ASSUME TaskInv, DigestInv, [Next]_vars
  PROVE  DigestInv'
<1>1. \A h \in Handlers : req'[h].op \in PreOps => NoSecret(req'[h].digest)
  BY DigestWorkStep
<1>2. ASSUME NEW t \in DOMAIN tasks', tasks'[t].precheck # Nothing
      PROVE  NoSecret(tasks'[t].precheck.digest)
  <2>1. RowMove(t)
    BY RowMoves
  <2>2. CASE RowKept(t) \/ RowArchived(t)
    BY <1>2, <2>2 DEF RowKept, RowArchived, DigestInv, DigestHoldsNoSecret, NoSecret
  <2>3. CASE RowChecked(t)
    <3>1. PICK h \in Handlers : req[h].op = "preSave" /\ tasks'[t].precheck = Result(req[h])
      BY <2>3 DEF RowChecked
    <3>2. NoSecret(req[h].digest)
      BY <3>1 DEF DigestInv, PreOps
    <3> QED BY <3>1, <3>2 DEF Result
  <2> QED BY <1>2, <2>1, <2>2, <2>3 DEF RowMove, RowInserted, RowEdited
<1>3. DigestHoldsNoSecret'
  BY <1>2 DEF DigestHoldsNoSecret, NoSecret
<1> QED BY <1>1, <1>3 DEF DigestInv, NoSecret

(* The rows of table runs are written once, with the files Render returned. *)
LEMMA RunFilesStep ==
  ASSUME TaskInv, RunFilesComplete, [Next]_vars
  PROVE  RunFilesComplete'
<1>1. CASE UNCHANGED runs
  BY <1>1 DEF RunFilesComplete, FilesOf, Holds
<1>2. ASSUME NEW t \in DOMAIN runs, RunEnds(t)
      PROVE  RunFilesComplete'
  <2>1. /\ DOMAIN runs' = DOMAIN runs \ {t}
        /\ \A x \in DOMAIN runs' : runs'[x] = runs[x]
    BY <1>2 DEF RunEnds, Restrict
  <2> QED BY <2>1 DEF RunFilesComplete
<1>3. ASSUME NEW h \in Handlers, StartInsert(h)
      PROVE  RunFilesComplete'
  <2> DEFINE w == req[h]
             run == [spec |-> w.spec, rev |-> w.rev, source |-> w.source, target |-> w.target,
                     files |-> Render(w.spec, w.source, w.target).files]
  <2>1. UNCHANGED runs \/ runs' = AddRow(runs, w.id, run)
    BY <1>3 DEF StartInsert
  <2>2. /\ FilesOf(run.source, "source", "source-sentinel", run.files)
        /\ FilesOf(run.target, "target", "target-sentinel", run.files)
    BY Rendered
  <2> HIDE DEF run
  <2>3. CASE runs' = AddRow(runs, w.id, run)
    <3>1. \A x \in DOMAIN runs' : \/ runs'[x] = run
                                  \/ x \in DOMAIN runs /\ runs'[x] = runs[x]
      BY <2>3 DEF AddRow, Merge
    <3> QED BY <2>2, <3>1 DEF RunFilesComplete
  <2> QED BY <1>1, <2>1, <2>3
<1> QED BY <1>1, <1>2, <1>3, NextMoves DEF Moves, RunsMove, TaskInv, TypeOK

(* buildTLS and redactCredentials: the run directory has every secret file *)
(* of both endpoints, and what a precheck's digest is computed from has no *)
(* password.                                                               *)
THEOREM SecretsAreInPlace == Spec => []SecretsWhereTheyBelong
<1>1. Init => DigestInv /\ RunFilesComplete
  BY DEF Init, DigestInv, DigestHoldsNoSecret, RunFilesComplete, Idle, PreOps
<1>2. TaskInv /\ DigestInv /\ [Next]_vars => DigestInv'
  BY DigestInvStep
<1>3. TaskInv /\ RunFilesComplete /\ [Next]_vars => RunFilesComplete'
  BY RunFilesStep
<1>4. DigestInv /\ RunFilesComplete => SecretsWhereTheyBelong
  BY DEF DigestInv, SecretsWhereTheyBelong
<1> QED BY <1>1, <1>2, <1>3, <1>4, TaskInvAlways, PTL DEF Spec

=============================================================================
