----------------------------- MODULE TaskConfig -----------------------------
(***************************************************************************)
(* The configuration side of the control plane: saved Redis connections,   *)
(* task definitions with their revisions, prechecks, the connection        *)
(* checker, the worker configuration a run is started with and the         *)
(* encryption of credentials at rest.  HTTP handlers run concurrently and  *)
(* every SQL statement is atomic (the store has one database connection);  *)
(* an operation that reads first and writes later is several actions, with *)
(* what it read kept in req.  A rejected request changes nothing and is    *)
(* not a step.                                                             *)
(*                                                                         *)
(* A connection is a function from field names to values.  Names, user     *)
(* names and TLS server names travel with the address through the same     *)
(* code and are left out, and so is what only formats an answer.           *)
(***************************************************************************)
EXTENDS Naturals, Functions

CONSTANTS
  Conns, Tasks,      \* identifiers ids.New can return
  Handlers,          \* concurrent HTTP requests
  MasterKeys,        \* values of REDISSHAKE_MASTER_KEY other than the empty one
  ConnInputs, ConnPatches,   \* bodies of POST and PATCH connections
  TaskInputs, TaskPatches,   \* bodies of POST and PATCH tasks
  Redis,             \* the servers: address -> what it answers
  Faults,            \* stages of a connection test where the network may fail
  MaxRequests, MaxStarts     \* bounds of the model

VARIABLES
  conns,     \* table connections: id -> [spec, tested]
  tasks,     \* table tasks: id -> [spec, state, rev, precheck]
  runs,      \* active rows of table runs: task id -> [spec, rev, source, target, files]
  issued,    \* identifiers handed out so far
  server,    \* "up" or "down"
  key,       \* the master key of the serving process
  req,       \* what each handler is doing and what it has read
  requests, starts

store == <<conns, tasks, runs, issued>>
vars  == <<store, server, key, req, requests, starts>>

None == "none"
TaskFields == {"name", "mode", "source", "target", "sync", "scan", "filter",
               "behavior", "qps", "bulkLen", "emptyDb"}

(* A decoded body has every field of the type it is decoded into.          *)
ASSUME TaskInputShape == \A input \in TaskInputs : DOMAIN input = TaskFields

Nothing == [nothing |-> TRUE]      \* no test, precheck or row yet
Idle == [op |-> "idle"]

(* A function that takes its values from f, where f has none from g; and a *)
(* table with a row added.                                                 *)
Merge(f, g) == [x \in DOMAIN f \cup DOMAIN g |-> IF x \in DOMAIN f THEN f[x] ELSE g[x]]
AddRow(table, id, row) == Merge([i \in {id} |-> row], table)

-----------------------------------------------------------------------------
(* Connections: normalisation, validation and encryption.                  *)

TlsSecrets      == {"ca", "cert", "key"}
SentinelSecrets == {"sentinelCa", "sentinelCert", "sentinelKey"}
SecretFields    == {"password", "sentinelPassword"} \cup TlsSecrets \cup SentinelSecrets
SentinelFields  == {"sentinelAddress", "sentinelMaster", "sentinelPassword",
                    "sentinelTls", "sentinelInsecure"} \cup SentinelSecrets
Fields == {"topology", "address", "tls", "insecure"} \cup SecretFields \cup SentinelFields
Switches == {"tls", "insecure", "sentinelTls", "sentinelInsecure"}

Blank(spec, fields) ==
  [f \in Fields |-> IF f \notin fields THEN spec[f]
                    ELSE IF f \in Switches THEN FALSE ELSE ""]

NormalizeConn(spec) ==
  Blank(spec, (IF spec["tls"] THEN {} ELSE TlsSecrets \cup {"insecure"}) \cup
              (IF spec["topology"] # "sentinel" THEN SentinelFields
               ELSE IF spec["sentinelTls"] THEN {}
               ELSE SentinelSecrets \cup {"sentinelInsecure"}))

ValidConn(spec) ==
  /\ spec["topology"] \in {"standalone", "sentinel", "cluster"}
  /\ IF spec["topology"] = "sentinel"
     THEN spec["sentinelAddress"] # "" /\ spec["sentinelMaster"] # ""
     ELSE spec["address"] # ""
  /\ (spec["cert"] = "") <=> (spec["key"] = "")
  /\ (spec["sentinelCert"] = "") <=> (spec["sentinelKey"] = "")

ApplyConnPatch(spec, patch) ==
  [f \in Fields |-> IF f \in DOMAIN patch THEN patch[f] ELSE spec[f]]

(* secrets.Cipher: AES-GCM, of which it matters that only the key a text   *)
(* was sealed with opens it.                                               *)
NoKey == None
NoText == [key |-> NoKey, text |-> ""]
Encrypt(text) == IF text = "" THEN NoText ELSE [key |-> key, text |-> text]
CanEncrypt(spec) == key = NoKey => \A f \in SecretFields : spec[f] = ""
Opens(k, cipher) == cipher = NoText \/ (cipher.key = k /\ k # NoKey)

ToStored(spec) ==
  [f \in Fields |-> IF f \in SecretFields THEN Encrypt(spec[f]) ELSE spec[f]]
CanResolve(row) == \A f \in SecretFields : Opens(key, row[f])
Resolved(row) ==
  [f \in Fields |-> IF f \in SecretFields THEN row[f].text ELSE row[f]]

-----------------------------------------------------------------------------
(* redischeck.Checker.  fault is the stage that meets a network error or   *)
(* the timeout, None when there is none.                                   *)

(* Checker.open: the stage that fails, or "ok".                            *)
Open(address, password, fault) ==
  IF fault = "connectivity" \/ address \notin DOMAIN Redis THEN "connectivity"
  ELSE IF password # "" /\ (fault = "authentication" \/ Redis[address].password # password)
       THEN "authentication"
  ELSE IF fault = "ping" \/ Redis[address].password # password THEN "ping"
  ELSE "ok"

(* resolveSentinel: the address of the master, "" when it is not known.    *)
ResolveSentinel(spec, fault) ==
  IF fault # "sentinel_resolution" /\
     Open(spec["sentinelAddress"], spec["sentinelPassword"], fault) = "ok"
  THEN Redis[spec["sentinelAddress"]].master ELSE ""

(* checkTargetWrite on the node that owns the scratch key.                 *)
CanWrite(spec, address, fault) ==
  LET node == IF spec["topology"] = "cluster" /\ Redis[address].moved # ""
              THEN Redis[address].moved ELSE address
  IN  /\ fault # "target_write"
      /\ node # address => Open(node, spec["password"], fault) = "ok"
      /\ Redis[node].writable

Check(spec, purpose, fault) ==
  LET sentinel  == spec["topology"] = "sentinel"
      address   == IF sentinel THEN ResolveSentinel(spec, fault) ELSE spec["address"]
      opened    == ~(sentinel /\ address = "") /\
                   Open(address, spec["password"], fault) = "ok"
      reported  == opened /\ fault \notin {"server_info", "replication_info", "cluster_info"}
  IN  [success |-> /\ reported
                   /\ Redis[address].cluster <=> (spec["topology"] = "cluster")
                   /\ purpose = "target" => CanWrite(spec, address, fault),
       warning |-> opened /\ (\/ spec["insecure"] \/ Redis[address].version = 0
                              \/ purpose = "target" /\ fault = "target_cleanup"),
       address |-> address,
       version |-> IF opened THEN Redis[address].version ELSE 0]

-----------------------------------------------------------------------------
(* Tasks: normalisation, the checks of a draft and the worker document.    *)

NoReader == [on |-> FALSE]
MaxQps == 300000
BulkLen == 512000000
MiB == 1048576

(* The options of the reader that spec's mode does not use are dropped.    *)
DefaultOptions(mode) ==
  IF mode = "sync" THEN [on |-> TRUE, rdb |-> TRUE, aof |-> TRUE]
  ELSE [on |-> TRUE, scan |-> TRUE, ksn |-> FALSE, count |-> 1, dbs |-> {}]
ReaderOptions(spec, mode) ==
  IF spec["mode"] # mode THEN NoReader
  ELSE IF spec[mode].on THEN spec[mode] ELSE DefaultOptions(mode)

NormalizeField(spec, f) ==
  IF f \in {"sync", "scan"} THEN ReaderOptions(spec, f)
  ELSE IF f = "behavior" /\ spec[f] = "" THEN "panic"
  ELSE IF f = "qps" /\ spec[f] = 0 THEN MaxQps
  ELSE IF f = "bulkLen" /\ spec[f] = 0 THEN BulkLen
  ELSE spec[f]
NormalizeTask(spec) == [f \in DOMAIN spec |-> NormalizeField(spec, f)]

ValidDraft(spec) == spec.name # "" /\ spec.mode \in {"sync", "scan"}

ApplyTaskPatch(spec, patch) ==
  [f \in DOMAIN spec |-> IF f \in DOMAIN patch THEN patch[f] ELSE spec[f]]

(* validateConnectionReferences *)
ReferencesFound(spec) == {spec.source, spec.target} \ {""} \subseteq DOMAIN conns

(* The databases a task names.                                             *)
DatabaseIDs(spec) == spec.filter.dbs \cup (IF spec.scan.on THEN spec.scan.dbs ELSE {})

(* appendSpecChecks.  A filter is what the checks tell apart: the          *)
(* dimensions with allow rules, those with block rules, the databases named *)
(* and whether every regular expression compiles.                          *)
SpecChecksPass(spec) ==
  /\ spec.source # "" /\ spec.target # "" /\ spec.source # spec.target
  /\ spec.sync.on => spec.sync.rdb \/ spec.sync.aof
  /\ spec.scan.on => /\ spec.scan.scan \/ spec.scan.ksn
                     /\ spec.scan.scan => spec.scan.count > 0
  /\ spec.filter.allow \cap spec.filter.block = {}
  /\ spec.filter.regex
  /\ \A db \in DatabaseIDs(spec) : db >= 0
  /\ spec.behavior \in {"panic", "rewrite", "skip"}
  /\ spec.qps \in 1 .. MaxQps
  /\ spec.bulkLen >= MiB

(* appendTopologySpecificChecks, 28 standing for version 2.8               *)
TopologyChecksPass(spec, source, test) ==
  /\ spec.mode = "sync" /\ test.version # 0 => test.version >= 28
  /\ source["topology"] = "cluster" => DatabaseIDs(spec) \subseteq {0}

(* buildTLS: the files an endpoint needs, by the path they get: a prefix    *)
(* and the kind of secret.                                                  *)
TlsField      == [k \in TlsSecrets |-> k]
SentinelField == [ca |-> "sentinelCa", cert |-> "sentinelCert", key |-> "sentinelKey"]

SecretFiles(conn, prefix, field, enabled) ==
  [p \in {<<prefix, k>> : k \in {j \in TlsSecrets : enabled /\ conn[field[j]] # ""}} |->
     conn[field[p[2]]]]

EndpointFiles(conn, prefix, sentinelPrefix) ==
  Merge(SecretFiles(conn, prefix, TlsField, conn["tls"]),
        SecretFiles(conn, sentinelPrefix, SentinelField, conn["sentinelTls"]))

(* Renderer.Render: the document, reader first, and the secret files.      *)
Endpoint(conn) ==
  [cluster |-> conn["topology"] = "cluster", address |-> conn["address"],
   password |-> conn["password"], sentinel |-> conn["sentinelAddress"],
   sentinelPassword |-> conn["sentinelPassword"]]
RenderSharedPrefix(spec, source, target) ==     \* fault
  [doc   |-> [mode |-> spec.mode, reader |-> Endpoint(source), writer |-> Endpoint(target),
              behavior |-> spec.behavior, emptyDb |-> spec.emptyDb],
   files |-> Merge(EndpointFiles(source, "source", "source"),
                   EndpointFiles(target, "target", "target"))]

Render(spec, source, target) ==
  [doc   |-> [mode |-> spec.mode, reader |-> Endpoint(source), writer |-> Endpoint(target),
              behavior |-> spec.behavior, emptyDb |-> spec.emptyDb],
   files |-> Merge(EndpointFiles(source, "source", "source-sentinel"),
                   EndpointFiles(target, "target", "target-sentinel"))]

RedactEndpoint(endpoint) ==
  [endpoint EXCEPT !.password = "", !.sentinelPassword = ""]
RedactCredentials(doc) ==
  [doc EXCEPT !.reader = RedactEndpoint(@), !.writer = RedactEndpoint(@)]

-----------------------------------------------------------------------------
(* Rows as they are read back.                                             *)

StoredConn(c) == conns[c].spec
DecodeTask(t) == NormalizeTask(tasks[t].spec)

(* Handlers.                                                               *)

Begin(h, work) ==
  /\ server = "up" /\ req[h] = Idle /\ requests < MaxRequests
  /\ requests' = requests + 1
  /\ req' = [req EXCEPT ![h] = work]
  /\ UNCHANGED <<server, key, starts>>

Continue(h, work) ==
  /\ req' = [req EXCEPT ![h] = work]
  /\ UNCHANGED <<server, key, requests, starts>>

At(h, op) == server = "up" /\ req[h].op = op

InsertConn(c, row) ==
  /\ c \notin issued
  /\ issued' = issued \cup {c}
  /\ conns' = AddRow(conns, c, [spec |-> row, tested |-> Nothing])
  /\ UNCHANGED <<tasks, runs>>

CreateConn(h, input) ==
  LET spec == NormalizeConn(input)
  IN  /\ ValidConn(spec) /\ CanEncrypt(spec)
      /\ \E c \in Conns : InsertConn(c, ToStored(spec))
      /\ Begin(h, Idle)

UpdateConnRead(h, c, patch) ==
  LET spec == NormalizeConn(ApplyConnPatch(Resolved(StoredConn(c)), patch))
  IN  /\ CanResolve(StoredConn(c))
      /\ ValidConn(spec) /\ CanEncrypt(spec)
      /\ Begin(h, [op |-> "updateConn", id |-> c, row |-> ToStored(spec)])
      /\ UNCHANGED store

UpdateConnWrite(h) ==
  /\ At(h, "updateConn")
  /\ conns' = IF req[h].id \notin DOMAIN conns THEN conns
              ELSE [conns EXCEPT ![req[h].id] = [spec |-> req[h].row, tested |-> Nothing]]
  /\ Continue(h, Idle)
  /\ UNCHANGED <<tasks, runs, issued>>

(* The foreign keys of table tasks refuse a connection that is in use.     *)
Referenced(c) == \E t \in DOMAIN tasks : c \in {tasks[t].spec.source, tasks[t].spec.target}

DeleteConn(h, c) ==
  /\ ~Referenced(c)
  /\ conns' = Restrict(conns, DOMAIN conns \ {c})
  /\ Begin(h, Idle)
  /\ UNCHANGED <<tasks, runs, issued>>

CopyConnRead(h, c) ==
  /\ CanResolve(StoredConn(c))
  /\ Begin(h, [op |-> "copyConn", row |-> ToStored(NormalizeConn(Resolved(StoredConn(c))))])
  /\ UNCHANGED store

CopyConnWrite(h) ==
  /\ At(h, "copyConn")
  /\ \E c \in Conns : InsertConn(c, req[h].row)
  /\ Continue(h, Idle)

(* TestSaved, on its own or inside a precheck: read, check, write.         *)
TestRead(h, c, purpose) ==
  /\ CanResolve(StoredConn(c))
  /\ Begin(h, [op |-> "test", id |-> c, row |-> StoredConn(c), purpose |-> purpose])
  /\ UNCHANGED store

SaveTest(c, row, purpose, result) ==
  conns' = [conns EXCEPT ![c].tested =
              [of |-> row, purpose |-> purpose, success |-> result.success]]

TestWrite(h) ==
  /\ At(h, "test")
  /\ \E fault \in Faults \cup {None} :
       IF req[h].id \in DOMAIN conns
       THEN SaveTest(req[h].id, req[h].row, req[h].purpose,
                     Check(Resolved(req[h].row), req[h].purpose, fault))
       ELSE UNCHANGED conns
  /\ Continue(h, Idle)
  /\ UNCHANGED <<tasks, runs, issued>>

-----------------------------------------------------------------------------
InsertTask(t, spec) ==
  /\ t \notin issued
  /\ {spec.source, spec.target} \ {""} \subseteq DOMAIN conns   \* foreign keys
  /\ issued' = issued \cup {t}
  /\ tasks' = AddRow(tasks, t, [spec |-> spec, state |-> "DRAFT", rev |-> 1,
                                precheck |-> Nothing])
  /\ UNCHANGED <<conns, runs>>

CreateTaskCheck(h, input) ==
  LET spec == NormalizeTask(input)
  IN  /\ ValidDraft(spec) /\ ReferencesFound(spec)
      /\ Begin(h, [op |-> "insertTask", spec |-> spec])
      /\ UNCHANGED store

CopyTaskRead(h, t) ==
  /\ ReferencesFound(DecodeTask(t))
  /\ Begin(h, [op |-> "insertTask", spec |-> NormalizeTask(DecodeTask(t))])
  /\ UNCHANGED store

CreateTaskWrite(h) ==
  /\ At(h, "insertTask")
  /\ \E t \in Tasks : InsertTask(t, req[h].spec)
  /\ Continue(h, Idle)

UpdateTaskRead(h, t, patch) ==
  LET spec == NormalizeTask(ApplyTaskPatch(DecodeTask(t), patch))
  IN  /\ tasks[t].state # "ARCHIVED"
      /\ ValidDraft(spec) /\ ReferencesFound(spec)
      /\ Begin(h, [op |-> "updateTask", id |-> t, rev |-> tasks[t].rev, spec |-> spec,
                   base |-> DecodeTask(t)])
      /\ UNCHANGED store

(* The WHERE clause of UpdateTask, MarkTaskReady and SaveTaskPrecheckResult *)
MatchesAnyRevision(t, rev) == tasks[t].state # "ARCHIVED"     \* fault
Matches(t, rev) == tasks[t].rev = rev /\ tasks[t].state # "ARCHIVED"

UpdateTaskWrite(h) ==
  LET t == req[h].id
  IN  /\ At(h, "updateTask")
      /\ tasks' = IF Matches(t, req[h].rev) /\ ReferencesFound(req[h].spec)
                  THEN [tasks EXCEPT ![t] = [spec |-> req[h].spec, state |-> "DRAFT",
                                             rev |-> req[h].rev + 1, precheck |-> Nothing]]
                  ELSE tasks
      /\ Continue(h, Idle)
      /\ UNCHANGED <<conns, runs, issued>>

ArchiveTask(h, t) ==
  /\ tasks[t].state # "ARCHIVED" /\ t \notin DOMAIN runs
  /\ tasks' = [tasks EXCEPT ![t].state = "ARCHIVED"]
  /\ Begin(h, Idle)
  /\ UNCHANGED <<conns, runs, issued>>

-----------------------------------------------------------------------------
(* Precheck.  req keeps the task as read, what failed and what warns.      *)

PrecheckRead(h, t, acknowledge) ==
  LET spec == DecodeTask(t)
  IN  /\ tasks[t].state # "ARCHIVED"
      /\ Begin(h, [op |-> IF SpecChecksPass(spec) THEN "preTest" ELSE "preSave",
                   id |-> t, rev |-> tasks[t].rev, spec |-> spec, ack |-> acknowledge,
                   fail |-> ~SpecChecksPass(spec), warn |-> spec.emptyDb,
                   conn |-> None, row |-> Nothing, purpose |-> "source",
                   source |-> Nothing, target |-> Nothing, digest |-> Nothing])
      /\ UNCHANGED store

PrecheckTestRead(h) ==
  LET c == req[h].spec[req[h].purpose]
  IN  /\ At(h, "preTest")
      /\ IF c \in DOMAIN conns /\ CanResolve(StoredConn(c))
         THEN Continue(h, [req[h] EXCEPT !.op = "preTested", !.conn = c, !.row = StoredConn(c)])
         ELSE Continue(h, Idle)
      /\ UNCHANGED store

PrecheckTestWrite(h) ==
  LET w == req[h]
  IN  /\ At(h, "preTested")
      /\ \E fault \in Faults \cup {None} :
           LET result == Check(Resolved(w.row), w.purpose, fault)
               next   == [w EXCEPT !.op = IF w.purpose = "source" THEN "preTest" ELSE "preResolve",
                                   !.fail = @ \/ ~result.success,
                                   !.warn = @ \/ result.warning,
                                   !.purpose = "target", !.conn = None, !.row = Nothing]
           IN  IF w.conn \notin DOMAIN conns
               THEN Continue(h, Idle) /\ UNCHANGED conns
               ELSE /\ Continue(h, IF w.purpose = "source" THEN [next EXCEPT !.source = result]
                                   ELSE [next EXCEPT !.target = result])
                    /\ SaveTest(w.conn, w.row, w.purpose, result)
      /\ UNCHANGED <<tasks, runs, issued>>

(* Distinct addresses, then Resolve twice, topology checks and Render: the *)
(* document may not encode or not pass the worker's own parser, which is a *)
(* failed check like the others.                                           *)
PrecheckResolve(h) ==
  LET w == req[h]
      source == Resolved(StoredConn(w.spec.source))
      target == Resolved(StoredConn(w.spec.target))
      tested == w.source.success /\ w.target.success
      passed == /\ tested /\ w.source.address # w.target.address
                /\ TopologyChecksPass(w.spec, source, w.source)
  IN  /\ At(h, "preResolve")
      /\ \E renders \in BOOLEAN :
           Continue(h, IF tested /\ ~ReferencesFound(w.spec) THEN Idle
                       ELSE IF passed /\ renders
                       THEN [w EXCEPT !.op = "preSave", !.digest =
                               RedactCredentials(Render(w.spec, source, target).doc)]
                       ELSE [w EXCEPT !.op = "preSave", !.fail = TRUE])
      /\ UNCHANGED store

Ready(w) == ~w.fail /\ (w.warn => w.ack)

PrecheckSave(h) ==
  LET w == req[h]
  IN  /\ At(h, "preSave")
      /\ tasks' = IF ~Matches(w.id, w.rev) THEN tasks
                  ELSE [tasks EXCEPT ![w.id].state = IF Ready(w) THEN "READY" ELSE "DRAFT",
                          ![w.id].precheck = [rev |-> w.rev, ready |-> Ready(w), of |-> w.spec,
                                              source |-> w.source, target |-> w.target,
                                              ack |-> w.ack, digest |-> w.digest]]
      /\ Continue(h, Idle)
      /\ UNCHANGED <<conns, runs, issued>>

-----------------------------------------------------------------------------
(* engine.Manager.Start up to the run's row, and the end of a run.         *)

StartRead(h, t) ==
  /\ tasks[t].state = "READY"
  /\ Begin(h, [op |-> "startResolve", id |-> t, rev |-> tasks[t].rev, spec |-> DecodeTask(t)])
  /\ UNCHANGED store

(* Resolve twice and Render; any error ends the request without a run.     *)
StartResolve(h) ==
  LET w == req[h]
      source == Resolved(StoredConn(w.spec.source))
      target == Resolved(StoredConn(w.spec.target))
  IN  /\ At(h, "startResolve")
      /\ \E renders \in BOOLEAN :
           Continue(h, IF ReferencesFound(w.spec) /\ renders
                       THEN [op |-> "startInsert", id |-> w.id, rev |-> w.rev, spec |-> w.spec,
                             source |-> source, target |-> target]
                       ELSE Idle)
      /\ UNCHANGED store

(* CreateRunIfNoActive; the limit on concurrent runs is RunLifecycle's.    *)
StartInsertAnyRevision(h) ==     \* fault: only the state is compared
  LET w == req[h]
  IN  /\ At(h, "startInsert")
      /\ runs' = IF tasks[w.id].state = "READY" /\ w.id \notin DOMAIN runs
                 THEN AddRow(runs, w.id,
                             [spec |-> w.spec, rev |-> w.rev, source |-> w.source,
                              target |-> w.target,
                              files |-> Render(w.spec, w.source, w.target).files])
                 ELSE runs
      /\ Continue(h, Idle)
      /\ UNCHANGED <<conns, tasks, issued>>

StartInsert(h) ==
  LET w == req[h]
  IN  /\ At(h, "startInsert")
      /\ runs' = IF tasks[w.id].state = "READY" /\ tasks[w.id].rev = w.rev
                    /\ w.id \notin DOMAIN runs
                 THEN AddRow(runs, w.id,
                             [spec |-> w.spec, rev |-> w.rev, source |-> w.source,
                              target |-> w.target,
                              files |-> Render(w.spec, w.source, w.target).files])
                 ELSE runs
      /\ Continue(h, Idle)
      /\ UNCHANGED <<conns, tasks, issued>>

RunEnds(t) ==
  /\ server = "up"
  /\ runs' = Restrict(runs, DOMAIN runs \ {t})
  /\ UNCHANGED <<conns, tasks, issued, server, key, req, requests, starts>>

-----------------------------------------------------------------------------
(* The server process.                                                     *)

HasEncryptedSecrets ==
  \E c \in DOMAIN conns : \E f \in SecretFields : conns[c].spec[f] # NoText

(* prepareSecretCipher and ValidateStoredSecrets let the server come up.   *)
PrepareSecretCipher(k) == k = NoKey => ~HasEncryptedSecrets
ValidateNothing(k) == TRUE     \* fault
ValidateStoredSecrets(k) ==
  \A c \in DOMAIN conns : \A f \in SecretFields : Opens(k, conns[c].spec[f])

ServerStart(k) ==
  /\ server = "down" /\ starts < MaxStarts
  /\ PrepareSecretCipher(k) /\ ValidateStoredSecrets(k)
  /\ server' = "up" /\ key' = k /\ starts' = starts + 1
  /\ UNCHANGED <<store, req, requests>>

(* The process stops or crashes; handlers in flight are lost.              *)
ServerStop ==
  /\ server = "up"
  /\ server' = "down" /\ key' = NoKey
  /\ req' = [h \in Handlers |-> Idle]
  /\ UNCHANGED <<store, requests, starts>>

-----------------------------------------------------------------------------
Init ==
  /\ conns = << >> /\ tasks = << >> /\ runs = << >> /\ issued = {}
  /\ server = "down" /\ key = NoKey
  /\ req = [h \in Handlers |-> Idle]
  /\ requests = 0 /\ starts = 0

ConnRequest(h) ==
  \/ \E input \in ConnInputs : CreateConn(h, input)
  \/ \E c \in DOMAIN conns :
       \/ \E patch \in ConnPatches : UpdateConnRead(h, c, patch)
       \/ DeleteConn(h, c)
       \/ CopyConnRead(h, c)
       \/ \E purpose \in {"source", "target"} : TestRead(h, c, purpose)

TaskRequest(h) ==
  \/ \E input \in TaskInputs : CreateTaskCheck(h, input)
  \/ \E t \in DOMAIN tasks :
       \/ CopyTaskRead(h, t)
       \/ \E patch \in TaskPatches : UpdateTaskRead(h, t, patch)
       \/ ArchiveTask(h, t)
       \/ \E acknowledge \in BOOLEAN : PrecheckRead(h, t, acknowledge)
       \/ StartRead(h, t)

Work(h) ==
  \/ UpdateConnWrite(h) \/ CopyConnWrite(h) \/ TestWrite(h)
  \/ CreateTaskWrite(h) \/ UpdateTaskWrite(h)
  \/ PrecheckTestRead(h) \/ PrecheckTestWrite(h) \/ PrecheckResolve(h) \/ PrecheckSave(h)
  \/ StartResolve(h) \/ StartInsert(h)

Next ==
  \/ \E h \in Handlers : ConnRequest(h) \/ TaskRequest(h) \/ Work(h)
  \/ \E t \in DOMAIN runs : RunEnds(t)
  \/ \E k \in MasterKeys \cup {NoKey} : ServerStart(k)
  \/ ServerStop

Spec == Init /\ [][Next]_vars

-----------------------------------------------------------------------------
(* Properties.                                                             *)

(* The tables hold rows of their shape and only issued identifiers.        *)
ConnRow == {"spec", "tested"}
TaskRow == {"spec", "state", "rev", "precheck"}
TypeOK ==
  /\ DOMAIN conns \cup DOMAIN tasks \subseteq issued /\ issued \subseteq Conns \cup Tasks
  /\ \A c \in DOMAIN conns : DOMAIN conns[c] = ConnRow /\ DOMAIN conns[c].spec = Fields
  /\ \A t \in DOMAIN tasks : /\ DOMAIN tasks[t] = TaskRow
                             /\ DOMAIN tasks[t].spec = TaskFields
                             /\ tasks[t].state \in {"DRAFT", "READY", "ARCHIVED"}
                             /\ tasks[t].rev \in Nat \ {0}
  /\ DOMAIN runs \subseteq DOMAIN tasks
  /\ DOMAIN req = Handlers
  /\ server \in {"up", "down"} /\ (server = "down" => key = NoKey)

(* Precheck's compare-and-set: a READY task is exactly the configuration   *)
(* that was checked, both of whose connection tests succeeded on different *)
(* servers and are still there, whatever was edited while the precheck was *)
(* running, and whoever tried to delete a connection since.                *)
ReadyWasChecked ==
  \A t \in DOMAIN tasks : tasks[t].state = "READY" =>
    LET p == tasks[t].precheck
    IN  /\ p # Nothing /\ p.ready /\ p.rev = tasks[t].rev /\ p.of = tasks[t].spec
        /\ p.source.success /\ p.target.success
        /\ p.source.address # p.target.address
        /\ ReferencesFound(tasks[t].spec)
        /\ (tasks[t].spec.emptyDb => p.ack)

(* Start reads the task, resolves connections and inserts the run in       *)
(* separate statements: a run only ever starts from a configuration that a *)
(* precheck of that very revision found ready, though the task may be      *)
(* edited, rechecked or archived meanwhile.                                *)
RunsStartChecked ==
  [][\A t \in DOMAIN runs' \ DOMAIN runs :
       /\ tasks[t].state = "READY" /\ tasks[t].precheck.ready
       /\ runs'[t].spec = tasks[t].precheck.of
       /\ runs'[t].rev = tasks[t].precheck.rev]_vars

(* Optimistic concurrency: an edit of a task is written only over the      *)
(* configuration it was made from, so no concurrent edit is lost; and none *)
(* that was begun before a task was archived reaches it afterwards.        *)
NoLostTaskEdit ==
  [][\A t \in DOMAIN tasks :
       /\ tasks'[t].spec # tasks[t].spec =>
            \E h \in Handlers : req[h].op = "updateTask" /\ req[h].base = tasks[t].spec
       /\ tasks[t].state = "ARCHIVED" => tasks'[t] = tasks[t]]_vars

(* A serving process can open every stored credential: it does not come up *)
(* with another key, and never writes under one.                           *)
StoredSecretsOpen ==
  server = "up" => \A c \in DOMAIN conns : CanResolve(conns[c].spec)

Holds(files, path, text) == path \in DOMAIN files /\ files[path] = text

FilesOf(conn, prefix, sentinelPrefix, files) ==
  \A k \in TlsSecrets :
    /\ conn["tls"] /\ conn[TlsField[k]] # "" =>
         Holds(files, <<prefix, k>>, conn[TlsField[k]])
    /\ conn["sentinelTls"] /\ conn[SentinelField[k]] # "" =>
         Holds(files, <<sentinelPrefix, k>>, conn[SentinelField[k]])

RunFilesComplete ==
  \A t \in DOMAIN runs :
    /\ FilesOf(runs[t].source, "source", "source-sentinel", runs[t].files)
    /\ FilesOf(runs[t].target, "target", "target-sentinel", runs[t].files)

DigestHoldsNoSecret ==
  \A t \in DOMAIN tasks : tasks[t].precheck # Nothing /\ tasks[t].precheck.digest # Nothing =>
    \A e \in {tasks[t].precheck.digest.reader, tasks[t].precheck.digest.writer} :
      e.password = "" /\ e.sentinelPassword = ""

(* One document is rendered for two ends.  For a run, every certificate and *)
(* key of both endpoints and their sentinels is in the run directory under *)
(* a path of its own; what the digest kept with a precheck is computed     *)
(* from contains no credential.                                            *)
SecretsWhereTheyBelong == RunFilesComplete /\ DigestHoldsNoSecret

=============================================================================
