# RedisShake: a TLA+ verification project

RedisShake moves data from one Redis-compatible system to another. Its engine
(`src/backend/cmd/redis-shake`) reads a source as a replica (PSYNC), by SCAN, or from
RDB and AOF files, filters the commands, and writes them to a Redis server, a cluster
or a file. A control plane (`src/backend/cmd/redis-shake-server`) offers a web console
that stores connections and tasks and runs engines as worker processes.

The project models the engine from the readers to the writers and the control plane from
the edit of a connection to the exit of a worker. TLC checks the modules on small
instances; TLAPS proves every safety property that the runs check (writer, replica reader,
snapshot transfer, scan reader, backup readers, the whole process, the life of a run and the
configuration of tasks) for every value of the constants.
`PROJECT.json` lists components, runs, mutants, the mapping of definitions to source
lines, findings, hazards and theorems.

Contents

1. Inventory of the system
2. The modules and how they correspond to the code
3. What is checked: runs, bounds, fairness, refinements
4. What is proved
5. Disagreements between the code and what is written about it
6. What is not modelled
7. Plan

## 1. Inventory of the system

### The engine (redis-shake)

| Component | State it keeps | Operations | Interacts with |
|---|---|---|---|
| main (`cmd/redis-shake/main.go`) | the reader's channels, `readerDone`, the context | builds reader, filter and writer; one pump goroutine per channel runs the filter and calls `Write`; a 1 s ticker writes PING to the target while reading; `Close` after the last channel; a signal cancels the context, a second SIGINT exits | everything below |
| sync reader (`reader/sync_standalone_reader.go`) | connection, `stat`, `DbId`, the channel `ch` | `StartRead`: REPLCONF and PSYNC/SYNC, wait for BGSAVE, `receiveRDB`, then `receiveAOF` and `sendReplconfAck` in goroutines while `sendRDB` and `sendAOF` feed `ch`; `StatusConsistent` | source, file rotation, RDB loader, main |
| file rotation (`utils/file_rotate`) | files `<offset>.aof` | `AOFWriter.Write` appends and rotates; `AOFReader.Read` follows, waits at the end, changes file and removes the old one | only through the file system |
| RDB loader (`rdb`) | current db, expiry, `repl-stream-db` | parse opcodes, send one entry (RESTORE or rewritten commands) per key | sync reader, RDB reader |
| scan reader (`reader/scan_standalone_reader.go`, `utils/UniqueQueue.go`) | a queue of unique keys, three connections | subscribe to key events, SCAN every db, pipeline SELECT/DUMP/PTTL/TYPE, pair the replies and send RESTORE | source, main |
| AOF and RDB readers (`reader/aof_reader.go`, `parsing_aof.go`, `aof`, `rdb_reader.go`) | manifest, list of files, position | load the manifest, send base and incremental files up to a timestamp | main |
| cluster readers | one standalone reader per node | start each, merge status | main |
| filter, function (`filter`) | block and allow lists, a Lua state | decide per entry; rewrite with `shake.call` | main |
| standalone writer (`writer/redis_standalone_writer.go`) | `ch`, `chWaitReply`, `DbId`, unanswered counters, a buffered connection | `Write`, `processWrite` (switch db, wait for the query buffer, register, send, flush ticker), `processReply`, `Close` | main, client, target |
| cluster writer | slot table, one standalone writer per node | route by key slot | standalone writers |
| file writer (`writer/file_writer.go`) | channel, `bufio.Writer`, file | format as cmd, aof or json, flush by ticker, `Close` | main |
| client (`client/redis.go`) | `bufio.Reader/Writer` on a connection | `Send`, `SendBytesBuff`, `Flush`, `Receive`, dialling, AUTH, choice of a replica | reader, writer |
| status (`status`) | counters, a function channel | merge reader's and writer's status, report consistency | main, HTTP |

### The control plane (redis-shake-server)

| Component | State it keeps | Operations | Interacts with |
|---|---|---|---|
| server process (`cmd/redis-shake-server/main.go`) | listener, manager, store | start-up (store, `Initialize`, serve), SIGTERM (drain HTTP 10 s, then `Shutdown`) | all below |
| engine manager (`engine/manager.go`) | `processes` map, per process `expectedStop`, `startupFailure`, `done` | `Start`, `waitUntilStarted`, `Stop`, `ForceStop`, `monitor` and `handleExit`, `Initialize`, clean-up of old artifacts, `Shutdown` | store, worker processes, files |
| store (`store`) | tables of connections, tasks, runs | conditional statements and transactions: `CreateRunIfNoActive`, `MarkRunRunning`, `RequestRunStop`, `FinalizeRun`, `MarkActiveRunsUnknown`, `ArchiveTask`, ... | services, manager |
| tasks, connections, redischeck | none beyond the store | edits with revisions, prechecks, tests of connections | store, source and target |
| api | none | HTTP handlers; an event stream stays open as long as its run | services, manager |
| renderer, secrets, config, web assets | none | TOML rendering, encryption, options, static files | |

### What is hard, and what makes each part correct

* **Writer.** Two goroutines share a pipelined connection: one sends, one pairs replies
  with what was sent. Correct: reply *k* belongs to command *k*, entries run in order
  and in their database, the unanswered counters and the query buffer limit are
  respected, `Close` waits for everything, nobody waits for everybody.
* **Sync reader.** Receiver, follower, ack ticker and pump touch the same files and
  counters without locks, and the file names are the only thing the follower learns from
  the writer. Correct: every byte is read once and in order, no file is removed before it
  is read, no byte is acknowledged that is not in a file, entries carry the right
  database, a cancelled reader stops.
* **Snapshot transfer.** The end of a diskless RDB is a marker that reads may cut
  anywhere. Correct: the file is the snapshot, and the connection stands at the stream.
* **Scan reader.** Five goroutines; keys change, expire and vanish while they are queued,
  dumped and restored, and replies are paired by repeating decisions. Correct: a value
  reaches its own key, a key waits once and is never forgotten, the target catches up.
* **Backup files.** A manifest in several versions of correctness, a base in one of two
  formats, annotations, files cut short. Correct: a beginning of the log is sent, in order,
  to its end unless something says otherwise, and an expiry stays with its key.
* **The whole process.** Keys are found by a table of 441 commands, filtered by rules on
  keys, databases, commands and groups, transformed, and routed by hash tags and slots, by one goroutine per
  channel, while main serves a ticker and signals. Correct: every sink gets exactly what
  the documented rules give it, once and in order; nothing is left behind; the process ends.
* **Engine manager.** Requests, exits, restarts and crashes of the server meet in one
  row per run; workers outlive the server. Correct: at most one worker per task and
  never more runs than allowed, nothing runs for an archived task, no worker the server
  owns is lost, final states are true and final, artifacts in use are kept, a stop is
  carried out.
* **Configuration.** A precheck or a start takes seconds over rows that others edit.
  Correct: what is READY, and what is started, is what was checked; no edit of a task is
  lost; references exist; stored credentials can be opened, and only where they belong.

`PROJECT.json` lists these as hazards, each at its line, with the properties that cover
it or a note that says why none does.

## 2. The modules and how they correspond to the code

| Module | Models | Composed with | Proofs | TLC instances |
|---|---|---|---|---|
| `RedisWriter` | `redisStandaloneWriter`, the client's buffered connection, main's `Close` | | `RedisWriterProofs` | `MCRedisWriter` |
| `SyncReader` | `syncStandaloneReader`, `AOFWriter`, `AOFReader`, the pump of main | | `SyncReaderProofs` | `MCSyncReader` |
| `RdbTransfer` | `receiveRDB` in both forms | | `RdbTransferProofs` | `MCRdbTransfer` |
| `ScanReader` | `scanStandaloneReader`, `UniqueQueue`, source and target | refines `UniqueFifo` | `ScanReaderProofs` | `MCScanReader` |
| `UniqueFifo` | abstract: what `UniqueQueue` promises | | | |
| `RdbLoader` | `rdb.Loader`, `rdb_reader` | | `ReaderProofs` | `MCPipeline` |
| `AofLoader` | `aof_reader`, `parsing_aof`, `aof.Loader` | extends `RdbLoader` | `ReaderProofs` | `MCPipeline` |
| `CommandTable`, `Commands` | `table.go`; `CalcKeys`, `CalcSlots`, `Entry.Parse`, the filter | | `PipelineProofs` | `MCPipeline` |
| `ClusterNodes` | `GetRedisClusterNodes`, the router | | `PipelineProofs` | `MCPipeline` |
| `FileWriter` | `file_writer` | | `PipelineProofs` | `MCPipeline` |
| `Pipeline` | main, status, cluster readers and cluster writer | all six above; refines `Delivery` | `ReaderProofs`, `PipelineProofs` | `MCPipeline` |
| `Delivery` | abstract: what a migration promises | | | |
| `RunLifecycle` | engine manager, run store, server process, stop and event handlers | | `RunLifecycleProofs` | `MCRunLifecycle` |
| `TaskConfig` | connections, tasks, prechecks, checker, renderer, secrets, start-up of the server | | `TaskConfigProofs` | `MCTaskConfig` |

A comment that begins with `Fault:` (or `\* fault`) marks a deliberate mistake, one per
checked property; no specification uses it. It is substituted for the definition below it
to see that the property notices.

### RedisWriter

A channel is kept as the history of what was sent on it and the number of items received:
`ch` is `written`/`recv`, `chWaitReply` is `reqs`/`reqTaken`, the connection is
`conn`/`flushed`, the target's work is `executed`. An entry is its kind (write, or a
SELECT of its own as aof_reader forwards them), its `DbId` and its size. `wpc` is the
place of `processWrite` between two operations another goroutine can observe: the select
statement, `switchDbTo` (send, then register), the wait loop on `UnansweredBytes`, the
send to `chWaitReply` (with the flush of the `default` branch when it is full), the two
atomic additions, and `SendBytesBuff`, which writes through the `bufio.Writer` as Go
does: it fills the buffer, and what does not fit pushes it out. `rpc` is the place of
`processReply`, `cpc` that of main in `Close`. `OffReply` is the option `off_reply`,
under which nothing is registered, counted or waited for. The target (external) executes
what reached it in order; its reply is chosen from `Replies`.

### SyncReader

A byte of the stream is its offset, a command the number of bytes up to its end, its
kind (SELECT, dropped by `sendAOF`, or data) and the database a SELECT chooses. The
goroutine of `StartRead` has the places psync, rdb, sendRdb, openAof, loop, reading, eof,
push, close and closed; `receiveAOF` is `conn`, with one step for the read and the append,
one for the rotation and one for the counters, since the follower and the ack ticker run
in between. `AOFReader.Read` returns up to `ReadAhead` bytes to `bufio`; `ParseCommand`
takes the next complete command from what `bufio` holds. `readNextFile` looks for a file
named by its offset, removes the file it leaves and opens the other. `SendReplconfAck`
sends `AofReceivedOffset`. A lost connection, a missing 0.aof after 3 s or a broken read
is `log.Panicf` in the code and `crashed` here. The RDB is the sequence of the databases
of its keys and the aux field `repl-stream-db`; `StartReadWithSync` is the same machine
with start offset 0 and no acks.

### RdbTransfer

`payload` is what the source wants to transfer, `diskless` how it announces the end.
`ReceiveDiskless(n)` is one round of the loop with `n` bytes read: the bytes kept from
the round before and the new ones are searched for the marker at the end, everything but
the last `Len(Marker)` bytes is written, those are kept. `ReceiveLength(n)` is one round
with the length known. The marker is random, so it occurs only at the end, and after it
the source sends nothing before the first ack (both external).

### ScanReader and UniqueFifo

A key is a name in a database, a value a version; some versions are volatile, some have a
dump too large for one RESTORE, some a type that `skip_unknown_type` names. The three modes
are ksn, scan, and both. `subscribe`, `scan`, the goroutine of `UniqueQueue`, `dump` and
`restore` each have a program counter and the item in their hands; `Put` is a section under
the lock followed by a send. `dump` appends its commands to `reqs`, the source executes
them in order whenever it likes (`SourceReplies`), and `restore` counts the replies off,
repeating `dump`'s decision about SELECT; a reply of the wrong kind is `log.Panicf`, as is
a send on, or a second close of, a closed channel. The pump, the writer and the target are
one step (`Deliver`), with `rdb_restore_command_behavior = "rewrite"`; that writers keep
the order is `RedisWriter`'s business.

`UniqueFifo` is the queue the reader thinks it has: no item twice, first in first out,
closed once. `QueueIsFifo` maps to it what the goroutine has taken and not yet deleted from
the set, followed by the channel.

### RdbLoader and AofLoader

A snapshot is a sequence of opcodes; `RdbRead` is one round of `parseRDBEntry`, which
remembers an expiry until the next value, and `RdbSend` the blocking sends of the entries
it made. The clock is any member of `Times`. An entry carries, besides what the code's has,
where it comes from (`of`), for the properties: the key and the expiry of the value in the
file, the time the expiry was read at, and whether it is the last entry of that value. The base of a multi-part AOF
may be an RDB; the AOF reader then starts an `rdb_reader` of its own and forwards
(`AofForward`).

The path of an AOF reader is opened as a manifest first (`AofManifestLine` per line, with
the panics of `AOFLoadManifestFromFile`) and taken for an AOF when that comes out nil.
`FilesInOrder` and `EndFile` are `LoadAppendOnlyFile`: which files are gone through, and what
the return of each one leads to. `AofRead` is one round of `LoadSingleAppendOnlyFile` with
its annotations, the recovery timestamp and a command the file ends in.

What the files may hold is stated where the constants are: `Snapshot` (an expiry belongs to
the next value, the commands a value can be rewritten to are those of its type, EOF ends the
file) and `Disk` (a manifest of lines of any kind, of which only the last can lack its
newline; a snapshot is listed as a base). Words are members of a constant `Words`.

### CommandTable, Commands, ClusterNodes, FileWriter

`CommandTable` lists the commands of `table.go` in the order of the file, grouped by the
shape of their key specifications; the table itself is one function from names to rows.
`Commands` is `CalcKeys` over it, `CalcSlots`, and the filter in its order of rules. A key is
a model value with a spelling (`Spelling`) as far as braces, prefixes and suffixes need one;
CRC16 is a constant function. `ClusterNodes` works on the lines of CLUSTER NODES, split into
words. `FileWriter` is the goroutine with its unbuffered channel, a `bufio.Writer` of
`BufCap` entries, ticker, `Done` and last `Flush` as separate steps.

### Pipeline and Delivery

`Pipeline` extends the four readers' and writers' modules and adds main: creation (with the
panics of the constructors and the FLUSHALL of `empty_db_before_sync`), one pump per
channel (take and parse, count, filter, run the function; write to one sink after the
other; count), the queue of functions of the status package, the PING ticker, the loop over
`readerDone`, `Close`, and signals, the second SIGINT ending the process. The nodes behind
a cluster reader are external here: their channels are filled from `cfg.data`, by what
`SyncReader` and `ScanReader` model. `status_port` is on, so that the counters are kept.

`ConfigOK` says of every configuration what Redis and the options guarantee: no two nodes of
a cluster share an address; in the reply of the source ids differ, no slot has two masters and the
flags that make a node "bad" are looked at on replicas only (`SourceOK`); there is no block list
that means "any key". A target whose slots overlap or are incomplete is
allowed, as is one with a master that only imports slots (it gets a writer, and with it what
has no keys), and so is a source that does not cover the slots: the constructors panic over those.

`Delivery` is the promise: per channel and sink, what has arrived is a beginning of what the
rules make of what was sent, and it only grows. `DeliversAsPromised` shows that `Pipeline`
implements it, the promise being written from the documentation (`docs/src/en/filter/filter.md`
and the specification of hash tags in Redis) with its own list of where keys stand in each
form of command, not from `table.go` and `filter.go`. That list
(`RedisKeys`) has the commands a source propagates, about 80 of the table's 441, and SORT. `KeysAgree(argv)`
says that the table gives the keys of a command that the list gives; of a command that is not
on the list it says that the table gives none.

`BackupIsSent` compares what `aof_reader` put into the channel with `WholeLog`: the base, then
the files behind it in the order of the manifest (`Listing`), a snapshot as the commands it
stands for, a log up to a command cut short and up to the timestamp. `OwnCommands` leaves out only the
PEXPIREs that a snapshot adds, which depend on the clock. With at most one file behind the
base (`OneLog`) a closed channel means that all of it was sent; with more it does not, see section 5.

### RunLifecycle

Three kinds of state: the store (`taskState`, `taskRev`, `runState`, `runStop`,
`runPurged`) and the operating system (`worker`, `sig`, `files`) survive a crash of the
server; its memory (`start`, `managed`, `watch`, `stopPc`, `streams`, `todo`, `cur`, ...)
does not. SQLite is opened with one connection, so a statement or transaction is one
step. The handlers of `Start` and `Stop`/`ForceStop`, the monitor of a worker and
`Shutdown` are split where another goroutine can come between two of their steps with an
effect that tells them apart. Writes to the store and to process.json may fail
(`Error`, bounded by `MaxErrors`).

Abstractions: a run identifier belongs to one Start request and so to one task
(`TaskOf`), its mode is that of the snapshot (`ScanRuns`); the polling of the worker's
status page writes `status_json` and `status_healthy`, which no decision reads, and is
left out; the age of a run is a nondeterministic choice, so clean-up may consider any
finished run expired; the fields of a `managedProcess` are reset when the process leaves
the map, where nothing can read them any more.

### TaskConfig

The tables `conns`, `tasks` and the active rows of `runs` survive a restart; `req` holds what
each handler read before it writes. An operation that reads, talks to a server and writes is
one action per statement, with the failures in between (a connection that is gone, a
rendering that fails): `TestRead`/`TestWrite`, `UpdateTaskRead`/`UpdateTaskWrite`,
`PrecheckRead` to `PrecheckSave`, `StartRead`, `StartResolve`, `StartInsert`. Normalisation,
validation, patches, encryption, the checker with its sentinel and cluster redirection and
the renderer with its secret files are operators those actions apply. A ciphertext is the
key it was sealed with and the text. The servers (`Redis`, external) answer by constant
data; the network may fail at the stages in `Faults`.

Abstractions: `PrecheckResolve` and `StartResolve` read the two connections in one step
where the code makes two statements; the digest is represented by what it is computed from;
the limit of concurrent runs and the worker behind a run are `RunLifecycle`'s.

## 3. What is checked: runs, bounds, fairness, refinements

Passing runs. The state counts are TLC's distinct states.

| Run | Instance | Shows |
|---|---|---|
| `writer` | 3 entries out of writes (2 databases, sizes 1 and 3) and SELECT entries; `PipelineCountLimit` 1 (so `chWaitReply` holds 2), query buffer 4, `bufio` 2; replies ok and BUSYKEY (set to panic); 202,747 states | `RepliesPaired`, `ExecutedInItsDb`, `CountersExact` (with the query buffer limit), `CloseWaitsForWrites`, `RejectionIsFatal`; every accepted entry is executed unless the process dies of a reply or the writer spins (`EveryEntryExecuted`); unless it spins, `Close` returns (`CloseReturns`) |
| `sync_reader` | a stream of 7 bytes in 5 commands that starts at offset 2: one before the first SELECT, one longer than a file, a dropped PING; an RDB with two keys; files of 1 byte, reads of at most 2, read-ahead 4, channel 1; 116,701 states | `BytesInOrder`, `AckedIsOnDisk`, `EntriesExact`, `ConsistentAfterRdb`, and under fairness `ReceivedIsDelivered`, `CancelCloses` |
| `rdb_transfer` | every snapshot of up to 7 bytes over two values, a marker that begins like its own tail, a buffer of 5; 2,412 states | `DoneIsComplete`, `TransferEnds` |
| `scan_reader` | one key name in two databases, of which a scan finds one value that is oversized and one that is volatile and has to be copied; two changes (write of a value of a skipped type or of a plain one, delete, expiry) of one of them, one event in flight, channels of 1, all three modes; 302,697 states | `ValueBelongsToKey`, `OneProducerIsSafe`, the refinement `QueueIsFifo`, and under fairness `TargetCatchesUp`, `ScanEnds` |
| `pipeline` | 483 configurations: 106 commands of every form of key specification, each under four sets of rules, into a cluster of two nodes and four slots; two-node sources with functions, databases and broadcasts; replicas, failed ones among them, migrating, missing and doubled slots, a target node that only imports; 19 manifests and 4 single AOFs with and without a recovery timestamp; 5 snapshots; channels, status queue of 1, a buffer of 2, PINGs and signals; 315,374 states, deadlock checked | the refinement `DeliversAsPromised`; `NothingIsLeftBehind`, `EverySlotIsRead`, `BackupIsSent`, `ExpiryStaysWithItsKey`; under fairness `ProcessEnds` |
| `task_config` | two handlers, up to 4 connections and 2 tasks, patches of both, 6 servers (with password, old, sentinel, cluster with redirection to a read-only node), a network that may fail while a target is probed, two master keys, up to 4 requests; 359,771 states | `ReadyWasChecked`, `RunsStartChecked`, `NoLostTaskEdit`, `StoredSecretsOpen`, `SecretsWhereTheyBelong` |
| `lifecycle_safety` | one task, two Start requests, two server starts, no I/O errors; 2,469,329 states | `NoDuplicateWorker`, `ArchivedIsIdle`, `ArtifactsInUseAreKept`, `CleanExitStopsWorkers` |
| `lifecycle_errors` | one run, two revisions of its task, two server starts, an event stream, up to two failing writes; 102,410 states | `NoWorkerIsLost`, `FinalStateIsTrue`, and under fairness `ForceStopIsCarriedOut`, `ExitIsRecorded` |

The runs are spent on what takes several steps or actors to violate. `TypeOK`,
`EntriesInOrder`, `ConcurrencyLimit`, `UnreadIsOnDisk`, `WrittenIsPrefix`, `FinalStatesStay` and
`UnknownIsNotSignalled` of the modules with proofs are theorems for every value of the
constants (section 4) and not repeated as runs; the `TypeOK` of `Pipeline`
documents the types and capacities of the variables. The runs of the four disagreements are in section 5.

**Why the bounds are enough.** The writer's channels and buffers are so small that three
entries fill all of them: one in hand, one in `ch`, one registered, an entry larger than the
`bufio.Writer`, a second database, and the query buffer limit reached while others are
unanswered. The limit of 4 lets an entry of 3 wait for one of 1 or 3 that is in flight, and
for one that is not, or for the bytes a SELECT entry leaves behind; those last two waits do
not end (`Spinning`), which the liveness properties except by name and `writer_querybuf`
shows. (A SELECT entry is counted by `processWrite` and never uncounted by `processReply`, so
`CountersExact` speaks of writes only.) For the life of a run every pair of handlers races on two runs of one task; the
second server start gives every crash point a recovery. A third run would have to get past
the active row the first two compete for. The stream fills several files, so that the
follower meets a file that grows, one that is complete, a change of file in the middle of a
command and the end of the last file; the start offset differs from the name 0 of the first
file. Seven bytes over a marker of three contain every partial, overlapping and complete
occurrence at every cut. In the scan reader two items in two databases make every SELECT
decision occur, and two changes suffice for a key that changes while it is queued, taken,
dumped and restored, and again behind it. In the pipeline what matters is the variety of
configurations rather than their length: every form of key specification, every kind of
rule, each panic of a constructor and of the manifest, and two entries per channel, so that
one is in hand while the other waits. In the configuration two handlers suffice for every
race between a read and a write; `MCInit` starts from a server with connections and a draft,
a state that requests lead to, so that the four requests are spent on the races.

**Deadlock** is checked in `pipeline`. The other models have states in which the system
rests: the server is down for good, the source sends nothing more, the transfer is done, or
the model's requests are used up. The liveness properties say what must still happen.

**Fairness.**

* Writer: weak fairness of each goroutine (`WriterStep`, whose ticker fires every 10 ms,
  `ReplyStep`, `CloseStep`) and of the target, which answers what it received. Nobody has
  to write or to close.
* Lifecycle: weak fairness of the goroutines and timers of a running server and of the
  exit of a worker that was sent SIGKILL. SIGTERM only asks, users and clients owe
  nothing, a stream may stay open for ever, the server may crash and need not be started
  again.
* Sync reader: weak fairness of the receiver's and the sender's steps and of main's pump;
  strong fairness of the `ctx.Done()` case of the select in `AOFReader.Read`, whose other
  case is a timer that is ready again and again, between which Go chooses at random. The
  source owes nothing, so a reader in PSYNC or in the RDB transfer may wait for ever.
* RDB transfer: the source sends the whole snapshot.
* Scan reader and pipeline: some goroutine, reply or delivery that can go on does
  (`Progress`); nobody has to change a key, to send a signal or to cancel, and no goroutine
  is preferred. `ProcessEnds` takes finite backups and channels that end.

**Refinements.** `QueueIsFifo`: `ScanReader` implements `UniqueFifo` for its queue, also
after a close in the middle of a `Put`. `DeliversAsPromised`: `Pipeline` implements
`Delivery`. Both are checked by TLC as properties of the detailed specification and are
theorems (section 4).

## 4. What is proved

TLAPS checks these for every value of the constants; the assumptions are the `ASSUME`s
of the modules (types, positive capacities, increasing ends of commands, finitely many
runs and keys, a request body has every field of its type, `ConfigOK` for configurations),
which TLC evaluates in every run. All of the runs' invariants and safety action properties are
theorems. A theorem with a hypothesis of its own says so below.

**RedisWriterProofs.** `TypeCorrect`; `Pairing` (`RepliesPaired`); `InOrder`
(`EntriesInOrder`); `DatabaseCorrect` (`ExecutedInItsDb`); `CloseIsComplete`
(`CloseWaitsForWrites`, for `~OffReply`); `RejectionsAreSeen` (`RejectionIsFatal`, for
`~OffReply`); `CountersAreExact` (`CountersExact`). With `off_reply` no reply is read and
`Close` waits for nothing, so the two with the hypothesis are false without it. `RepliesPaired` alone is not inductive: `PairInv`
adds by how much the two queues differ at each place of `processWrite`, and which command
the longer one ends in. `DbInv` relates three views of the selected database: `w.DbId` is
the one after the last command *sent*, the target's the one after the last command
*executed*, and between them every entry stands behind a command of its own database.
`CloseInv` follows the hand-over `ch` closed, writer done, `chWaitReply` closed, replies
done; with `RejectInv` (a reply that was received and did not end the process was not fatal)
it leaves no reply unread when the process exits. `CountInv` states the counters as
differences of two running totals over the registered commands, what was added by the first
*j* and what was taken off by the first *i*; an invariant about the counters alone is not
inductive, because what a reply takes off must have been part of the sum. The totals are a
witness in the invariant that each registration extends by one place (`TotalsGrow`), and
SELECT entries, which are never taken off, are in it too: the limit of the query buffer holds
with their leak as well. That the totals are what the property's recursive function `BytesUpTo`
computes is an induction, done by a least counterexample (`Least`, `BytesAreTotal`).

**RunLifecycleProofs.** `TypeCorrect`, `OneWorkerPerTask`, `WorkersAreLimited` (`ConcurrencyLimit`),
`ArchivedTasksAreIdle`, `CleanupIsSafe`, `NothingIsLost`, `FinalStatesAreTrue`,
`CleanExit`, `FinalStatesAreFinal`, `UnknownIsLeftAlone`: every safety property
of the module. One inductive invariant carries them. `OwnInv`: whatever a goroutine holds
belongs to a run that is not UNKNOWN, and a live worker has an active row and is managed,
about to be registered, or UNKNOWN. `OutcomeInv`: where a decision to record STOPPED or
SUCCEEDED comes from. `ActiveInv`: one active row per task, none for an archived one,
no more than the limit, no directory removed under an active row. `ExitInv`: no Start is in
progress once the handlers have returned. The worker properties follow because a live
worker has an active row, and the rows are protected by the conditions of the store's
statements (`RowFacts`).

**SyncReaderProofs.** `TypeCorrect`; `ReaderFollowsStream` (`BytesInOrder`);
`NoUnreadFileIsRemoved` (`UnreadIsOnDisk`); `AcksAreCovered` (`AckedIsOnDisk`);
`EntriesAreExact` (`EntriesExact`); `ConsistencyIsNotEarly` (`ConsistentAfterRdb`). The
invariant: `FileInv`, a file holds consecutive bytes from its base (its name, but
`StartOffset` for 0.aof) and files do not overlap; `WriterInv`, AOFWriter appends to the
last file at the offset received so far; `CountInv`, `AofReceivedOffset` lags by the read
in progress; `ReaderInv`, the follower stands in an existing file where its offset says,
and every received byte it has not read is in some file. The step that matters is
`readNextFile`: it removes `rName` only if a file named `rOffset` exists; files do not
overlap, so `rName` ends at or before `rOffset`, and all of it has been read. Rotation
keeps this, because the new name is larger than every other: `MaxFileSize` is positive
and so is what was appended. `EntriesExact` describes what was sent by positions instead of
computing it, and is inductive together with `PhaseInv`, which says what each place of
`StartRead` has sent and in which database the next command belongs. Consistency is not
reported early because `AofSentOffset` stays 0 until the follower has read something, which
is behind `sendRDB`.

**RdbTransferProofs.** `TypeCorrect`; `NothingForeignIsWritten` (`WrittenIsPrefix`);
`TransferIsExact` (`DoneIsComplete`). The invariant describes `written` and `lastBytes` as
neighbouring slices of what the source sends: written is everything but the last
`Len(Marker)` bytes taken, `lastBytes` those. A buffer that ends with the marker is then
an occurrence of the marker in the connection, and there is only the one at the end
(`MarkerOnlyAtEnd`, the assumption that the marker is random).

**ScanReaderProofs.** `Types`; `QueueImplementsFifo` (`QueueIsFifo`); `ValuesBelongToKeys`
(`ValueBelongsToKey`); `PanicNeedsTwoProducers` (`OneProducerIsSafe`). For the refinement
`QueueInv` says that an item of the set waits at exactly one place: in the hand of the
queue's goroutine, in the channel, or in the hand of a producer between the lock and the
send, and no two producers hold the same one. Each step of the goroutine and of the two
producers is then a Put, a Get, a close or a stutter of `UniqueFifo`; a close under a Put in
progress is the case that needs the last part. For the values `AlignInv` says that the
replies not yet taken, followed by the requests not yet answered, are exactly the commands
of the keys between `dump` and `restore`, with a SELECT wherever the database changes: there
are places `at[k]` at which the commands of the *k*-th key begin, and a cursor where the source
stands, in the database its next command needs. `restore` repeats `dump`'s decision on the
same keys, so it counts off what `dump` sent. `KeyInv` carries the key from the reply to the
target. `ClosedInv` follows the closing of the channels, one after the other, each by the
goroutine that sends on it.

**TaskConfigProofs.** `Types`; `EditsAreNotLost` (`NoLostTaskEdit`); `ReadyMeansChecked`
(`ReadyWasChecked`); `RunsAreChecked` (`RunsStartChecked`); `SecretsOpen`
(`StoredSecretsOpen`); `SecretsAreInPlace` (`SecretsWhereTheyBelong`). `TaskInv` says what a
request may rely on although the rows have moved on since it read them: the task is still
there, its revision has not gone back, and as long as it is the same the row still holds the
configuration that was read (`ReadAt`). That is what makes the comparison of revisions in
the store's statements enough. It needs that stored configurations are normal
(`normalizeSpec` is idempotent, `Normalized`), since every read normalises again.
`CheckInv` adds what a precheck has established when it comes to be saved, `ReferencesHold`
that the foreign keys keep the connections of a task, `SecretInv` that a sealed row in the
hands of a handler opens under the key of its process, and `DigestInv` that a digest was made
from a document without credentials. The theorems assume nothing of the servers, the network
or the request bodies beyond `TaskInputShape`.

**ReaderProofs.** `ExpiriesStay` (`ExpiryStaysWithItsKey`); `BackupsAreSent`
(`BackupIsSent`). The first needs `ReaderInv`: every entry anywhere between a file and the
pump keeps the expiry of its key (`ChanInv`), the milliseconds the loader remembers behind
the first *k* opcodes are what was left, at the time they were computed, of an expiry no value
has used yet, 0 if there is none (`Carries` in `RdbInv`), and a channel is open while its reader may send (`OpenInv`). The
second needs `BackupInv`, which says for each place of `aof_reader` what is still to come. While files
are gone through, what was sent, followed by the entry in hand, by what waits in the channel
of a nested `rdb_reader` and in its loader, by the rest of the file and by the files ahead, is
`WholeLog` (`OnTrack`); or a signal made the nested reader stop early, and then nothing is
sent any more (`Lost`): `LoadSingleAppendOnlyFile` looks at the context before every
record, and it is never un-cancelled. Before that, the lines read and the lines left are the
manifest (`ManifestAt`); a manifest taken for an AOF contains no command and is not read to
its end without a panic (`NoLog`). The timestamp makes the log of two files different from the
two logs, so the argument that nothing is left out stops at the first file behind the base;
the run `aof_all_files` shows that it has to.

**PipelineProofs.** `EverythingIsWritten` (`NothingIsLeftBehind`); `DeliveryIsKept`
(`DeliversAsPromised`, the refinement of `Delivery`); `SlotsAreRead` (`EverySlotIsRead`). The
first two are theorems of `Spec /\ []KeysAsInRedis`: as long as the table of commands gives, for what was
sent and for what the function makes of it, the keys `RedisKeys` gives. Without the hypothesis they are false:
SORT with STORE has keys, is not in the table and goes to every node. TLC checks both
properties without it for the commands of the run, and `TableAgrees` of `MCPipeline` evaluates `KeysAgree` for
those and for every other command of the list, with SORT as the only exception. Everything else is proved: that the filter in the order
of its rules is the documented one, that the search for braces of `CalcSlots` is the hash tag
of Redis, that the router agrees with the slots of the nodes, and that every interleaving of
pumps, buffer, ticker, signals and Close delivers.
`WorkInv` is the invariant of the pump: there is a beginning of what was sent such that each sink
has got, or the pump still holds for it, exactly what is promised of that beginning, and
the rest is in the channel. `MainInv` counts the goroutines: `main.left` is the number of pumps not
at their end, so behind the loop over `readerDone` there is none, and each channel is closed
and empty. For the file `Taken` is what was written and what is buffered; the last flush is not part of
`Close`, hence the form of `NothingIsLeftBehind` and the run `export_complete`. `KeptSoFar`
gives the refinement: with what was sent growing, the promise of a beginning begins the
promise of the whole (`FlattenSeq` over concatenation). `CountInv` keeps the result of
`GetRedisClusterNodes`: as many slots as there are were counted, no two masters list the
same one, so every slot has its master, which is read itself or through one replica of its own.

Sums and selections over sequences are defined without recursion where the proofs need them
(`Chosen` by positions, `SlotsListed` as one sequence whose length is the count); lemmas about `FlattenSeq` and
folds start from the defining equations of the library's recursive functions and use a least
counterexample where an induction is needed.

**Only model-checked.** Everything that needs fairness: `EveryEntryExecuted`, `CloseReturns`,
`ReceivedIsDelivered`, `CancelCloses`, `TransferEnds`, `TargetCatchesUp`, `ScanEnds`,
`ProcessEnds`, `ForceStopIsCarriedOut`, `ExitIsRecorded`. And that the table gives the keys of
Redis: for each command a computation over its row, which TLC does for every command
`RedisKeys` lists (`TableAgrees`) and for all its arguments would be an induction; that is why it is a hypothesis above.

## 5. Disagreements between the code and what is written about it

Each is a run in which TLC finds the stated property violated.

| Run | The code | The text |
|---|---|---|
| `writer_querybuf` | An entry is counted in `UnansweredBytes` before it is in the `bufio.Writer`, and the loop that waits for the target's query buffer does not flush: when the next entry exceeds the limit together with one that is still buffered, nothing is in flight and `processWrite` sleeps for ever. | `redis_standalone_writer.go:126`: "Wait only while target has in-flight bytes; otherwise a single oversized entry would spin forever" |
| `export_complete` | `file_writer` calls `chWg.Done()` before its last `Flush`: `Close` returns and the process can end with the tail of the export in the buffer. | `main.go:287`: "Wait for all writing operations to complete" |
| `aof_all_files` | `LoadAppendOnlyFile` returns after the first history or incremental file that loads; of a manifest with two, the second is never sent. | `parsing_aof.go:684`: "All AOF files have been sent.", line 686 panics over files "that were not successfully sent"; neither is reached |
| `lifecycle_terminate` | An open event stream keeps `httpServer.Shutdown` busy until its timeout; the server then exits without `engineManager.Shutdown`, and workers run on unsignalled. | `docs/src/en/guide/web-console.md:43`: "Stop the console so workers exit gracefully" |

Seen while modelling and not stated as a run:

* Writer: the bytes of a SELECT entry stay in `UnansweredBytes`, so that the query buffer looks
  fuller than it is from then on, and full for good when they add up to the limit. With
  `off_reply` `Close` returns at once, with entries in `ch` and in the buffer. A SELECT entry of
  aof_reader stays in `UnansweredEntries`, so the writer never reports consistency after one.
* Sync reader: `AofSentOffset`, "offset of AOF sent to chan" (`sync_standalone_reader.go:75`), is
  the position up to which `bufio` has read ahead. `receiveRDBWithDiskless` leaves its loop
  before the last round's bytes are added to `RdbReceivedBytes`; the wait for the source's
  BGSAVE does not look at the context.
* Scan reader: with ksn and scan a cancelled context makes both producers close the queue,
  and the second close, or a `Put` behind the first, panics. The DEL of an event overtakes the RESTORE
  of the same key, so a deleted key can come back. `NeedUpdateCount` is the length of the
  queue when the last key was taken.
* Snapshots: an expiry equal to the millisecond it is read in becomes 0 (`rdb.go:199` tests for
  less than 0), which RESTORE takes for none and for which no PEXPIRE is sent: the key becomes
  persistent. `ExpiryStaysWithItsKey` leaves out exactly this case.
* Backup files: a last manifest line without a newline is dropped. Entries of an AOF always
  have `DbId` 0, so `allow_db` and `block_db` see database 0; SELECTs are sent as entries.
* File writer: in the formats cmd and aof the database of an entry is not written.
* Commands: SORT and MIGRATE are not in the table, so they have no keys, pass key rules and
  go to every node of a cluster. The limit of 2 on XREAD's STREAMS is treated as none, so ids count as keys. A FLUSHALL of one shard of the source goes to all nodes of the target.
* Status: `lastConsistent` starts false and is and-ed into itself, so the ticker never reports
  consistency. Offsets of replicas (`client/redis.go:183`) are compared as strings.
* Control plane: a scan that ends before its status page was read goes from STARTING to
  SUCCEEDED, which `ValidateRunTransition` (`domain/models.go:136`) rejects; only its test calls it. A test of
  a connection is stored even if the connection was edited meanwhile, although "Any
  connection edit invalidates the previous test result" (`connections/service.go:110`), and of two edits of a
  connection one is lost. A task stays READY when one of its connections is edited.

## 6. What is not modelled

* Byte formats (RDB value encodings, RESP, TOML, AES): their reference is another program
  or a library, and no step of another actor can come between.
* The Lua runtime: a function is what it makes of an entry.
* The network beyond what the code sees of it: reads of any size, a lost connection, a
  failing stage of a connection test. The engine reconnects nowhere, so there is no
  reconnection to model; a broken connection ends the process. Dialling, TLS and the choice
  of a replica by the client are left out.
* Failing file system calls in the engine, which end the process by `log.Panicf`.
* Time: timeouts are steps that may happen at any moment, ages are nondeterministic.
* Statistics nobody decides on (rates, `NeedUpdateCount`, the sampled consistency), log
  output, redaction, parsing of options, migrations of older databases, the web console.
* Data races on `stat` fields: the fields are machine words, read and written in single
  steps here.

## 7. Plan

Every component that carries the program's logic has a module, and every safety property of a
passing run is a theorem. What is left, should the code move on:

1. Keep `ConfigOK` and `CommandTable` in step with `config.go` and `table.go`; a new form of key
   specification needs a command in `MCPipeline` and a clause of `RedisKeys`.
2. Liveness stays with TLC: the prover has no rule for fairness or ENABLED.
3. The three hazards without a property (a SELECT rejected behind pipelined entries, a DEL that
   overtakes a RESTORE, a test stored for an edited connection) need a promise in the code first.
