------------------------------ MODULE Pipeline ------------------------------
(***************************************************************************)
(* The process redis-shake from one end to the other: main creates reader  *)
(* and writer, one goroutine per channel of the reader parses, filters and *)
(* transforms entries and hands them to the writer, the status goroutine   *)
(* counts, and Close ends it all.  Readers here are aof_reader and         *)
(* rdb_reader (AofLoader, RdbLoader) and the cluster readers, whose        *)
(* channels are filled from outside; writers are file_writer (FileWriter)  *)
(* and the cluster writer, down to the writer of each node (RedisWriter).  *)
(***************************************************************************)
EXTENDS AofLoader, FileWriter, Commands, ClusterNodes

CONSTANTS
  Configs,             \* the configurations, each with the data its source holds and the
                       \* bounds on ticks of main's ticker (pings) and on signals
  RunScript(_, _),     \* what the Lua function of a configuration calls shake.call with
  StatCap              \* capacity of the channel of package status; 1000 in the code

VARIABLES
  cfg,          \* the configuration
  main,         \* main: program counter, readers still running, pings
  pump,         \* per channel, the goroutine between reader and writer
  feed,         \* per channel of a cluster reader, what its node has still to give
  nodes,        \* per address of the target cluster, what its writer was given
  signals,      \* SIGINTs and other signals seen
  status        \* the channel of functions and the counters they update

(* What the options and the data of the sources look like. *)
RulesOK(r) ==
  /\ ~r.block.any
  /\ \A p \in UNION {l.prefix \cup l.suffix : l \in {r.allow, r.block}} : p \in Seq(Words)

(* The lines of CLUSTER NODES: no two nodes have the same address. *)
LinesOK(lines) ==
  /\ lines \in Seq(NodeLines(Words))
  /\ \A i, j \in DOMAIN lines : lines[i].addr = lines[j].addr => i = j

AllSlots == 0..(SlotCount - 1)

(* What a node of the source says of its cluster: no two nodes have the same id, no slot
   has two masters; "bad" is said of replicas. *)
SourceOK(lines) ==
  /\ \A i, j \in DOMAIN lines : lines[i].id = lines[j].id => i = j
  /\ IsInjective(SlotsListed(lines)) /\ ToSet(SlotsListed(lines)) \subseteq AllSlots
  /\ \A l \in ToSet(lines) : l.master => ~l.bad

ConfigOK(c) ==
  /\ c.reader \in {"cluster", "rdb", "aof"} /\ c.sink \in {"cluster", "file"}
  /\ LinesOK(c.source) /\ LinesOK(c.target) /\ "file" \notin {l.addr : l \in ToSet(c.target)}
  /\ c.reader = "cluster" => SourceOK(c.source) /\ \A l \in ToSet(c.source) :
       l.addr \in DOMAIN c.data /\ c.data[l.addr] \in Seq({e \in Entries : ExpiryKept(e)})
  /\ Disk(c.disk) /\ Snapshot(c.ops) /\ c.timestamp \in Nat
  /\ RulesOK(c.rules)

ASSUME ConfigAssumption == \A c \in Configs : ConfigOK(c)

ASSUME StatAssumption == StatCap \in Nat \ {0}

pipeVars == <<cfg, main, pump, feed, nodes, signals, status>>
vars == <<chs, open, sent, cancelled, proc, rdbVars, aofVars, fw, pipeVars>>

Clustered == cfg.reader = "cluster"
ToCluster == cfg.sink = "cluster"

(* An entry on its way to the writer; from is its channel, 0 for main's own. *)
Item(c, e) == [from |-> c, e |-> e]
FromMain(argv) == Item(0, Entry(0, argv, 0, NoValue))

IdlePump == [pc |-> "take", outs |-> <<>>, dests |-> <<>>]

ReaderVars == <<chs, open, sent, rdbVars, aofVars, feed>>

Init ==
  /\ cfg \in Configs
  /\ chs = <<>> /\ open = <<>> /\ sent = <<>> /\ cancelled = FALSE /\ proc = "run"
  /\ rdb = IdleRdb /\ rdbCh = <<>>
  /\ disk = cfg.disk /\ timestamp = cfg.timestamp /\ aof = IdleAof
  /\ fw = IdleFile
  /\ main = [pc |-> "create", left |-> 0, pings |-> 0]
  /\ pump = <<>> /\ feed = <<>> /\ signals = [int |-> 0, all |-> 0]
  /\ nodes = [n \in {l.addr : l \in ToSet(cfg.target)} |-> <<>>]
  /\ status = [q |-> <<>>, read |-> 0, write |-> 0]

-----------------------------------------------------------------------------
(* main: create reader and writer. *)

(* What makes a constructor give up. *)
CreatePanics ==
  \/ Clustered /\ SlotTotal(cfg.source) # SlotCount
  \/ ToCluster /\ SlotTotal(cfg.target) # SlotCount
  \/ ToCluster /\ \E s \in AllSlots : Cardinality(Occupied(cfg.target, s)) # 1

(* The writers of the target cluster, in the order of the reply. *)
Writers == Addresses(cfg.target, FALSE)

(* NewXxxReader, NewXxxWriter, the FLUSHALL of empty_db_before_sync, StartRead, StartWrite. *)
Create ==
  /\ main.pc = "create"
  /\ \/ /\ CreatePanics /\ Panic
        /\ UNCHANGED <<chs, open, sent, rdb, aof, main, pump, feed, nodes>>
     \/ /\ ~CreatePanics
        /\ LET addrs == IF Clustered THEN Addresses(cfg.source, cfg.preferReplica) ELSE <<"file">>
           IN  /\ chs' = [c \in DOMAIN addrs |-> <<>>]
               /\ open' = [c \in DOMAIN addrs |-> TRUE]
               /\ sent' = [c \in DOMAIN addrs |-> <<>>]
               /\ pump' = [c \in DOMAIN addrs |-> IdlePump]
               /\ feed' = [c \in DOMAIN addrs |-> IF Clustered THEN cfg.data[addrs[c]] ELSE <<>>]
               /\ main' = [main EXCEPT !.pc = "loop", !.left = Len(addrs)]
        /\ nodes' = IF ToCluster /\ cfg.emptyDb
                    THEN [n \in DOMAIN nodes |-> IF n \in ToSet(Writers)
                                                 THEN << FromMain(<<"FLUSHALL">>) >> ELSE <<>>]
                    ELSE nodes
        /\ rdb' = IF cfg.reader = "rdb" THEN StartRdb(cfg.ops, FALSE) ELSE rdb
        /\ aof' = IF cfg.reader = "aof" THEN StartAof(disk) ELSE aof
        /\ UNCHANGED proc
  /\ UNCHANGED <<cancelled, rdbCh, disk, timestamp, fw, cfg, signals, status>>

(* The node behind a channel of a cluster reader sends, or has no more. *)
FeedSend(c) ==
  /\ Clustered /\ open[c] /\ feed[c] # <<>>
  /\ Push(c, Head(feed[c]))
  /\ feed' = [feed EXCEPT ![c] = Tail(@)]
  /\ UNCHANGED <<open, cancelled, proc, rdbVars, aofVars, fw, cfg, main, pump, nodes, signals, status>>

FeedClose(c) ==
  /\ Clustered /\ open[c] /\ (feed[c] = <<>> \/ cancelled)
  /\ open' = [open EXCEPT ![c] = FALSE]
  /\ UNCHANGED <<chs, sent, feed, cancelled, proc, rdbVars, aofVars, fw, cfg, main, pump, nodes, signals, status>>

ReaderStep ==
  \/ (AofStep \/ (RdbStep /\ UNCHANGED aofVars)) /\ UNCHANGED <<fw, pipeVars>>
  \/ \E c \in DOMAIN chs : FeedSend(c) \/ FeedClose(c)

-----------------------------------------------------------------------------
(* status: functions are queued and run one at a time. *)

StatusRoom == Len(status.q) < StatCap

(* AddReadCount, AddWriteCount: ch <- func(). *)
AddCount(what) == status' = [status EXCEPT !.q = Append(@, what)]

StatusRun ==
  /\ status.q # <<>>
  /\ status' = [status EXCEPT !.q = Tail(@),
                              !.read = IF Head(status.q) = "read" THEN @ + 1 ELSE @,
                              !.write = IF Head(status.q) = "write" THEN @ + 1 ELSE @]
  /\ UNCHANGED <<ReaderVars, cancelled, proc, fw, cfg, main, pump, nodes, signals>>

-----------------------------------------------------------------------------
(* The goroutine of a channel. *)

(* No runtime: the entry itself; otherwise what the script calls shake.call with. *)
RunFunction(conf, e) == IF conf.fn = "" THEN <<e>> ELSE RunScript(conf.fn, e)

(* for e := range ch: Parse, AddReadCount, Filter, RunFunction. *)
PumpTake(c) ==
  /\ pump[c].pc = "take" /\ chs[c] # <<>> /\ StatusRoom
  /\ LET e == Head(chs[c])
     IN  IF ParsePanics(e.argv)
         THEN Panic /\ UNCHANGED <<pump, status>>
         ELSE /\ AddCount("read")
              /\ pump' = IF Filter(cfg.rules, e)
                         THEN [pump EXCEPT ![c].pc = "parse", ![c].outs = RunFunction(cfg, e)]
                         ELSE pump
              /\ UNCHANGED proc
  /\ chs' = [chs EXCEPT ![c] = Tail(@)]
  /\ UNCHANGED <<open, sent, rdbVars, aofVars, feed, cancelled, fw, cfg, main, nodes, signals>>

(* The writers an entry goes to. *)
Dests(argv) ==
  IF ~ToCluster THEN <<"file">>
  ELSE IF Slots(argv) = {} THEN Writers
  ELSE << Router(cfg.target, AllSlots)[CHOOSE s \in Slots(argv) : TRUE] >>

CrossSlot(argv) == ToCluster /\ Cardinality(Slots(argv)) > 1

(* theEntry.Parse() and the beginning of theWriter.Write. *)
PumpParse(c) ==
  /\ pump[c].pc = "parse"
  /\ IF pump[c].outs = <<>>
     THEN pump' = [pump EXCEPT ![c].pc = "take"] /\ UNCHANGED proc
     ELSE LET argv == Head(pump[c].outs).argv
          IN  IF ParsePanics(argv) \/ CrossSlot(argv)
              THEN Panic /\ UNCHANGED pump
              ELSE pump' = [pump EXCEPT ![c].pc = "write", ![c].dests = Dests(argv)] /\ UNCHANGED proc
  /\ UNCHANGED <<ReaderVars, cancelled, fw, cfg, main, nodes, signals, status>>

(* Give x to one writer: the channel of a node's writer, or processWrite itself. *)
Give(n, x) ==
  IF ToCluster THEN nodes' = [nodes EXCEPT ![n] = Append(@, x)] /\ UNCHANGED fw
               ELSE FileTake(x) /\ UNCHANGED nodes

(* theWriter.Write, one writer after the other ... *)
PumpWrite(c) ==
  /\ pump[c].pc = "write" /\ pump[c].dests # <<>>
  /\ Give(Head(pump[c].dests), Item(c, Head(pump[c].outs)))
  /\ pump' = [pump EXCEPT ![c].dests = Tail(@)]
  /\ UNCHANGED <<ReaderVars, cancelled, proc, cfg, main, signals, status>>

(* ... and AddWriteCount. *)
PumpWritten(c) ==
  /\ pump[c].pc = "write" /\ pump[c].dests = <<>> /\ StatusRoom
  /\ AddCount("write")
  /\ pump' = [pump EXCEPT ![c].pc = "parse", ![c].outs = Tail(@)]
  /\ UNCHANGED <<ReaderVars, cancelled, proc, fw, cfg, main, nodes, signals>>

(* Fault: the loop ends as soon as one reader is done. *)
LeftNone == 0

Left == main.left - 1

(* The channel is closed and empty: readerDone <- true meets main's select. *)
PumpEnd(c) ==
  /\ pump[c].pc = "take" /\ chs[c] = <<>> /\ ~open[c]
  /\ main.pc = "loop"
  /\ pump' = [pump EXCEPT ![c].pc = "end"]
  /\ main' = [main EXCEPT !.left = Left, !.pc = IF Left = 0 THEN "close" ELSE "loop"]
  /\ UNCHANGED <<ReaderVars, cancelled, proc, fw, cfg, nodes, signals, status>>

PumpStep ==
  \E c \in DOMAIN pump :
    PumpTake(c) \/ PumpParse(c) \/ PumpWrite(c) \/ PumpWritten(c) \/ PumpEnd(c)

-----------------------------------------------------------------------------
(* main: the loop, Close and the signals. *)

(* The ticker of main writes a PING, which has no slots, to every writer. *)
MainPing ==
  /\ main.pc = "loop" /\ main.pings < cfg.pings
  /\ main' = [main EXCEPT !.pings = @ + 1]
  /\ LET x == FromMain(<<"PING">>)
     IN  IF ToCluster
         THEN /\ nodes' = [n \in DOMAIN nodes |-> IF n \in ToSet(Writers) THEN Append(nodes[n], x)
                                                                     ELSE nodes[n]]
              /\ UNCHANGED fw
         ELSE FileTake(x) /\ UNCHANGED nodes
  /\ UNCHANGED <<ReaderVars, cancelled, proc, cfg, pump, signals, status>>

(* theWriter.Close(): a file writer's channel is closed; every node's writer is closed in
   turn (RedisWriter). *)
MainClose ==
  /\ main.pc = "close"
  /\ main' = [main EXCEPT !.pc = "wait"]
  /\ IF ToCluster THEN UNCHANGED fw ELSE FileClose
  /\ UNCHANGED <<ReaderVars, cancelled, proc, cfg, pump, nodes, signals, status>>

(* Close has returned: "all done". *)
MainExit ==
  /\ main.pc = "wait" /\ (ToCluster \/ fw.wait = 0)
  /\ proc' = "exit"
  /\ UNCHANGED <<ReaderVars, cancelled, fw, cfg, main, pump, nodes, signals, status>>

(* Any signal cancels; the second SIGINT ends the process there and then. *)
Signal(int) ==
  /\ main.pc # "create" /\ signals.all < cfg.signals
  /\ signals' = [int |-> signals.int + (IF int THEN 1 ELSE 0), all |-> signals.all + 1]
  /\ IF signals'.int >= 2
     THEN proc' = "killed" /\ UNCHANGED cancelled
     ELSE cancelled' = TRUE /\ UNCHANGED proc
  /\ UNCHANGED <<ReaderVars, fw, cfg, main, pump, nodes, status>>

MainStep == Create \/ MainPing \/ MainClose \/ MainExit

FileWriterStep ==
  /\ cfg.sink = "file" /\ FileStep
  /\ UNCHANGED <<ReaderVars, cancelled, proc, pipeVars>>

(* What the process does by itself, as opposed to signals and pings. *)
Progress ==
  /\ proc = "run"
  /\ ReaderStep \/ PumpStep \/ StatusRun \/ Create \/ MainClose \/ MainExit \/ FileWriterStep

(* The process has ended. *)
Ended == proc # "run" /\ UNCHANGED vars

Next ==
  \/ proc = "run" /\ (ReaderStep \/ PumpStep \/ StatusRun \/ MainStep \/ FileWriterStep)
  \/ proc = "run" /\ \E int \in BOOLEAN : Signal(int)
  \/ Ended

Spec == Init /\ [][Next]_vars

(* Goroutines run, the source's nodes have finite data, the target's writers take what
   they are given. *)
FairSpec == Spec /\ WF_vars(Progress)

-----------------------------------------------------------------------------
(* The references the properties compare with, written from the documentation of
   RedisShake (docs/src/en/filter/filter.md) and of Redis. *)

Args(argv, is) == {argv[i] : i \in is \cap DOMAIN argv}
Counted(argv, i) == IF i \in DOMAIN argv /\ argv[i] \in DOMAIN Numeral THEN Numeral[argv[i]] ELSE 0

(* The commands a source propagates, by where the documentation of Redis has their keys. *)
KeyFirst ==
  {"SET", "SETEX", "PSETEX", "SETNX", "GETSET", "GETDEL", "GETEX", "APPEND", "SETRANGE", "SETBIT",
   "INCR", "DECR", "INCRBY", "DECRBY", "INCRBYFLOAT", "RESTORE", "EXPIRE", "PEXPIRE", "EXPIREAT",
   "PEXPIREAT", "PERSIST", "MOVE", "HSET", "HMSET", "HSETNX", "HDEL", "HINCRBY", "HINCRBYFLOAT",
   "LPUSH", "RPUSH", "LPUSHX", "RPUSHX", "LPOP", "RPOP", "LREM", "LSET", "LTRIM", "LINSERT",
   "SADD", "SREM", "SPOP", "ZADD", "ZREM", "ZINCRBY", "ZPOPMIN", "ZPOPMAX", "ZREMRANGEBYRANK",
   "ZREMRANGEBYSCORE", "ZREMRANGEBYLEX", "GEOADD", "PFADD", "XADD", "XDEL", "XTRIM", "XACK",
   "XCLAIM", "XSETID"}
KeysFirstTwo == {"RENAME", "RENAMENX", "COPY", "SMOVE", "RPOPLPUSH", "LMOVE", "ZRANGESTORE"}
KeysAll == {"DEL", "UNLINK", "SUNIONSTORE", "SINTERSTORE", "SDIFFSTORE", "PFMERGE"}

RedisKeys(argv) ==
  LET name == ToUpper(argv[1])
      after(words, i) == {j + 1 : j \in {k \in i..Len(argv) : ToUpper(argv[k]) \in words}}
  IN  CASE name \in KeyFirst -> Args(argv, {2})
        [] name \in KeysFirstTwo -> Args(argv, {2, 3})
        [] name \in KeysAll -> Args(argv, 2..Len(argv))
        [] name \in {"MSET", "MSETNX"} -> Args(argv, {i \in DOMAIN argv : i % 2 = 0})
        [] name \in {"BLPOP", "BRPOP"} -> Args(argv, 2..(Len(argv) - 1))
        [] name = "BITOP" -> Args(argv, 3..Len(argv))
        [] name \in {"EVAL", "EVALSHA", "FCALL"} -> Args(argv, 4..(3 + Counted(argv, 3)))
        [] name \in {"ZUNIONSTORE", "ZINTERSTORE", "ZDIFFSTORE"} ->
             Args(argv, {2} \cup 4..(3 + Counted(argv, 3)))
        [] name = "SORT" -> Args(argv, {2} \cup after({"STORE"}, 3))
        [] name = "GEORADIUS" -> Args(argv, {2} \cup after({"STORE", "STOREDIST"}, 7))
        [] OTHER -> {}

(* The table of commands gives the keys of this command that Redis gives. *)
KeysAgree(argv) ==
  ParsePanics(argv) \/ (Keys(argv) = RedisKeys(argv) /\ Keys(argv) \subseteq DOMAIN Spelling)

(* It does so for whatever is sent, and for what the function makes of it. *)
KeysAsInRedis ==
  \A c \in DOMAIN sent : \A i \in DOMAIN sent[c] :
    /\ KeysAgree(sent[c][i].argv)
    /\ RunFunction(cfg, sent[c][i]) \in Seq(Entries)
    /\ \A x \in ToSet(RunFunction(cfg, sent[c][i])) : KeysAgree(x.argv)

(* The slot of a key in Redis: what stands between the first "{" and the first "}" behind
   it, if that is not empty. *)
RedisSlot(key) ==
  LET s == Spelling[key]
      tagged(i, j) == /\ i + 1 < j /\ s[i] = LeftBrace /\ s[j] = RightBrace
                      /\ \A k \in 1..(i - 1) : s[k] # LeftBrace
                      /\ \A k \in (i + 1)..(j - 1) : s[k] # RightBrace
      pairs == {p \in (DOMAIN s) \X (DOMAIN s) : tagged(p[1], p[2])}
  IN  Crc16(IF pairs = {} THEN s
            ELSE LET p == CHOOSE q \in pairs : TRUE IN SubSeq(s, p[1] + 1, p[2] - 1)) % SlotCount

Matches(list, key) ==
  \/ key \in list.keys \cup list.regex \/ list.any
  \/ \E p \in list.prefix : Len(p) <= Len(Spelling[key]) /\ SubSeq(Spelling[key], 1, Len(p)) = p
  \/ \E p \in list.suffix : \E i \in 1..(Len(Spelling[key]) + 1) : SubSeq(Spelling[key], i, Len(Spelling[key])) = p

(* "Block rules run first ... the entire entry is dropped", "only the explicitly listed
   items will pass", "must either pass for all keys or the entry is discarded". *)
DocPasses(r, e) ==
  LET keys == RedisKeys(e.argv)
      blocked == \/ \E k \in keys : Matches(r.block, k)
                 \/ e.db \in r.blockDb
                 \/ CmdName(e.argv) \in r.blockCmd
                 \/ Group(e.argv) \in r.blockGroup
  IN  /\ ~blocked
      /\ ~Unset(r.allow) => \A k \in keys : Matches(r.allow, k)
      /\ r.allowDb # {} => e.db \in r.allowDb
      /\ r.allowCmd # {} => CmdName(e.argv) \in r.allowCmd
      /\ r.allowGroup # {} => Group(e.argv) \in r.allowGroup

(* The nodes of a cluster that hold this slot. *)
Holders(lines, s) == {l.addr : l \in {m \in ToSet(lines) : m.master /\ s \in NodeSlots(m)}}

(* The masters that hold slots or take part in a migration. *)
Members(lines) == {l.addr : l \in {m \in ToSet(lines) : m.master /\ m.words # <<>>}}

GoesTo(conf, argv, n) ==
  IF conf.sink = "file" THEN n = "file"
  ELSE IF RedisKeys(argv) = {} THEN n \in Members(conf.target)
  ELSE \A k \in RedisKeys(argv) : n \in Holders(conf.target, RedisSlot(k))

(* Of these entries the ones for a sink; of one entry what it becomes for a sink. *)
Routed(conf, s, n) == Chosen(s, {i \in DOMAIN s : GoesTo(conf, s[i].argv, n)})
Becomes(conf, e, n) ==
  IF DocPasses(conf.rules, e) THEN Routed(conf, RunFunction(conf, e), n) ELSE <<>>

PromisedTo(conf, s, n) == FlattenSeq([i \in DOMAIN s |-> Becomes(conf, s[i], n)])

(* What has arrived at a sink of each channel: in the file, or at a node's writer. *)
AllSinks == {"file"} \cup UNION {{l.addr : l \in ToSet(c.target)} : c \in Configs}

EntriesFrom(items, c) ==
  Chosen([i \in DOMAIN items |-> items[i].e], {i \in DOMAIN items : items[i].from = c})

Arrived ==
  [n \in AllSinks |->
     [c \in DOMAIN chs |->
        IF n = "file" THEN EntriesFrom(fw.file, c)
        ELSE IF n \in DOMAIN nodes THEN EntriesFrom(nodes[n], c) ELSE <<>>]]

D == INSTANCE Delivery WITH Sinks <- AllSinks, Promised <- PromisedTo, rules <- cfg,
                            sent <- sent, out <- Arrived

-----------------------------------------------------------------------------
(* The properties. *)

(* Every variable stays within its type; channels, buffers and queues stay within their
   capacities. *)
TypeOK ==
  /\ cfg \in Configs /\ proc \in {"run", "panic", "exit", "killed"} /\ cancelled \in BOOLEAN
  /\ DOMAIN chs = DOMAIN open /\ DOMAIN open = DOMAIN sent /\ DOMAIN sent = DOMAIN pump
  /\ \A c \in DOMAIN chs : Len(chs[c]) <= ChCap /\ open[c] \in BOOLEAN
  /\ Len(rdbCh) <= ChCap /\ rdb.expireMs \in Nat
  /\ rdb.pc \in {"idle", "read", "send", "end", "closed"}
  /\ aof.pc \in {"idle", "manifest", "single", "multi", "next", "forward", "read", "send", "close", "closed"}
  /\ Len(fw.buf) <= BufCap /\ fw.wait \in {0, 1}
  /\ main.pc \in {"create", "loop", "close", "wait"} /\ main.left \in Nat
  /\ Len(status.q) <= StatCap

(***************************************************************************)
(* The process implements Delivery: of what a reader sends on a channel,   *)
(* the file and every node receive, in order and once, exactly what the    *)
(* documented filter rules, the function and the slots of the keys give    *)
(* them.  Parsing by table.go, filter.go, the cluster writer's routing and *)
(* the goroutines of main all stand between the two.                       *)
(***************************************************************************)
DeliversAsPromised == D!Spec

(* "Wait for all writing operations to complete": main gets past Close only when the
   writers were given everything any reader ever sent, after a signal too. *)
NothingIsLeftBehind ==
  proc = "exit" =>
    \A c \in DOMAIN chs :
      /\ chs[c] = <<>> /\ ~open[c]
      /\ \A n \in AllSinks :
           IF n = "file" THEN EntriesFrom(fw.file \o fw.buf, c) = PromisedTo(cfg, sent[c], n)
           ELSE Arrived[n][c] = PromisedTo(cfg, sent[c], n)

(***************************************************************************)
(* main.go:287 says of Close "Wait for all writing operations to           *)
(* complete": when the process ends by itself, the file holds every entry  *)
(* the file writer took.                                                   *)
(***************************************************************************)
ExportIsComplete == proc = "exit" /\ cfg.sink = "file" => fw.buf = <<>>

(* Every slot of the source is read from exactly one node, its master or a replica of it
   that is not marked as failed (NewSyncClusterReader, NewScanClusterReader). *)
EverySlotIsRead ==
  Clustered /\ chs # <<>> =>
    LET addrs == Addresses(cfg.source, cfg.preferReplica)
        serves(a, s) == \E l \in ToSet(cfg.source) :
                          /\ l.addr = a /\ ~l.bad
                          /\ \E m \in ToSet(cfg.source) :
                               /\ m.master /\ s \in NodeSlots(m)
                               /\ l.id = m.id \/ (~l.master /\ l.of = m.id)
    IN  \A s \in AllSlots : Cardinality({c \in DOMAIN addrs : serves(addrs[c], s)}) = 1

-----------------------------------------------------------------------------
(* The backup files.  The reference: the files of the manifest, base first, then the
   incremental files in order (history in place of a missing base). *)

InfosOf(lines, t) ==
  Chosen(lines, {i \in DOMAIN lines : /\ lines[i].line = "info" /\ lines[i].type = t
                                      /\ t = "h" => ~lines[i].baseRdb})

Listing ==
  LET of(t) == InfosOf(disk.path.lines, t)
  IN  IF of("b") # <<>> THEN of("b") \o of("i") ELSE of("h") \o of("i")

IsBase(l) == l.type = "b" /\ ~Missing(l)
IsLog(l) == l.type # "b" /\ ~Missing(l)

CommandsOf(recs) ==
  FlattenSeq([i \in DOMAIN recs |-> IF recs[i].rec = "cmd" THEN << recs[i].argv >> ELSE <<>>])

(* A log ends at the first annotation behind the timestamp, and at a command cut short. *)
LogEnds(r) ==
  r.rec \in {"cut", "garbage"} \/ (r.rec = "ts" /\ timestamp # 0 /\ r.at > timestamp)

LogCommands(recs) ==
  FlattenSeq([i \in DOMAIN recs |->
    IF recs[i].rec = "cmd" /\ \A j \in 1..i : ~LogEnds(recs[j]) THEN << recs[i].argv >> ELSE <<>>])

(* What a snapshot stands for, without the expiries that depend on the time of reading. *)
OpCommands(o) ==
  CASE o.op = "value" -> IF o.big THEN o.cmds ELSE << Restore(o.key) >>
    [] o.op = "aux" /\ o.key = "lua" -> << <<"script", "load", "lua">> >>
    [] o.op = "function2" -> << <<"function", "load", "replace", "lib">> >>
    [] OTHER -> <<>>
SnapshotCommands(ops) == FlattenSeq([i \in DOMAIN ops |-> OpCommands(ops[i])])

BaseCommands(l) ==
  LET f == disk.files[l.name]
  IN  IF f.kind = "rdb" THEN SnapshotCommands(f.ops) ELSE CommandsOf(f.recs)

BasesOf(ls) ==
  FlattenSeq([i \in DOMAIN ls |-> IF IsBase(ls[i]) THEN BaseCommands(ls[i]) ELSE <<>>])
LogsOf(ls) ==
  FlattenSeq([i \in DOMAIN ls |-> IF IsLog(ls[i]) THEN disk.files[ls[i].name].recs ELSE <<>>])

WholeLog ==
  IF disk.path.kind = "aof" THEN LogCommands(disk.path.recs)
  ELSE BasesOf(Listing) \o LogCommands(LogsOf(Listing))

(* The commands of these entries, without the PEXPIREs a snapshot adds to its values. *)
OwnCommands(es) ==
  FlattenSeq([i \in DOMAIN es |->
    IF es[i].of.at # None /\ es[i].argv[1] = "PEXPIRE" THEN <<>> ELSE << es[i].argv >>])

SentCommands == OwnCommands(sent[1])

FromBackup == cfg.reader = "aof" /\ chs # <<>>

(* At most one file behind the base. *)
OneLog ==
  disk.path.kind = "manifest" =>
    \A i, j \in DOMAIN Listing : IsLog(Listing[i]) /\ IsLog(Listing[j]) => i = j

(***************************************************************************)
(* Whatever the manifest lists and whenever a signal arrives, aof_reader   *)
(* sends a beginning of the log: base before increments, files and         *)
(* commands in order, nothing behind the recovery timestamp.  A backup     *)
(* with at most one file behind its base is sent to its end (or to the     *)
(* timestamp) before the channel is closed.                                *)
(***************************************************************************)
BackupIsSent ==
  FromBackup =>
    /\ IsPrefix(SentCommands, WholeLog)
    /\ ~open[1] /\ ~cancelled /\ OneLog => SentCommands = WholeLog

(***************************************************************************)
(* parsing_aof.go:686 panics over "AOF files that were not successfully    *)
(* sent": when the channel is closed without a panic, every file of the    *)
(* manifest was sent, whatever their number.                               *)
(***************************************************************************)
AllFilesAreSent ==
  FromBackup /\ ~open[1] /\ ~cancelled => SentCommands = WholeLog

(***************************************************************************)
(* An expiry belongs to the key it stands in front of, and reaches the     *)
(* target behind the value: a key without one never gets one, and the last *)
(* command of a volatile key, its RESTORE or the PEXPIRE behind the        *)
(* commands of an oversized value, names that key and the time it has      *)
(* left, 1 ms if that is over.  A key whose expiry is the millisecond it   *)
(* is read in (rdb.go:199 gives 0, no expiry) is not spoken of.            *)
(***************************************************************************)
ExpiryStaysWithItsKey ==
  ~Clustered => \A c \in DOMAIN sent : \A i \in DOMAIN sent[c] : ExpiryKept(sent[c][i])

(* The process ends: readers close their channels, pumps drain them, Close returns. *)
ProcessEnds == <>(proc # "run")

=============================================================================
