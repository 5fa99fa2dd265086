----------------------------- MODULE ScanReader -----------------------------
(***************************************************************************)
(* scanStandaloneReader: subscribe (key events) and scan put keys into a   *)
(* UniqueQueue, dump takes them out and pipelines SELECT, DUMP, PTTL and   *)
(* TYPE, restore pairs the replies with the keys and sends RESTORE.  Five  *)
(* goroutines, the fifth being UniqueQueue's own, and the source's and the *)
(* target's steps in between.                                              *)
(*                                                                         *)
(* A key is [db, name]; the same name may exist in several databases.  A   *)
(* value is a version; 0 is no value.  Versions in Volatile expire, those  *)
(* in Big have a dump above target_redis_proto_max_bulk_len, those in      *)
(* Foreign a type that skip_unknown_type names.                            *)
(***************************************************************************)
EXTENDS Integers, Sequences, FiniteSets, SequencesExt

CONSTANTS
  Dbs, Names,       \* databases and key names of the source
  FirstVersions,    \* what the source holds at the start: [Items -> Nat]
  Volatile, Big, Foreign,
  SkipUnknownType,  \* the option is not empty
  Modes,            \* the combinations of options to consider: [ksn, scan]
  Changing,         \* bound: the keys that change at the source
  MaxChanges,       \* bound: changes at the source
  MaxEvents,        \* bound: events the source has not delivered yet
  RestoreCap,       \* capacity of needRestoreChan
  ChCap             \* capacity of r.ch

Items   == [db : Dbs, name : Names]
Version == 0..(Cardinality(Items) + MaxChanges)
NoItem  == [db |-> 0, name |-> "none"]

ASSUME ScanAssumption ==
  /\ Dbs \subseteq Nat /\ 0 \in Dbs /\ IsFiniteSet(Items)
  /\ SkipUnknownType \in BOOLEAN
  /\ FirstVersions \in [Items -> Version]
  /\ Changing \subseteq Items
  /\ Modes \subseteq [ksn : BOOLEAN, scan : BOOLEAN]
  /\ MaxChanges \in Nat /\ MaxEvents \in Nat
  /\ RestoreCap \in Nat \ {0} /\ ChCap \in Nat \ {0}

VARIABLES
  mode,                          \* opts.KSN, opts.Scan
  src, changes, events,          \* the source: values, and events on their way
  sub,                           \* subscribe: [pc, item]
  scan,                          \* scan: [pc, todo, item]
  inner, innerClosed, set,       \* UniqueQueue
  q,                             \* its goroutine: [pc, item]
  dump,                          \* dump: [pc, item, db]
  scanFinished,                  \* stat.ScanFinished
  reqs, connDb, replies,         \* dumpClient's connection
  restoreChan, restoreClosed,
  restore,                       \* restore: [pc, db, out]
  ch, chClosed,                  \* r.ch
  tgt,                           \* the target: [ver, expires] per item
  cancelled, panicked

source   == <<src, changes, events>>
queue    == <<inner, innerClosed, set>>
conn     == <<reqs, connDb, replies>>
toRest   == <<restoreChan, restoreClosed>>
out      == <<ch, chClosed>>
vars == <<mode, source, sub, scan, queue, q, dump, scanFinished, conn, toRest, restore, out, tgt,
          cancelled, panicked>>

NoValue == [ver |-> 0, of |-> NoItem, expires |-> FALSE]

(* The order in which SCAN visits the keys of the databases. *)
ScanOrder == SetToSeq({i \in Items : i.db = 0}) \o SetToSeq({i \in Items : i.db # 0})

(* StartRead waits for the subscription, then starts the other goroutines. *)
Init ==
  /\ mode \in Modes
  /\ src = FirstVersions /\ changes = 0 /\ events = <<>>
  /\ sub = [pc |-> IF mode.ksn THEN "loop" ELSE "done", item |-> NoItem]
  /\ scan = [pc |-> IF mode.scan THEN "loop" ELSE "done", todo |-> ScanOrder, item |-> NoItem]
  /\ inner = <<>> /\ innerClosed = FALSE /\ set = {}
  /\ q = [pc |-> "range", item |-> NoItem]
  /\ dump = [pc |-> "range", item |-> NoItem, db |-> 0]
  /\ scanFinished = FALSE
  /\ reqs = <<>> /\ connDb = 0 /\ replies = <<>>
  /\ restoreChan = <<>> /\ restoreClosed = FALSE
  /\ restore = [pc |-> "range", db |-> 0, out |-> <<>>]
  /\ ch = <<>> /\ chClosed = FALSE
  /\ tgt = [i \in Items |-> NoValue]
  /\ cancelled = FALSE /\ panicked = FALSE

-----------------------------------------------------------------------------
(* The source (external): a change is published to the subscriber, if any. *)

Publish(i, del) ==
  events' = IF mode.ksn THEN Append(events, [item |-> i, del |-> del]) ELSE events

Change(i, version, del) ==
  /\ changes < MaxChanges /\ Len(events) < MaxEvents
  /\ changes' = changes + 1
  /\ src' = [src EXCEPT ![i] = version]
  /\ Publish(i, del)
  /\ UNCHANGED <<mode, sub, scan, queue, q, dump, scanFinished, conn, toRest, restore, out, tgt,
                 cancelled, panicked>>

SourceSet(i) == Change(i, Cardinality(Items) + changes + 1, FALSE)

SourceDel(i) == src[i] # 0 /\ Change(i, 0, TRUE)

SourceExpire(i) == src[i] \in Volatile /\ Change(i, 0, FALSE)

(* The source executes the commands of dumpClient in order, each when it gets there. *)
PttlOf(v) == CASE v = 0 -> {-2} [] v \in Volatile -> {0, 5} [] OTHER -> {-1}

SourceReplies ==
  /\ reqs # <<>>
  /\ LET req == Head(reqs)
         i   == [db |-> connDb, name |-> req.item.name]
     IN  CASE req.op = "SELECT" ->
                /\ connDb' = req.item.db
                /\ replies' = Append(replies, [kind |-> "ok"])
           [] req.op = "DUMP" ->
                /\ UNCHANGED connDb
                /\ replies' = Append(replies, [kind |-> "dump", of |-> i, ver |-> src[i]])
           [] req.op = "PTTL" ->
                /\ UNCHANGED connDb
                /\ \E t \in PttlOf(src[i]) :
                     replies' = Append(replies, [kind |-> "pttl", ttl |-> t])
           [] req.op = "TYPE" ->
                /\ UNCHANGED connDb
                /\ replies' = Append(replies, [kind |-> "type", skip |-> src[i] \in Foreign])
  /\ reqs' = Tail(reqs)
  /\ UNCHANGED <<mode, source, sub, scan, queue, q, dump, scanFinished, toRest, restore, out, tgt,
                 cancelled, panicked>>

Cancel ==
  /\ ~cancelled /\ cancelled' = TRUE
  /\ UNCHANGED <<mode, source, sub, scan, queue, q, dump, scanFinished, conn, toRest, restore, out,
                 tgt, panicked>>

-----------------------------------------------------------------------------
(* UniqueQueue.  Put is a section under the lock and then a send; a send on a  *)
(* closed channel and a second Close panic.                                    *)

(* Fault: the new item is not entered into the set. *)
PutCheckForgets(i) == UNCHANGED set

PutCheck(i) == set' = set \cup {i}

PutSend(i) ==
  /\ inner' = IF innerClosed THEN inner ELSE Append(inner, i)
  /\ panicked' = innerClosed
  /\ UNCHANGED <<innerClosed, set>>

CloseInner ==
  /\ innerClosed' = TRUE
  /\ panicked' = innerClosed
  /\ UNCHANGED <<inner, set>>

QTake ==
  /\ q.pc = "range" /\ inner # <<>>
  /\ q' = [pc |-> "taken", item |-> Head(inner)]
  /\ inner' = Tail(inner)
  /\ UNCHANGED <<innerClosed, set>>

(* Fault: the item stays in the set. *)
QDeleteForgets ==
  /\ q.pc = "taken"
  /\ q' = [q EXCEPT !.pc = "out"]
  /\ UNCHANGED queue

QDelete ==
  /\ q.pc = "taken"
  /\ set' = set \ {q.item}
  /\ q' = [q EXCEPT !.pc = "out"]
  /\ UNCHANGED <<inner, innerClosed>>

(* innerChannel is closed and empty: close(mc.Ch) ends the loop of dump. *)
QClose ==
  /\ q.pc = "range" /\ innerClosed /\ inner = <<>>
  /\ q' = [q EXCEPT !.pc = "done"]
  /\ UNCHANGED queue

QueueStep ==
  /\ QTake \/ QDelete \/ QClose
  /\ UNCHANGED <<mode, source, sub, scan, dump, scanFinished, conn, toRest, restore, out, tgt,
                 cancelled, panicked>>

-----------------------------------------------------------------------------
(* subscribe *)

(* select: the context is looked at before each Receive, never during one. *)
SubLoop ==
  /\ sub.pc = "loop"
  /\ IF cancelled
     THEN CloseInner /\ sub' = [sub EXCEPT !.pc = "done"]
     ELSE sub' = [sub EXCEPT !.pc = "receive"] /\ UNCHANGED <<queue, panicked>>
  /\ UNCHANGED <<events, out>>

SubReceive ==
  /\ sub.pc = "receive" /\ events # <<>>
  /\ events' = Tail(events)
  /\ LET e == Head(events)
     IN  IF e.del THEN sub' = [pc |-> "del", item |-> e.item] /\ UNCHANGED set
         ELSE IF e.item \in set THEN sub' = [sub EXCEPT !.pc = "loop"] /\ UNCHANGED set
         ELSE sub' = [pc |-> "put", item |-> e.item] /\ PutCheck(e.item)
  /\ UNCHANGED <<inner, innerClosed, panicked, out>>

SubPut ==
  /\ sub.pc = "put"
  /\ PutSend(sub.item)
  /\ sub' = [sub EXCEPT !.pc = "loop"]
  /\ UNCHANGED <<events, out>>

SubDel ==
  /\ sub.pc = "del" /\ (chClosed \/ Len(ch) < ChCap)
  /\ ch' = IF chClosed THEN ch ELSE Append(ch, [op |-> "DEL", item |-> sub.item])
  /\ panicked' = chClosed
  /\ sub' = [sub EXCEPT !.pc = "loop"]
  /\ UNCHANGED <<events, queue, chClosed>>

SubStep ==
  /\ SubLoop \/ SubReceive \/ SubPut \/ SubDel
  /\ UNCHANGED <<mode, src, changes, scan, q, dump, scanFinished, conn, toRest, restore, tgt, cancelled>>

-----------------------------------------------------------------------------
(* scan: one round is one SCAN, which visits one key; a key that exists is put. *)

ScanRound ==
  /\ scan.pc = "loop" /\ scan.todo # <<>>
  /\ IF cancelled
     THEN CloseInner /\ scan' = [scan EXCEPT !.pc = "done"]
     ELSE /\ scan' = [pc   |-> IF src[Head(scan.todo)] # 0 THEN "found" ELSE "loop",
                      todo |-> Tail(scan.todo), item |-> Head(scan.todo)]
          /\ UNCHANGED <<queue, panicked>>
  /\ UNCHANGED scanFinished

ScanPutCheck ==
  /\ scan.pc = "found"
  /\ IF scan.item \in set
     THEN scan' = [scan EXCEPT !.pc = "loop"] /\ UNCHANGED set
     ELSE scan' = [scan EXCEPT !.pc = "put"] /\ PutCheck(scan.item)
  /\ UNCHANGED <<inner, innerClosed, panicked, scanFinished>>

ScanPut ==
  /\ scan.pc = "put"
  /\ PutSend(scan.item)
  /\ scan' = [scan EXCEPT !.pc = "loop"]
  /\ UNCHANGED scanFinished

(* Fault: the end of the scan closes the queue although subscribe goes on. *)
ScanEndCloses ==
  /\ scan.pc = "loop" /\ scan.todo = <<>>
  /\ scan' = [scan EXCEPT !.pc = "done"]
  /\ scanFinished' = TRUE
  /\ CloseInner

(* Fault: the end of the scan leaves the queue open. *)
ScanEndLeavesOpen ==
  /\ scan.pc = "loop" /\ scan.todo = <<>>
  /\ scan' = [scan EXCEPT !.pc = "done"]
  /\ scanFinished' = TRUE
  /\ UNCHANGED <<queue, panicked>>

(* All databases are scanned; the queue stays open for subscribe. *)
ScanEnd ==
  /\ scan.pc = "loop" /\ scan.todo = <<>>
  /\ scan' = [scan EXCEPT !.pc = "done"]
  /\ scanFinished' = TRUE
  /\ IF mode.ksn THEN UNCHANGED <<queue, panicked>> ELSE CloseInner

ScanStep ==
  /\ ScanRound \/ ScanPutCheck \/ ScanPut \/ ScanEnd
  /\ UNCHANGED <<mode, source, sub, q, dump, conn, toRest, restore, out, tgt, cancelled>>

-----------------------------------------------------------------------------
(* dump *)

(* Fault: the connection stays in the database it is in. *)
SwitchesDbNever(now, i) == FALSE

(* dump sends a SELECT, and restore reads its reply, when the database changes. *)
SwitchesDb(now, i) == now # i.db

DumpCommands(i) ==
  (IF SwitchesDb(dump.db, i) THEN <<[op |-> "SELECT", item |-> i]>> ELSE <<>>)
  \o <<[op |-> "DUMP", item |-> i], [op |-> "PTTL", item |-> i]>>
  \o (IF SkipUnknownType THEN <<[op |-> "TYPE", item |-> i]>> ELSE <<>>)

(* mc.Ch is not buffered: UniqueQueue's goroutine hands its item over when dump takes it. *)
DumpItem ==
  /\ q.pc = "out" /\ dump.pc = "range"
  /\ q' = [pc |-> "range", item |-> NoItem]
  /\ reqs' = reqs \o DumpCommands(q.item)
  /\ dump' = [pc |-> "push", item |-> q.item, db |-> q.item.db]
  /\ UNCHANGED toRest

DumpPush ==
  /\ dump.pc = "push" /\ Len(restoreChan) < RestoreCap
  /\ restoreChan' = Append(restoreChan, dump.item)
  /\ dump' = [dump EXCEPT !.pc = "range", !.item = NoItem]
  /\ UNCHANGED <<q, reqs, restoreClosed>>

DumpEnd ==
  /\ dump.pc = "range" /\ q.pc = "done"
  /\ restoreClosed' = TRUE
  /\ dump' = [dump EXCEPT !.pc = "done"]
  /\ UNCHANGED <<q, reqs, restoreChan>>

DumpStep ==
  /\ DumpItem \/ DumpPush \/ DumpEnd
  /\ UNCHANGED <<mode, source, sub, scan, queue, scanFinished, connDb, replies, restore, out, tgt,
                 cancelled, panicked>>

-----------------------------------------------------------------------------
(* restore *)

RestoreTtl(pttl) == CASE pttl = 0 -> 1 [] pttl = -1 -> 0 [] OTHER -> pttl

(* RESTORE, or for a large dump the value's own commands and PEXPIRE. *)
RestoreEntries(i, d, ttl) ==
  IF d.ver \in Big
  THEN <<[op |-> "COMMANDS", item |-> i, of |-> d.of, ver |-> d.ver, ttl |-> 0]>>
       \o (IF ttl # 0 THEN <<[op |-> "PEXPIRE", item |-> i, of |-> d.of, ver |-> d.ver, ttl |-> ttl]>>
           ELSE <<>>)
  ELSE <<[op |-> "RESTORE", item |-> i, of |-> d.of, ver |-> d.ver, ttl |-> ttl]>>

(* One key: the replies are counted off by repeating dump's decisions.  A reply of *)
(* the wrong kind panics.                                                          *)
RestoreKey ==
  /\ restore.pc = "range" /\ restoreChan # <<>>
  /\ LET i    == Head(restoreChan)
         sel  == IF SwitchesDb(restore.db, i) THEN 1 ELSE 0
         type == IF SkipUnknownType THEN 1 ELSE 0
         d    == replies[sel + 1]
         p    == replies[sel + 2]
         bad  == \/ sel = 1 /\ replies[1].kind # "ok"
                 \/ d.kind # "dump" \/ p.kind # "pttl"
                 \/ type = 1 /\ replies[sel + 3].kind # "type"
         skip == type = 1 /\ replies[sel + 3].skip
         emit == IF bad \/ skip \/ d.ver = 0 \/ p.ttl = -2 THEN <<>>
                 ELSE RestoreEntries(i, d, RestoreTtl(p.ttl))
     IN  /\ Len(replies) >= sel + 2 + type
         /\ replies' = SubSeq(replies, sel + 3 + type, Len(replies))
         /\ panicked' = bad
         /\ restore' = [db |-> i.db, out |-> emit,
                        pc |-> IF emit = <<>> THEN "range" ELSE "emit"]
  /\ restoreChan' = Tail(restoreChan)
  /\ UNCHANGED <<restoreClosed, out>>

RestoreEmit ==
  /\ restore.pc = "emit" /\ Len(ch) < ChCap
  /\ ch' = Append(ch, Head(restore.out))
  /\ restore' = [restore EXCEPT !.out = Tail(@), !.pc = IF Len(restore.out) = 1 THEN "range" ELSE "emit"]
  /\ UNCHANGED <<replies, toRest, panicked, chClosed>>

RestoreEnd ==
  /\ restore.pc = "range" /\ restoreChan = <<>> /\ restoreClosed
  /\ restore' = [restore EXCEPT !.pc = "done"]
  /\ chClosed' = TRUE
  /\ UNCHANGED <<replies, toRest, ch, panicked>>

RestoreStep ==
  /\ RestoreKey \/ RestoreEmit \/ RestoreEnd
  /\ UNCHANGED <<mode, source, sub, scan, queue, q, dump, scanFinished, reqs, connDb, tgt, cancelled>>

-----------------------------------------------------------------------------
(* main's pump and the writer, whose order RedisWriter shows, and the target  *)
(* (external) with rdb_restore_command_behavior = "rewrite".  The commands of *)
(* a rewritten value are added to a value that is already there: ver = -1.    *)

Apply(e) ==
  CASE e.op = "DEL" -> NoValue
    [] e.op = "RESTORE" -> [ver |-> e.ver, of |-> e.of, expires |-> e.ttl # 0]
    [] e.op = "COMMANDS" ->
         IF tgt[e.item].ver = 0 THEN [ver |-> e.ver, of |-> e.of, expires |-> FALSE]
         ELSE [tgt[e.item] EXCEPT !.ver = -1]
    [] e.op = "PEXPIRE" -> IF tgt[e.item].ver = 0 THEN NoValue
                           ELSE [tgt[e.item] EXCEPT !.expires = TRUE]

Deliver ==
  /\ ch # <<>>
  /\ tgt' = [tgt EXCEPT ![Head(ch).item] = Apply(Head(ch))]
  /\ ch' = Tail(ch)
  /\ UNCHANGED <<mode, source, sub, scan, queue, q, dump, scanFinished, conn, toRest, restore, chClosed,
                 cancelled, panicked>>

Next ==
  /\ ~panicked
  /\ \/ \E i \in Changing : SourceSet(i) \/ SourceDel(i) \/ SourceExpire(i)
     \/ SourceReplies \/ Cancel
     \/ QueueStep \/ SubStep \/ ScanStep \/ DumpStep \/ RestoreStep
     \/ Deliver

Spec == Init /\ [][Next]_vars

(***************************************************************************)
(* As long as some goroutine, the source's replies or the target can go    *)
(* on, one of them does.  Nobody has to change a key or to cancel.         *)
(***************************************************************************)
Progress ==
  /\ ~panicked
  /\ QueueStep \/ SubStep \/ ScanStep \/ DumpStep \/ RestoreStep \/ SourceReplies \/ Deliver

FairSpec == Spec /\ WF_vars(Progress)

-----------------------------------------------------------------------------
Event == [item : Items, del : BOOLEAN]

Request == [op : {"SELECT", "DUMP", "PTTL", "TYPE"}, item : Items]

Reply ==
  [kind : {"ok"}] \cup [kind : {"dump"}, of : Items, ver : Version]
    \cup [kind : {"pttl"}, ttl : {-2, -1, 0, 5}] \cup [kind : {"type"}, skip : BOOLEAN]

Restored ==
  [op : {"RESTORE", "COMMANDS", "PEXPIRE"}, item : Items, of : Items, ver : Version, ttl : {0, 1, 5}]

Entry == [op : {"DEL"}, item : Items] \cup Restored

Value == [ver : Version \cup {-1}, of : Items \cup {NoItem}, expires : BOOLEAN]

SourceOK ==
  /\ mode \in Modes
  /\ src \in [Items -> Version] /\ changes \in 0..MaxChanges
  /\ events \in Seq(Event) /\ Len(events) <= MaxEvents

ProducersOK ==
  /\ sub \in [pc : {"loop", "receive", "put", "del", "done"}, item : Items \cup {NoItem}]
  /\ scan \in [pc : {"loop", "found", "put", "done"}, todo : Seq(Items), item : Items \cup {NoItem}]
  /\ sub.pc \in {"put", "del"} => sub.item \in Items
  /\ scan.pc \in {"found", "put"} => scan.item \in Items
  /\ scanFinished \in BOOLEAN /\ cancelled \in BOOLEAN /\ panicked \in BOOLEAN

QueueOK ==
  /\ inner \in Seq(Items) /\ innerClosed \in BOOLEAN /\ set \in SUBSET Items
  /\ q \in [pc : {"range", "taken", "out", "done"}, item : Items \cup {NoItem}]
  /\ q.pc \in {"taken", "out"} => q.item \in Items

DumpOK ==
  /\ dump \in [pc : {"range", "push", "done"}, item : Items \cup {NoItem}, db : Dbs]
  /\ dump.pc = "push" => dump.item \in Items
  /\ reqs \in Seq(Request) /\ connDb \in Dbs /\ replies \in Seq(Reply)
  /\ restoreChan \in Seq(Items) /\ Len(restoreChan) <= RestoreCap /\ restoreClosed \in BOOLEAN

RestoreOK ==
  /\ restore \in [pc : {"range", "emit", "done"}, db : Dbs, out : Seq(Restored)]
  /\ restore.pc = "emit" <=> restore.out # <<>>
  /\ ch \in Seq(Entry) /\ Len(ch) <= ChCap /\ chClosed \in BOOLEAN
  /\ tgt \in [Items -> Value]

(* The channels stay within their capacities and every goroutine, the queue, *)
(* the connection and the target are in a state of the code.                 *)
TypeOK == SourceOK /\ ProducersOK /\ QueueOK /\ DumpOK /\ RestoreOK

(***************************************************************************)
(* Every value that reaches the target under a key was dumped from that    *)
(* key in that database: the replies restore counts off stay aligned with  *)
(* the commands dump pipelined.                                            *)
(***************************************************************************)
ValueBelongsToKey == \A i \in Items : tgt[i].ver # 0 => tgt[i].of = i

(***************************************************************************)
(* With one producer of keys (scan or ksn alone) cancellation never makes  *)
(* the process panic on a closed channel, and replies never mismatch.      *)
(***************************************************************************)
OneProducerIsSafe == panicked => mode.ksn /\ mode.scan /\ cancelled

Mirrored(i) == tgt[i].ver = src[i] /\ tgt[i].expires = (src[i] \in Volatile)

(* Followed: its changes reach the reader as events, or it has not changed since the start. *)
Followed(i) ==
  \/ mode.ksn /\ src[i] > Cardinality(Items)
  \/ mode.scan /\ src[i] = FirstVersions[i]

(* Copied by RESTORE: of a type that is not skipped, and small enough. *)
Copied(v) == v # 0 /\ v \notin Big /\ (SkipUnknownType => v \notin Foreign)

InStep == \A i \in Items : Copied(src[i]) /\ Followed(i) => Mirrored(i)

(***************************************************************************)
(* The target catches up with the source again and again, until the reader *)
(* is cancelled: every followed key that exists, has a type that is copied *)
(* and fits into a RESTORE is there with its last value, and expires       *)
(* exactly if it expires at the source.  No changed key is left behind.    *)
(***************************************************************************)
TargetCatchesUp == []<>(cancelled \/ InStep)

(***************************************************************************)
(* A scan without ksn that is over, or cancelled, closes its channel.      *)
(***************************************************************************)
ScanEnds == mode.scan /\ ~mode.ksn ~> chClosed

(***************************************************************************)
(* UniqueQueue, with its lock, its channel and its goroutine, implements   *)
(* a first-in first-out queue without duplicates: what waits is the item   *)
(* its goroutine has taken and not yet deleted from the set, and the       *)
(* channel.                                                                *)
(***************************************************************************)
Fifo == INSTANCE UniqueFifo WITH
          waiting <- (IF q.pc = "taken" THEN <<q.item>> ELSE <<>>) \o inner,
          open    <- ~innerClosed

QueueIsFifo == Fifo!FifoSpec

=============================================================================
