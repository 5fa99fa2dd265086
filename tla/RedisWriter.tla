----------------------------- MODULE RedisWriter -----------------------------
(***************************************************************************)
(* redisStandaloneWriter: the goroutine processWrite takes entries from    *)
(* the channel ch, switches database when an entry needs it, waits for the *)
(* query buffer of the target to drain, registers the entry in             *)
(* chWaitReply and hands its bytes to a buffered connection; processReply  *)
(* pairs the k-th reply with the k-th registered command; Close closes the *)
(* two channels one after the other and waits for the goroutines.          *)
(*                                                                         *)
(* Every channel is kept as the history of what was sent on it and the     *)
(* number of items received from it, so that orders can be compared:       *)
(*   ch           written, recv        chWaitReply   reqs, reqTaken        *)
(*   connection   conn, flushed        replies       executed, received    *)
(***************************************************************************)
EXTENDS Integers, Sequences, FiniteSets

CONSTANTS
  Entries,             \* the entries main may write: [cmd, db, to, size]
  MaxEntries,          \* bound: entries written in one behaviour
  PipelineCountLimit,  \* advanced.pipeline_count_limit, capacity of ch
  QuerybufLimit,       \* advanced.target_redis_client_max_querybuf_len
  BufioSize,           \* capacity of the connection's bufio.Writer
  OffReply,            \* redis_writer.off_reply
  Replies,             \* replies the target may give: "ok", "busykey", "error"
  BusykeyBehavior      \* advanced.rdb_restore_command_behavior

NoSelect == -1

Commands == [own : BOOLEAN, n : Nat, sel : Nat \cup {NoSelect}]

ASSUME WriterAssumption ==
  /\ Entries \subseteq [cmd : {"select", "write"}, db : Nat, to : Nat, size : Nat \ {0}]
  /\ MaxEntries \in Nat
  /\ PipelineCountLimit \in Nat \ {0}
  /\ QuerybufLimit \in Nat
  /\ BufioSize \in Nat \ {0}
  /\ OffReply \in BOOLEAN
  /\ Replies \subseteq {"ok", "busykey", "error"} /\ "ok" \in Replies
  /\ BusykeyBehavior \in {"skip", "panic", "rewrite"}

VARIABLES
  written,            \* entries accepted by ch, in order
  recv,               \* number of them processWrite has received
  chClosed,           \* close(w.ch) done
  DbId,               \* w.DbId
  wpc,                \* where processWrite is
  conn,               \* commands handed to the client, in order
  flushed,            \* number of them that left the bufio.Writer completely
  buffered,           \* bytes held by the bufio.Writer
  reqs,               \* items put on chWaitReply, in order
  reqTaken,           \* number of them processReply has received
  waitClosed,         \* close(w.chWaitReply) done
  rpc,                \* where processReply is
  unansweredBytes,    \* w.stat.UnansweredBytes
  unansweredEntries,  \* w.stat.UnansweredEntries
  executed,           \* target: what it did with the commands it received
  targetDb,           \* target: the database the connection has selected
  cpc,                \* where main is in Close
  status              \* of the process: running, exited, crashed

chVars     == <<written, recv, chClosed>>
waitVars   == <<reqs, reqTaken, waitClosed>>
connVars   == <<conn, flushed, buffered>>
statVars   == <<unansweredBytes, unansweredEntries>>
targetVars == <<executed, targetDb>>
vars == <<chVars, DbId, wpc, connVars, waitVars, rpc, statVars, targetVars, cpc, status>>

(***************************************************************************)
(* A command on the connection: own = FALSE is the select that switchDbTo  *)
(* sends ahead of the n-th entry, own = TRUE the n-th entry itself.  sel   *)
(* is the database it selects, if it is a select.                          *)
(***************************************************************************)
SwitchCmd(n) == [own |-> FALSE, n |-> n, sel |-> written[n].db]
EntryCmd(n)  == [own |-> TRUE, n |-> n,
                 sel |-> IF written[n].cmd = "select" THEN written[n].to ELSE NoSelect]

cur == written[recv]     \* the entry processWrite is working on

ChLen      == Len(written) - recv
WaitLen    == Len(reqs) - reqTaken
WaitLimit  == 2 * PipelineCountLimit
Running    == status = "running"

TypeOK ==
  /\ written \in Seq(Entries) /\ Len(written) <= MaxEntries
  /\ recv \in 0..Len(written)
  /\ chClosed \in BOOLEAN /\ waitClosed \in BOOLEAN
  /\ DbId \in Nat
  /\ wpc \in {"select", "switch", "switchWait", "querybuf", "enqueue", "enqueueWait",
              "count", "send", "done"}
  /\ conn \in Seq(Commands)
  /\ flushed \in 0..Len(conn)
  /\ buffered \in 0..BufioSize
  /\ reqs \in Seq(Commands)
  /\ reqTaken \in 0..Len(reqs)
  /\ rpc \in {"off", "range", "receive", "done"}
  /\ unansweredBytes \in Int /\ unansweredEntries \in Int
  /\ executed \in Seq([db : Nat, reply : Replies]) /\ Len(executed) <= flushed
  /\ targetDb \in Nat
  /\ cpc \in {"open", "waitWrite", "waitReply", "closed"}
  /\ status \in {"running", "exited", "crashed"}

(* NewRedisStandaloneWriter and StartWrite: both goroutines wait. *)
Init ==
  /\ written = <<>> /\ recv = 0 /\ chClosed = FALSE
  /\ DbId = 0 /\ wpc = "select"
  /\ conn = <<>> /\ flushed = 0 /\ buffered = 0
  /\ reqs = <<>> /\ reqTaken = 0 /\ waitClosed = FALSE
  /\ rpc = (IF OffReply THEN "off" ELSE "range")
  /\ unansweredBytes = 0 /\ unansweredEntries = 0
  /\ executed = <<>> /\ targetDb = 0
  /\ cpc = "open" /\ status = "running"

-----------------------------------------------------------------------------
(* The client's bufio.Writer. *)

(* client.Flush *)
Flush == flushed' = Len(conn) /\ buffered' = 0 /\ UNCHANGED conn

(* client.Send: the command and everything buffered before it leave at once. *)
Send(c) == conn' = Append(conn, c) /\ flushed' = Len(conn) + 1 /\ buffered' = 0

(***************************************************************************)
(* client.SendBytesBuff: bufio.Writer.Write fills the buffer and writes it *)
(* out when the bytes do not fit; a rest larger than the buffer goes out   *)
(* directly.  A command whose tail stays in the buffer is not complete at  *)
(* the target.                                                             *)
(***************************************************************************)
SendBytesBuff(c, size) ==
  LET free == BufioSize - buffered
      rest == IF buffered = 0 THEN size ELSE size - free
  IN  /\ conn' = Append(conn, c)
      /\ \/ /\ size <= free
            /\ buffered' = buffered + size
            /\ flushed' = flushed
         \/ /\ size > free
            /\ rest > BufioSize \/ buffered = 0
            /\ buffered' = 0
            /\ flushed' = Len(conn) + 1
         \/ /\ size > free
            /\ buffered # 0 /\ rest <= BufioSize
            /\ buffered' = rest
            /\ flushed' = Len(conn)

-----------------------------------------------------------------------------
(* The goroutine processWrite. *)

(* Write: main, or any goroutine of main, puts an entry on ch. *)
Write(e) ==
  /\ Running /\ cpc = "open"
  /\ Len(written) < MaxEntries /\ ChLen < PipelineCountLimit
  /\ written' = Append(written, e)
  /\ UNCHANGED <<recv, chClosed, DbId, wpc, connVars, waitVars, rpc, statVars, targetVars,
                 cpc, status>>

(* Fault: no flush on the ticker. *)
TickerFlushMissing == FALSE /\ UNCHANGED vars

(* case <-ticker.C *)
TickerFlush ==
  /\ Running /\ wpc = "select"
  /\ buffered > 0
  /\ Flush
  /\ UNCHANGED <<chVars, DbId, wpc, waitVars, rpc, statVars, targetVars, cpc, status>>

(* case e, ok := <-w.ch, with an entry *)
ReceiveEntry ==
  /\ Running /\ wpc = "select"
  /\ recv < Len(written)
  /\ recv' = recv + 1
  /\ wpc' = IF DbId # written[recv + 1].db THEN "switch" ELSE "querybuf"
  /\ UNCHANGED <<written, chClosed, DbId, connVars, waitVars, rpc, statVars, targetVars,
                 cpc, status>>

(* Fault: no flush before the goroutine ends. *)
DrainExitUnflushed ==
  /\ Running /\ wpc = "select"
  /\ recv = Len(written) /\ chClosed
  /\ wpc' = "done"
  /\ UNCHANGED <<chVars, DbId, connVars, waitVars, rpc, statVars, targetVars, cpc, status>>

(* case e, ok := <-w.ch, with the channel closed and drained *)
DrainExit ==
  /\ Running /\ wpc = "select"
  /\ recv = Len(written) /\ chClosed
  /\ Flush
  /\ wpc' = "done"
  /\ UNCHANGED <<chVars, DbId, waitVars, rpc, statVars, targetVars, cpc, status>>

(* Fault: the select is never registered in chWaitReply. *)
SwitchDbSendUnregistered ==
  /\ Running /\ wpc = "switch"
  /\ Send(SwitchCmd(recv))
  /\ DbId' = cur.db
  /\ wpc' = "querybuf"
  /\ UNCHANGED <<chVars, waitVars, rpc, statVars, targetVars, cpc, status>>

(* Fault: w.DbId is not updated. *)
SwitchDbSendForgetful ==
  /\ Running /\ wpc = "switch"
  /\ Send(SwitchCmd(recv))
  /\ wpc' = IF OffReply THEN "querybuf" ELSE "switchWait"
  /\ UNCHANGED <<chVars, DbId, waitVars, rpc, statVars, targetVars, cpc, status>>

(* switchDbTo: send the select, which also flushes, ... *)
SwitchDbSend ==
  /\ Running /\ wpc = "switch"
  /\ Send(SwitchCmd(recv))
  /\ DbId' = cur.db
  /\ wpc' = IF OffReply THEN "querybuf" ELSE "switchWait"
  /\ UNCHANGED <<chVars, waitVars, rpc, statVars, targetVars, cpc, status>>

(* ... and then register it, waiting while chWaitReply is full. *)
SwitchDbRegister ==
  /\ Running /\ wpc = "switchWait"
  /\ WaitLen < WaitLimit
  /\ reqs' = Append(reqs, SwitchCmd(recv))
  /\ wpc' = "querybuf"
  /\ UNCHANGED <<chVars, DbId, connVars, reqTaken, waitClosed, rpc, statVars, targetVars,
                 cpc, status>>

(* The loop over UnansweredBytes ends; until then it sleeps and flushes nothing. *)
QuerybufWait ==
  /\ Running /\ wpc = "querybuf"
  /\ ~ (unansweredBytes > 0 /\ cur.size + unansweredBytes > QuerybufLimit)
  /\ wpc' = IF OffReply THEN "send" ELSE "enqueue"
  /\ UNCHANGED <<chVars, DbId, connVars, waitVars, rpc, statVars, targetVars, cpc, status>>

(* case w.chWaitReply <- e *)
Enqueue ==
  /\ Running /\ wpc \in {"enqueue", "enqueueWait"}
  /\ WaitLen < WaitLimit
  /\ reqs' = Append(reqs, EntryCmd(recv))
  /\ wpc' = "count"
  /\ UNCHANGED <<chVars, DbId, connVars, reqTaken, waitClosed, rpc, statVars, targetVars,
                 cpc, status>>

(* default: chWaitReply is full, so flush before blocking on it *)
EnqueueFull ==
  /\ Running /\ wpc = "enqueue"
  /\ WaitLen = WaitLimit
  /\ Flush
  /\ wpc' = "enqueueWait"
  /\ UNCHANGED <<chVars, DbId, waitVars, rpc, statVars, targetVars, cpc, status>>

(* Fault: one of the two counters is not increased. *)
CountBytesOnly ==
  /\ Running /\ wpc = "count"
  /\ unansweredBytes' = unansweredBytes + cur.size
  /\ wpc' = "send"
  /\ UNCHANGED <<chVars, DbId, connVars, waitVars, rpc, unansweredEntries, targetVars, cpc, status>>

(* the two atomic.AddInt64 of the sender *)
Count ==
  /\ Running /\ wpc = "count"
  /\ unansweredBytes' = unansweredBytes + cur.size
  /\ unansweredEntries' = unansweredEntries + 1
  /\ wpc' = "send"
  /\ UNCHANGED <<chVars, DbId, connVars, waitVars, rpc, targetVars, cpc, status>>

(* w.client.SendBytesBuff(bytes) *)
SendEntry ==
  /\ Running /\ wpc = "send"
  /\ SendBytesBuff(EntryCmd(recv), cur.size)
  /\ wpc' = "select"
  /\ UNCHANGED <<chVars, DbId, waitVars, rpc, statVars, targetVars, cpc, status>>

-----------------------------------------------------------------------------
(* The goroutine processReply. *)

(* for e := range w.chWaitReply, with an item *)
TakeRequest ==
  /\ Running /\ rpc = "range"
  /\ reqTaken < Len(reqs)
  /\ reqTaken' = reqTaken + 1
  /\ rpc' = "receive"
  /\ UNCHANGED <<chVars, DbId, wpc, connVars, reqs, waitClosed, statVars, targetVars,
                 cpc, status>>

(***************************************************************************)
(* Receive returns the next reply: the replies before it belong to the     *)
(* items taken before this one, so it is number reqTaken.  BUSYKEY and     *)
(* other errors end the process where the code calls log.Panicf.           *)
(***************************************************************************)
Fatal(reply) ==
  \/ reply = "error"
  \/ reply = "busykey" /\ BusykeyBehavior = "panic"

ReceiveReply ==
  /\ Running /\ rpc = "receive"
  /\ reqTaken <= Len(executed)
  /\ LET req   == reqs[reqTaken]
         reply == executed[reqTaken].reply
     IN  \/ /\ Fatal(reply)
            /\ status' = "crashed"
            /\ UNCHANGED <<rpc, statVars>>
         \/ /\ ~ Fatal(reply)
            /\ req.sel # NoSelect             \* skip select command
            /\ rpc' = "range"
            /\ UNCHANGED <<statVars, status>>
         \/ /\ ~ Fatal(reply)
            /\ req.sel = NoSelect
            /\ unansweredBytes' = unansweredBytes - written[req.n].size
            /\ unansweredEntries' = unansweredEntries - 1
            /\ rpc' = "range"
            /\ UNCHANGED status
  /\ UNCHANGED <<chVars, DbId, wpc, connVars, waitVars, targetVars, cpc>>

(* the range loop ends: chWaitReply is closed and drained *)
ReplyExit ==
  /\ Running /\ rpc = "range"
  /\ reqTaken = Len(reqs) /\ waitClosed
  /\ rpc' = "done"
  /\ UNCHANGED <<chVars, DbId, wpc, connVars, waitVars, statVars, targetVars, cpc, status>>

-----------------------------------------------------------------------------
(* main: Close, then the process ends. *)

(* close(w.ch); with off_reply Close does nothing at all *)
CloseCh ==
  /\ Running /\ cpc = "open"
  /\ IF OffReply
       THEN cpc' = "closed" /\ UNCHANGED chClosed
       ELSE cpc' = "waitWrite" /\ chClosed' = TRUE
  /\ UNCHANGED <<written, recv, DbId, wpc, connVars, waitVars, rpc, statVars, targetVars, status>>

(* Fault: Close does not wait for processWrite. *)
CloseWaitReplyEarly ==
  /\ Running /\ cpc = "waitWrite"
  /\ waitClosed' = TRUE
  /\ cpc' = "waitReply"
  /\ UNCHANGED <<chVars, DbId, wpc, connVars, reqs, reqTaken, rpc, statVars, targetVars, status>>

(* w.chWg.Wait(); close(w.chWaitReply) *)
CloseWaitReply ==
  /\ Running /\ cpc = "waitWrite" /\ wpc = "done"
  /\ waitClosed' = TRUE
  /\ cpc' = "waitReply"
  /\ UNCHANGED <<chVars, DbId, wpc, connVars, reqs, reqTaken, rpc, statVars, targetVars, status>>

(* Fault: Close does not wait for processReply. *)
CloseReturnEarly ==
  /\ Running /\ cpc = "waitReply"
  /\ cpc' = "closed"
  /\ UNCHANGED <<chVars, DbId, wpc, connVars, waitVars, rpc, statVars, targetVars, status>>

(* w.chWaitWg.Wait() *)
CloseReturn ==
  /\ Running /\ cpc = "waitReply" /\ rpc = "done"
  /\ cpc' = "closed"
  /\ UNCHANGED <<chVars, DbId, wpc, connVars, waitVars, rpc, statVars, targetVars, status>>

(* main returns *)
Exit ==
  /\ Running /\ cpc = "closed"
  /\ status' = "exited"
  /\ UNCHANGED <<chVars, DbId, wpc, connVars, waitVars, rpc, statVars, targetVars, cpc>>

-----------------------------------------------------------------------------
(* The target executes what reached it, in order; it outlives the process. *)
TargetExecute(reply) ==
  /\ Len(executed) < flushed
  /\ LET c == conn[Len(executed) + 1]
     IN  /\ executed' = Append(executed, [db |-> targetDb, reply |-> reply])
         /\ targetDb' = IF c.sel # NoSelect /\ reply # "error" THEN c.sel ELSE targetDb
  /\ UNCHANGED <<chVars, DbId, wpc, connVars, waitVars, rpc, statVars, cpc, status>>

(* Nothing is left to do once the process has ended. *)
Terminated == ~ Running /\ Len(executed) = flushed /\ UNCHANGED vars

WriterStep == TickerFlush \/ ReceiveEntry \/ DrainExit \/ SwitchDbSend \/ SwitchDbRegister
              \/ QuerybufWait \/ Enqueue \/ EnqueueFull \/ Count \/ SendEntry
ReplyStep  == TakeRequest \/ ReceiveReply \/ ReplyExit
CloseStep  == CloseWaitReply \/ CloseReturn \/ Exit
TargetStep == \E r \in Replies : TargetExecute(r)

Next == \/ \E e \in Entries : Write(e)
        \/ WriterStep \/ ReplyStep \/ CloseCh \/ CloseStep \/ TargetStep \/ Terminated

Spec == Init /\ [][Next]_vars

(***************************************************************************)
(* Goroutines are scheduled, the ticker fires every 10ms and the target    *)
(* answers what it received.  Nobody is obliged to write or to close.      *)
(***************************************************************************)
Fairness == /\ WF_vars(WriterStep) /\ WF_vars(ReplyStep)
            /\ WF_vars(CloseStep) /\ WF_vars(TargetStep)

FairSpec == Spec /\ Fairness

-----------------------------------------------------------------------------
(* Properties *)

(***************************************************************************)
(* The k-th item processReply takes from chWaitReply is the k-th command   *)
(* on the connection, although selects are sent before they are registered *)
(* and entries registered before they are sent: a reply is never charged   *)
(* to another command.                                                     *)
(***************************************************************************)
RepliesPaired ==
  \A k \in 1..Len(reqs) : k <= Len(conn) => reqs[k] = conn[k]

(***************************************************************************)
(* The target executes the entries in the order in which main wrote them,  *)
(* each of them once.                                                      *)
(***************************************************************************)
EntriesInOrder ==
  \A j, k \in 1..Len(executed) :
    j < k /\ conn[j].own /\ conn[k].own => conn[j].n < conn[k].n

(***************************************************************************)
(* As long as main writes no SELECT of its own and none fails, the target  *)
(* executes each entry in the database the entry was read from.            *)
(***************************************************************************)
NoRawSelect == \A i \in 1..Len(written) : written[i].cmd # "select"

ExecutedInItsDb ==
  NoRawSelect /\ "error" \notin Replies =>
    \A k \in 1..Len(executed) : conn[k].own => executed[k].db = written[conn[k].n].db

(***************************************************************************)
(* main relies on Close to "wait for all writing operations to complete":  *)
(* when it returns, the target has executed every entry ever written.      *)
(***************************************************************************)
AllExecuted ==
  \A n \in 1..Len(written) : \E k \in 1..Len(executed) : conn[k].own /\ conn[k].n = n

CloseWaitsForWrites == cpc = "closed" => AllExecuted

(***************************************************************************)
(* The process does not end normally after the target rejected a command:  *)
(* Close waits for the last reply and log.Panicf comes first.              *)
(***************************************************************************)
RejectionIsFatal ==
  status = "exited" => \A k \in 1..Len(executed) : ~ Fatal(executed[k].reply)

(***************************************************************************)
(* UnansweredBytes and UnansweredEntries, which the status page reports    *)
(* and StatusConsistent tests, count the registered, unanswered entries:   *)
(* no reply is subtracted before its entry was added, none is lost.  And   *)
(* the bytes sent and not answered exceed                                  *)
(* target_redis_client_max_querybuf_len only when they belong to one       *)
(* oversized entry.                                                        *)
(***************************************************************************)
Counted  == IF wpc = "count" THEN Len(reqs) - 1 ELSE Len(reqs)
Answered == IF rpc = "receive" THEN reqTaken - 1 ELSE reqTaken

(* The bytes of the entries among the first k registered commands. *)
BytesUpTo[k \in 0..Len(reqs)] ==
  IF k = 0 THEN 0
  ELSE BytesUpTo[k - 1] + (IF reqs[k].own THEN written[reqs[k].n].size ELSE 0)

CountersExact ==
  /\ unansweredBytes > QuerybufLimit => unansweredEntries = 1
  /\ NoRawSelect =>
       /\ unansweredBytes = BytesUpTo[Counted] - BytesUpTo[Answered]
       /\ unansweredEntries = Cardinality({k \in (Answered + 1)..Counted : reqs[k].own})

(***************************************************************************)
(* The comment over the loop of processWrite: "Wait only while target has  *)
(* in-flight bytes".  Spinning is the opposite: the loop waits, the target *)
(* has executed all that was flushed and processReply has taken all of its *)
(* replies, so that the bytes it waits for are still in the bufio.Writer,  *)
(* which the loop does not flush, or were leaked by a SELECT entry, which  *)
(* is added to UnansweredBytes and never subtracted.                       *)
(***************************************************************************)
TargetIsIdle ==
  /\ Len(executed) = flushed
  /\ \/ rpc = "range" /\ reqTaken = Len(reqs)
     \/ rpc = "receive" /\ reqTaken > Len(executed)

Spinning ==
  /\ wpc = "querybuf"
  /\ unansweredBytes > 0 /\ cur.size + unansweredBytes > QuerybufLimit
  /\ TargetIsIdle

WaitsOnlyForTheTarget == Running => ~ Spinning

(***************************************************************************)
(* Every entry accepted by ch is executed by the target, or the process    *)
(* stops because of an error reply, or processWrite spins in the wait for  *)
(* the query buffer: nothing else holds an entry back for ever.            *)
(***************************************************************************)
EntryExecuted(n) == \E k \in 1..Len(executed) : conn[k].own /\ conn[k].n = n

EveryEntryExecuted ==
  \A n \in 1..MaxEntries :
    n <= Len(written) ~> EntryExecuted(n) \/ status = "crashed" \/ Spinning

(***************************************************************************)
(* Close returns and the process ends, whatever is still in the channels,  *)
(* unless processWrite spins: the writer, chWaitReply at its capacity,     *)
(* processReply and Close never wait for each other.                       *)
(***************************************************************************)
CloseReturns == cpc # "open" ~> ~ Running \/ Spinning

=============================================================================
