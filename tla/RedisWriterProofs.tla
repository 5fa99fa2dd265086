-------------------------- MODULE RedisWriterProofs --------------------------
(***************************************************************************)
(* What holds of redisStandaloneWriter for every pipeline limit, query     *)
(* buffer limit, buffer size and number of entries.                        *)
(***************************************************************************)
EXTENDS RedisWriter, FiniteSetTheorems, WellFoundedInduction, TLAPS

(***************************************************************************)
(* Facts about Append that every proof below uses.                         *)
(***************************************************************************)
LEMMA AppendFacts ==
  ASSUME NEW S, NEW s \in Seq(S), NEW e \in S
  PROVE  /\ Append(s, e) \in Seq(S)
         /\ Len(Append(s, e)) = Len(s) + 1
         /\ Append(s, e)[Len(s) + 1] = e
         /\ \A i \in 1..Len(s) : Append(s, e)[i] = s[i]
         /\ Len(s) \in Nat
  OBVIOUS

LEMMA AppendIndexed ==
  ASSUME NEW s \in Seq(Commands), NEW c \in Commands, NEW m \in Nat,
         c.n \in 1..m, \A k \in 1..Len(s) : s[k].n \in 1..m
  PROVE  \A k \in 1..Len(Append(s, c)) : Append(s, c)[k].n \in 1..m
BY AppendFacts

LEMMA BufioArithmetic ==
  ASSUME NEW cap \in Nat, NEW b \in 0..cap, NEW size \in Nat
  PROVE  /\ size <= cap - b => b + size \in 0..cap
         /\ size > cap - b /\ size - (cap - b) <= cap => size - (cap - b) \in 0..cap
  OBVIOUS

LEMMA SeqFacts ==
  ASSUME NEW S, NEW s \in Seq(S)
  PROVE  Len(s) \in Nat /\ \A i \in 1..Len(s) : s[i] \in S
  OBVIOUS

(***************************************************************************)
(* processWrite works on an entry it has received.                         *)
(***************************************************************************)
Busy == wpc \in {"switch", "switchWait", "querybuf", "enqueue", "enqueueWait", "count", "send"}

TypeInv ==
  /\ TypeOK
  /\ Busy => recv > 0
  /\ rpc = "receive" => reqTaken > 0
  /\ \A k \in 1..Len(conn) : conn[k].n \in 1..recv
  /\ \A k \in 1..Len(reqs) : reqs[k].n \in 1..recv

LEMMA Bounds ==
  /\ MaxEntries \in Nat /\ PipelineCountLimit \in Nat /\ PipelineCountLimit > 0
  /\ BufioSize \in Nat /\ BufioSize > 0 /\ QuerybufLimit \in Nat
BY WriterAssumption

LEMMA CurrentEntry ==
  ASSUME TypeInv, Busy
  PROVE  /\ recv \in 1..Len(written) /\ cur \in Entries
         /\ cur.size \in Nat \ {0} /\ cur.db \in Nat
         /\ SwitchCmd(recv) \in Commands /\ EntryCmd(recv) \in Commands
         /\ SwitchCmd(recv).n \in 1..recv /\ EntryCmd(recv).n \in 1..recv
<1>1. recv \in 1..Len(written) /\ cur \in Entries
  BY SeqFacts DEF TypeInv, TypeOK, cur
<1>2. /\ cur.cmd \in {"select", "write"} /\ cur.db \in Nat /\ cur.to \in Nat
      /\ cur.size \in Nat \ {0}
  BY <1>1, WriterAssumption
<1>3. QED
  BY <1>1, <1>2 DEF SwitchCmd, EntryCmd, cur, NoSelect, Commands

LEMMA EmptySeq == ASSUME NEW S PROVE <<>> \in Seq(S) /\ Len(<<>>) = 0
OBVIOUS

LEMMA TypeInvInit == Init => TypeInv
<1> SUFFICES ASSUME Init PROVE TypeInv
  OBVIOUS
<1>1. rpc \in {"off", "range"}
  BY DEF Init
<1>2. chClosed \in BOOLEAN /\ waitClosed \in BOOLEAN
  BY Zenon DEF Init
<1>3. /\ written \in Seq(Entries) /\ Len(written) = 0
      /\ conn \in Seq(Commands) /\ Len(conn) = 0
      /\ reqs \in Seq(Commands) /\ Len(reqs) = 0
      /\ executed \in Seq([db : Nat, reply : Replies]) /\ Len(executed) = 0
  BY EmptySeq DEF Init
<1>4. /\ recv = 0 /\ DbId = 0 /\ wpc = "select" /\ flushed = 0 /\ buffered = 0
      /\ reqTaken = 0 /\ unansweredBytes = 0 /\ unansweredEntries = 0 /\ targetDb = 0
      /\ cpc = "open" /\ status = "running"
  BY DEF Init
<1>5. QED
  BY <1>1, <1>2, <1>3, <1>4, Bounds DEF TypeInv, TypeOK, Busy

(* A step that changes nothing but counters and control. *)
LEMMA CounterStep ==
  ASSUME TypeInv,
         UNCHANGED <<written, recv, chClosed, conn, flushed, buffered, reqs, reqTaken,
                     waitClosed, executed, targetDb, DbId, cpc>>,
         unansweredBytes' \in Int, unansweredEntries' \in Int,
         wpc' = wpc \/ (wpc = "count" /\ wpc' = "send"),
         rpc' \in {rpc, "range"}, status' \in {status, "crashed"}
  PROVE  TypeInv'
<1>1. TypeOK'
  BY DEF TypeInv, TypeOK
<1>2. Busy' => Busy
  BY DEF Busy
<1>3. QED
  BY <1>1, <1>2 DEF TypeInv

LEMMA TypeInvNext == TypeInv /\ [Next]_vars => TypeInv'
<1> SUFFICES ASSUME TypeInv, [Next]_vars PROVE TypeInv'
  OBVIOUS
<1> USE DEF TypeInv, TypeOK, Busy, chVars, waitVars, connVars, statVars, targetVars, Running
<1>1. ASSUME NEW e \in Entries, Write(e) PROVE TypeInv'
  <2>1. written' \in Seq(Entries) /\ Len(written') = Len(written) + 1 /\ Len(written) \in Nat
    BY <1>1, AppendFacts DEF Write
  <2>2. QED
    BY <1>1, <2>1, Bounds DEF Write
<1>2. CASE TickerFlush
  BY <1>2, SeqFacts, Bounds DEF TickerFlush, Flush
<1>3. CASE ReceiveEntry
  BY <1>3 DEF ReceiveEntry
<1>4. CASE DrainExit
  BY <1>4, SeqFacts, Bounds DEF DrainExit, Flush
<1>5. CASE SwitchDbSend
  <2>1. SwitchCmd(recv) \in Commands /\ SwitchCmd(recv).n \in 1..recv /\ cur.db \in Nat
    BY <1>5, CurrentEntry DEF SwitchDbSend
  <2>2. /\ conn' \in Seq(Commands) /\ Len(conn') = Len(conn) + 1 /\ Len(conn) \in Nat
        /\ \A k \in 1..Len(conn') : conn'[k].n \in 1..recv
    BY <1>5, <2>1, AppendFacts, AppendIndexed DEF SwitchDbSend, Send
  <2>3. QED
    BY <1>5, <2>1, <2>2, Bounds DEF SwitchDbSend, Send
<1>6. CASE SwitchDbRegister
  <2>1. SwitchCmd(recv) \in Commands /\ SwitchCmd(recv).n \in 1..recv
    BY <1>6, CurrentEntry DEF SwitchDbRegister
  <2>2. /\ reqs' \in Seq(Commands) /\ Len(reqs') = Len(reqs) + 1 /\ Len(reqs) \in Nat
        /\ \A k \in 1..Len(reqs') : reqs'[k].n \in 1..recv
    BY <1>6, <2>1, AppendFacts, AppendIndexed DEF SwitchDbRegister
  <2>3. QED
    BY <1>6, <2>2 DEF SwitchDbRegister
<1>7. CASE QuerybufWait
  BY <1>7 DEF QuerybufWait
<1>8. CASE Enqueue
  <2>1. EntryCmd(recv) \in Commands /\ EntryCmd(recv).n \in 1..recv
    BY <1>8, CurrentEntry DEF Enqueue
  <2>2. /\ reqs' \in Seq(Commands) /\ Len(reqs') = Len(reqs) + 1 /\ Len(reqs) \in Nat
        /\ \A k \in 1..Len(reqs') : reqs'[k].n \in 1..recv
    BY <1>8, <2>1, AppendFacts, AppendIndexed DEF Enqueue
  <2>3. QED
    BY <1>8, <2>2 DEF Enqueue
<1>9. CASE EnqueueFull
  BY <1>9, SeqFacts, Bounds DEF EnqueueFull, Flush
<1>10. CASE Count
  <2>1. cur.size \in Nat
    BY <1>10, CurrentEntry DEF Count
  <2>2. unansweredBytes' \in Int /\ unansweredEntries' \in Int
    BY <1>10, <2>1 DEF Count
  <2>3. /\ UNCHANGED <<written, recv, chClosed, conn, flushed, buffered, reqs, reqTaken,
                     waitClosed, executed, targetDb, DbId, cpc>>
        /\ wpc = "count" /\ wpc' = "send" /\ UNCHANGED <<rpc, status>>
    BY <1>10 DEF Count
  <2> HIDE DEF TypeInv, TypeOK
  <2>4. QED
    BY <2>2, <2>3, CounterStep
<1>11. CASE SendEntry
  <2>1. /\ EntryCmd(recv) \in Commands /\ EntryCmd(recv).n \in 1..recv
        /\ cur.size \in Nat \ {0}
    BY <1>11, CurrentEntry DEF SendEntry
  <2>2. /\ conn' \in Seq(Commands) /\ Len(conn') = Len(conn) + 1 /\ Len(conn) \in Nat
        /\ \A k \in 1..Len(conn') : conn'[k].n \in 1..recv
    <3>1. conn' = Append(conn, EntryCmd(recv))
      BY <1>11 DEF SendEntry, SendBytesBuff
    <3>2. QED
      BY <2>1, <3>1, AppendFacts, AppendIndexed
  <2>3. buffered' \in 0..BufioSize /\ flushed' \in 0..Len(conn') /\ flushed <= flushed'
    <3>1. /\ BufioSize \in Nat /\ buffered \in 0..BufioSize
          /\ flushed \in 0..Len(conn) /\ cur.size \in Nat
      BY <2>1, Bounds
    <3>2. \/ /\ cur.size <= BufioSize - buffered
             /\ buffered' = buffered + cur.size /\ flushed' = flushed
          \/ buffered' = 0 /\ flushed' = Len(conn) + 1
          \/ /\ cur.size > BufioSize - buffered
             /\ cur.size - (BufioSize - buffered) <= BufioSize
             /\ buffered' = cur.size - (BufioSize - buffered) /\ flushed' = Len(conn)
      BY <1>11 DEF SendEntry, SendBytesBuff
    <3> HIDE DEF TypeInv, TypeOK
    <3>3. buffered' \in 0..BufioSize
      BY <3>1, <3>2, BufioArithmetic
    <3>4. QED
      BY <2>2, <3>1, <3>2, <3>3
  <2>4. QED
    BY <1>11, <2>2, <2>3 DEF SendEntry
<1>12. CASE TakeRequest
  BY <1>12 DEF TakeRequest
<1>13. CASE ReceiveReply
  <2> DEFINE req == reqs[reqTaken]
  <2>0. /\ UNCHANGED <<written, recv, chClosed, conn, flushed, buffered, reqs, reqTaken,
                     waitClosed, executed, targetDb, DbId, cpc>>
        /\ status' \in {status, "crashed"} /\ rpc' \in {rpc, "range"} /\ UNCHANGED wpc
    BY <1>13 DEF ReceiveReply
  <2>1. CASE /\ unansweredBytes' = unansweredBytes - written[req.n].size
             /\ unansweredEntries' = unansweredEntries - 1
    <3>1. req.n \in 1..Len(written)
      BY <1>13 DEF ReceiveReply
    <3>2. written[req.n] \in Entries
      BY <3>1, SeqFacts
    <3>3. written[req.n].size \in Nat
      BY <3>2, WriterAssumption
    <3>4. unansweredBytes \in Int /\ unansweredEntries \in Int
      OBVIOUS
    <3> HIDE DEF TypeInv, TypeOK
    <3>5. unansweredBytes' \in Int /\ unansweredEntries' \in Int
      BY <2>1, <3>3, <3>4
    <3>6. QED
      BY <2>0, <3>5, CounterStep
  <2>2. CASE UNCHANGED statVars
    <3>1. unansweredBytes' \in Int /\ unansweredEntries' \in Int
      BY <2>2
    <3> HIDE DEF TypeInv, TypeOK
    <3>2. QED
      BY <2>0, <3>1, CounterStep
  <2>3. QED
    BY <1>13, <2>1, <2>2 DEF ReceiveReply
<1>14. CASE ReplyExit
  BY <1>14 DEF ReplyExit
<1>15. CASE CloseCh
  BY <1>15 DEF CloseCh
<1>16. CASE CloseStep
  BY <1>16 DEF CloseStep, CloseWaitReply, CloseReturn, Exit
<1>17. ASSUME NEW r \in Replies, TargetExecute(r) PROVE TypeInv'
  <2> DEFINE x == [db |-> targetDb, reply |-> r]
             c == conn[Len(executed) + 1]
  <2>1. x \in [db : Nat, reply : Replies]
    BY <1>17
  <2>2. /\ executed' = Append(executed, x) /\ Len(executed) + 1 \in 1..Len(conn)
        /\ targetDb' \in {targetDb} \cup ({c.sel} \ {NoSelect})
    BY <1>17, SeqFacts DEF TargetExecute
  <2>3. c \in Commands
    BY <2>2, SeqFacts
  <2>4. targetDb' \in Nat
    BY <2>2, <2>3 DEF Commands
  <2>5. /\ executed' \in Seq([db : Nat, reply : Replies]) /\ Len(executed') = Len(executed) + 1
        /\ Len(executed) \in Nat
    BY <2>1, <2>2, AppendFacts
  <2>6. QED
    BY <1>17, <2>2, <2>4, <2>5 DEF TargetExecute
<1>18. CASE UNCHANGED vars
  BY <1>18 DEF vars
<1>19. QED
  BY <1>1, <1>2, <1>3, <1>4, <1>5, <1>6, <1>7, <1>8, <1>9, <1>10, <1>11, <1>12, <1>13,
     <1>14, <1>15, <1>16, <1>17, <1>18
  DEF Next, WriterStep, ReplyStep, TargetStep, Terminated

(* Every variable of the writer keeps its type, for all values of the constants. *)
THEOREM TypeCorrect == Spec => []TypeOK
<1>1. TypeInv => TypeOK
  BY DEF TypeInv
<1>2. QED
  BY TypeInvInit, TypeInvNext, <1>1, PTL DEF Spec

LEMMA TypeInvAlways == Spec => []TypeInv
BY TypeInvInit, TypeInvNext, PTL DEF Spec

-----------------------------------------------------------------------------
(***************************************************************************)
(* Pairing.  A select is on the connection before it is registered, an     *)
(* entry is registered before it is on the connection; between such pairs  *)
(* of steps both queues have the same length.                              *)
(***************************************************************************)
PairInv ==
  /\ OffReply => /\ wpc \notin {"switchWait", "enqueue", "enqueueWait", "count"}
                 /\ Len(reqs) = 0
  /\ ~ OffReply =>
       /\ wpc = "switchWait" => /\ Len(conn) = Len(reqs) + 1
                                /\ conn[Len(conn)] = SwitchCmd(recv)
       /\ wpc \in {"count", "send"} => /\ Len(reqs) = Len(conn) + 1
                                       /\ reqs[Len(reqs)] = EntryCmd(recv)
       /\ wpc \notin {"switchWait", "count", "send"} => Len(conn) = Len(reqs)
  /\ RepliesPaired

LEMMA PairInvNext == TypeInv /\ PairInv /\ [Next]_vars => PairInv'
<1> SUFFICES ASSUME TypeInv, PairInv, [Next]_vars PROVE PairInv'
  OBVIOUS
<1> USE DEF PairInv, RepliesPaired, chVars, waitVars, connVars
<1>t. /\ written \in Seq(Entries) /\ conn \in Seq(Commands) /\ reqs \in Seq(Commands)
      /\ Len(written) \in Nat /\ Len(conn) \in Nat /\ Len(reqs) \in Nat
      /\ recv \in 0..Len(written) /\ (Busy => recv \in 1..Len(written))
  BY SeqFacts DEF TypeInv, TypeOK
<1>1. ASSUME NEW e \in Entries, Write(e) PROVE PairInv'
  <2>1. Busy => written'[recv] = written[recv]
    BY <1>1, <1>t, AppendFacts DEF Write
  <2>2. Busy => SwitchCmd(recv)' = SwitchCmd(recv) /\ EntryCmd(recv)' = EntryCmd(recv)
    BY <1>1, <2>1 DEF Write, SwitchCmd, EntryCmd
  <2>3. QED
    BY <1>1, <2>2 DEF Write, Busy
<1>2. CASE ReceiveEntry
  BY <1>2 DEF ReceiveEntry
<1>3. CASE DrainExit \/ QuerybufWait \/ EnqueueFull \/ TickerFlush
  BY <1>3 DEF DrainExit, QuerybufWait, EnqueueFull, TickerFlush, Flush
<1>4. CASE SwitchDbSend
  <2>1. SwitchCmd(recv) \in Commands /\ SwitchCmd(recv)' = SwitchCmd(recv)
    BY <1>4, CurrentEntry DEF SwitchDbSend, Busy, SwitchCmd
  <2>2. /\ Len(conn') = Len(conn) + 1 /\ conn'[Len(conn')] = SwitchCmd(recv)
        /\ \A k \in 1..Len(conn) : conn'[k] = conn[k]
    BY <1>4, <1>t, <2>1, AppendFacts DEF SwitchDbSend, Send
  <2>3. QED
    BY <1>4, <1>t, <2>1, <2>2 DEF SwitchDbSend
<1>5. CASE SwitchDbRegister
  <2>1. SwitchCmd(recv) \in Commands /\ ~ OffReply
    BY <1>5, CurrentEntry DEF SwitchDbRegister, Busy
  <2>2. /\ Len(reqs') = Len(reqs) + 1 /\ reqs'[Len(reqs')] = SwitchCmd(recv)
        /\ \A k \in 1..Len(reqs) : reqs'[k] = reqs[k]
    BY <1>5, <1>t, <2>1, AppendFacts DEF SwitchDbRegister
  <2>3. QED
    BY <1>5, <1>t, <2>1, <2>2 DEF SwitchDbRegister
<1>6. CASE Enqueue
  <2>1. /\ EntryCmd(recv) \in Commands /\ ~ OffReply
        /\ EntryCmd(recv)' = EntryCmd(recv)
    BY <1>6, CurrentEntry DEF Enqueue, Busy, EntryCmd
  <2>2. /\ Len(reqs') = Len(reqs) + 1 /\ reqs'[Len(reqs')] = EntryCmd(recv)
        /\ \A k \in 1..Len(reqs) : reqs'[k] = reqs[k]
    BY <1>6, <1>t, <2>1, AppendFacts DEF Enqueue
  <2>3. QED
    BY <1>6, <1>t, <2>1, <2>2 DEF Enqueue
<1>7. CASE Count
  <2>1. EntryCmd(recv)' = EntryCmd(recv)
    BY <1>7 DEF Count, EntryCmd
  <2>2. QED
    BY <1>7, <2>1 DEF Count
<1>8. CASE SendEntry
  <2>1. EntryCmd(recv) \in Commands
    BY <1>8, CurrentEntry DEF SendEntry, Busy
  <2>2. /\ Len(conn') = Len(conn) + 1 /\ conn'[Len(conn')] = EntryCmd(recv)
        /\ \A k \in 1..Len(conn) : conn'[k] = conn[k]
    BY <1>8, <1>t, <2>1, AppendFacts DEF SendEntry, SendBytesBuff
  <2>3. QED
    BY <1>8, <1>t, <2>2 DEF SendEntry
<1>9. CASE UNCHANGED <<chVars, wpc, conn, reqs>>
  BY <1>9 DEF SwitchCmd, EntryCmd
<1>10. CASE CloseCh
  <2>1. UNCHANGED <<written, recv, wpc, conn, reqs>>
    BY <1>10 DEF CloseCh
  <2>2. QED
    BY <2>1 DEF SwitchCmd, EntryCmd
<1>11. ReplyStep \/ CloseStep \/ TargetStep \/ Terminated \/ UNCHANGED vars
         => UNCHANGED <<chVars, wpc, conn, reqs>>
  BY DEF ReplyStep, TakeRequest, ReceiveReply, ReplyExit, CloseStep, CloseWaitReply,
         CloseReturn, Exit, TargetStep, TargetExecute, Terminated, vars
<1>12. QED
  BY <1>1, <1>2, <1>3, <1>4, <1>5, <1>6, <1>7, <1>8, <1>9, <1>10, <1>11
  DEF Next, WriterStep

LEMMA PairInvAlways == Spec => []PairInv
<1>1. Init => PairInv
  <2> SUFFICES ASSUME Init PROVE PairInv
    OBVIOUS
  <2>1. Len(conn) = 0 /\ Len(reqs) = 0 /\ wpc = "select"
    BY EmptySeq DEF Init
  <2>2. QED
    BY <2>1 DEF PairInv, RepliesPaired
<1>2. QED
  BY <1>1, PairInvNext, TypeInvAlways, PTL DEF Spec

(***************************************************************************)
(* processReply never charges a reply to another command than the one it   *)
(* answers, for every capacity of the channels and of the buffer.          *)
(***************************************************************************)
THEOREM Pairing == Spec => []RepliesPaired
<1>1. PairInv => RepliesPaired
  BY DEF PairInv
<1>2. QED
  BY <1>1, PairInvAlways, PTL

-----------------------------------------------------------------------------
(***************************************************************************)
(* Close.  Every received entry is on the connection except the one in     *)
(* progress; replies taken have been given; the goroutines end in the      *)
(* order in which Close waits for them.                                    *)
(***************************************************************************)
SentInv ==
  \A n \in 1..recv :
    n < recv \/ ~ Busy => \E k \in 1..Len(conn) : conn[k].own /\ conn[k].n = n

CloseInv ==
  /\ SentInv
  /\ rpc # "off"
  /\ rpc \in {"range", "done"} => reqTaken <= Len(executed)
  /\ rpc = "receive" => reqTaken - 1 <= Len(executed)
  /\ chClosed => cpc # "open"
  /\ wpc = "done" => recv = Len(written) /\ cpc # "open"
  /\ waitClosed => wpc = "done"
  /\ rpc = "done" => wpc = "done" /\ reqTaken = Len(reqs)
  /\ cpc = "closed" => rpc = "done"

LEMMA SentInvNext == TypeInv /\ SentInv /\ [Next]_vars => SentInv'
<1> SUFFICES ASSUME TypeInv, SentInv, [Next]_vars PROVE SentInv'
  OBVIOUS
<1> USE DEF SentInv, chVars, waitVars, connVars
<1>t. /\ conn \in Seq(Commands) /\ Len(conn) \in Nat /\ recv \in Nat
      /\ (Busy => recv > 0)
  BY SeqFacts DEF TypeInv, TypeOK
<1>1. CASE ReceiveEntry
  BY <1>1, <1>t DEF ReceiveEntry, Busy
<1>2. CASE DrainExit \/ QuerybufWait \/ EnqueueFull \/ TickerFlush
  BY <1>2 DEF DrainExit, QuerybufWait, EnqueueFull, TickerFlush, Flush, Busy
<1>3. CASE SwitchDbSend
  <2>1. SwitchCmd(recv) \in Commands
    BY <1>3, CurrentEntry DEF SwitchDbSend, Busy
  <2>2. Len(conn') = Len(conn) + 1 /\ \A k \in 1..Len(conn) : conn'[k] = conn[k]
    BY <1>3, <1>t, <2>1, AppendFacts DEF SwitchDbSend, Send
  <2>3. Busy /\ Busy' /\ recv' = recv
    BY <1>3 DEF SwitchDbSend, Busy
  <2>4. QED
    BY <1>t, <2>2, <2>3
<1>4. CASE SwitchDbRegister \/ Enqueue \/ Count
  BY <1>4 DEF SwitchDbRegister, Enqueue, Count, Busy
<1>5. CASE SendEntry
  <2>1. EntryCmd(recv) \in Commands /\ EntryCmd(recv).own /\ EntryCmd(recv).n = recv
    BY <1>5, CurrentEntry DEF SendEntry, Busy, EntryCmd
  <2>2. /\ Len(conn') = Len(conn) + 1 /\ \A k \in 1..Len(conn) : conn'[k] = conn[k]
        /\ conn'[Len(conn) + 1] = EntryCmd(recv)
    BY <1>5, <1>t, <2>1, AppendFacts DEF SendEntry, SendBytesBuff
  <2>3. ASSUME NEW n \in 1..recv'
        PROVE  \E k \in 1..Len(conn') : conn'[k].own /\ conn'[k].n = n
    <3>1. CASE n = recv
      BY <3>1, <1>t, <2>1, <2>2
    <3>2. CASE n # recv
      BY <3>2, <1>5, <1>t, <2>2 DEF SendEntry
    <3>3. QED
      BY <3>1, <3>2
  <2>4. QED
    BY <2>3
<1>6. CASE UNCHANGED <<recv, wpc, conn>>
  BY <1>6 DEF Busy
<1>7. (\E e \in Entries : Write(e)) \/ ReplyStep \/ CloseCh \/ CloseStep \/ TargetStep
        \/ Terminated \/ UNCHANGED vars => UNCHANGED <<recv, wpc, conn>>
  BY DEF Write, ReplyStep, TakeRequest, ReceiveReply, ReplyExit, CloseCh, CloseStep,
         CloseWaitReply, CloseReturn, Exit, TargetStep, TargetExecute, Terminated, vars
<1>8. QED
  BY <1>1, <1>2, <1>3, <1>4, <1>5, <1>6, <1>7 DEF Next, WriterStep

LEMMA CloseInvNext == ~ OffReply /\ TypeInv /\ CloseInv /\ [Next]_vars => CloseInv'
<1> SUFFICES ASSUME ~ OffReply, TypeInv, CloseInv, [Next]_vars PROVE CloseInv'
  OBVIOUS
<1> USE DEF chVars, waitVars, connVars, targetVars
<1>s. SentInv'
  BY SentInvNext DEF CloseInv
<1>t. /\ Len(written) \in Nat /\ Len(reqs) \in Nat /\ Len(executed) \in Nat
      /\ reqTaken \in Nat /\ executed \in Seq([db : Nat, reply : Replies])
      /\ rpc \in {"off", "range", "receive", "done"}
  BY SeqFacts DEF TypeInv, TypeOK
<1>1. ASSUME NEW e \in Entries, Write(e) PROVE CloseInv'
  BY <1>1, <1>s DEF Write, CloseInv
<1>2. CASE WriterStep
  <2>1. UNCHANGED <<written, chClosed, reqTaken, waitClosed, rpc, executed, cpc>>
    BY <1>2 DEF WriterStep, TickerFlush, ReceiveEntry, DrainExit, SwitchDbSend,
                SwitchDbRegister, QuerybufWait, Enqueue, EnqueueFull, Count, SendEntry
  <2>2. wpc # "done"
    BY <1>2 DEF WriterStep, TickerFlush, ReceiveEntry, DrainExit, SwitchDbSend,
                SwitchDbRegister, QuerybufWait, Enqueue, EnqueueFull, Count, SendEntry
  <2>3. wpc' = "done" => recv' = Len(written) /\ chClosed
    BY <1>2, <2>2 DEF WriterStep, TickerFlush, ReceiveEntry, DrainExit, SwitchDbSend,
                SwitchDbRegister, QuerybufWait, Enqueue, EnqueueFull, Count, SendEntry
  <2>4. QED
    BY <1>s, <2>1, <2>2, <2>3 DEF CloseInv
<1>3. CASE ReplyStep
  <2>1. CASE TakeRequest
    BY <2>1, <1>s, <1>t DEF TakeRequest, CloseInv
  <2>2. CASE ReceiveReply
    BY <2>2, <1>s, <1>t DEF ReceiveReply, CloseInv
  <2>3. CASE ReplyExit
    BY <2>3, <1>s, <1>t DEF ReplyExit, CloseInv
  <2>4. QED
    BY <1>3, <2>1, <2>2, <2>3 DEF ReplyStep
<1>4. CASE CloseCh
  <2>1. cpc' = "waitWrite" /\ cpc = "open"
    BY <1>4 DEF CloseCh
  <2>2. UNCHANGED <<written, recv, wpc, conn, reqs, reqTaken, waitClosed, rpc, executed>>
    BY <1>4 DEF CloseCh
  <2>3. QED
    BY <1>s, <2>1, <2>2 DEF CloseInv
<1>5. CASE CloseStep
  <2>1. CASE CloseWaitReply
    BY <2>1, <1>s DEF CloseWaitReply, CloseInv
  <2>2. CASE CloseReturn \/ Exit
    BY <2>2, <1>s DEF CloseReturn, Exit, CloseInv
  <2>3. QED
    BY <1>5, <2>1, <2>2 DEF CloseStep
<1>6. CASE TargetStep
  <2>1. PICK r \in Replies : TargetExecute(r)
    BY <1>6 DEF TargetStep
  <2>2. [db |-> targetDb, reply |-> r] \in [db : Nat, reply : Replies]
    BY DEF TypeInv, TypeOK
  <2>3. Len(executed') = Len(executed) + 1
    BY <1>t, <2>1, <2>2, AppendFacts DEF TargetExecute
  <2>4. QED
    BY <1>s, <1>t, <2>1, <2>3 DEF TargetExecute, CloseInv
<1>7. CASE Terminated \/ UNCHANGED vars
  BY <1>7, <1>s DEF Terminated, vars, CloseInv
<1>8. QED
  BY <1>1, <1>2, <1>3, <1>4, <1>5, <1>6, <1>7 DEF Next

LEMMA CloseInvAlways == ASSUME ~ OffReply PROVE Spec => []CloseInv
<1>1. Init => CloseInv
  <2> SUFFICES ASSUME Init PROVE CloseInv
    OBVIOUS
  <2>1. Len(executed) = 0 /\ recv = 0 /\ reqTaken = 0
    BY EmptySeq DEF Init
  <2>2. rpc = "range" /\ wpc = "select" /\ cpc = "open" /\ ~ chClosed /\ ~ waitClosed
    BY DEF Init
  <2>3. QED
    BY <2>1, <2>2 DEF CloseInv, SentInv
<1>2. QED
  BY <1>1, CloseInvNext, TypeInvAlways, PTL DEF Spec

(***************************************************************************)
(* With replies on, Close returns only when the target has executed every  *)
(* entry main ever wrote, whatever the capacities and the interleaving.    *)
(***************************************************************************)
THEOREM CloseIsComplete == ASSUME ~ OffReply PROVE Spec => []CloseWaitsForWrites
<1>1. TypeInv /\ PairInv /\ CloseInv => CloseWaitsForWrites
  <2> SUFFICES ASSUME TypeInv, PairInv, CloseInv, cpc = "closed", NEW n \in 1..Len(written)
               PROVE  \E k \in 1..Len(executed) : conn[k].own /\ conn[k].n = n
    BY DEF CloseWaitsForWrites, AllExecuted
  <2>1. wpc = "done" /\ recv = Len(written) /\ reqTaken = Len(reqs) /\ reqTaken <= Len(executed)
    BY DEF CloseInv
  <2>2. Len(conn) <= Len(executed)
    BY <2>1 DEF PairInv
  <2>3. PICK k \in 1..Len(conn) : conn[k].own /\ conn[k].n = n
    BY <2>1 DEF CloseInv, SentInv, Busy
  <2>4. Len(conn) \in Nat /\ Len(executed) \in Nat
    BY SeqFacts DEF TypeInv, TypeOK
  <2>5. k \in 1..Len(executed)
    BY <2>2, <2>3, <2>4
  <2>6. QED
    BY <2>3, <2>5
<1>2. QED
  BY <1>1, CloseInvAlways, TypeInvAlways, PairInvAlways, PTL

-----------------------------------------------------------------------------
(***************************************************************************)
(* Rejections.  A reply that has been received and did not end the process *)
(* was not fatal; and the process exits only behind Close.                 *)
(***************************************************************************)
RejectInv ==
  /\ \A k \in 1..Len(executed) :
       k <= reqTaken /\ (rpc = "receive" => k < reqTaken) => ~ Fatal(executed[k].reply)
  /\ status = "exited" => cpc = "closed"

LEMMA RejectInvNext ==
  ~ OffReply /\ TypeInv /\ CloseInv /\ RejectInv /\ [Next]_vars => RejectInv'
<1> SUFFICES ASSUME ~ OffReply, TypeInv, CloseInv, RejectInv, [Next]_vars PROVE RejectInv'
  OBVIOUS
<1> USE DEF chVars, waitVars, connVars, targetVars, statVars, Running
<1>t. /\ Len(executed) \in Nat /\ Len(reqs) \in Nat /\ reqTaken \in Nat
      /\ executed \in Seq([db : Nat, reply : Replies])
      /\ rpc \in {"off", "range", "receive", "done"}
      /\ rpc = "receive" => reqTaken > 0
  BY SeqFacts DEF TypeInv, TypeOK
<1>1. CASE TakeRequest
  BY <1>1, <1>t DEF TakeRequest, RejectInv
<1>2. CASE ReceiveReply
  <2>1. CASE rpc' = "range"
    <3>1. /\ ~ Fatal(executed[reqTaken].reply) /\ status' = status
          /\ UNCHANGED <<reqTaken, executed, cpc>> /\ rpc = "receive"
      BY <1>2, <2>1 DEF ReceiveReply
    <3>2. ASSUME NEW k \in 1..Len(executed), k <= reqTaken
          PROVE  ~ Fatal(executed[k].reply)
      <4>1. CASE k = reqTaken
        BY <3>1, <4>1
      <4>2. CASE k < reqTaken
        BY <3>1, <3>2, <4>2 DEF RejectInv
      <4>3. QED
        BY <3>2, <4>1, <4>2, <1>t
    <3>3. \A k \in 1..Len(executed') : k <= reqTaken' => ~ Fatal(executed'[k].reply)
      BY <3>1, <3>2
    <3>4. \A k : Fatal(executed[k].reply)' = Fatal(executed'[k].reply)
      BY DEF Fatal
    <3>5. QED
      BY <3>1, <3>3, <3>4 DEF RejectInv
  <2>2. CASE rpc' # "range"
    BY <1>2, <2>2 DEF ReceiveReply, RejectInv, Fatal
  <2>3. QED
    BY <2>1, <2>2
<1>3. CASE TargetStep
  <2>1. PICK r \in Replies : TargetExecute(r)
    BY <1>3 DEF TargetStep
  <2>2. [db |-> targetDb, reply |-> r] \in [db : Nat, reply : Replies]
    BY DEF TypeInv, TypeOK
  <2>3. /\ Len(executed') = Len(executed) + 1
        /\ \A k \in 1..Len(executed) : executed'[k] = executed[k]
        /\ UNCHANGED <<rpc, reqTaken, status, cpc>>
    BY <1>t, <2>1, <2>2, AppendFacts DEF TargetExecute
  <2>4. rpc # "off"
    BY DEF CloseInv
  <2>5. ASSUME NEW k \in 1..Len(executed'), k <= reqTaken, rpc = "receive" => k < reqTaken
        PROVE  ~ Fatal(executed'[k].reply)
    <3>1. k \in 1..Len(executed)
      BY <1>t, <2>3, <2>4, <2>5 DEF CloseInv
    <3>2. QED
      BY <2>3, <2>5, <3>1 DEF RejectInv
  <2>6. QED
    BY <2>3, <2>5 DEF RejectInv, Fatal
<1>4. CASE Exit
  BY <1>4 DEF Exit, RejectInv, Fatal
<1>5. (\E e \in Entries : Write(e)) \/ WriterStep \/ CloseCh \/ CloseWaitReply \/ CloseReturn
      \/ Terminated \/ UNCHANGED vars
        => UNCHANGED <<executed, reqTaken, rpc, status>> /\ (cpc = "closed" => cpc' = "closed")
  BY DEF Write, WriterStep, TickerFlush, ReceiveEntry, DrainExit, SwitchDbSend, SwitchDbRegister,
         QuerybufWait, Enqueue, EnqueueFull, Count, SendEntry, CloseCh, CloseWaitReply, CloseReturn,
         Terminated, vars
<1>6. CASE ReplyExit
  BY <1>6 DEF ReplyExit, RejectInv, Fatal
<1>7. CASE UNCHANGED <<executed, reqTaken, rpc, status>> /\ (cpc = "closed" => cpc' = "closed")
  BY <1>7 DEF RejectInv, Fatal
<1>8. QED
  BY <1>1, <1>2, <1>3, <1>4, <1>5, <1>6, <1>7 DEF Next, ReplyStep, CloseStep

(***************************************************************************)
(* With replies on, the process does not end normally after a rejection:   *)
(* whatever the pipeline holds when Close is called, log.Panicf comes      *)
(* before Close returns.                                                   *)
(***************************************************************************)
THEOREM RejectionsAreSeen == ASSUME ~ OffReply PROVE Spec => []RejectionIsFatal
<1>1. Init => RejectInv
  <2> SUFFICES ASSUME Init PROVE RejectInv
    OBVIOUS
  <2>1. Len(executed) = 0 /\ status = "running"
    BY EmptySeq DEF Init
  <2>2. QED
    BY <2>1 DEF RejectInv
<1>2. TypeInv /\ PairInv /\ CloseInv /\ RejectInv => RejectionIsFatal
  <2> SUFFICES ASSUME TypeInv, PairInv, CloseInv, RejectInv, status = "exited",
                      NEW k \in 1..Len(executed)
               PROVE  ~ Fatal(executed[k].reply)
    BY DEF RejectionIsFatal
  <2>1. rpc = "done" /\ wpc = "done" /\ reqTaken = Len(reqs)
    BY DEF RejectInv, CloseInv
  <2>2. Len(reqs) = Len(conn)
    BY <2>1 DEF PairInv
  <2>3. Len(executed) <= Len(conn) /\ Len(executed) \in Nat /\ Len(conn) \in Nat
    BY SeqFacts DEF TypeInv, TypeOK
  <2>4. k <= reqTaken
    BY <2>1, <2>2, <2>3
  <2>5. QED
    BY <2>1, <2>4 DEF RejectInv
<1>3. QED
  BY <1>1, <1>2, RejectInvNext, CloseInvAlways, TypeInvAlways, PairInvAlways, PTL DEF Spec

-----------------------------------------------------------------------------
(***************************************************************************)
(* Databases.  After the k-th command the connection is in the database of *)
(* the entry that command was sent for; the writer's DbId is the database  *)
(* after the last command sent, the target's the one after the last        *)
(* command executed, and the two differ while commands are in between.     *)
(***************************************************************************)
DbAt(w, c, k) == IF k = 0 THEN 0 ELSE w[c[k].n].db
DbAfter(k) == DbAt(written, conn, k)

Switched == wpc \in {"switchWait", "querybuf", "enqueue", "enqueueWait", "count", "send"}

DbInv ==
  /\ DbId = DbAfter(Len(conn))
  /\ Switched => DbId = cur.db
  /\ \A k \in 1..Len(conn) : conn[k].own => DbAfter(k) = DbAfter(k - 1) /\ conn[k].sel = NoSelect
  /\ \A k \in 1..Len(conn) : ~ conn[k].own => conn[k].sel = DbAfter(k)
  /\ targetDb = DbAfter(Len(executed))
  /\ \A k \in 1..Len(executed) : executed[k].db = DbAfter(k - 1)

LEMMA DbInvNext ==
  ASSUME "error" \notin Replies, TypeInv, NoRawSelect => DbInv, [Next]_vars, NoRawSelect'
  PROVE  DbInv'
<1> USE DEF chVars, waitVars, connVars, targetVars
<1>t. /\ written \in Seq(Entries) /\ Len(written) \in Nat
      /\ conn \in Seq(Commands) /\ Len(conn) \in Nat
      /\ executed \in Seq([db : Nat, reply : Replies]) /\ Len(executed) \in Nat
      /\ Len(executed) <= Len(conn) /\ recv \in 0..Len(written)
      /\ Busy => recv \in 1..Len(written)
      /\ \A k \in 1..Len(conn) : conn[k].n \in 1..Len(written)
  BY SeqFacts DEF TypeInv, TypeOK
<1>w. /\ Len(written') \in Nat /\ Len(written) <= Len(written')
      /\ \A i \in 1..Len(written) : written'[i] = written[i]
  <2>1. CASE \E e \in Entries : Write(e)
    BY <2>1, <1>t, AppendFacts DEF Write
  <2>2. CASE UNCHANGED written
    BY <2>2, <1>t
  <2>3. (\E e \in Entries : Write(e)) \/ UNCHANGED written
    BY DEF Next, WriterStep, TickerFlush, ReceiveEntry, DrainExit, SwitchDbSend,
           SwitchDbRegister, QuerybufWait, Enqueue, EnqueueFull, Count, SendEntry, ReplyStep,
           TakeRequest, ReceiveReply, ReplyExit, CloseCh, CloseStep, CloseWaitReply,
           CloseReturn, Exit, TargetStep, TargetExecute, Terminated, vars
  <2>4. QED
    BY <2>1, <2>2, <2>3
<1>n. NoRawSelect
  BY <1>w, <1>t DEF NoRawSelect
<1>d. DbInv
  BY <1>n
<1>k. ASSUME conn' = conn
      PROVE  \A k \in 0..Len(conn) : DbAfter(k)' = DbAfter(k)
  BY <1>k, <1>w, <1>t DEF DbAfter, DbAt
<1>1. ASSUME NEW c \in Commands, conn' = Append(conn, c), c.n = recv, Busy,
             cur.db = DbId', UNCHANGED <<written, recv, executed, targetDb>>,
             IF c.own THEN DbId' = DbId /\ c.sel = NoSelect ELSE c.sel = cur.db
      PROVE  DbInv'
  <2>1. /\ Len(conn') = Len(conn) + 1 /\ conn'[Len(conn')] = c
        /\ \A k \in 1..Len(conn) : conn'[k] = conn[k]
    BY <1>1, <1>t, AppendFacts
  <2>2. \A k \in 0..Len(conn) : DbAfter(k)' = DbAfter(k)
    BY <1>1, <1>t, <2>1 DEF DbAfter, DbAt
  <2>3. DbAfter(Len(conn))' = cur.db /\ DbAfter(Len(conn)) = DbId
    BY <1>1, <1>t, <1>d, <2>1 DEF DbAfter, DbAt, cur, DbInv
  <2>4. ASSUME NEW k \in 1..Len(conn')
        PROVE  /\ conn'[k].own => DbAfter(k)' = DbAfter(k - 1)' /\ conn'[k].sel = NoSelect
               /\ ~ conn'[k].own => conn'[k].sel = DbAfter(k)'
    <3>1. CASE k \in 1..Len(conn)
      <4>1. DbAfter(k)' = DbAfter(k) /\ DbAfter(k - 1)' = DbAfter(k - 1) /\ conn'[k] = conn[k]
        BY <3>1, <1>t, <2>1, <2>2
      <4>2. QED
        BY <3>1, <4>1, <1>d DEF DbInv
    <3>2. CASE k = Len(conn')
      <4>1. DbAfter(k)' = cur.db /\ DbAfter(k - 1)' = DbId /\ conn'[k] = c
        BY <3>2, <1>t, <2>1, <2>2, <2>3
      <4>2. QED
        BY <4>1, <1>1
    <3>3. QED
      BY <3>1, <3>2, <2>1, <1>t
  <2>5. \A k \in 1..Len(executed) : DbAfter(k - 1)' = DbAfter(k - 1)
    BY <2>2, <1>t
  <2>6. DbAfter(Len(executed))' = DbAfter(Len(executed))
    BY <2>2, <1>t, <1>1
  <2>7. QED
    BY <1>1, <1>d, <2>3, <2>4, <2>5, <2>6 DEF DbInv, cur
<1>2. CASE SwitchDbSend
  BY <1>2, <1>1, CurrentEntry DEF SwitchDbSend, Send, SwitchCmd, Busy, cur
<1>3. CASE SendEntry
  <2>1. EntryCmd(recv).sel = NoSelect
    BY <1>3, <1>t, <1>n DEF SendEntry, Busy, EntryCmd, NoRawSelect
  <2>2. DbId' = DbId /\ DbId = cur.db
    BY <1>3, <1>d DEF SendEntry, DbInv, Switched
  <2>3. QED
    BY <1>3, <1>1, <2>1, <2>2, CurrentEntry DEF SendEntry, SendBytesBuff, EntryCmd, Busy
<1>4. CASE TargetStep
  <2>1. PICK r \in Replies : TargetExecute(r)
    BY <1>4 DEF TargetStep
  <2>2. [db |-> targetDb, reply |-> r] \in [db : Nat, reply : Replies]
    BY DEF TypeInv, TypeOK
  <2>3. /\ Len(executed') = Len(executed) + 1 /\ executed'[Len(executed')].db = targetDb
        /\ \A k \in 1..Len(executed) : executed'[k] = executed[k]
    BY <1>t, <2>1, <2>2, AppendFacts DEF TargetExecute
  <2>4. UNCHANGED <<written, recv, wpc, conn, DbId>> /\ Len(executed) + 1 \in 1..Len(conn)
    BY <1>t, <2>1 DEF TargetExecute, TypeInv, TypeOK
  <2>5. targetDb' = DbAfter(Len(executed) + 1)
    <3> DEFINE c == conn[Len(executed) + 1]
    <3>1. c \in Commands /\ r # "error"
      BY <1>t, <2>4
    <3>2. CASE c.own
      BY <3>2, <1>d, <1>t, <2>1, <2>4 DEF TargetExecute, DbInv
    <3>3. CASE ~ c.own
      <4>1. c.sel = DbAfter(Len(executed) + 1)
        BY <3>3, <1>d, <2>4 DEF DbInv
      <4>2. written[c.n] \in Entries /\ DbAfter(Len(executed) + 1) = written[c.n].db
        BY <1>t, <2>4, SeqFacts DEF DbAfter, DbAt
      <4>3. c.sel # NoSelect
        BY <4>1, <4>2, WriterAssumption DEF NoSelect
      <4>4. QED
        BY <3>1, <4>1, <4>3, <2>1 DEF TargetExecute
    <3>4. QED
      BY <3>2, <3>3
  <2>6. \A k \in 0..Len(conn) : DbAfter(k)' = DbAfter(k)
    BY <1>k, <2>4
  <2>7. DbAfter(Len(executed))' = targetDb'
    BY <1>t, <2>3, <2>4, <2>5, <2>6
  <2>8. ASSUME NEW k \in 1..Len(executed') PROVE executed'[k].db = DbAfter(k - 1)'
    <3>1. DbAfter(k - 1)' = DbAfter(k - 1)
      BY <1>t, <2>3, <2>4, <2>6
    <3>2. CASE k \in 1..Len(executed)
      BY <3>1, <3>2, <1>d, <2>3 DEF DbInv
    <3>3. CASE k = Len(executed')
      <4>1. k - 1 = Len(executed)
        BY <3>3, <1>t, <2>3
      <4>2. QED
        BY <3>1, <3>3, <4>1, <1>d, <2>3 DEF DbInv
    <3>4. QED
      BY <3>2, <3>3, <1>t, <2>3
  <2>9. \A k \in 1..Len(conn) : DbAfter(k)' = DbAfter(k) /\ DbAfter(k - 1)' = DbAfter(k - 1)
    BY <2>6, <1>t
  <2>10. DbAfter(Len(conn))' = DbAfter(Len(conn))
    BY <2>4, <2>6, <1>t
  <2>11. QED
    BY <1>d, <2>4, <2>7, <2>8, <2>9, <2>10 DEF DbInv, Switched, cur
<1>5. CASE ReceiveEntry
  <2>1. UNCHANGED <<written, conn, DbId, executed, targetDb>>
    BY <1>5 DEF ReceiveEntry
  <2>2. Switched' => DbId' = cur.db'
    BY <1>5 DEF ReceiveEntry, Switched, cur
  <2>3. \A k \in 0..Len(conn) : DbAfter(k)' = DbAfter(k)
    BY <1>k, <2>1
  <2>4. QED
    BY <1>d, <1>t, <2>1, <2>2, <2>3 DEF DbInv
<1>6. ASSUME UNCHANGED <<conn, DbId, executed, targetDb, recv>>, Switched' => Switched
      PROVE  DbInv'
  <2>1. \A k \in 0..Len(conn) : DbAfter(k)' = DbAfter(k)
    BY <1>k, <1>6
  <2>2. Switched' => DbId' = cur.db'
    BY <1>6, <1>d, <1>t, <1>w DEF DbInv, cur, Switched, Busy
  <2>3. QED
    BY <1>6, <1>d, <1>t, <2>1, <2>2 DEF DbInv
<1>7. (\E e \in Entries : Write(e)) \/ TickerFlush \/ DrainExit \/ SwitchDbRegister
      \/ QuerybufWait \/ Enqueue \/ EnqueueFull \/ Count \/ ReplyStep \/ CloseCh
      \/ CloseStep \/ Terminated \/ UNCHANGED vars
        => UNCHANGED <<conn, DbId, executed, targetDb, recv>> /\ (Switched' => Switched)
  BY DEF Write, TickerFlush, DrainExit, SwitchDbRegister, QuerybufWait, Enqueue, EnqueueFull,
         Count, ReplyStep, TakeRequest, ReceiveReply, ReplyExit, CloseCh, CloseStep,
         CloseWaitReply, CloseReturn, Exit, Terminated, vars, Flush, Switched
<1>8. QED
  BY <1>2, <1>3, <1>4, <1>5, <1>6, <1>7 DEF Next, WriterStep

(***************************************************************************)
(* Without SELECT entries of main's own and without rejected commands, the *)
(* target executes every entry in the database it was read from, however   *)
(* far the writer's switch of database is ahead of the execution.          *)
(***************************************************************************)
THEOREM DatabaseCorrect == Spec => []ExecutedInItsDb
<1> DEFINE Inv == NoRawSelect => DbInv
<1>1. CASE "error" \in Replies
  <2>1. ExecutedInItsDb
    BY <1>1 DEF ExecutedInItsDb
  <2>2. QED
    BY <2>1, PTL
<1>2. CASE "error" \notin Replies
  <2>1. Init => Inv
    <3> SUFFICES ASSUME Init PROVE DbInv
      OBVIOUS
    <3>1. Len(conn) = 0 /\ Len(executed) = 0 /\ DbId = 0 /\ targetDb = 0 /\ wpc = "select"
      BY EmptySeq DEF Init
    <3>2. QED
      BY <3>1 DEF DbInv, DbAfter, DbAt, Switched
  <2>2. TypeInv /\ Inv /\ [Next]_vars => Inv'
    BY <1>2, DbInvNext
  <2>3. TypeInv /\ Inv => ExecutedInItsDb
    <3> SUFFICES ASSUME TypeInv, DbInv, NEW k \in 1..Len(executed), conn[k].own
                 PROVE  executed[k].db = written[conn[k].n].db
      BY DEF ExecutedInItsDb
    <3>1. k \in 1..Len(conn)
      BY SeqFacts DEF TypeInv, TypeOK
    <3>2. QED
      BY <3>1 DEF DbInv, DbAfter, DbAt
  <2>4. QED
    BY <2>1, <2>2, <2>3, TypeInvAlways, PTL DEF Spec
<1>3. QED
  BY <1>1, <1>2

-----------------------------------------------------------------------------
(* Order: entries sent before the current one have smaller numbers. *)
OrderInv ==
  /\ \A j, k \in 1..Len(conn) : j < k /\ conn[j].own /\ conn[k].own => conn[j].n < conn[k].n
  /\ Busy => \A k \in 1..Len(conn) : conn[k].own => conn[k].n < recv

LEMMA OrderInvNext == TypeInv /\ OrderInv /\ [Next]_vars => OrderInv'
<1> SUFFICES ASSUME TypeInv, OrderInv, [Next]_vars PROVE OrderInv'
  OBVIOUS
<1> USE DEF OrderInv, chVars, waitVars, connVars
<1>t. /\ conn \in Seq(Commands) /\ Len(conn) \in Nat /\ recv \in Nat
      /\ \A k \in 1..Len(conn) : conn[k].n \in 1..recv
  BY SeqFacts DEF TypeInv, TypeOK
<1>1. CASE ReceiveEntry
  BY <1>1, <1>t DEF ReceiveEntry
<1>2. CASE SwitchDbSend
  <2>1. SwitchCmd(recv) \in Commands /\ ~ SwitchCmd(recv).own
    BY <1>2, CurrentEntry DEF SwitchDbSend, Busy, SwitchCmd
  <2>2. /\ Len(conn') = Len(conn) + 1 /\ conn'[Len(conn')] = SwitchCmd(recv)
        /\ \A k \in 1..Len(conn) : conn'[k] = conn[k]
    BY <1>2, <1>t, <2>1, AppendFacts DEF SwitchDbSend, Send
  <2>3. Busy /\ recv' = recv
    BY <1>2 DEF SwitchDbSend, Busy
  <2>4. \A k \in 1..Len(conn') : conn'[k].own => k \in 1..Len(conn) /\ conn'[k] = conn[k]
    BY <1>t, <2>1, <2>2
  <2>5. QED
    BY <2>3, <2>4
<1>3. CASE SendEntry
  <2>1. EntryCmd(recv) \in Commands /\ EntryCmd(recv).n = recv
    BY <1>3, CurrentEntry DEF SendEntry, Busy, EntryCmd
  <2>2. /\ Len(conn') = Len(conn) + 1 /\ conn'[Len(conn')] = EntryCmd(recv)
        /\ \A k \in 1..Len(conn) : conn'[k] = conn[k]
    BY <1>3, <1>t, <2>1, AppendFacts DEF SendEntry, SendBytesBuff
  <2>3. Busy /\ wpc' = "select"
    BY <1>3 DEF SendEntry, Busy
  <2>4. ASSUME NEW j \in 1..Len(conn'), NEW k \in 1..Len(conn'),
               j < k, conn'[j].own, conn'[k].own
        PROVE  conn'[j].n < conn'[k].n
    <3>1. j \in 1..Len(conn) /\ conn'[j] = conn[j]
      BY <1>t, <2>2, <2>4
    <3>2. CASE k \in 1..Len(conn)
      BY <2>2, <2>4, <3>1, <3>2
    <3>3. CASE k = Len(conn')
      BY <2>1, <2>2, <2>3, <2>4, <3>1, <3>3
    <3>4. QED
      BY <1>t, <2>2, <3>2, <3>3
  <2>5. QED
    BY <2>3, <2>4 DEF Busy
<1>4. CASE UNCHANGED <<conn, recv>> /\ (Busy' => Busy)
  BY <1>4
<1>5. (\E e \in Entries : Write(e)) \/ TickerFlush \/ DrainExit \/ SwitchDbRegister
      \/ QuerybufWait \/ Enqueue \/ EnqueueFull \/ Count \/ ReplyStep \/ CloseCh
      \/ CloseStep \/ TargetStep \/ Terminated \/ UNCHANGED vars
        => UNCHANGED <<conn, recv>> /\ (Busy' => Busy)
  BY DEF Write, TickerFlush, DrainExit, SwitchDbRegister, QuerybufWait, Enqueue, EnqueueFull,
         Count, ReplyStep, TakeRequest, ReceiveReply, ReplyExit, CloseCh, CloseStep,
         CloseWaitReply, CloseReturn, Exit, TargetStep, TargetExecute, Terminated, vars,
         Flush, Busy
<1>6. QED
  BY <1>1, <1>2, <1>3, <1>4, <1>5 DEF Next, WriterStep

(* The target executes the entries in the order main wrote them, each at most once. *)
THEOREM InOrder == Spec => []EntriesInOrder
<1>1. Init => OrderInv
  <2> SUFFICES ASSUME Init PROVE OrderInv
    OBVIOUS
  <2>1. Len(conn) = 0
    BY EmptySeq DEF Init
  <2>2. QED
    BY <2>1 DEF OrderInv
<1>2. TypeInv /\ OrderInv => EntriesInOrder
  <2> SUFFICES ASSUME TypeInv, OrderInv PROVE EntriesInOrder
    OBVIOUS
  <2>1. Len(executed) \in Nat /\ Len(conn) \in Nat /\ Len(executed) <= Len(conn)
    BY SeqFacts DEF TypeInv, TypeOK
  <2>2. QED
    BY <2>1 DEF EntriesInOrder, OrderInv
<1>3. QED
  BY <1>1, <1>2, OrderInvNext, TypeInvAlways, PTL DEF Spec

-----------------------------------------------------------------------------
(***************************************************************************)
(* Counters.  What Count adds and what ReceiveReply subtracts for the k-th *)
(* registered command.  An entry that is a SELECT is added and never       *)
(* subtracted.                                                             *)
(***************************************************************************)
Adds(rs, ws, k)  == IF rs[k].own THEN ws[rs[k].n].size ELSE 0
Takes(rs, ws, k) == IF rs[k].sel = NoSelect THEN ws[rs[k].n].size ELSE 0

(***************************************************************************)
(* Running totals over the registered commands rs: the bytes and the       *)
(* entries that the first k of them add (inB, inE) and take (outB, outE).  *)
(***************************************************************************)
Totals(rs, ws, inB, outB, inE, outE) ==
  /\ inB[0] = 0 /\ outB[0] = 0 /\ inE[0] = 0 /\ outE[0] = 0
  /\ \A k \in 1..Len(rs) :
       /\ inB[k] = inB[k - 1] + Adds(rs, ws, k)
       /\ outB[k] = outB[k - 1] + Takes(rs, ws, k)
       /\ inE[k] = inE[k - 1] + (IF rs[k].own THEN 1 ELSE 0)
       /\ outE[k] = outE[k - 1] + (IF rs[k].sel = NoSelect THEN 1 ELSE 0)

(***************************************************************************)
(* What the totals say of i answered and j counted commands: there are at  *)
(* least as many bytes as entries, none without the other.                 *)
(***************************************************************************)
Between(L, inB, outB, inE, outE) ==
  \A i, j \in 0..L : i <= j =>
    /\ outE[i] <= inE[j] /\ inE[j] - outE[i] <= inB[j] - outB[i]
    /\ inE[j] = outE[i] => inB[j] = outB[i]

(* The entries between two places of the totals are those registered between them. *)
OwnIn(rs, i, j) == {k \in (i + 1)..j : rs[k].own}
Counts(rs, inE) ==
  \A i, j \in 0..Len(rs) : i <= j =>
    /\ IsFiniteSet(OwnIn(rs, i, j))
    /\ inE[j] = inE[i] + Cardinality(OwnIn(rs, i, j))

(* Without SELECT entries, what is subtracted is what was added. *)
Balanced(rs, inB, outB, inE, outE) ==
  \A k \in 0..Len(rs) :
    (\A i \in 1..k : rs[i].own => rs[i].sel = NoSelect) => inB[k] = outB[k] /\ inE[k] = outE[k]

TotalsOf(rs, ws, inB, outB, inE, outE) ==
  /\ inB \in [0..Len(rs) -> Nat] /\ outB \in [0..Len(rs) -> Nat]
  /\ inE \in [0..Len(rs) -> Nat] /\ outE \in [0..Len(rs) -> Nat]
  /\ Totals(rs, ws, inB, outB, inE, outE) /\ Between(Len(rs), inB, outB, inE, outE)
  /\ Counts(rs, inE) /\ Balanced(rs, inB, outB, inE, outE)

TotalsInv ==
  \E inB, outB, inE, outE :
    /\ TotalsOf(reqs, written, inB, outB, inE, outE)
    /\ unansweredBytes = inB[Counted] - outB[Answered]
    /\ unansweredEntries = inE[Counted] - outE[Answered]

(* The selects of switchDbTo and SELECT entries are told from other commands by sel. *)
Shaped(r, ws) == IF r.own THEN r.sel = NoSelect <=> ws[r.n].cmd # "select" ELSE r.sel # NoSelect

CountInv ==
  /\ \A k \in 1..Len(reqs) : Shaped(reqs[k], written)
  /\ Answered <= Len(executed)
  /\ wpc \in {"enqueue", "enqueueWait", "count"} =>
       unansweredBytes = 0 \/ cur.size + unansweredBytes <= QuerybufLimit
  /\ unansweredBytes > QuerybufLimit => unansweredEntries = 1
  /\ TotalsInv

(* A set of natural numbers has a least element: induction, without a predicate. *)
LEMMA Least == ASSUME NEW S \in SUBSET Nat, S # {} PROVE \E n \in S : \A m \in S : n <= m
<1> DEFINE R == {p \in Nat \X Nat : p[1] < p[2]}
<1>1. OpToRel(<, Nat) = R
  BY DEF OpToRel
<1>2. \E x \in S : \A y \in S : <<y, x>> \notin R
  BY <1>1, NatLessThanWellFounded, WFMin
<1>3. PICK x \in S : \A y \in S : <<y, x>> \notin R
  BY <1>2
<1>4. ASSUME NEW y \in S PROVE x <= y
  <2>1. <<y, x>> \in Nat \X Nat
    OBVIOUS
  <2>2. ~ (<<y, x>>[1] < <<y, x>>[2])
    BY <1>3, <2>1
  <2>3. QED
    BY <2>2
<1>5. QED
  BY <1>4

(* The running total is the function the property computes. *)
LEMMA BytesAreTotal ==
  ASSUME NEW A \in [0..Len(reqs) -> Nat], Len(reqs) \in Nat, A[0] = 0,
         \A k \in 1..Len(reqs) : A[k] = A[k - 1] + Adds(reqs, written, k)
  PROVE  BytesUpTo = A
<1> DEFINE F(f) == [k \in 0..Len(reqs) |->
                      IF k = 0 THEN 0
                      ELSE f[k - 1] + (IF reqs[k].own THEN written[reqs[k].n].size ELSE 0)]
<1>1. A = F(A)
  <2>1. \A k \in 0..Len(reqs) : A[k] = F(A)[k]
    BY DEF Adds
  <2>2. QED
    BY <2>1
<1>2. BytesUpTo = F(BytesUpTo)
  <2>1. BytesUpTo = CHOOSE f : f = F(f)
    BY DEF BytesUpTo
  <2> HIDE DEF F
  <2>2. \E f : f = F(f)
    BY <1>1
  <2>3. QED
    BY <2>1, <2>2, Zenon
<1> DEFINE S == {k \in 0..Len(reqs) : BytesUpTo[k] # A[k]}
<1>3. S = {}
  <2>1. SUFFICES ASSUME S # {} PROVE FALSE
    OBVIOUS
  <2>2. PICK n \in S : \A m \in S : n <= m
    <3>1. S \in SUBSET Nat
      OBVIOUS
    <3> HIDE DEF S
    <3>2. QED
      BY <2>1, <3>1, Least
  <2>3. n # 0
    BY <1>1, <1>2, <2>2
  <2>4. n - 1 \in 0..Len(reqs) /\ n - 1 \notin S
    BY <2>2, <2>3
  <2>5. BytesUpTo[n - 1] = A[n - 1]
    BY <2>4
  <2>6. F(BytesUpTo)[n] = F(A)[n]
    BY <2>2, <2>3, <2>5
  <2>7. QED
    BY <1>1, <1>2, <2>2, <2>6
<1>4. \A k \in 0..Len(reqs) : BytesUpTo[k] = A[k]
  BY <1>3
<1>5. DOMAIN BytesUpTo = 0..Len(reqs) /\ BytesUpTo = [k \in DOMAIN BytesUpTo |-> BytesUpTo[k]]
  BY <1>2
<1>6. QED
  BY <1>4, <1>5

(***************************************************************************)
(* Registering a command extends the totals by one place: x bytes and u    *)
(* entries are added, y and v taken.                                       *)
(***************************************************************************)
Extends(L, f, d, f1) ==
  /\ f \in [0..L -> Nat] /\ f1 \in [0..(L + 1) -> Nat]
  /\ \A k \in 0..L : f1[k] = f[k]
  /\ f1[L + 1] = f[L] + d

(* Such an extension exists. *)
LEMMA Extension ==
  ASSUME NEW L \in Nat, NEW f \in [0..L -> Nat], NEW d \in Nat
  PROVE  \E f1 : Extends(L, f, d, f1)
<1> DEFINE f1 == [k \in 0..(L + 1) |-> IF k = L + 1 THEN f[L] + d ELSE f[k]]
<1>1. L \in 0..L /\ L + 1 \in 0..(L + 1) /\ \A k \in 0..(L + 1) : k # L + 1 => k \in 0..L
  OBVIOUS
<1>2. f1 \in [0..(L + 1) -> Nat]
  BY <1>1
<1>3. \A k \in 0..L : k \in 0..(L + 1) /\ k # L + 1
  OBVIOUS
<1>4. Extends(L, f, d, f1)
  BY <1>1, <1>2, <1>3 DEF Extends
<1>5. QED
  BY <1>4

(* Bytes and entries stay in step, whether the new command is taken off again or not. *)
LEMMA BetweenGrows ==
  ASSUME NEW L \in Nat, NEW x \in Nat, NEW y \in Nat, NEW u \in {0, 1}, NEW v \in {0, 1},
         v <= u, u <= x, u = 0 => x = 0, v = 1 => x = y, v = 0 => y = 0,
         NEW inB, NEW outB, NEW inE, NEW outE, NEW inB1, NEW outB1, NEW inE1, NEW outE1,
         Extends(L, inB, x, inB1), Extends(L, outB, y, outB1),
         Extends(L, inE, u, inE1), Extends(L, outE, v, outE1),
         Between(L, inB, outB, inE, outE)
  PROVE  Between(L + 1, inB1, outB1, inE1, outE1)
<1> DEFINE Good(B, O, E, Q) == Q <= E /\ E - Q <= B - O /\ (E = Q => B = O)
<1>1. SUFFICES ASSUME NEW i \in 0..(L + 1), NEW j \in 0..(L + 1), i <= j
               PROVE  Good(inB1[j], outB1[i], inE1[j], outE1[i])
  BY DEF Between
<1>2. \A m, n \in 0..L : m <= n => Good(inB[n], outB[m], inE[n], outE[m])
  BY DEF Between
<1>3. L \in 0..L /\ (i \in 0..L \/ i = L + 1) /\ (j \in 0..L \/ j = L + 1)
  OBVIOUS
<1>4. \A B, O, E, Q \in Nat : Good(B, O, E, Q) =>
         Good(B + x, O, E + u, Q) /\ Good(B + x, O + y, E + u, Q + v)
  OBVIOUS
<1>5. \A k \in 0..L : inB[k] \in Nat /\ outB[k] \in Nat /\ inE[k] \in Nat /\ outE[k] \in Nat
  BY DEF Extends
<1>6. \A k \in 0..L : inB1[k] = inB[k] /\ outB1[k] = outB[k] /\ inE1[k] = inE[k] /\ outE1[k] = outE[k]
  BY DEF Extends
<1>7. /\ inB1[L + 1] = inB[L] + x /\ outB1[L + 1] = outB[L] + y
      /\ inE1[L + 1] = inE[L] + u /\ outE1[L + 1] = outE[L] + v
  BY DEF Extends
<1> HIDE DEF Good
<1>8. CASE j \in 0..L
  <2>1. i \in 0..L
    BY <1>1, <1>3, <1>8
  <2>2. QED
    BY <1>1, <1>2, <1>6, <1>8, <2>1
<1>9. CASE i \in 0..L /\ j = L + 1
  <2>1. Good(inB[L], outB[i], inE[L], outE[i])
    BY <1>2, <1>3, <1>9
  <2>2. Good(inB[L] + x, outB[i], inE[L] + u, outE[i])
    BY <1>3, <1>4, <1>5, <1>9, <2>1
  <2>3. QED
    BY <1>6, <1>7, <1>9, <2>2
<1>10. CASE i = L + 1 /\ j = L + 1
  <2>1. Good(inB[L], outB[L], inE[L], outE[L])
    BY <1>2, <1>3
  <2>2. Good(inB[L] + x, outB[L] + y, inE[L] + u, outE[L] + v)
    BY <1>3, <1>4, <1>5, <2>1
  <2>3. QED
    BY <1>7, <1>10, <2>2
<1>11. QED
  BY <1>1, <1>3, <1>8, <1>9, <1>10

(* The number of entries grows with the set of the registered ones. *)
LEMMA CountsGrow ==
  ASSUME NEW rs, NEW rs1, Len(rs) \in Nat, Len(rs1) = Len(rs) + 1,
         \A k \in 1..Len(rs) : rs1[k] = rs[k],
         NEW inE, NEW inE1, Counts(rs, inE),
         Extends(Len(rs), inE, IF rs1[Len(rs) + 1].own THEN 1 ELSE 0, inE1)
  PROVE  Counts(rs1, inE1)
<1> DEFINE L == Len(rs)
<1>1. SUFFICES ASSUME NEW i \in 0..(L + 1), NEW j \in 0..(L + 1), i <= j
               PROVE  /\ IsFiniteSet(OwnIn(rs1, i, j))
                      /\ inE1[j] = inE1[i] + Cardinality(OwnIn(rs1, i, j))
  BY DEF Counts
<1>2. \A m, n \in 0..L : m <= n =>
         IsFiniteSet(OwnIn(rs, m, n)) /\ inE[n] = inE[m] + Cardinality(OwnIn(rs, m, n))
  BY DEF Counts
<1>3. /\ L \in 0..L /\ (i \in 0..L \/ i = L + 1) /\ (j \in 0..L \/ j = L + 1)
  OBVIOUS
<1>4. /\ \A k \in 0..L : inE1[k] = inE[k] /\ inE[k] \in Nat
      /\ inE1[L + 1] = inE[L] + (IF rs1[L + 1].own THEN 1 ELSE 0)
  BY DEF Extends
<1>5. ASSUME j \in 0..L PROVE OwnIn(rs1, i, j) = OwnIn(rs, i, j) /\ i \in 0..L
  <2>1. i \in 0..L /\ \A k \in (i + 1)..j : k \in 1..Len(rs)
    BY <1>1, <1>5
  <2>2. \A k \in (i + 1)..j : rs1[k] = rs[k]
    BY <2>1
  <2>3. QED
    BY <2>1, <2>2 DEF OwnIn
<1>6. CASE j \in 0..L
  <2>1. i \in 0..L /\ OwnIn(rs1, i, j) = OwnIn(rs, i, j)
    BY <1>5, <1>6
  <2>2. inE1[i] = inE[i] /\ inE1[j] = inE[j]
    BY <1>4, <1>6, <2>1
  <2>3. IsFiniteSet(OwnIn(rs, i, j)) /\ inE[j] = inE[i] + Cardinality(OwnIn(rs, i, j))
    BY <1>1, <1>2, <1>6, <2>1
  <2>4. QED
    BY <2>1, <2>2, <2>3
<1>7. CASE i \in 0..L /\ j = L + 1
  <2> DEFINE S == OwnIn(rs, i, L)
  <2>1. IsFiniteSet(S) /\ inE[L] = inE[i] + Cardinality(S) /\ L + 1 \notin S
    <3>1. i <= L /\ i \in 0..L
      BY <1>7
    <3>2. IsFiniteSet(OwnIn(rs, i, L)) /\ inE[L] = inE[i] + Cardinality(OwnIn(rs, i, L))
      BY <1>2, <1>3, <3>1
    <3>3. L + 1 \notin OwnIn(rs, i, L)
      BY DEF OwnIn
    <3>4. QED
      BY <3>2, <3>3
  <2>2. Cardinality(S) \in Nat
    BY <2>1, FS_CardinalityType
  <2>3. inE[i] \in Nat /\ inE1[i] = inE[i]
    BY <1>4, <1>7
  <2>4. CASE rs1[L + 1].own
    <3>1. OwnIn(rs1, i, j) = S \cup {L + 1}
      BY <1>7, <2>4 DEF OwnIn
    <3>2. inE1[j] = inE[L] + 1
      BY <1>4, <1>7, <2>4
    <3> HIDE DEF S
    <3>3. IsFiniteSet(S \cup {L + 1}) /\ Cardinality(S \cup {L + 1}) = Cardinality(S) + 1
      BY <2>1, FS_AddElement
    <3>4. QED
      BY <2>1, <2>2, <2>3, <3>1, <3>2, <3>3
  <2>5. CASE ~ rs1[L + 1].own
    <3>1. OwnIn(rs1, i, j) = S
      BY <1>7, <2>5 DEF OwnIn
    <3>2. inE1[j] = inE[L] + 0
      BY <1>4, <1>7, <2>5
    <3> HIDE DEF S
    <3>3. QED
      BY <2>1, <2>2, <2>3, <3>1, <3>2
  <2>6. QED
    BY <2>4, <2>5
<1>8. CASE i = L + 1 /\ j = L + 1
  <2>1. OwnIn(rs1, i, j) = {}
    BY <1>8 DEF OwnIn
  <2>2. inE1[L + 1] \in Nat
    BY <1>3 DEF Extends
  <2>3. QED
    <3>1. IsFiniteSet({}) /\ Cardinality({}) = 0
      BY FS_EmptySet
    <3>2. inE1[L + 1] = inE1[L + 1] + 0
      BY <2>2
    <3>3. QED
      BY <1>8, <2>1, <3>1, <3>2
<1>9. QED
  BY <1>1, <1>3, <1>6, <1>7, <1>8

(* All totals together, for a command of switchDbTo or an entry. *)
LEMMA TotalsGrow ==
  ASSUME NEW rs \in Seq(Commands), NEW c \in Commands, NEW ws,
         ws[c.n].size \in Nat \ {0}, ~ c.own => c.sel # NoSelect,
         NEW inB, NEW outB, NEW inE, NEW outE, TotalsOf(rs, ws, inB, outB, inE, outE)
  PROVE  \E inB1, outB1, inE1, outE1 :
           /\ TotalsOf(Append(rs, c), ws, inB1, outB1, inE1, outE1)
           /\ \A k \in 0..Len(rs) : /\ inB1[k] = inB[k] /\ outB1[k] = outB[k]
                                    /\ inE1[k] = inE[k] /\ outE1[k] = outE[k]
<1> DEFINE rs1 == Append(rs, c)
           L == Len(rs)
           x == IF c.own THEN ws[c.n].size ELSE 0
           y == IF c.sel = NoSelect THEN ws[c.n].size ELSE 0
           u == IF c.own THEN 1 ELSE 0
           v == IF c.sel = NoSelect THEN 1 ELSE 0
<1>1. /\ L \in Nat /\ Len(rs1) = L + 1 /\ rs1[L + 1] = c
      /\ \A k \in 1..L : rs1[k] = rs[k]
  BY AppendFacts
<1>2. /\ x \in Nat /\ y \in Nat /\ u \in {0, 1} /\ v \in {0, 1}
      /\ v <= u /\ u <= x /\ (u = 0 => x = 0) /\ (v = 1 => x = y) /\ (v = 0 => y = 0)
  OBVIOUS
<1>3. /\ inB \in [0..L -> Nat] /\ outB \in [0..L -> Nat]
      /\ inE \in [0..L -> Nat] /\ outE \in [0..L -> Nat]
  BY DEF TotalsOf
<1>4. /\ Totals(rs, ws, inB, outB, inE, outE) /\ Between(L, inB, outB, inE, outE)
      /\ Counts(rs, inE) /\ Balanced(rs, inB, outB, inE, outE)
  BY DEF TotalsOf
<1> HIDE DEF x, y, u, v
<1>5. PICK inB1 : Extends(L, inB, x, inB1)
  BY <1>1, <1>2, <1>3, Extension
<1>6. PICK outB1 : Extends(L, outB, y, outB1)
  BY <1>1, <1>2, <1>3, Extension
<1>7. PICK inE1 : Extends(L, inE, u, inE1)
  BY <1>1, <1>2, <1>3, Extension
<1>8. PICK outE1 : Extends(L, outE, v, outE1)
  BY <1>1, <1>2, <1>3, Extension
<1>9. \A k \in 0..L : inB1[k] = inB[k] /\ outB1[k] = outB[k] /\ inE1[k] = inE[k] /\ outE1[k] = outE[k]
  BY <1>5, <1>6, <1>7, <1>8 DEF Extends
<1>10. /\ inB1[L + 1] = inB[L] + x /\ outB1[L + 1] = outB[L] + y
       /\ inE1[L + 1] = inE[L] + u /\ outE1[L + 1] = outE[L] + v
       /\ inB1 \in [0..(L + 1) -> Nat] /\ outB1 \in [0..(L + 1) -> Nat]
       /\ inE1 \in [0..(L + 1) -> Nat] /\ outE1 \in [0..(L + 1) -> Nat]
  BY <1>5, <1>6, <1>7, <1>8 DEF Extends
<1> HIDE DEF rs1, L
<1>11. Between(L + 1, inB1, outB1, inE1, outE1)
  BY <1>1, <1>2, <1>4, <1>5, <1>6, <1>7, <1>8, BetweenGrows
<1>12. Counts(rs1, inE1)
  <2>1. u = IF rs1[Len(rs) + 1].own THEN 1 ELSE 0
    BY <1>1 DEF u, L
  <2>2. Extends(Len(rs), inE, IF rs1[Len(rs) + 1].own THEN 1 ELSE 0, inE1)
    BY <1>7, <2>1 DEF L
  <2>3. Len(rs) \in Nat /\ Len(rs1) = Len(rs) + 1 /\ \A k \in 1..Len(rs) : rs1[k] = rs[k]
    BY <1>1 DEF L
  <2>4. QED
    BY <1>4, <2>2, <2>3, CountsGrow
<1>13. Totals(rs1, ws, inB1, outB1, inE1, outE1)
  <2>1. inB1[0] = 0 /\ outB1[0] = 0 /\ inE1[0] = 0 /\ outE1[0] = 0
    BY <1>1, <1>4, <1>9 DEF Totals
  <2>2. ASSUME NEW k \in 1..L
        PROVE  /\ inB1[k] = inB1[k - 1] + Adds(rs1, ws, k)
               /\ outB1[k] = outB1[k - 1] + Takes(rs1, ws, k)
               /\ inE1[k] = inE1[k - 1] + (IF rs1[k].own THEN 1 ELSE 0)
               /\ outE1[k] = outE1[k - 1] + (IF rs1[k].sel = NoSelect THEN 1 ELSE 0)
    <3>1. k \in 0..L /\ k - 1 \in 0..L
      BY <1>1
    <3>2. /\ inB1[k] = inB[k] /\ outB1[k] = outB[k] /\ inE1[k] = inE[k] /\ outE1[k] = outE[k]
          /\ inB1[k - 1] = inB[k - 1] /\ outB1[k - 1] = outB[k - 1]
          /\ inE1[k - 1] = inE[k - 1] /\ outE1[k - 1] = outE[k - 1]
      BY <1>9, <3>1
    <3>3. rs1[k] = rs[k]
      BY <1>1
    <3>4. Adds(rs1, ws, k) = Adds(rs, ws, k) /\ Takes(rs1, ws, k) = Takes(rs, ws, k)
      BY <3>3 DEF Adds, Takes
    <3>5. QED
      BY <1>4, <3>2, <3>3, <3>4 DEF Totals, L
  <2>3. Adds(rs1, ws, L + 1) = x /\ Takes(rs1, ws, L + 1) = y
    BY <1>1 DEF Adds, Takes, x, y
  <2>4. /\ inB1[L + 1] = inB1[L] + Adds(rs1, ws, L + 1)
        /\ outB1[L + 1] = outB1[L] + Takes(rs1, ws, L + 1)
        /\ inE1[L + 1] = inE1[L] + (IF rs1[L + 1].own THEN 1 ELSE 0)
        /\ outE1[L + 1] = outE1[L] + (IF rs1[L + 1].sel = NoSelect THEN 1 ELSE 0)
    <3>1. L \in 0..L
      BY <1>1
    <3>2. QED
      BY <1>1, <1>9, <1>10, <2>3, <3>1 DEF u, v
  <2>5. \A k \in 1..(L + 1) : k \in 1..L \/ k = L + 1
    BY <1>1
  <2>6. ASSUME NEW k \in 1..(L + 1)
        PROVE
          /\ inB1[k] = inB1[k - 1] + Adds(rs1, ws, k)
          /\ outB1[k] = outB1[k - 1] + Takes(rs1, ws, k)
          /\ inE1[k] = inE1[k - 1] + (IF rs1[k].own THEN 1 ELSE 0)
          /\ outE1[k] = outE1[k - 1] + (IF rs1[k].sel = NoSelect THEN 1 ELSE 0)
    <3>1. CASE k \in 1..L
      BY <2>2, <3>1
    <3>2. CASE k = L + 1
      <4>1. k - 1 = L
        BY <1>1, <3>2
      <4>2. QED
        BY <2>4, <3>2, <4>1, Zenon
    <3>3. QED
      BY <2>5, <3>1, <3>2
  <2>7. QED
    BY <1>1, <2>1, <2>6 DEF Totals
<1>14. Balanced(rs1, inB1, outB1, inE1, outE1)
  <2> SUFFICES ASSUME NEW k \in 0..(L + 1), \A i \in 1..k : rs1[i].own => rs1[i].sel = NoSelect
               PROVE  inB1[k] = outB1[k] /\ inE1[k] = outE1[k]
    BY <1>1 DEF Balanced
  <2>1. ASSUME NEW m \in 0..L, m <= k PROVE inB[m] = outB[m] /\ inE[m] = outE[m]
    <3>1. \A i \in 1..m : rs[i].own => rs[i].sel = NoSelect
      BY <1>1, <2>1
    <3>2. QED
      BY <1>4, <3>1 DEF Balanced, L
  <2>2. CASE k \in 0..L
    BY <1>9, <2>1, <2>2
  <2>3. CASE k = L + 1
    <3>1. c.own => c.sel = NoSelect
      BY <1>1, <2>3
    <3>2. x = y /\ u = v
      BY <3>1 DEF x, y, u, v
    <3>3. inB[L] = outB[L] /\ inE[L] = outE[L]
      BY <1>1, <2>1, <2>3
    <3>4. QED
      BY <1>10, <2>3, <3>2, <3>3
  <2>4. QED
    BY <1>1, <2>2, <2>3
<1>15. TotalsOf(rs1, ws, inB1, outB1, inE1, outE1)
  BY <1>1, <1>10, <1>11, <1>12, <1>13, <1>14 DEF TotalsOf
<1>16. QED
  BY <1>9, <1>15 DEF rs1, L

(* The totals depend on the entries that the registered commands carry only. *)
LEMMA TotalsKept ==
  ASSUME NEW rs, NEW ws, NEW ws1, NEW inB, NEW outB, NEW inE, NEW outE,
         TotalsOf(rs, ws, inB, outB, inE, outE),
         \A k \in 1..Len(rs) : ws1[rs[k].n] = ws[rs[k].n]
  PROVE  TotalsOf(rs, ws1, inB, outB, inE, outE)
<1>1. \A k \in 1..Len(rs) : Adds(rs, ws1, k) = Adds(rs, ws, k) /\ Takes(rs, ws1, k) = Takes(rs, ws, k)
  BY DEF Adds, Takes
<1>2. Totals(rs, ws, inB, outB, inE, outE)
  BY DEF TotalsOf
<1>3. Totals(rs, ws1, inB, outB, inE, outE)
  BY <1>1, <1>2 DEF Totals
<1>4. QED
  BY <1>3 DEF TotalsOf

(* Replies are taken off commands that have been counted. *)
LEMMA Places ==
  ASSUME TypeInv, PairInv, NEW i \in 0..Len(executed), i <= reqTaken
  PROVE  /\ Len(reqs) \in Nat /\ i \in 0..Len(reqs) /\ Counted \in 0..Len(reqs) /\ i <= Counted
         /\ wpc = "count" => Len(reqs) \in 1..Len(reqs) /\ Counted = Len(reqs) - 1
         /\ wpc # "count" => Counted = Len(reqs)
<1>1. /\ Len(reqs) \in Nat /\ Len(conn) \in Nat /\ Len(executed) \in Nat
      /\ reqTaken \in 0..Len(reqs) /\ flushed \in 0..Len(conn) /\ Len(executed) <= flushed
  BY SeqFacts DEF TypeInv, TypeOK
<1>2. wpc = "count" => Len(reqs) = Len(conn) + 1
  BY DEF PairInv
<1>3. QED
  BY <1>1, <1>2 DEF Counted

(* The replies dealt with are among those the target has given. *)
LEMMA AnsweredPlace ==
  ASSUME TypeInv, Answered <= Len(executed)
  PROVE  Answered \in 0..Len(executed) /\ Answered <= reqTaken
<1>1. Len(executed) \in Nat /\ reqTaken \in Nat /\ (rpc = "receive" => reqTaken > 0)
  BY SeqFacts DEF TypeInv, TypeOK
<1>2. QED
  BY <1>1 DEF Answered

(* There are at least as many bytes as entries, and none without the other. *)
LEMMA Loads ==
  ASSUME NEW rs, NEW ws, NEW inB, NEW outB, NEW inE, NEW outE,
         TotalsOf(rs, ws, inB, outB, inE, outE), Len(rs) \in Nat,
         NEW i \in 0..Len(rs), NEW j \in 0..Len(rs), i <= j
  PROVE  /\ inB[j] - outB[i] \in Nat /\ inE[j] - outE[i] \in Nat
         /\ inE[j] - outE[i] <= inB[j] - outB[i]
         /\ inE[j] - outE[i] = 0 => inB[j] - outB[i] = 0
<1>1. inB[j] \in Nat /\ outB[i] \in Nat /\ inE[j] \in Nat /\ outE[i] \in Nat
  BY DEF TotalsOf
<1>2. /\ outE[i] <= inE[j] /\ inE[j] - outE[i] <= inB[j] - outB[i]
      /\ inE[j] = outE[i] => inB[j] = outB[i]
  BY DEF TotalsOf, Between
<1>3. QED
  BY <1>1, <1>2

(* So it is with the counters. *)
LEMMA CountersAreSums ==
  ASSUME TypeInv, PairInv, CountInv
  PROVE  /\ unansweredBytes \in Nat /\ unansweredEntries \in Nat
         /\ unansweredEntries <= unansweredBytes
         /\ unansweredEntries = 0 => unansweredBytes = 0
<1>1. PICK inB, outB, inE, outE :
        /\ TotalsOf(reqs, written, inB, outB, inE, outE)
        /\ unansweredBytes = inB[Counted] - outB[Answered]
        /\ unansweredEntries = inE[Counted] - outE[Answered]
  BY DEF CountInv, TotalsInv
<1>2. Answered \in 0..Len(executed) /\ Answered <= reqTaken
  BY AnsweredPlace DEF CountInv
<1>3. /\ Len(reqs) \in Nat /\ Answered \in 0..Len(reqs) /\ Counted \in 0..Len(reqs)
      /\ Answered <= Counted
  BY <1>2, Places
<1>4. QED
  BY <1>1, <1>3, Loads

(* The commands registered so far and the one being registered. *)
LEMMA CommandShape ==
  ASSUME TypeInv, NEW n \in 1..Len(written)
  PROVE  /\ written[n].size \in Nat \ {0}
         /\ EntryCmd(n).own /\ EntryCmd(n).n = n
         /\ EntryCmd(n).sel = NoSelect <=> written[n].cmd # "select"
         /\ ~ SwitchCmd(n).own /\ SwitchCmd(n).n = n /\ SwitchCmd(n).sel # NoSelect
<1>1. written[n] \in Entries
  BY SeqFacts DEF TypeInv, TypeOK
<1>2. /\ written[n].size \in Nat \ {0} /\ written[n].db \in Nat /\ written[n].to \in Nat
  BY <1>1, WriterAssumption
<1>3. QED
  BY <1>2 DEF EntryCmd, SwitchCmd, NoSelect

(* A step that neither registers, counts nor takes a reply. *)
LEMMA CountInvQuiet ==
  ASSUME CountInv, Len(executed) \in Nat, Len(executed') \in Nat,
         UNCHANGED <<written, reqs, unansweredBytes, unansweredEntries>>,
         Counted' = Counted, Answered' = Answered, Answered \in Int,
         Len(executed) <= Len(executed'),
         wpc' \in {"enqueue", "enqueueWait", "count"} =>
           wpc \in {"enqueue", "enqueueWait", "count"} /\ recv' = recv
  PROVE  CountInv'
<1>2. (\A k \in 1..Len(reqs) : Shaped(reqs[k], written))'
  BY DEF CountInv
<1>3. Answered' <= Len(executed')
  BY DEF CountInv
<1>4. (wpc \in {"enqueue", "enqueueWait", "count"} =>
         unansweredBytes = 0 \/ cur.size + unansweredBytes <= QuerybufLimit)'
  BY DEF CountInv, cur
<1>5. (unansweredBytes > QuerybufLimit => unansweredEntries = 1)'
  BY DEF CountInv
<1>6. TotalsInv'
  BY DEF CountInv, TotalsInv
<1>7. QED
  BY <1>2, <1>3, <1>4, <1>5, <1>6 DEF CountInv

(* An entry more in ch. *)
LEMMA CountInvWrite ==
  ASSUME TypeInv, CountInv, NEW e \in Entries, Write(e)
  PROVE  CountInv'
<1>1. /\ UNCHANGED <<recv, wpc, reqs, reqTaken, rpc, executed, unansweredBytes, unansweredEntries>>
      /\ Counted' = Counted /\ Answered' = Answered
  BY DEF Write, waitVars, statVars, targetVars, Counted, Answered
<1>2. /\ recv \in 0..Len(written) /\ Len(written) \in Nat
      /\ \A k \in 1..Len(reqs) : reqs[k].n \in 1..recv
  BY SeqFacts DEF TypeInv, TypeOK
<1>3. \A n \in 1..Len(written) : written'[n] = written[n]
  BY AppendFacts DEF Write, TypeInv, TypeOK
<1>4. \A k \in 1..Len(reqs) : written'[reqs[k].n] = written[reqs[k].n]
  BY <1>2, <1>3
<1>6. (\A k \in 1..Len(reqs) : Shaped(reqs[k], written))'
  BY <1>1, <1>4 DEF CountInv, Shaped
<1>7. wpc \in {"enqueue", "enqueueWait", "count"} => cur' = cur
  BY <1>1, <1>2, <1>3 DEF cur, TypeInv, Busy
<1>8. TotalsInv'
  <2>1. PICK inB, outB, inE, outE :
          /\ TotalsOf(reqs, written, inB, outB, inE, outE)
          /\ unansweredBytes = inB[Counted] - outB[Answered]
          /\ unansweredEntries = inE[Counted] - outE[Answered]
    BY DEF CountInv, TotalsInv
  <2>2. TotalsOf(reqs, written', inB, outB, inE, outE)
    BY <1>4, <2>1, TotalsKept
  <2>3. QED
    BY <1>1, <2>1, <2>2 DEF TotalsInv
<1>9. QED
  BY <1>1, <1>6, <1>7, <1>8 DEF CountInv

(* A command c, the entry recv or the select ahead of it, is registered. *)
LEMMA Registered ==
  ASSUME TypeInv, PairInv, CountInv, Busy, wpc # "count",
         NEW c \in {SwitchCmd(recv), EntryCmd(recv)}, reqs' = Append(reqs, c),
         UNCHANGED <<written, recv, reqTaken, rpc, executed, unansweredBytes, unansweredEntries>>,
         wpc' = IF c.own THEN "count" ELSE "querybuf"
  PROVE  /\ (\A k \in 1..Len(reqs) : Shaped(reqs[k], written))'
         /\ Answered' <= Len(executed') /\ TotalsInv'
<1>1. recv \in 1..Len(written) /\ c \in Commands
  BY CurrentEntry
<1>2. /\ c.n = recv /\ written[c.n].size \in Nat \ {0} /\ (~ c.own => c.sel # NoSelect)
  BY <1>1, CommandShape
<1>3. /\ reqs \in Seq(Commands) /\ Len(reqs) \in Nat /\ Len(reqs') = Len(reqs) + 1
      /\ reqs'[Len(reqs) + 1] = c /\ \A k \in 1..Len(reqs) : reqs'[k] = reqs[k]
  BY <1>1, AppendFacts DEF TypeInv, TypeOK
<1>4. Answered' = Answered /\ Answered <= Len(executed) /\ Answered \in 0..Len(executed) /\ Answered <= reqTaken
  BY AnsweredPlace DEF Answered, CountInv
<1>5. Answered \in 0..Len(reqs) /\ Counted = Len(reqs)
  BY <1>4, Places
<1>6. ASSUME NEW k \in 1..(Len(reqs) + 1) PROVE Shaped(reqs'[k], written)
  <2>1. CASE k = Len(reqs) + 1
    BY <1>1, <1>3, <2>1, CommandShape DEF Shaped
  <2>2. CASE k \in 1..Len(reqs)
    BY <1>3, <2>2 DEF CountInv
  <2>3. QED
    BY <1>3, <2>1, <2>2
<1>7. TotalsInv'
  <2>1. PICK inB, outB, inE, outE :
          /\ TotalsOf(reqs, written, inB, outB, inE, outE)
          /\ unansweredBytes = inB[Counted] - outB[Answered]
          /\ unansweredEntries = inE[Counted] - outE[Answered]
    BY DEF CountInv, TotalsInv
  <2>2. PICK inB1, outB1, inE1, outE1 :
          /\ TotalsOf(reqs', written, inB1, outB1, inE1, outE1)
          /\ \A k \in 0..Len(reqs) : /\ inB1[k] = inB[k] /\ outB1[k] = outB[k]
                                     /\ inE1[k] = inE[k] /\ outE1[k] = outE[k]
    BY <1>1, <1>2, <1>3, <2>1, TotalsGrow
  <2>3. /\ inB1[Len(reqs)] = inB[Counted] /\ inE1[Len(reqs)] = inE[Counted]
        /\ outB1[Answered] = outB[Answered] /\ outE1[Answered] = outE[Answered]
    BY <1>3, <1>5, <2>2
  <2>4. inB1[Counted'] = inB1[Len(reqs)] /\ inE1[Counted'] = inE1[Len(reqs)]
    <3>1. CASE c.own
      <4>1. Counted' = Len(reqs)
        BY <1>3, <3>1 DEF Counted
      <4>2. QED
        BY <4>1
    <3>2. CASE ~ c.own
      <4>1. Counted' = Len(reqs) + 1
        BY <1>3, <3>2 DEF Counted
      <4>2. /\ inB1[Len(reqs) + 1] = inB1[Len(reqs) + 1 - 1] + Adds(reqs', written, Len(reqs) + 1)
            /\ inE1[Len(reqs) + 1] =
                 inE1[Len(reqs) + 1 - 1] + (IF reqs'[Len(reqs) + 1].own THEN 1 ELSE 0)
        <5>1. Len(reqs) + 1 \in 1..Len(reqs')
          BY <1>3
        <5>2. Totals(reqs', written, inB1, outB1, inE1, outE1)
          BY <2>2 DEF TotalsOf
        <5>3. QED
          BY <5>1, <5>2 DEF Totals
      <4>3. Adds(reqs', written, Len(reqs) + 1) = 0
        BY <1>3, <3>2 DEF Adds
      <4>4. Len(reqs) + 1 - 1 = Len(reqs) /\ Len(reqs) \in 0..Len(reqs')
        BY <1>3
      <4>5. inB1[Len(reqs)] \in Nat /\ inE1[Len(reqs)] \in Nat
        BY <2>2, <4>4 DEF TotalsOf
      <4>6. /\ inB1[Len(reqs) + 1] = inB1[Len(reqs)] + 0 /\ inE1[Len(reqs) + 1] = inE1[Len(reqs)] + 0
        BY <1>3, <3>2, <4>2, <4>3, <4>4
      <4>7. QED
        BY <4>1, <4>5, <4>6
    <3>3. QED
      BY <3>1, <3>2
  <2>5. QED
    BY <1>4, <2>1, <2>2, <2>3, <2>4 DEF TotalsInv
<1>8. \A k \in 1..Len(reqs') : Shaped(reqs'[k], written')
  BY <1>3, <1>6
<1>9. Answered' <= Len(executed')
  BY <1>4
<1>10. QED
  BY <1>7, <1>8, <1>9

(* Arithmetic of the two counters. *)
LEMMA Differences ==
  ASSUME NEW p \in Nat, NEW q \in Nat, NEW d \in Nat
  PROVE  (p - q) + d = (p + d) - q /\ (p - q) - d = p - (q + d) /\ (p - q) - d <= p - q
  OBVIOUS

(* The two atomic additions of the sender: the wait before them left room for the entry. *)
LEMMA CountInvCount ==
  ASSUME TypeInv, PairInv, CountInv, Count
  PROVE  CountInv'
<1>1. /\ wpc = "count" /\ wpc' = "send" /\ UNCHANGED <<written, recv, reqs, reqTaken, rpc, executed>>
      /\ unansweredBytes' = unansweredBytes + cur.size
      /\ unansweredEntries' = unansweredEntries + 1
  BY DEF Count, chVars, waitVars, targetVars
<1>2. /\ recv \in 1..Len(written) /\ cur.size \in Nat \ {0}
  BY <1>1, CurrentEntry DEF Busy
<1>3. /\ Answered' = Answered /\ Answered <= Len(executed) /\ Answered \in 0..Len(executed)
      /\ Answered <= reqTaken
  BY <1>1, AnsweredPlace DEF Answered, CountInv
<1>4. /\ Len(reqs) \in 1..Len(reqs) /\ Len(reqs) \in Nat /\ Counted = Len(reqs) - 1
      /\ Answered \in 0..Len(reqs) /\ Counted \in 0..Len(reqs)
  BY <1>1, <1>3, Places
<1>5. Counted' = Len(reqs)
  BY <1>1 DEF Counted
<1>6. reqs[Len(reqs)] = EntryCmd(recv)
  BY <1>1 DEF PairInv
<1>7. /\ unansweredBytes \in Nat /\ unansweredEntries \in Nat /\ QuerybufLimit \in Nat
      /\ unansweredEntries <= unansweredBytes
  BY CountersAreSums, Bounds
<1>8. unansweredBytes = 0 \/ cur.size + unansweredBytes <= QuerybufLimit
  BY <1>1 DEF CountInv
<1>9. unansweredBytes' > QuerybufLimit => unansweredEntries' = 1
  BY <1>1, <1>2, <1>7, <1>8
<1>10. TotalsInv'
  <2>1. PICK inB, outB, inE, outE :
          /\ TotalsOf(reqs, written, inB, outB, inE, outE)
          /\ unansweredBytes = inB[Counted] - outB[Answered]
          /\ unansweredEntries = inE[Counted] - outE[Answered]
    BY DEF CountInv, TotalsInv
  <2>2. Totals(reqs, written, inB, outB, inE, outE)
    BY <2>1 DEF TotalsOf
  <2>3. /\ inB[Len(reqs)] = inB[Len(reqs) - 1] + Adds(reqs, written, Len(reqs))
        /\ inE[Len(reqs)] = inE[Len(reqs) - 1] + (IF reqs[Len(reqs)].own THEN 1 ELSE 0)
    BY <1>4, <2>2 DEF Totals
  <2>4. reqs[Len(reqs)].own /\ Adds(reqs, written, Len(reqs)) = cur.size
    BY <1>2, <1>6, CommandShape DEF Adds, cur
  <2>5. inB[Len(reqs)] = inB[Counted] + cur.size /\ inE[Len(reqs)] = inE[Counted] + 1
    BY <1>4, <2>3, <2>4
  <2>6. /\ inB[Counted] \in Nat /\ inE[Counted] \in Nat
        /\ outB[Answered] \in Nat /\ outE[Answered] \in Nat
    BY <1>4, <2>1 DEF TotalsOf
  <2>7. /\ unansweredBytes' = inB[Len(reqs)] - outB[Answered]
        /\ unansweredEntries' = inE[Len(reqs)] - outE[Answered]
    <3>1. /\ (inB[Counted] - outB[Answered]) + cur.size = (inB[Counted] + cur.size) - outB[Answered]
          /\ (inE[Counted] - outE[Answered]) + 1 = (inE[Counted] + 1) - outE[Answered]
      BY <1>2, <2>6, Differences
    <3>2. QED
      BY <1>1, <2>1, <2>5, <3>1
  <2>8. QED
    BY <1>1, <1>3, <1>5, <2>1, <2>7 DEF TotalsInv
<1>11. (\A k \in 1..Len(reqs) : Shaped(reqs[k], written))'
  BY <1>1 DEF CountInv
<1>12. QED
  BY <1>1, <1>3, <1>9, <1>10, <1>11 DEF CountInv

(***************************************************************************)
(* A reply: what it takes off was added, since the target answers only     *)
(* what was sent, and what was sent had been counted.                      *)
(***************************************************************************)
LEMMA CountInvReply ==
  ASSUME TypeInv, PairInv, CountInv, ReceiveReply
  PROVE  CountInv'
<1> DEFINE r == reqTaken
<1>1. /\ UNCHANGED <<written, recv, wpc, reqs, reqTaken, executed>> /\ rpc = "receive"
      /\ r <= Len(executed) /\ Counted' = Counted
  BY DEF ReceiveReply, chVars, waitVars, targetVars, Counted
<1>2. /\ r \in 1..Len(reqs) /\ Len(reqs) \in Nat /\ Len(executed) \in Nat /\ Answered = r - 1
  BY <1>1, SeqFacts DEF TypeInv, TypeOK, Answered
<1>3. /\ r \in 0..Len(executed) /\ r <= reqTaken
  BY <1>1, <1>2
<1>4. /\ r \in 0..Len(reqs) /\ Counted \in 0..Len(reqs) /\ r <= Counted
  BY <1>3, Places
<1>5. (\A k \in 1..Len(reqs) : Shaped(reqs[k], written))'
  BY <1>1 DEF CountInv
<1>6. CASE UNCHANGED <<rpc, unansweredBytes, unansweredEntries>>
  <2>1. Answered' = Answered /\ Answered \in Int /\ Len(executed') = Len(executed)
    BY <1>1, <1>2, <1>6 DEF Answered
  <2>2. QED
    BY <1>1, <1>2, <1>6, <2>1, CountInvQuiet
<1>7. CASE rpc' = "range"
  <2>1. Answered' = r
    BY <1>1, <1>7 DEF Answered
  <2>2. PICK inB, outB, inE, outE :
          /\ TotalsOf(reqs, written, inB, outB, inE, outE)
          /\ unansweredBytes = inB[Counted] - outB[Answered]
          /\ unansweredEntries = inE[Counted] - outE[Answered]
    BY DEF CountInv, TotalsInv
  <2>3. Totals(reqs, written, inB, outB, inE, outE)
    BY <2>2 DEF TotalsOf
  <2>4. /\ outB[r] = outB[Answered] + Takes(reqs, written, r)
        /\ outE[r] = outE[Answered] + (IF reqs[r].sel = NoSelect THEN 1 ELSE 0)
    BY <1>2, <2>3 DEF Totals
  <2>5. /\ Answered \in 0..Len(reqs) /\ inB[Counted] \in Nat /\ inE[Counted] \in Nat
        /\ outB[Answered] \in Nat /\ outE[Answered] \in Nat /\ outB[r] \in Nat /\ outE[r] \in Nat
    <3>1. Answered \in 0..Len(reqs)
      BY <1>2
    <3>2. QED
      BY <1>4, <2>2, <3>1 DEF TotalsOf
  <2>6. written[reqs[r].n].size \in Nat
    <3>1. reqs[r].n \in 1..Len(written)
      BY <1>2, SeqFacts DEF TypeInv, TypeOK
    <3>2. QED
      BY <3>1, CommandShape
  <2>7. /\ unansweredBytes' = inB[Counted] - outB[r] /\ unansweredEntries' = inE[Counted] - outE[r]
        /\ \/ unansweredBytes' = unansweredBytes /\ unansweredEntries' = unansweredEntries
           \/ unansweredBytes' <= unansweredBytes /\ unansweredEntries' = unansweredEntries - 1
    <3>1. CASE reqs[r].sel # NoSelect
      <4>1. outB[r] = outB[Answered] + 0 /\ outE[r] = outE[Answered] + 0
        BY <2>4, <3>1 DEF Takes
      <4>2. unansweredBytes' = unansweredBytes /\ unansweredEntries' = unansweredEntries
        BY <1>1, <1>7, <3>1 DEF ReceiveReply, statVars
      <4>3. QED
        BY <2>2, <2>5, <4>1, <4>2
    <3>2. CASE reqs[r].sel = NoSelect
      <4>1. outB[r] = outB[Answered] + written[reqs[r].n].size /\ outE[r] = outE[Answered] + 1
        BY <2>4, <3>2 DEF Takes
      <4>2. /\ unansweredBytes' = unansweredBytes - written[reqs[r].n].size
            /\ unansweredEntries' = unansweredEntries - 1
        BY <1>1, <1>7, <3>2 DEF ReceiveReply, statVars
      <4>3. QED
        <5> DEFINE b == inB[Counted] - outB[Answered]
                   e == inE[Counted] - outE[Answered]
                   z == written[reqs[r].n].size
        <5>1. b - z = inB[Counted] - (outB[Answered] + z) /\ b - z <= b
          BY <2>5, <2>6, Differences
        <5>2. e - 1 = inE[Counted] - (outE[Answered] + 1)
          BY <2>5, Differences
        <5>3. QED
          BY <2>2, <4>1, <4>2, <5>1, <5>2
    <3>3. QED
      BY <3>1, <3>2
  <2>8. TotalsInv'
    BY <1>1, <2>1, <2>2, <2>7 DEF TotalsInv
  <2>9. /\ unansweredBytes' \in Nat /\ unansweredEntries' \in Nat
        /\ unansweredEntries' <= unansweredBytes'
        /\ unansweredEntries' = 0 => unansweredBytes' = 0
    BY <1>2, <1>4, <2>2, <2>7, Loads
  <2>10. unansweredBytes \in Nat /\ unansweredEntries \in Nat /\ QuerybufLimit \in Nat
    BY CountersAreSums, Bounds
  <2>11. unansweredBytes' > QuerybufLimit => unansweredEntries' = 1
    <3>1. unansweredBytes > QuerybufLimit => unansweredEntries = 1
      BY DEF CountInv
    <3>2. QED
      BY <2>7, <2>9, <2>10, <3>1
  <2>12. ASSUME wpc \in {"enqueue", "enqueueWait", "count"}
         PROVE  unansweredBytes' = 0 \/ cur.size + unansweredBytes' <= QuerybufLimit
    <3>1. unansweredBytes = 0 \/ cur.size + unansweredBytes <= QuerybufLimit
      BY <2>12 DEF CountInv
    <3>2. cur.size \in Nat
      BY <2>12, CurrentEntry DEF Busy
    <3>3. unansweredBytes' <= unansweredBytes
      BY <2>7, <2>9, <2>10
    <3>4. QED
      BY <2>9, <2>10, <3>1, <3>2, <3>3
  <2>13. cur' = cur
    BY <1>1 DEF cur
  <2>14. QED
    BY <1>1, <1>5, <2>1, <2>8, <2>11, <2>12, <2>13 DEF CountInv
<1>8. QED
  BY <1>6, <1>7 DEF ReceiveReply, statVars

(* Every step keeps the counters. *)
LEMMA CountInvNext == TypeInv /\ PairInv /\ CountInv /\ [Next]_vars => CountInv'
<1> SUFFICES ASSUME TypeInv, PairInv, CountInv, [Next]_vars PROVE CountInv'
  OBVIOUS
<1> USE DEF chVars, waitVars, connVars, targetVars, statVars
<1>t. /\ Len(executed) \in Nat /\ Len(reqs) \in Nat /\ reqTaken \in Nat /\ Answered \in Int
  BY SeqFacts DEF TypeInv, TypeOK, Answered
<1>1. ASSUME NEW e \in Entries, Write(e) PROVE CountInv'
  BY <1>1, CountInvWrite
<1>2. CASE QuerybufWait
  <2>1. /\ UNCHANGED <<written, recv, reqs, reqTaken, rpc, executed, unansweredBytes, unansweredEntries>>
        /\ Counted' = Counted /\ Answered' = Answered /\ cur' = cur
        /\ ~ (unansweredBytes > 0 /\ cur.size + unansweredBytes > QuerybufLimit)
        /\ Busy
    BY <1>2 DEF QuerybufWait, Counted, Answered, cur, Busy
  <2>2. cur.size \in Nat /\ unansweredBytes \in Nat /\ QuerybufLimit \in Nat
    BY <2>1, CurrentEntry, CountersAreSums, Bounds
  <2>3. unansweredBytes = 0 \/ cur.size + unansweredBytes <= QuerybufLimit
    BY <2>1, <2>2
  <2>4. QED
    BY <2>1, <2>3 DEF CountInv, TotalsInv
<1>3. CASE SwitchDbRegister
  <2> DEFINE c == SwitchCmd(recv)
  <2>1. /\ UNCHANGED <<written, recv, reqTaken, rpc, executed, unansweredBytes, unansweredEntries>>
        /\ reqs' = Append(reqs, c) /\ wpc' = "querybuf" /\ Busy /\ wpc # "count"
    BY <1>3 DEF SwitchDbRegister, Busy
  <2>2. ~ c.own
    BY DEF SwitchCmd
  <2>3. /\ (\A k \in 1..Len(reqs) : Shaped(reqs[k], written))'
        /\ Answered' <= Len(executed') /\ TotalsInv'
    BY <2>1, <2>2, Registered
  <2>4. QED
    BY <2>1, <2>3 DEF CountInv
<1>4. CASE Enqueue
  <2> DEFINE c == EntryCmd(recv)
  <2>1. /\ UNCHANGED <<written, recv, reqTaken, rpc, executed, unansweredBytes, unansweredEntries>>
        /\ reqs' = Append(reqs, c) /\ wpc' = "count" /\ Busy /\ wpc # "count"
        /\ wpc \in {"enqueue", "enqueueWait"} /\ cur' = cur
    BY <1>4 DEF Enqueue, Busy, cur
  <2>2. c.own
    BY DEF EntryCmd
  <2>3. /\ (\A k \in 1..Len(reqs) : Shaped(reqs[k], written))'
        /\ Answered' <= Len(executed') /\ TotalsInv'
    BY <2>1, <2>2, Registered
  <2>4. QED
    BY <2>1, <2>3 DEF CountInv
<1>5. CASE Count
  BY <1>5, CountInvCount
<1>6. CASE ReceiveReply
  BY <1>6, CountInvReply
<1>7. CASE TakeRequest
  <2>1. Answered' = Answered /\ Counted' = Counted
    BY <1>7, <1>t DEF TakeRequest, Answered, Counted
  <2>2. QED
    BY <1>7, <1>t, <2>1, CountInvQuiet DEF TakeRequest
<1>8. ASSUME NEW rep \in Replies, TargetExecute(rep) PROVE CountInv'
  <2>1. Answered' = Answered /\ Counted' = Counted
    BY <1>8 DEF TargetExecute, Answered, Counted
  <2>2. executed \in Seq([db : Nat, reply : Replies]) /\ [db |-> targetDb, reply |-> rep] \in [db : Nat, reply : Replies]
    BY DEF TypeInv, TypeOK
  <2>3. Len(executed') = Len(executed) + 1
    BY <1>8, <2>2, AppendFacts DEF TargetExecute
  <2>4. UNCHANGED <<written, recv, wpc, reqs, unansweredBytes, unansweredEntries>>
    BY <1>8 DEF TargetExecute
  <2>5. QED
    BY <1>t, <2>1, <2>3, <2>4, CountInvQuiet
<1>9. CASE \/ TickerFlush \/ ReceiveEntry \/ DrainExit \/ SwitchDbSend \/ EnqueueFull \/ SendEntry
           \/ ReplyExit \/ CloseCh \/ CloseStep \/ Terminated \/ UNCHANGED vars
  <2>1. /\ UNCHANGED <<written, reqs, reqTaken, executed, unansweredBytes, unansweredEntries>>
        /\ rpc' = rpc \/ (rpc = "range" /\ rpc' = "done")
        /\ wpc' = wpc \/ (wpc # "count" /\ wpc' # "count")
        /\ wpc' \in {"enqueue", "enqueueWait", "count"} =>
             wpc \in {"enqueue", "enqueueWait", "count"} /\ recv' = recv
    <3>1. CASE TickerFlush \/ ReceiveEntry \/ DrainExit \/ SwitchDbSend \/ EnqueueFull \/ SendEntry
      BY <3>1 DEF TickerFlush, ReceiveEntry, DrainExit, SwitchDbSend, EnqueueFull, SendEntry
    <3>2. CASE ReplyExit \/ CloseCh \/ CloseStep
      BY <3>2 DEF ReplyExit, CloseCh, CloseStep, CloseWaitReply, CloseReturn, Exit
    <3>3. CASE Terminated \/ UNCHANGED vars
      BY <3>3 DEF Terminated, vars
    <3>4. QED
      BY <1>9, <3>1, <3>2, <3>3
  <2>2. Answered' = Answered /\ Counted' = Counted
    BY <2>1 DEF Answered, Counted
  <2>3. QED
    BY <1>t, <2>1, <2>2, CountInvQuiet
<1>10. QED
  BY <1>1, <1>2, <1>3, <1>4, <1>5, <1>6, <1>7, <1>8, <1>9
  DEF Next, WriterStep, ReplyStep, TargetStep

(***************************************************************************)
(* For every channel capacity, query buffer limit and sequence of entries  *)
(* the counters of the status page are the sizes and the number of the     *)
(* registered, unanswered entries, and only an entry that is alone with    *)
(* the target may exceed the limit of its query buffer.                    *)
(***************************************************************************)
THEOREM CountersAreExact == Spec => []CountersExact
<1>1. Init => CountInv
  <2> SUFFICES ASSUME Init PROVE CountInv
    OBVIOUS
  <2>1. /\ Len(reqs) = 0 /\ Len(executed) = 0 /\ Counted = 0 /\ Answered = 0
        /\ wpc = "select" /\ unansweredBytes = 0 /\ unansweredEntries = 0 /\ QuerybufLimit \in Nat
    BY EmptySeq, Bounds DEF Init, Counted, Answered
  <2> DEFINE z == [k \in {0} |-> 0]
  <2>2. z \in [0..0 -> Nat] /\ z[0] = 0 /\ 0..0 = {0} /\ 1..0 = {}
    OBVIOUS
  <2> HIDE DEF z
  <2>3. OwnIn(reqs, 0, 0) = {}
    BY DEF OwnIn
  <2>4. IsFiniteSet(OwnIn(reqs, 0, 0)) /\ Cardinality(OwnIn(reqs, 0, 0)) = 0
    BY <2>3, FS_EmptySet
  <2>5. Totals(reqs, written, z, z, z, z) /\ Between(Len(reqs), z, z, z, z)
        /\ Counts(reqs, z) /\ Balanced(reqs, z, z, z, z)
    BY <2>1, <2>2, <2>4 DEF Totals, Between, Counts, Balanced
  <2>6. TotalsOf(reqs, written, z, z, z, z)
    BY <2>1, <2>2, <2>5 DEF TotalsOf
  <2>7. TotalsInv
    BY <2>1, <2>2, <2>6 DEF TotalsInv
  <2>8. QED
    BY <2>1, <2>7 DEF CountInv
<1>2. TypeInv /\ PairInv /\ CountInv => CountersExact
  <2> SUFFICES ASSUME TypeInv, PairInv, CountInv PROVE CountersExact
    OBVIOUS
  <2>1. PICK inB, outB, inE, outE :
          /\ TotalsOf(reqs, written, inB, outB, inE, outE)
          /\ unansweredBytes = inB[Counted] - outB[Answered]
          /\ unansweredEntries = inE[Counted] - outE[Answered]
    BY DEF CountInv, TotalsInv
  <2>2. Answered \in 0..Len(executed) /\ Answered <= reqTaken
    BY AnsweredPlace DEF CountInv
  <2>3. /\ Len(reqs) \in Nat /\ Answered \in 0..Len(reqs) /\ Counted \in 0..Len(reqs)
        /\ Answered <= Counted
    BY <2>2, Places
  <2>4. BytesUpTo = inB
    BY <2>1, <2>3, BytesAreTotal DEF TotalsOf, Totals
  <2>5. ASSUME NoRawSelect
        PROVE  /\ unansweredBytes = BytesUpTo[Counted] - BytesUpTo[Answered]
               /\ unansweredEntries = Cardinality({k \in (Answered + 1)..Counted : reqs[k].own})
    <3>1. \A k \in 1..Len(reqs) : reqs[k].own => reqs[k].sel = NoSelect
      <4>1. \A k \in 1..Len(reqs) : reqs[k].n \in 1..Len(written) /\ Shaped(reqs[k], written)
        BY SeqFacts DEF TypeInv, TypeOK, CountInv
      <4>2. QED
        BY <2>5, <4>1 DEF NoRawSelect, Shaped
    <3>2. inB[Answered] = outB[Answered] /\ inE[Answered] = outE[Answered]
      <4>1. \A i \in 1..Answered : reqs[i].own => reqs[i].sel = NoSelect
        BY <2>3, <3>1
      <4>2. Balanced(reqs, inB, outB, inE, outE)
        BY <2>1 DEF TotalsOf
      <4>3. QED
        BY <2>3, <4>1, <4>2 DEF Balanced
    <3>3. /\ IsFiniteSet(OwnIn(reqs, Answered, Counted))
          /\ inE[Counted] = inE[Answered] + Cardinality(OwnIn(reqs, Answered, Counted))
      BY <2>1, <2>3 DEF TotalsOf, Counts
    <3>4. Cardinality(OwnIn(reqs, Answered, Counted)) \in Nat /\ inE[Answered] \in Nat
      BY <2>1, <2>3, <3>3, FS_CardinalityType DEF TotalsOf
    <3>5. unansweredEntries = Cardinality(OwnIn(reqs, Answered, Counted))
      BY <2>1, <3>2, <3>3, <3>4
    <3>6. QED
      BY <2>1, <2>4, <3>2, <3>5 DEF OwnIn
  <2>6. QED
    BY <2>5 DEF CountersExact, CountInv
<1>3. QED
  BY <1>1, <1>2, CountInvNext, TypeInvAlways, PairInvAlways, PTL DEF Spec

=============================================================================
