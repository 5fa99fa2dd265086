----------------------------- MODULE SyncReader -----------------------------
(***************************************************************************)
(* syncStandaloneReader: RedisShake as a replica of the source.  Four      *)
(* goroutines share the state: the one StartRead starts (handshake, RDB,   *)
(* then sendAOF), receiveAOF, the ticker of sendReplconfAck, and main's    *)
(* pump, which empties the channel.                                        *)
(*                                                                         *)
(* The stream passes through files: AOFWriter appends what was received,   *)
(* starts a new file when one has grown past MaxFileSize, and AOFReader    *)
(* follows behind, deleting each file it has left.  Files are named by     *)
(* offset, the first one 0.aof wherever the stream starts.  A byte of the  *)
(* stream is its offset; a command is a number of bytes.                   *)
(***************************************************************************)
EXTENDS Integers, Sequences

CONSTANTS
  StartOffset,    \* the offset in the reply to PSYNC
  Stream,         \* what the source sends after the RDB: a sequence of commands
  RdbDbs,         \* the databases of the entries of the RDB
  ReplStreamDb,   \* the RDB's aux field repl-stream-db
  SyncRdb, SyncAof,  \* options
  MaxFileSize,
  ReadSize,       \* bytes receiveAOF reads at most at a time
  ReadAhead,      \* bytes bufio takes from AOFReader at most at a time
  ChCap           \* capacity of r.ch

(* A command is a SELECT, one that sendAOF drops (PING, MULTI, EXEC, REPLCONF, *)
(* OPINFO, PUBLISH __sentinel__:hello), or data; an ARS prefix is stripped.    *)
(* end is the number of bytes up to the end of the command.                    *)
Command == [end : Nat \ {0}, kind : {"select", "skip", "data"}, db : Nat]

EndOf(i) == IF i = 0 THEN 0 ELSE Stream[i].end

ASSUME SyncAssumption ==
  /\ StartOffset \in Nat
  /\ Stream \in Seq(Command)
  /\ \A i \in 1..Len(Stream) : EndOf(i - 1) < EndOf(i)
  /\ RdbDbs \in Seq(Nat)
  /\ ReplStreamDb \in Nat
  /\ SyncRdb \in BOOLEAN /\ SyncAof \in BOOLEAN
  /\ MaxFileSize \in Nat \ {0}
  /\ ReadSize \in Nat \ {0}
  /\ ReadAhead \in Nat \ {0}
  /\ ChCap \in Nat \ {0}

VARIABLES
  pc,          \* the goroutine of StartRead
  conn,        \* the goroutine of receiveAOF
  taken,       \* bytes read from the connection and written to a file
  chunk,       \* the n of the Read being handled
  onDisk, content,            \* the files *.aof, by name
  wName, wOffset, wSize,      \* AOFWriter
  rName, rPos, rOffset,       \* AOFReader
  got,         \* the bytes AOFReader.Read has returned
  parsed,      \* commands ReadReply has returned
  recvOffset, sentOffset,     \* stat.AofReceivedOffset, stat.AofSentOffset
  DbId, rdbSent,
  ch, out,     \* r.ch and what main has taken from it
  acked,       \* the offset of the last REPLCONF ACK
  cancelled,   \* ctx is cancelled
  crashed      \* log.Panicf has ended the process

receiver == <<conn, taken, chunk, wName, wOffset, wSize>>
disk     == <<onDisk, content>>
follower == <<rName, rPos, rOffset, got>>
sender   == <<pc, parsed, DbId, rdbSent>>
stat     == <<recvOffset, sentOffset>>
chan     == <<ch, out>>
outside  == <<cancelled, crashed>>
vars     == <<receiver, disk, follower, sender, stat, chan, acked, outside>>

Bytes == EndOf(Len(Stream))
Names == 0..(StartOffset + Bytes)

Init ==
  /\ pc = "psync" /\ conn = "off"
  /\ taken = 0 /\ chunk = 0
  /\ onDisk = {} /\ content = [f \in Names |-> <<>>]
  /\ wName = 0 /\ wOffset = 0 /\ wSize = 0
  /\ rName = 0 /\ rPos = 0 /\ rOffset = 0 /\ got = <<>>
  /\ parsed = 0 /\ DbId = 0 /\ rdbSent = 0
  /\ recvOffset = 0 /\ sentOffset = 0 /\ acked = 0
  /\ ch = <<>> /\ out = <<>>
  /\ cancelled = FALSE /\ crashed = FALSE

-----------------------------------------------------------------------------
(* Handshake and RDB. *)

(* sendPSync (sendSync): +FULLRESYNC <id> <offset>. *)
SendPSync ==
  /\ pc = "psync"
  /\ pc' = "rdb"
  /\ recvOffset' = StartOffset
  /\ UNCHANGED <<receiver, disk, follower, parsed, DbId, rdbSent, sentOffset, chan, acked, outside>>

(* The waits before the reply look at ctx: close(r.ch) and Goexit. *)
PSyncCancelled ==
  /\ pc = "psync" /\ cancelled
  /\ pc' = "closed"
  /\ UNCHANGED <<receiver, disk, follower, parsed, DbId, rdbSent, stat, chan, acked, outside>>

AfterRdb == IF SyncAof THEN "openAof" ELSE "close"

(* receiveRDB has returned: the receiver and the ticker start, or the connection is closed. *)
ReceiveRDB ==
  /\ pc = "rdb"
  /\ pc' = IF SyncRdb THEN "sendRdb" ELSE AfterRdb
  /\ conn' = IF SyncAof THEN "open" ELSE "off"
  /\ UNCHANGED <<taken, chunk, wName, wOffset, wSize, disk, follower, parsed, DbId,
                 rdbSent, stat, chan, acked, outside>>

(* ParseRDB puts the next entry into the channel. *)
SendRdbEntry ==
  /\ pc = "sendRdb" /\ rdbSent < Len(RdbDbs)
  /\ Len(ch) < ChCap
  /\ rdbSent' = rdbSent + 1
  /\ ch' = Append(ch, [from |-> "rdb", n |-> rdbSent + 1, db |-> RdbDbs[rdbSent + 1]])
  /\ UNCHANGED <<receiver, disk, follower, pc, parsed, DbId, stat, out, acked, outside>>

(* Fault: the stream starts in database 0. *)
RdbSentDefaultDb ==
  /\ pc = "sendRdb" /\ (rdbSent = Len(RdbDbs) \/ cancelled)
  /\ pc' = AfterRdb
  /\ UNCHANGED <<receiver, disk, follower, parsed, DbId, rdbSent, stat, chan, acked, outside>>

(* ParseRDB returns at the end of the file, or early when ctx is cancelled. *)
RdbSent ==
  /\ pc = "sendRdb" /\ (rdbSent = Len(RdbDbs) \/ cancelled)
  /\ pc' = AfterRdb
  /\ DbId' = ReplStreamDb
  /\ UNCHANGED <<receiver, disk, follower, parsed, rdbSent, stat, chan, acked, outside>>

-----------------------------------------------------------------------------
(* receiveAOF and AOFWriter. *)

(* NewAOFWriter: the name is made from w.offset, still 0. *)
OpenFirst ==
  /\ conn = "open"
  /\ onDisk' = onDisk \cup {wOffset}
  /\ wName' = wOffset
  /\ wOffset' = recvOffset
  /\ conn' = "read"
  /\ UNCHANGED <<taken, chunk, wSize, content, follower, sender, stat, chan, acked, outside>>

(* Read returns n bytes and Write appends them to the file. *)
ReceiveAOF(n) ==
  /\ conn = "read"
  /\ n \in 1..ReadSize /\ taken + n <= Bytes
  /\ content' = [content EXCEPT ![wName] = @ \o [i \in 1..n |-> StartOffset + taken + i]]
  /\ taken' = taken + n
  /\ chunk' = n
  /\ wOffset' = wOffset + n
  /\ wSize' = wSize + n
  /\ conn' = "written"
  /\ UNCHANGED <<wName, onDisk, follower, sender, stat, chan, acked, outside>>

(* Fault: the next file is named after the bytes of this one. *)
RotateBySize ==
  /\ conn = "written"
  /\ conn' = "count"
  /\ \/ wSize <= MaxFileSize /\ UNCHANGED <<wName, wSize, onDisk>>
     \/ /\ wSize > MaxFileSize
        /\ wName' = wSize
        /\ wSize' = 0
        /\ onDisk' = onDisk \cup {wSize}
  /\ UNCHANGED <<taken, chunk, wOffset, content, follower, sender, stat, chan, acked, outside>>

(* The end of Write: a file that has grown past the limit is closed, the next *)
(* one gets the current offset for a name.                                     *)
Rotate ==
  /\ conn = "written"
  /\ conn' = "count"
  /\ \/ wSize <= MaxFileSize /\ UNCHANGED <<wName, wSize, onDisk>>
     \/ /\ wSize > MaxFileSize
        /\ wName' = wOffset
        /\ wSize' = 0
        /\ onDisk' = onDisk \cup {wOffset}
  /\ UNCHANGED <<taken, chunk, wOffset, content, follower, sender, stat, chan, acked, outside>>

(* Fault: the length of the buffer is added. *)
CountWholeBuffer ==
  /\ conn = "count"
  /\ recvOffset' = recvOffset + ReadSize
  /\ chunk' = 0
  /\ conn' = "read"
  /\ UNCHANGED <<taken, wName, wOffset, wSize, disk, follower, sender, sentOffset, chan, acked, outside>>

(* r.stat.AofReceivedOffset += n. *)
CountReceived ==
  /\ conn = "count"
  /\ recvOffset' = recvOffset + chunk
  /\ chunk' = 0
  /\ conn' = "read"
  /\ UNCHANGED <<taken, wName, wOffset, wSize, disk, follower, sender, sentOffset, chan, acked, outside>>

ReceiverCancelled ==
  /\ conn = "read" /\ cancelled
  /\ conn' = "done"
  /\ UNCHANGED <<taken, chunk, wName, wOffset, wSize, disk, follower, sender, stat, chan, acked, outside>>

(* sendReplconfAck, every 100 ms. *)
SendReplconfAck ==
  /\ conn # "off"
  /\ recvOffset # 0 /\ acked # recvOffset
  /\ acked' = recvOffset
  /\ UNCHANGED <<receiver, disk, follower, sender, stat, chan, outside>>

-----------------------------------------------------------------------------
(* sendAOF and AOFReader. *)

(* NewAOFReader: again the name of the first file is made from an offset still 0. *)
OpenAOF ==
  /\ pc = "openAof"
  /\ rOffset \in onDisk
  /\ rName' = rOffset
  /\ rPos' = 0
  /\ rOffset' = StartOffset
  /\ pc' = "loop"
  /\ UNCHANGED <<receiver, disk, got, parsed, DbId, rdbSent, stat, chan, acked, outside>>

(* The file has not appeared within 3 s. *)
OpenTimesOut ==
  /\ pc = "openAof"
  /\ rOffset \notin onDisk
  /\ crashed' = TRUE
  /\ UNCHANGED <<receiver, disk, follower, sender, stat, chan, acked, cancelled>>

(* The head of the loop of sendAOF. *)
Loop ==
  /\ pc = "loop"
  /\ pc' = IF cancelled THEN "close" ELSE "reading"
  /\ UNCHANGED <<receiver, disk, follower, parsed, DbId, rdbSent, stat, chan, acked, outside>>

(* bufio holds the whole of the next command. *)
Complete == parsed < Len(Stream) /\ EndOf(parsed + 1) <= Len(got)

(* AOFReader.Read returns n bytes. *)
ReadAOF(n) ==
  /\ pc = "reading" /\ ~Complete
  /\ n \in 1..ReadAhead /\ rPos + n <= Len(content[rName])
  /\ got' = got \o SubSeq(content[rName], rPos + 1, rPos + n)
  /\ rPos' = rPos + n
  /\ rOffset' = rOffset + n
  /\ UNCHANGED <<receiver, disk, rName, sender, stat, chan, acked, outside>>

(* The file has no more bytes, for now. *)
ReadEOF ==
  /\ pc = "reading" /\ ~Complete
  /\ rPos = Len(content[rName])
  /\ pc' = "eof"
  /\ UNCHANGED <<receiver, disk, follower, parsed, DbId, rdbSent, stat, chan, acked, outside>>

(* Fault: the next file is never opened. *)
ReadSameFile ==
  /\ pc = "eof"
  /\ pc' = "reading"
  /\ UNCHANGED <<disk, receiver, follower, parsed, DbId, rdbSent, stat, chan, acked, outside>>

(* The file named by the reader's offset exists: the old one is removed. *)
readNextFile ==
  /\ pc = "eof"
  /\ pc' = "reading"
  /\ \/ /\ rOffset \in onDisk /\ rName # rOffset
        /\ onDisk' = onDisk \ {rName}
        /\ content' = [content EXCEPT ![rName] = <<>>]
        /\ rName' = rOffset
        /\ rPos' = 0
     \/ /\ ~(rOffset \in onDisk /\ rName # rOffset)
        /\ UNCHANGED <<disk, rName, rPos>>
  /\ UNCHANGED <<receiver, rOffset, got, parsed, DbId, rdbSent, stat, chan, acked, outside>>

(* Fault: the wait for more bytes does not look at ctx. *)
ReadNotCancelled == FALSE

(* Read returns ctx.Err() and sendAOF returns. *)
ReadCancelled ==
  /\ pc = "eof" /\ cancelled
  /\ pc' = "close"
  /\ UNCHANGED <<receiver, disk, follower, parsed, DbId, rdbSent, stat, chan, acked, outside>>

Cmd == Stream[parsed + 1]

(* ReadReply returns a command: its offset, SELECT and the commands not sent on. *)
ParseCommand ==
  /\ pc = "reading" /\ Complete
  /\ parsed' = parsed + 1
  /\ sentOffset' = rOffset
  /\ DbId' = IF Cmd.kind = "select" THEN Cmd.db ELSE DbId
  /\ pc' = IF Cmd.kind = "data" THEN "push" ELSE "loop"
  /\ UNCHANGED <<receiver, disk, follower, rdbSent, recvOffset, chan, acked, outside>>

(* r.ch <- e. *)
PushEntry ==
  /\ pc = "push"
  /\ Len(ch) < ChCap
  /\ ch' = Append(ch, [from |-> "aof", n |-> parsed, db |-> DbId])
  /\ pc' = "loop"
  /\ UNCHANGED <<receiver, disk, follower, parsed, DbId, rdbSent, stat, out, acked, outside>>

CloseChannel ==
  /\ pc = "close"
  /\ pc' = "closed"
  /\ UNCHANGED <<receiver, disk, follower, parsed, DbId, rdbSent, stat, chan, acked, outside>>

-----------------------------------------------------------------------------
(* The rest of the process. *)

(* main takes an entry from the channel. *)
Pump ==
  /\ ch # <<>>
  /\ out' = Append(out, Head(ch))
  /\ ch' = Tail(ch)
  /\ UNCHANGED <<receiver, disk, follower, sender, stat, acked, outside>>

(* waitShutdown: a signal cancels ctx. *)
Cancel ==
  /\ ~cancelled /\ pc # "closed"
  /\ cancelled' = TRUE
  /\ UNCHANGED <<receiver, disk, follower, sender, stat, chan, acked, crashed>>

(* The connection to the source breaks while a goroutine reads from it. *)
ConnectionLost ==
  /\ pc \in {"psync", "rdb"} \/ conn = "read"
  /\ crashed' = TRUE
  /\ UNCHANGED <<receiver, disk, follower, sender, stat, chan, acked, cancelled>>

ReceiverStep == OpenFirst \/ Rotate \/ CountReceived \/ ReceiverCancelled

SenderStep ==
  \/ SendRdbEntry \/ RdbSent \/ OpenAOF \/ OpenTimesOut \/ Loop \/ (\E n \in 1..ReadAhead : ReadAOF(n))
  \/ ReadEOF \/ readNextFile \/ ReadCancelled \/ ParseCommand \/ PushEntry \/ CloseChannel

Next ==
  /\ ~crashed
  /\ \/ SendPSync \/ PSyncCancelled \/ ReceiveRDB
     \/ ReceiverStep \/ (\E n \in 1..ReadSize : ReceiveAOF(n)) \/ SendReplconfAck
     \/ SenderStep \/ Pump \/ Cancel \/ ConnectionLost

Spec == Init /\ [][Next]_vars

(* Goroutines are scheduled; ReadCancelled is a case of a select whose other case, *)
(* the timer, is ready again and again.  The source owes nothing: the reader may   *)
(* wait for it for ever in sendPSync, receiveRDB and receiveAOF.                   *)
Fairness ==
  /\ WF_vars(~crashed /\ ReceiverStep)
  /\ WF_vars(~crashed /\ SenderStep)
  /\ SF_vars(~crashed /\ ReadCancelled)
  /\ WF_vars(~crashed /\ Pump)

FairSpec == Spec /\ Fairness

-----------------------------------------------------------------------------
Entry == [from : {"rdb", "aof"}, n : Nat, db : Nat]

(* Every variable stays within its type. *)
TypeOK ==
  /\ pc \in {"psync", "rdb", "sendRdb", "openAof", "loop", "reading", "eof", "push", "close", "closed"}
  /\ conn \in {"off", "open", "read", "written", "count", "done"}
  /\ taken \in 0..Bytes /\ chunk \in Nat
  /\ onDisk \subseteq Names
  /\ content \in [Names -> Seq(Nat)]
  /\ wName \in Names /\ wOffset \in Names /\ wSize \in Nat
  /\ rName \in Names /\ rPos \in Nat /\ rOffset \in Names
  /\ got \in Seq(Nat)
  /\ parsed \in 0..Len(Stream)
  /\ recvOffset \in Names /\ sentOffset \in Names /\ acked \in Names
  /\ DbId \in Nat
  /\ rdbSent \in 0..Len(RdbDbs)
  /\ ch \in Seq(Entry) /\ out \in Seq(Entry)
  /\ cancelled \in BOOLEAN /\ crashed \in BOOLEAN

(***************************************************************************)
(* What AOFReader hands to the parser is the stream, byte for byte: no     *)
(* byte is lost, repeated or swapped at a change of files, however the     *)
(* writer, its rotation and the reader interleave.                         *)
(***************************************************************************)
BytesInOrder == \A i \in 1..Len(got) : got[i] = StartOffset + i

(***************************************************************************)
(* A byte that was received and not yet read is in a file that exists:     *)
(* readNextFile removes no file with unread bytes, the one AOFWriter still *)
(* appends to included.                                                    *)
(***************************************************************************)
UnreadIsOnDisk ==
  \A b \in (StartOffset + Len(got) + 1)..(StartOffset + taken) :
    \E f \in onDisk : \E i \in 1..Len(content[f]) : content[f][i] = b

(***************************************************************************)
(* The source is told only of bytes that are in a file (REPLCONF ACK lets  *)
(* it forget them).                                                        *)
(***************************************************************************)
AckedIsOnDisk == acked <= StartOffset + taken

(* The source executed command i in db: the database of the last SELECT up to it, or the *)
(* one the stream starts in.                                                             *)
ExecutedIn(i, db) ==
  \/ \E j \in 1..i : /\ Stream[j].kind = "select" /\ Stream[j].db = db
                     /\ \A k \in (j + 1)..i : Stream[k].kind # "select"
  \/ /\ \A j \in 1..i : Stream[j].kind # "select"
     /\ db = IF SyncRdb THEN ReplStreamDb ELSE 0

Sent == out \o ch
Handled == IF pc = "push" THEN parsed - 1 ELSE parsed     \* commands sent on, or dropped

(***************************************************************************)
(* The entries main receives are those of the RDB and then those of the    *)
(* stream, each once, in order, and in the database the source used.       *)
(***************************************************************************)
EntriesExact ==
  /\ rdbSent <= Len(Sent)
  /\ \A i \in 1..rdbSent : Sent[i] = [from |-> "rdb", n |-> i, db |-> RdbDbs[i]]
  /\ \A i \in (rdbSent + 1)..Len(Sent) :
       /\ Sent[i].from = "aof" /\ Sent[i].n \in 1..Handled
       /\ Stream[Sent[i].n].kind = "data" /\ ExecutedIn(Sent[i].n, Sent[i].db)
       /\ \A j \in (rdbSent + 1)..(i - 1) : Sent[j].n < Sent[i].n
  /\ \A c \in 1..Handled :
       Stream[c].kind = "data" => \E i \in (rdbSent + 1)..Len(Sent) : Sent[i].n = c

(* Fault: an offset of 0 counts as caught up. *)
StatusConsistentAtZero == recvOffset = sentOffset /\ ch = <<>>

StatusConsistent == recvOffset # 0 /\ recvOffset = sentOffset /\ ch = <<>>

(***************************************************************************)
(* "Wait for is_consistent() - RDB sync done": the reader does not report  *)
(* consistency before every entry of the RDB has left the channel, also    *)
(* when no byte of the stream has arrived yet.                             *)
(***************************************************************************)
ConsistentAfterRdb ==
  StatusConsistent /\ SyncRdb /\ ~cancelled =>
    \A k \in 1..Len(RdbDbs) : \E i \in 1..Len(out) : out[i].from = "rdb" /\ out[i].n = k

(***************************************************************************)
(* A command whose bytes have arrived reaches main, although the follower  *)
(* must find its way through the files, unless the process is told to stop *)
(* or dies.                                                                *)
(***************************************************************************)
ReceivedIsDelivered ==
  \A k \in 1..Len(Stream) :
    (Stream[k].kind = "data" /\ EndOf(k) <= taken)
      ~> (cancelled \/ crashed \/ \E i \in 1..Len(out) : out[i].from = "aof" /\ out[i].n = k)

(***************************************************************************)
(* A cancelled reader closes its channel, which is what main waits for,    *)
(* wherever it is: at a full channel, between two files, at the end of the *)
(* last one.  Only while it waits for the source to answer PSYNC and to    *)
(* send the RDB does it not look at ctx.                                   *)
(***************************************************************************)
CancelCloses == (cancelled /\ pc \notin {"psync", "rdb"}) ~> (pc = "closed" \/ crashed)

=============================================================================
