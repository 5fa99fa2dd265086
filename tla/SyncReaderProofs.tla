-------------------------- MODULE SyncReaderProofs --------------------------
(***************************************************************************)
(* The files between receiveAOF and sendAOF lose, repeat and reorder       *)
(* nothing: for every stream, start offset, file size and size of reads.   *)
(***************************************************************************)
EXTENDS SyncReader, SequenceTheorems, TLAPS

(* The offset before the first byte of a file: its name, but for 0.aof. *)
Base(f) == IF f = 0 THEN StartOffset ELSE f

End(f) == Base(f) + Len(content[f])

(* The files: consecutive bytes, in files that do not overlap. *)
FileInv ==
  /\ \A f \in onDisk : \A i \in 1..Len(content[f]) : content[f][i] = Base(f) + i
  /\ \A f \in Names \ onDisk : content[f] = <<>>
  /\ \A f, g \in onDisk : f < g => End(f) <= g

(* AOFWriter appends to the last file, at the offset the receiver counts. *)
WriterInv ==
  /\ conn \in {"off", "open"} =>
       onDisk = {} /\ taken = 0 /\ wOffset = 0 /\ wSize = 0
  /\ conn \notin {"off", "open"} =>
       /\ wName \in onDisk
       /\ \A f \in onDisk : f <= wName
       /\ wSize = Len(content[wName])
       /\ wOffset = End(wName)
       /\ wOffset = StartOffset + taken

(* AofReceivedOffset lags by the bytes of the Read being handled. *)
CountInv ==
  /\ pc = "rdb" => conn = "off" /\ recvOffset = StartOffset
  /\ pc = "psync" => conn = "off"
  /\ conn = "open" => recvOffset = StartOffset
  /\ conn \in {"read", "done"} => recvOffset = wOffset
  /\ conn \in {"written", "count"} => recvOffset + chunk = wOffset
  /\ acked <= StartOffset + taken

NotOpened == rOffset = 0 /\ got = <<>>

(* AOFReader stands in an existing file, where its offset says it does. *)
Following ==
  /\ rName \in onDisk
  /\ rPos <= Len(content[rName])
  /\ rOffset = Base(rName) + rPos
  /\ Len(got) = rOffset - StartOffset
  /\ conn \notin {"off", "open"}

ReaderInv ==
  /\ NotOpened \/ Following
  /\ pc \in {"loop", "reading", "eof", "push"} => Following
  /\ pc \in {"psync", "rdb", "sendRdb", "openAof"} => NotOpened
  /\ \A b \in (StartOffset + Len(got) + 1)..(StartOffset + taken) :
       \E f \in onDisk : Base(f) < b /\ b <= End(f)

IInv == TypeOK /\ FileInv /\ WriterInv /\ CountInv /\ ReaderInv /\ BytesInOrder

(* The part of it that is not about types. *)
DataInv == FileInv /\ WriterInv /\ CountInv /\ ReaderInv /\ BytesInOrder

-----------------------------------------------------------------------------
(* What a file is after the next m bytes from offset a are appended to it. *)
LEMMA Appended ==
  ASSUME NEW s \in Seq(Nat), NEW m \in Nat, NEW a \in Nat
  PROVE  LET t == s \o [i \in 1..m |-> a + i]
         IN  /\ t \in Seq(Nat) /\ Len(t) = Len(s) + m
             /\ \A i \in 1..Len(t) : t[i] = IF i <= Len(s) THEN s[i] ELSE a + (i - Len(s))
<1> DEFINE new == [i \in 1..m |-> a + i]
<1>1. new \in Seq(Nat) /\ Len(new) = m /\ \A i \in 1..m : new[i] = a + i
  OBVIOUS
<1> HIDE DEF new
<1>2. /\ s \o new \in Seq(Nat)
      /\ Len(s \o new) = Len(s) + Len(new)
      /\ \A i \in 1..Len(s) + Len(new) : (s \o new)[i] = IF i <= Len(s) THEN s[i] ELSE new[i - Len(s)]
  BY <1>1, ConcatProperties, Zenon
<1>3. Len(s) \in Nat
  OBVIOUS
<1>4. \A i \in 1..Len(s) + m : (s \o new)[i] = IF i <= Len(s) THEN s[i] ELSE a + (i - Len(s))
  BY <1>1, <1>2, <1>3
<1>5. QED
  BY <1>1, <1>2, <1>4 DEF new

(* What a sequence is after part of another is appended to it. *)
LEMMA Sliced ==
  ASSUME NEW s \in Seq(Nat), NEW g \in Seq(Nat), NEW p \in Nat, NEW m \in Nat, p + m <= Len(s)
  PROVE  LET t == g \o SubSeq(s, p + 1, p + m)
         IN  /\ t \in Seq(Nat) /\ Len(t) = Len(g) + m
             /\ \A i \in 1..Len(t) : t[i] = IF i <= Len(g) THEN g[i] ELSE s[p + (i - Len(g))]
<1> DEFINE new == SubSeq(s, p + 1, p + m)
<1>1. new \in Seq(Nat) /\ Len(new) = m /\ \A i \in 1..m : new[i] = s[p + i]
  <2>1. \A i \in (p + 1)..(p + m) : s[i] \in Nat
    OBVIOUS
  <2>2. /\ new \in Seq(Nat)
        /\ Len(new) = IF p + 1 <= p + m THEN (p + m) - (p + 1) + 1 ELSE 0
        /\ \A i \in 1..((p + m) - (p + 1) + 1) : new[i] = s[(p + 1) + i - 1]
    BY <2>1, SubSeqProperties
  <2>3. QED
    BY <2>2
<1> HIDE DEF new
<1>2. /\ g \o new \in Seq(Nat)
      /\ Len(g \o new) = Len(g) + Len(new)
      /\ \A i \in 1..Len(g) + Len(new) : (g \o new)[i] = IF i <= Len(g) THEN g[i] ELSE new[i - Len(g)]
  BY <1>1, ConcatProperties, Zenon
<1>3. Len(g) \in Nat
  OBVIOUS
<1>4. \A i \in 1..Len(g) + m : (g \o new)[i] = IF i <= Len(g) THEN g[i] ELSE s[p + (i - Len(g))]
  <2>1. ASSUME NEW i \in 1..Len(g) + m, ~(i <= Len(g))
        PROVE  (g \o new)[i] = s[p + (i - Len(g))]
    <3>1. (g \o new)[i] = new[i - Len(g)] /\ i - Len(g) \in 1..m
      BY <1>1, <1>2, <1>3, <2>1
    <3>2. QED
      BY <1>1, <3>1
  <2>2. ASSUME NEW i \in 1..Len(g) + m, i <= Len(g) PROVE (g \o new)[i] = g[i]
    BY <1>1, <1>2, <1>3, <2>2
  <2>3. QED
    BY <2>1, <2>2
<1>5. QED
  BY <1>1, <1>2, <1>4 DEF new

(* The stream has a natural number of bytes, and files may be named by its offsets. *)
LEMMA BytesNat == Bytes \in Nat /\ 0 \in Names /\ StartOffset \in Names
<1>1. Len(Stream) \in Nat /\ (Len(Stream) # 0 => Stream[Len(Stream)] \in Command)
  BY SyncAssumption
<1>2. Bytes \in Nat
  BY <1>1 DEF Bytes, EndOf, Command
<1>3. QED
  BY <1>2, SyncAssumption DEF Names

(* Names, sizes and ends of files are natural numbers. *)
LEMMA Numbers ==
  ASSUME TypeOK
  PROVE  /\ Names \subseteq Nat
         /\ \A f \in Names : /\ content[f] \in Seq(Nat) /\ Len(content[f]) \in Nat
                           /\ Base(f) \in Nat /\ f <= Base(f)
                           /\ End(f) \in Nat /\ End(f) = Base(f) + Len(content[f])
<1>1. Names \subseteq Nat
  BY SyncAssumption, BytesNat DEF Names
<1>2. content \in [Names -> Seq(Nat)]
  BY DEF TypeOK
<1>3. ASSUME NEW f \in Names
      PROVE  /\ content[f] \in Seq(Nat) /\ Len(content[f]) \in Nat
             /\ Base(f) \in Nat /\ f <= Base(f)
             /\ End(f) \in Nat /\ End(f) = Base(f) + Len(content[f])
  <2>1. content[f] \in Seq(Nat) /\ f \in Nat
    BY <1>1, <1>2
  <2>2. Len(content[f]) \in Nat
    BY <2>1
  <2>3. Base(f) \in Nat /\ f <= Base(f)
    BY <2>1, SyncAssumption DEF Base
  <2>4. QED
    BY <2>1, <2>2, <2>3 DEF End
<1>4. QED
  BY <1>1, <1>3

(* The initial state satisfies the invariant. *)
LEMMA InvInit == Init => IInv
<1> SUFFICES ASSUME Init PROVE IInv
  OBVIOUS
<1>1. TypeOK
  <2>1. /\ 0 \in 0..Bytes /\ 0 \in 0..Len(Stream) /\ 0 \in 0..Len(RdbDbs)
    BY SyncAssumption, BytesNat
  <2>2. content \in [Names -> Seq(Nat)]
    BY DEF Init
  <2> HIDE DEF Names, Entry
  <2>3. QED
    BY <2>1, <2>2, BytesNat DEF Init, TypeOK
<1>2. FileInv /\ WriterInv /\ CountInv
  BY SyncAssumption DEF Init, FileInv, WriterInv, CountInv
<1>3. ReaderInv /\ BytesInOrder
  BY SyncAssumption DEF Init, ReaderInv, NotOpened, BytesInOrder
<1>4. QED
  BY <1>1, <1>2, <1>3 DEF IInv

(* Every action keeps the types; the offsets by WriterInv and CountInv. *)
LEMMA TypeStep == IInv /\ [Next]_vars => TypeOK'
<1> SUFFICES ASSUME IInv, [Next]_vars PROVE TypeOK'
  OBVIOUS
<1> USE SyncAssumption, BytesNat DEF IInv, TypeOK, Names, Entry
<1>1. ASSUME SendPSync PROVE TypeOK'
  BY <1>1 DEF SendPSync, receiver, disk, follower, chan, outside
<1>2. ASSUME PSyncCancelled PROVE TypeOK'
  BY <1>2 DEF PSyncCancelled, receiver, disk, follower, stat, chan, outside
<1>3. ASSUME ReceiveRDB PROVE TypeOK'
  BY <1>3 DEF ReceiveRDB, AfterRdb, disk, follower, stat, chan, outside
<1>4. ASSUME SendRdbEntry PROVE TypeOK'
  <2> HIDE DEF Entry
  <2>1. RdbDbs[rdbSent + 1] \in Nat /\ rdbSent' \in 0..Len(RdbDbs)
    <3>1. rdbSent \in Nat /\ rdbSent < Len(RdbDbs) /\ rdbSent' = rdbSent + 1
      BY <1>4 DEF SendRdbEntry
    <3>2. RdbDbs \in Seq(Nat)
      BY SyncAssumption
    <3> HIDE DEF TypeOK, IInv
    <3>3. QED
      BY <3>1, <3>2
  <2>2. ch' \in Seq(Entry)
    <3>1. [from |-> "rdb", n |-> rdbSent + 1, db |-> RdbDbs[rdbSent + 1]] \in Entry
      BY <2>1 DEF Entry
    <3>2. QED
      BY <1>4, <3>1 DEF SendRdbEntry
  <2>3. QED
    BY <1>4, <2>1, <2>2 DEF SendRdbEntry, receiver, disk, follower, stat, outside
<1>5. ASSUME RdbSent PROVE TypeOK'
  BY <1>5 DEF RdbSent, AfterRdb, receiver, disk, follower, stat, chan, outside
<1>6. ASSUME OpenFirst PROVE TypeOK'
  BY <1>6 DEF OpenFirst, follower, sender, stat, chan, outside
<1>7. ASSUME NEW n \in Nat, ReceiveAOF(n) PROVE TypeOK'
  <2> DEFINE new == content[wName] \o [i \in 1..n |-> StartOffset + taken + i]
  <2>1. new \in Seq(Nat)
    <3>1. content[wName] \in Seq(Nat) /\ StartOffset + taken \in Nat
      OBVIOUS
    <3> HIDE DEF TypeOK
    <3>2. QED
      BY <3>1, Appended
  <2>2. wOffset' \in Names /\ taken' \in 0..Bytes /\ wSize' \in Nat /\ chunk' \in Nat
    BY <1>7 DEF ReceiveAOF, WriterInv
  <2>3. content' = [content EXCEPT ![wName] = new]
    BY <1>7 DEF ReceiveAOF
  <2> HIDE DEF new
  <2>4. content' \in [Names -> Seq(Nat)]
    BY <2>1, <2>3
  <2>5. QED
    BY <1>7, <2>2, <2>4 DEF ReceiveAOF, follower, sender, stat, chan, outside
<1>8. ASSUME Rotate PROVE TypeOK'
  <2> HIDE DEF Names
  <2>1. /\ wName' = wName \/ wName' = wOffset
        /\ wSize' = wSize \/ wSize' = 0
        /\ onDisk' = onDisk \/ onDisk' = onDisk \cup {wOffset}
    BY <1>8 DEF Rotate
  <2>t. wName \in Names /\ wOffset \in Names /\ onDisk \subseteq Names /\ wSize \in Nat
    OBVIOUS
  <2>2. wName' \in Names /\ wSize' \in Nat /\ onDisk' \subseteq Names
    <3>1. onDisk' \subseteq Names
      BY <2>1, <2>t, Zenon
    <3>2. wName' \in Names
      BY <2>1, <2>t, Zenon
    <3>3. wSize' \in Nat
      <4>1. wSize' = wSize \/ wSize' = 0
        BY <2>1, Zenon
      <4>2. wSize \in Nat
        BY <2>t, Zenon
      <4> HIDE DEF TypeOK, IInv
      <4>3. QED
        BY <4>1, <4>2
    <3>4. QED
      BY <3>1, <3>2, <3>3
  <2>3. QED
    BY <1>8, <2>2 DEF Rotate, follower, sender, stat, chan, outside
<1>9. ASSUME CountReceived PROVE TypeOK'
  <2>1. recvOffset' \in Names
    BY <1>9 DEF CountReceived, CountInv
  <2>2. QED
    BY <1>9, <2>1 DEF CountReceived, disk, follower, sender, chan, outside
<1>10. ASSUME ReceiverCancelled PROVE TypeOK'
  BY <1>10 DEF ReceiverCancelled, disk, follower, sender, stat, chan, outside
<1>11. ASSUME SendReplconfAck PROVE TypeOK'
  BY <1>11 DEF SendReplconfAck, receiver, disk, follower, sender, stat, chan, outside
<1>12. ASSUME OpenAOF PROVE TypeOK'
  BY <1>12 DEF OpenAOF, receiver, disk, stat, chan, outside
<1>13. ASSUME OpenTimesOut PROVE TypeOK'
  BY <1>13 DEF OpenTimesOut, receiver, disk, follower, sender, stat, chan
<1>14. ASSUME Loop PROVE TypeOK'
  BY <1>14 DEF Loop, receiver, disk, follower, stat, chan, outside
<1>15. ASSUME NEW n \in Nat, ReadAOF(n) PROVE TypeOK'
  <2> DEFINE new == got \o SubSeq(content[rName], rPos + 1, rPos + n)
  <2>1. new \in Seq(Nat)
    <3>1. content[rName] \in Seq(Nat) /\ rPos + n <= Len(content[rName])
      BY <1>15 DEF ReadAOF
    <3>2. got \in Seq(Nat) /\ rPos \in Nat
      OBVIOUS
    <3> HIDE DEF TypeOK
    <3>3. QED
      BY <3>1, <3>2, Sliced
  <2>2. rOffset' \in Names /\ rPos' \in Nat
    <3>1. /\ rName \in onDisk /\ rOffset = Base(rName) + rPos /\ rPos + n <= Len(content[rName])
          /\ rPos' = rPos + n /\ rOffset' = rOffset + n
      BY <1>15 DEF ReadAOF, ReaderInv, Following
    <3>2. End(rName) <= StartOffset + taken
      <4>1. conn \notin {"off", "open"} /\ wName \in onDisk
        BY <1>15 DEF ReadAOF, ReaderInv, Following, WriterInv
      <4>2. rName = wName \/ rName < wName
        BY <3>1, <4>1 DEF WriterInv
      <4>3. wName <= End(wName)
        BY <4>1 DEF End, Base
      <4>4. End(wName) = StartOffset + taken
        BY <4>1 DEF WriterInv
      <4>5. rName < wName => End(rName) <= wName
        BY <3>1, <4>1 DEF FileInv
      <4>6. wName \in Names /\ rName \in Names
        OBVIOUS
      <4>7. End(rName) \in Nat /\ End(wName) \in Nat /\ wName \in Nat /\ rName \in Nat
        BY <4>6, Numbers
      <4>8. QED
        BY <4>2, <4>3, <4>4, <4>5, <4>7
    <3>3. QED
      BY <3>1, <3>2 DEF End, Base
  <2>3. got' \in Seq(Nat)
    BY <1>15, <2>1 DEF ReadAOF
  <2>4. QED
    BY <1>15, <2>2, <2>3 DEF ReadAOF, receiver, disk, sender, stat, chan, outside
<1>16. ASSUME ReadEOF PROVE TypeOK'
  BY <1>16 DEF ReadEOF, receiver, disk, follower, stat, chan, outside
<1>17. ASSUME readNextFile PROVE TypeOK'
  <2> HIDE DEF Names
  <2>0. /\ rName' = rName \/ rName' = rOffset
        /\ rPos' = rPos \/ rPos' = 0
        /\ onDisk' = onDisk \/ onDisk' = onDisk \ {rName}
    BY <1>17 DEF readNextFile, disk
  <2>t. rName \in Names /\ rOffset \in Names /\ onDisk \subseteq Names /\ rPos \in Nat
    OBVIOUS
  <2>1. onDisk' \subseteq Names /\ rName' \in Names /\ rPos' \in Nat
    <3>1. onDisk' \subseteq Names
      BY <2>0, <2>t, Zenon
    <3>2. rName' \in Names
      BY <2>0, <2>t, Zenon
    <3>3. rPos' \in Nat
      <4>1. rPos' = rPos \/ rPos' = 0
        BY <2>0, Zenon
      <4>2. rPos \in Nat
        BY <2>t, Zenon
      <4> HIDE DEF TypeOK, IInv
      <4>3. QED
        BY <4>1, <4>2
    <3>4. QED
      BY <3>1, <3>2, <3>3
  <2>2. content' \in [Names -> Seq(Nat)]
    <3>1. content' = [content EXCEPT ![rName] = <<>>] \/ content' = content
      BY <1>17 DEF readNextFile, disk
    <3>2. <<>> \in Seq(Nat)
      OBVIOUS
    <3>3. QED
      BY <3>1, <3>2
  <2>3. QED
    BY <1>17, <2>1, <2>2 DEF readNextFile, receiver, stat, chan, outside
<1>18. ASSUME ReadCancelled PROVE TypeOK'
  BY <1>18 DEF ReadCancelled, receiver, disk, follower, stat, chan, outside
<1>19. ASSUME ParseCommand PROVE TypeOK'
  <2>0. parsed < Len(Stream) /\ parsed \in Nat /\ parsed' = parsed + 1
    BY <1>19 DEF ParseCommand, Complete
  <2>1. Cmd \in Command /\ parsed' \in 0..Len(Stream)
    <3> HIDE DEF TypeOK, IInv
    <3>1. Stream \in Seq(Command)
      OBVIOUS
    <3>2. QED
      BY <2>0, <3>1 DEF Cmd
  <2>2. DbId' \in Nat
    BY <1>19, <2>1 DEF ParseCommand, Command
  <2>3. QED
    BY <1>19, <2>1, <2>2 DEF ParseCommand, receiver, disk, follower, chan, outside
<1>20. ASSUME PushEntry PROVE TypeOK'
  BY <1>20 DEF PushEntry, receiver, disk, follower, stat, outside
<1>21. ASSUME CloseChannel PROVE TypeOK'
  BY <1>21 DEF CloseChannel, receiver, disk, follower, stat, chan, outside
<1>22. ASSUME Pump PROVE TypeOK'
  <2> HIDE DEF Entry
  <2>1. Head(ch) \in Entry /\ Tail(ch) \in Seq(Entry)
    BY <1>22, HeadTailProperties DEF Pump
  <2>2. ch' \in Seq(Entry) /\ out' \in Seq(Entry)
    BY <1>22, <2>1 DEF Pump
  <2>3. QED
    BY <1>22, <2>2 DEF Pump, receiver, disk, follower, sender, stat, outside
<1>23. ASSUME Cancel PROVE TypeOK'
  BY <1>23 DEF Cancel, receiver, disk, follower, sender, stat, chan
<1>24. ASSUME ConnectionLost PROVE TypeOK'
  BY <1>24 DEF ConnectionLost, receiver, disk, follower, sender, stat, chan
<1>25. ASSUME UNCHANGED vars PROVE TypeOK'
  BY <1>25 DEF vars, receiver, disk, follower, sender, stat, chan, outside
<1> HIDE BytesNat DEF IInv, TypeOK, Names, Entry
<1>26. QED
  BY <1>1, <1>2, <1>3, <1>4, <1>5, <1>6, <1>7, <1>8, <1>9, <1>10, <1>11, <1>12, <1>13,
     <1>14, <1>15, <1>16, <1>17, <1>18, <1>19, <1>20, <1>21, <1>22, <1>23, <1>24, <1>25
     DEF Next, ReceiverStep, SenderStep

(* The facts the steps on files start from. *)
LEMMA FileFacts ==
  ASSUME IInv
  PROVE  /\ StartOffset \in Nat /\ taken \in Nat /\ wName \in Names /\ wOffset \in Names
         /\ wSize \in Nat /\ rName \in Names /\ rPos \in Nat /\ rOffset \in Names
         /\ got \in Seq(Nat) /\ Len(got) \in Nat /\ onDisk \subseteq Names
         /\ content \in [Names -> Seq(Nat)] /\ Names \subseteq Nat
         /\ \A f \in Names : /\ content[f] \in Seq(Nat) /\ Len(content[f]) \in Nat
                           /\ Base(f) \in Nat /\ f <= Base(f)
                           /\ End(f) \in Nat /\ End(f) = Base(f) + Len(content[f])
<1>1. TypeOK
  BY DEF IInv
<1>2. got \in Seq(Nat) /\ taken \in 0..Bytes
  BY <1>1 DEF TypeOK
<1>3. Len(got) \in Nat /\ taken \in Nat
  BY <1>2, BytesNat
<1>4. /\ wName \in Names /\ wOffset \in Names
      /\ wSize \in Nat /\ rName \in Names /\ rPos \in Nat /\ rOffset \in Names
      /\ onDisk \subseteq Names /\ content \in [Names -> Seq(Nat)]
  BY <1>1 DEF TypeOK
<1>5. StartOffset \in Nat
  BY SyncAssumption
<1>6. QED
  BY <1>1, <1>2, <1>3, <1>4, <1>5, Numbers, Zenon

(* The numbers among them. *)
LEMMA NumberFacts ==
  ASSUME IInv
  PROVE  /\ StartOffset \in Nat /\ taken \in Nat /\ wName \in Nat /\ wOffset \in Nat
         /\ wSize \in Nat /\ rName \in Nat /\ rPos \in Nat /\ rOffset \in Nat
         /\ Len(got) \in Nat /\ onDisk \subseteq Names
         /\ wName \in Names /\ rName \in Names /\ wOffset \in Names /\ rOffset \in Names
         /\ \A f \in Names : /\ f \in Nat /\ Len(content[f]) \in Nat
                           /\ Base(f) \in Nat /\ f <= Base(f)
                           /\ End(f) \in Nat /\ End(f) = Base(f) + Len(content[f])
<1>1. Names \subseteq Nat
  BY FileFacts, Zenon
<1>2. QED
  BY <1>1, FileFacts, Zenon

(* No file reaches beyond what was received. *)
LEMMA EndsReceived ==
  ASSUME IInv, conn \notin {"off", "open"}
  PROVE  \A f \in onDisk : f <= wName /\ End(f) <= StartOffset + taken
<1>1. /\ wName \in onDisk /\ End(wName) = StartOffset + taken
      /\ \A f \in onDisk : f <= wName
      /\ \A f, g \in onDisk : f < g => End(f) <= g
  BY DEF IInv, WriterInv, FileInv
<1>2. /\ onDisk \subseteq Nat
      /\ \A f \in onDisk : End(f) \in Nat /\ f <= Base(f) /\ End(f) = Base(f) + Len(content[f])
      /\ \A f \in onDisk : Base(f) \in Nat /\ Len(content[f]) \in Nat
  BY FileFacts
<1>3. ASSUME NEW f \in onDisk
      PROVE  f <= wName /\ End(f) <= StartOffset + taken
  <2>1. f = wName \/ f < wName
    BY <1>1, <1>2
  <2>2. wName <= End(wName) /\ wName \in Nat /\ End(wName) \in Nat /\ End(f) \in Nat
    BY <1>1, <1>2
  <2>3. f < wName => End(f) <= wName
    BY <1>1
  <2>4. f <= wName
    BY <1>1
  <2>5. QED
    BY <1>1, <2>1, <2>2, <2>3, <2>4
<1>4. QED
  BY <1>3

(* Steps that touch neither the files nor the two positions in them. *)
QuietStep ==
  /\ UNCHANGED <<onDisk, content, rName, rPos, rOffset, got, taken, wName, wOffset, wSize>>
  /\ (conn' \in {"off", "open"}) <=> (conn \in {"off", "open"})
  /\ pc' \in {"loop", "reading", "eof", "push"} => pc \in {"loop", "reading", "eof", "push"}
  /\ pc' \in {"psync", "rdb", "sendRdb", "openAof"} => pc \in {"psync", "rdb", "sendRdb", "openAof"}

LEMMA Quiet == ASSUME IInv, QuietStep, CountInv' PROVE DataInv'
<1>1. FileInv /\ WriterInv /\ ReaderInv /\ BytesInOrder
  BY DEF IInv
<1>2. FileInv'
  BY <1>1 DEF QuietStep, FileInv, End, Base
<1>3. WriterInv'
  BY <1>1 DEF QuietStep, WriterInv, End, Base
<1>4. ReaderInv'
  BY <1>1 DEF QuietStep, ReaderInv, NotOpened, Following, End, Base
<1>5. BytesInOrder'
  BY <1>1 DEF QuietStep, BytesInOrder
<1>6. QED
  BY <1>2, <1>3, <1>4, <1>5 DEF DataInv

(* The first file is created. *)
LEMMA OpenFirstStep == ASSUME IInv, OpenFirst PROVE DataInv'
<1> USE DEF DataInv
<1>n. /\ StartOffset \in Nat /\ taken \in Nat /\ wName \in Nat /\ wOffset \in Nat
      /\ wSize \in Nat /\ rName \in Nat /\ rPos \in Nat /\ rOffset \in Nat
      /\ Len(got) \in Nat /\ onDisk \subseteq Names
      /\ wName \in Names /\ rName \in Names /\ wOffset \in Names /\ rOffset \in Names
      /\ \A f \in Names : /\ f \in Nat /\ Len(content[f]) \in Nat
                        /\ Base(f) \in Nat /\ f <= Base(f)
                        /\ End(f) \in Nat /\ End(f) = Base(f) + Len(content[f])
  BY NumberFacts, Zenon
<1>w. /\ Base(wName) \in Nat /\ Len(content[wName]) \in Nat /\ wName <= Base(wName)
      /\ End(wName) \in Nat /\ End(wName) = Base(wName) + Len(content[wName])
  BY <1>n, Zenon
<1>r. /\ Base(rName) \in Nat /\ Len(content[rName]) \in Nat /\ rName <= Base(rName)
      /\ End(rName) \in Nat /\ End(rName) = Base(rName) + Len(content[rName])
  BY <1>n, Zenon
<1>k. /\ StartOffset \in Nat /\ taken \in Nat /\ wName \in Nat /\ wOffset \in Nat
      /\ wSize \in Nat /\ rName \in Nat /\ rPos \in Nat /\ rOffset \in Nat /\ Len(got) \in Nat
  BY <1>n, Zenon
<1>1. /\ conn = "open" /\ onDisk' = onDisk \cup {wOffset} /\ wName' = wOffset
      /\ wOffset' = recvOffset /\ conn' = "read"
      /\ UNCHANGED <<pc, taken, chunk, wSize, content, rName, rPos, rOffset, got, recvOffset, acked>>
  BY DEF OpenFirst, follower, sender, stat
<1>2. onDisk = {} /\ taken = 0 /\ wOffset = 0 /\ wSize = 0 /\ recvOffset = StartOffset
  BY <1>1 DEF IInv, WriterInv, CountInv
<1>3. content[0] = <<>> /\ \A f \in Names : content[f] = <<>>
  BY <1>2, BytesNat DEF IInv, FileInv
<1>4. onDisk' = {0}
  BY <1>1, <1>2
<1>5. FileInv'
  <2>1. \A f \in {0} : \A i \in 1..Len(content[f]) : content[f][i] = Base(f) + i
    BY <1>3
  <2>2. \A f, g \in {0} : f < g => End(f) <= g
    OBVIOUS
  <2>3. content' = content
    BY <1>1
  <2>4. QED
    BY <1>3, <1>4, <2>1, <2>2, <2>3 DEF FileInv, End, Base
<1>6. WriterInv'
  BY <1>1, <1>2, <1>3, <1>4, <1>n DEF WriterInv, End, Base
<1>7. CountInv'
  BY <1>1, <1>2, <1>n DEF IInv, CountInv
<1>8. ReaderInv' /\ BytesInOrder'
  <2>1. got = <<>> /\ NotOpened
    BY <1>1 DEF IInv, ReaderInv, Following, NotOpened
  <2>2. pc \notin {"loop", "reading", "eof", "push"}
    BY <1>1 DEF IInv, ReaderInv, Following
  <2>3. QED
    BY <1>1, <1>2, <2>1, <2>2, <1>n DEF ReaderInv, NotOpened, BytesInOrder
<1>9. QED
  BY <1>5, <1>6, <1>7, <1>8

(* Bytes are appended to the last file. *)
LEMMA ReceiveStep == ASSUME IInv, NEW n \in Nat, ReceiveAOF(n) PROVE DataInv'
<1> USE DEF DataInv
<1> DEFINE new == content[wName] \o [i \in 1..n |-> StartOffset + taken + i]
<1>n. /\ StartOffset \in Nat /\ taken \in Nat /\ wName \in Nat /\ wOffset \in Nat
      /\ wSize \in Nat /\ rName \in Nat /\ rPos \in Nat /\ rOffset \in Nat
      /\ Len(got) \in Nat /\ onDisk \subseteq Names
      /\ wName \in Names /\ rName \in Names /\ wOffset \in Names /\ rOffset \in Names
      /\ \A f \in Names : /\ f \in Nat /\ Len(content[f]) \in Nat
                        /\ Base(f) \in Nat /\ f <= Base(f)
                        /\ End(f) \in Nat /\ End(f) = Base(f) + Len(content[f])
  BY NumberFacts, Zenon
<1>w. /\ Base(wName) \in Nat /\ Len(content[wName]) \in Nat /\ wName <= Base(wName)
      /\ End(wName) \in Nat /\ End(wName) = Base(wName) + Len(content[wName])
  BY <1>n, Zenon
<1>r. /\ Base(rName) \in Nat /\ Len(content[rName]) \in Nat /\ rName <= Base(rName)
      /\ End(rName) \in Nat /\ End(rName) = Base(rName) + Len(content[rName])
  BY <1>n, Zenon
<1>k. /\ StartOffset \in Nat /\ taken \in Nat /\ wName \in Nat /\ wOffset \in Nat
      /\ wSize \in Nat /\ rName \in Nat /\ rPos \in Nat /\ rOffset \in Nat /\ Len(got) \in Nat
  BY <1>n, Zenon
<1>1. /\ conn = "read" /\ conn' = "written"
      /\ content' = [content EXCEPT ![wName] = new]
      /\ taken' = taken + n /\ chunk' = n /\ wOffset' = wOffset + n /\ wSize' = wSize + n
      /\ UNCHANGED <<pc, wName, onDisk, rName, rPos, rOffset, got, recvOffset, acked>>
  BY DEF ReceiveAOF, follower, sender, stat
<1>2. /\ wName \in onDisk /\ wSize = Len(content[wName])
      /\ wOffset = End(wName) /\ wOffset = StartOffset + taken /\ recvOffset = wOffset
      /\ acked <= StartOffset + taken /\ \A f \in onDisk : f <= wName
  BY <1>1 DEF IInv, WriterInv, CountInv
<1>e. /\ wSize = Len(content[wName]) /\ wOffset = Base(wName) + Len(content[wName])
      /\ wOffset = StartOffset + taken
  BY <1>2, <1>w, Zenon
<1>3. /\ Len(new) = Len(content[wName]) + n
      /\ \A i \in 1..Len(new) : new[i] = IF i <= Len(content[wName]) THEN content[wName][i]
                                         ELSE (StartOffset + taken) + (i - Len(content[wName]))
  <2>1. content[wName] \in Seq(Nat)
    BY FileFacts, Zenon
  <2>0. StartOffset + taken \in Nat
    BY <1>k
  <2>2. QED
    BY <2>0, <2>1, Appended
<1> HIDE DEF new
<1>4. content'[wName] = new /\ \A f \in Names : f # wName => content'[f] = content[f]
  <2>1. content \in [Names -> Seq(Nat)] /\ wName \in Names
    BY FileFacts, Zenon
  <2>2. content' = [content EXCEPT ![wName] = new]
    BY <1>1
  <2>3. QED
    BY <2>1, <2>2
<1>5. FileInv'
  <2>0. FileInv
    BY DEF IInv
  <2>1. ASSUME NEW f \in onDisk, NEW i \in 1..Len(content'[f]) PROVE content'[f][i] = Base(f) + i
    <3>1. CASE f = wName
      <4>1. \A j \in 1..Len(content[wName]) : content[wName][j] = Base(wName) + j
        BY <1>2, <2>0 DEF FileInv
      <4>2. StartOffset + taken = Base(wName) + Len(content[wName])
        BY <1>2 DEF End
      <4>3. Base(wName) \in Nat /\ Len(content[wName]) \in Nat
        BY <1>n
      <4>4. i \in 1..Len(new) /\ content'[f][i] = new[i]
        BY <1>4, <3>1
      <4>5. new[i] = IF i <= Len(content[wName]) THEN content[wName][i]
                     ELSE (StartOffset + taken) + (i - Len(content[wName]))
        BY <1>3, <4>4
      <4>6. i \in Nat /\ 1 <= i
        OBVIOUS
      <4>7. CASE i <= Len(content[wName])
        <5>1. content[wName][i] = Base(wName) + i
          BY <4>1, <4>3, <4>6, <4>7
        <5>2. QED
          BY <3>1, <4>4, <4>5, <4>7, <5>1
      <4>8. CASE ~(i <= Len(content[wName]))
        BY <3>1, <4>2, <4>3, <4>4, <4>5, <4>6, <4>8
      <4>9. QED
        BY <4>7, <4>8
    <3>2. CASE f # wName
      BY <1>4, <2>0, <3>2, <1>n DEF FileInv
    <3>3. QED
      BY <3>1, <3>2
  <2>2. \A f \in Names \ onDisk : content'[f] = <<>>
    BY <1>2, <1>4, <2>0 DEF FileInv
  <2>3. ASSUME NEW f \in onDisk, NEW g \in onDisk, f < g PROVE End(f)' <= g
    <3>1. f # wName
      BY <1>2, <2>3, <1>n
    <3>2. content'[f] = content[f]
      BY <1>4, <3>1, <1>n
    <3>3. End(f) <= g
      BY <2>0, <2>3 DEF FileInv
    <3>4. QED
      BY <3>2, <3>3 DEF End, Base
  <2>4. QED
    BY <1>1, <2>1, <2>2, <2>3 DEF FileInv, Base
<1>6. WriterInv'
  <2>1. End(wName)' = Base(wName) + Len(new)
    BY <1>1, <1>4 DEF End, Base
  <2>2. /\ wSize' = Len(content'[wName']) /\ wOffset' = End(wName)'
        /\ wOffset' = StartOffset + taken'
    <3>1. wSize' = wSize + n /\ wOffset' = wOffset + n /\ taken' = taken + n /\ wName' = wName
      BY <1>1
    <3>2. Len(content'[wName]) = Len(content[wName]) + n /\ End(wName)' = Base(wName) + (Len(content[wName]) + n)
      BY <1>3, <1>4, <2>1, Zenon
    <3>3. QED
      BY <3>1, <3>2, <1>e, <1>k, <1>w
  <2>3. QED
    BY <1>1, <1>2, <2>2 DEF WriterInv, End, Base
<1>7. CountInv'
  <2>1. acked \in Nat /\ recvOffset \in Nat
    BY <1>2, <1>n DEF IInv, TypeOK
  <2>2. pc \notin {"rdb", "psync"}
    BY <1>1 DEF IInv, CountInv
  <2>3. QED
    BY <1>1, <1>2, <2>1, <2>2, <1>n DEF CountInv
<1>8. \A f \in onDisk : Len(content[f]) <= Len(content'[f]) /\ End(f) <= End(f)'
  <2>1. ASSUME NEW f \in onDisk PROVE Len(content[f]) <= Len(content'[f]) /\ Len(content'[f]) \in Nat
    <3>1. Len(content[f]) \in Nat /\ Len(content[wName]) \in Nat /\ f \in Names
      BY <1>n
    <3>2. QED
      BY <1>3, <1>4, <3>1
  <2>2. QED
    BY <2>1, <1>n DEF End, Base
<1>9. ReaderInv'
  <2>0. ReaderInv
    BY DEF IInv
  <2>1. NotOpened' <=> NotOpened
    BY <1>1 DEF NotOpened
  <2>2. Following => Following'
    <3>1. SUFFICES ASSUME Following PROVE Following'
      OBVIOUS
    <3>2. Len(content'[rName]) \in Nat
      BY <1>3, <1>4, <1>n
    <3>3. rPos <= Len(content'[rName])
      <4>1. Len(content[rName]) <= Len(content'[rName]) /\ rPos <= Len(content[rName])
        BY <1>8, <3>1 DEF Following
      <4>2. QED
        BY <3>2, <4>1, <1>k, <1>r
    <3>4. QED
      BY <1>1, <3>1, <3>3 DEF Following, Base
  <2>3. ASSUME NEW b \in (StartOffset + Len(got) + 1)..(StartOffset + (taken + n))
        PROVE  \E f \in onDisk : Base(f) < b /\ b <= End(f)'
    <3>0. b \in Int
      OBVIOUS
    <3>1. CASE b <= StartOffset + taken
      <4>1. PICK f \in onDisk : Base(f) < b /\ b <= End(f)
        BY <2>0, <3>1, <1>n DEF ReaderInv
      <4>2. End(f)' \in Nat /\ End(f) \in Nat /\ End(f) <= End(f)'
        <5>1. f \in Names
          BY <1>n
        <5>0. Base(f) \in Nat /\ Len(content[f]) \in Nat /\ End(f) \in Nat
          BY <5>1, <1>n, Zenon
        <5>2. Len(content'[f]) \in Nat
          BY <1>3, <1>4, <5>0, <5>1, <1>w
        <5>3. End(f)' \in Nat
          BY <5>0, <5>2 DEF End, Base
        <5>4. QED
          BY <1>8, <5>0, <5>3
      <4>3. QED
        BY <3>0, <4>1, <4>2
    <3>2. CASE b > StartOffset + taken
      <4>1. Len(content'[wName]) = Len(content[wName]) + n
        BY <1>3, <1>4, Zenon
      <4>2. Base(wName) < b /\ b <= Base(wName) + Len(content'[wName])
        BY <3>0, <3>2, <4>1, <1>e, <1>k, <1>w
      <4>3. wName \in onDisk
        BY <1>2
      <4>4. QED
        BY <4>2, <4>3 DEF End, Base
    <3>3. QED
      BY <3>0, <3>1, <3>2, <1>n
  <2>4. QED
    BY <1>1, <2>0, <2>1, <2>2, <2>3 DEF ReaderInv, Base
<1>10. BytesInOrder'
  BY <1>1 DEF IInv, BytesInOrder
<1>11. QED
  BY <1>5, <1>6, <1>7, <1>9, <1>10

(* The next file: its name is beyond every other file. *)
LEMMA RotateStep == ASSUME IInv, Rotate, wSize > MaxFileSize PROVE DataInv'
<1> USE DEF DataInv
<1>n. /\ StartOffset \in Nat /\ taken \in Nat /\ wName \in Nat /\ wOffset \in Nat
      /\ wSize \in Nat /\ rName \in Nat /\ rPos \in Nat /\ rOffset \in Nat
      /\ Len(got) \in Nat /\ onDisk \subseteq Names
      /\ wName \in Names /\ rName \in Names /\ wOffset \in Names /\ rOffset \in Names
      /\ \A f \in Names : /\ f \in Nat /\ Len(content[f]) \in Nat
                        /\ Base(f) \in Nat /\ f <= Base(f)
                        /\ End(f) \in Nat /\ End(f) = Base(f) + Len(content[f])
  BY NumberFacts, Zenon
<1>w. /\ Base(wName) \in Nat /\ Len(content[wName]) \in Nat /\ wName <= Base(wName)
      /\ End(wName) \in Nat /\ End(wName) = Base(wName) + Len(content[wName])
  BY <1>n, Zenon
<1>r. /\ Base(rName) \in Nat /\ Len(content[rName]) \in Nat /\ rName <= Base(rName)
      /\ End(rName) \in Nat /\ End(rName) = Base(rName) + Len(content[rName])
  BY <1>n, Zenon
<1>k. /\ StartOffset \in Nat /\ taken \in Nat /\ wName \in Nat /\ wOffset \in Nat
      /\ wSize \in Nat /\ rName \in Nat /\ rPos \in Nat /\ rOffset \in Nat /\ Len(got) \in Nat
  BY <1>n, Zenon
<1>1. /\ conn = "written" /\ conn' = "count"
      /\ wName' = wOffset /\ wSize' = 0 /\ onDisk' = onDisk \cup {wOffset}
      /\ UNCHANGED <<pc, taken, chunk, wOffset, content, rName, rPos, rOffset, got, recvOffset, acked>>
  <2>1. ~(wSize <= MaxFileSize)
    BY SyncAssumption, <1>n
  <2>2. QED
    BY <2>1 DEF Rotate, follower, sender, stat
<1>2. /\ wName \in onDisk /\ wSize = Len(content[wName])
      /\ wOffset = End(wName) /\ wOffset = StartOffset + taken /\ \A f \in onDisk : f <= wName
      /\ recvOffset + chunk = wOffset /\ acked <= StartOffset + taken
  BY <1>1 DEF IInv, WriterInv, CountInv
<1>e. /\ wSize = Len(content[wName]) /\ wOffset = Base(wName) + Len(content[wName])
      /\ wOffset = StartOffset + taken
  BY <1>2, <1>w, Zenon
<1>3. wName < wOffset /\ wOffset # 0 /\ Base(wOffset) = wOffset
  <2>1. wSize > 0
    BY SyncAssumption, <1>n
  <2>2. wName < End(wName) /\ wName \in Nat
    BY <2>1, <1>e, <1>k, <1>w
  <2>3. QED
    BY <1>2, <2>2, <1>k DEF Base
<1>4. wOffset \notin onDisk /\ content[wOffset] = <<>> /\ End(wOffset) = wOffset
  <2>1. wOffset \notin onDisk
    BY <1>2, <1>3, <1>n
  <2>2. content[wOffset] = <<>>
    BY <2>1, <1>n DEF IInv, FileInv
  <2>3. QED
    BY <1>3, <2>1, <2>2, <1>n DEF End
<1>5. FileInv'
  <2>0. FileInv
    BY DEF IInv
  <2>1. \A f \in onDisk' : \A i \in 1..Len(content[f]) : content[f][i] = Base(f) + i
    BY <1>1, <1>4, <2>0 DEF FileInv
  <2>2. \A f \in Names \ onDisk' : content[f] = <<>>
    BY <1>1, <2>0 DEF FileInv
  <2>3. ASSUME NEW f \in onDisk', NEW g \in onDisk', f < g PROVE End(f) <= g
    <3>1. CASE g \in onDisk
      <4>1. g <= wName /\ wOffset \in Nat /\ wName \in Nat /\ g \in Nat
        BY <1>2, <3>1, <1>n
      <4>2. f \in onDisk
        BY <1>1, <1>3, <2>3, <4>1
      <4>3. QED
        BY <2>0, <2>3, <3>1, <4>2 DEF FileInv
    <3>2. CASE g = wOffset
      <4>1. f \in onDisk
        BY <1>1, <2>3, <3>2, <1>n
      <4>2. conn \notin {"off", "open"}
        BY <1>1
      <4>3. QED
        BY <1>2, <3>2, <4>1, <4>2, EndsReceived
    <3>3. QED
      BY <1>1, <3>1, <3>2
  <2>4. QED
    BY <1>1, <2>1, <2>2, <2>3 DEF FileInv, Base, End
<1>6. WriterInv'
  <2>1. \A f \in onDisk' : f <= wOffset
    BY <1>1, <1>2, <1>3, <1>n
  <2>2. QED
    BY <1>1, <1>2, <1>4, <2>1 DEF WriterInv, End, Base
<1>7. CountInv'
  BY <1>1, <1>2 DEF IInv, CountInv
<1>8. ReaderInv' /\ BytesInOrder'
  BY <1>1 DEF IInv, ReaderInv, NotOpened, Following, BytesInOrder, End, Base
<1>9. QED
  BY <1>5, <1>6, <1>7, <1>8

(* The follower starts with 0.aof, at the start of the stream. *)
LEMMA OpenStep == ASSUME IInv, OpenAOF PROVE DataInv'
<1> USE DEF DataInv
<1>n. /\ StartOffset \in Nat /\ taken \in Nat /\ wName \in Nat /\ wOffset \in Nat
      /\ wSize \in Nat /\ rName \in Nat /\ rPos \in Nat /\ rOffset \in Nat
      /\ Len(got) \in Nat /\ onDisk \subseteq Names
      /\ wName \in Names /\ rName \in Names /\ wOffset \in Names /\ rOffset \in Names
      /\ \A f \in Names : /\ f \in Nat /\ Len(content[f]) \in Nat
                        /\ Base(f) \in Nat /\ f <= Base(f)
                        /\ End(f) \in Nat /\ End(f) = Base(f) + Len(content[f])
  BY NumberFacts, Zenon
<1>w. /\ Base(wName) \in Nat /\ Len(content[wName]) \in Nat /\ wName <= Base(wName)
      /\ End(wName) \in Nat /\ End(wName) = Base(wName) + Len(content[wName])
  BY <1>n, Zenon
<1>r. /\ Base(rName) \in Nat /\ Len(content[rName]) \in Nat /\ rName <= Base(rName)
      /\ End(rName) \in Nat /\ End(rName) = Base(rName) + Len(content[rName])
  BY <1>n, Zenon
<1>k. /\ StartOffset \in Nat /\ taken \in Nat /\ wName \in Nat /\ wOffset \in Nat
      /\ wSize \in Nat /\ rName \in Nat /\ rPos \in Nat /\ rOffset \in Nat /\ Len(got) \in Nat
  BY <1>n, Zenon
<1>1. /\ pc = "openAof" /\ rOffset \in onDisk /\ rName' = rOffset /\ rPos' = 0
      /\ rOffset' = StartOffset /\ pc' = "loop"
      /\ UNCHANGED <<conn, taken, chunk, wName, wOffset, wSize, onDisk, content, got, recvOffset, acked>>
  BY DEF OpenAOF, receiver, disk, stat
<1>2. rOffset = 0 /\ got = <<>>
  BY <1>1 DEF IInv, ReaderInv, NotOpened
<1>3. conn \notin {"off", "open"}
  BY <1>1 DEF IInv, WriterInv
<1>4. FileInv' /\ WriterInv'
  BY <1>1 DEF IInv, FileInv, WriterInv, End, Base
<1>5. CountInv'
  BY <1>1 DEF IInv, CountInv
<1>6. Following'
  <2>1. Len(content[0]) \in Nat /\ Len(got) = 0
    BY <1>1, <1>2, <1>n
  <2>2. QED
    BY <1>1, <1>2, <1>3, <2>1, <1>n DEF Following, Base
<1>7. ReaderInv' /\ BytesInOrder'
  BY <1>1, <1>6 DEF IInv, ReaderInv, BytesInOrder, End, Base
<1>8. QED
  BY <1>4, <1>5, <1>7

(* Bytes are taken from the file the follower stands in. *)
LEMMA ReadStep == ASSUME IInv, NEW n \in Nat, ReadAOF(n) PROVE DataInv'
<1> USE DEF DataInv
<1> DEFINE new == got \o SubSeq(content[rName], rPos + 1, rPos + n)
<1>n. /\ StartOffset \in Nat /\ taken \in Nat /\ wName \in Nat /\ wOffset \in Nat
      /\ wSize \in Nat /\ rName \in Nat /\ rPos \in Nat /\ rOffset \in Nat
      /\ Len(got) \in Nat /\ onDisk \subseteq Names
      /\ wName \in Names /\ rName \in Names /\ wOffset \in Names /\ rOffset \in Names
      /\ \A f \in Names : /\ f \in Nat /\ Len(content[f]) \in Nat
                        /\ Base(f) \in Nat /\ f <= Base(f)
                        /\ End(f) \in Nat /\ End(f) = Base(f) + Len(content[f])
  BY NumberFacts, Zenon
<1>w. /\ Base(wName) \in Nat /\ Len(content[wName]) \in Nat /\ wName <= Base(wName)
      /\ End(wName) \in Nat /\ End(wName) = Base(wName) + Len(content[wName])
  BY <1>n, Zenon
<1>r. /\ Base(rName) \in Nat /\ Len(content[rName]) \in Nat /\ rName <= Base(rName)
      /\ End(rName) \in Nat /\ End(rName) = Base(rName) + Len(content[rName])
  BY <1>n, Zenon
<1>k. /\ StartOffset \in Nat /\ taken \in Nat /\ wName \in Nat /\ wOffset \in Nat
      /\ wSize \in Nat /\ rName \in Nat /\ rPos \in Nat /\ rOffset \in Nat /\ Len(got) \in Nat
  BY <1>n, Zenon
<1>1. /\ pc = "reading" /\ rPos + n <= Len(content[rName]) /\ got' = new
      /\ rPos' = rPos + n /\ rOffset' = rOffset + n
      /\ UNCHANGED <<pc, conn, taken, chunk, wName, wOffset, wSize, onDisk, content, rName, recvOffset, acked>>
  BY DEF ReadAOF, receiver, disk, sender, stat
<1>2. Following
  BY <1>1 DEF IInv, ReaderInv
<1>3. /\ Len(new) = Len(got) + n
      /\ \A i \in 1..Len(new) : new[i] = IF i <= Len(got) THEN got[i] ELSE content[rName][rPos + (i - Len(got))]
  <2>1. got \in Seq(Nat) /\ content[rName] \in Seq(Nat)
    BY FileFacts, Zenon
  <2>2. rPos \in Nat /\ rPos + n <= Len(content[rName])
    BY <1>1, <1>k
  <2>3. /\ Len(new) = Len(got) + n
        /\ \A i \in 1..Len(new) :
             new[i] = IF i <= Len(got) THEN got[i] ELSE content[rName][rPos + (i - Len(got))]
    <3> DEFINE file == content[rName]
    <3> HIDE DEF file
    <3>1. file \in Seq(Nat) /\ rPos + n <= Len(file)
      BY <2>1, <2>2 DEF file
    <3>2. /\ Len(got \o SubSeq(file, rPos + 1, rPos + n)) = Len(got) + n
          /\ \A i \in 1..Len(got \o SubSeq(file, rPos + 1, rPos + n)) :
               (got \o SubSeq(file, rPos + 1, rPos + n))[i]
                 = IF i <= Len(got) THEN got[i] ELSE file[rPos + (i - Len(got))]
      BY <2>1, <2>2, <3>1, Sliced, SMTT(20)
    <3>3. QED
      BY <3>2, Zenon DEF file
  <2>4. QED
    BY <2>3, Zenon
<1> HIDE DEF new
<1>4. FileInv' /\ WriterInv'
  BY <1>1 DEF IInv, FileInv, WriterInv, End, Base
<1>5. CountInv'
  BY <1>1 DEF IInv, CountInv
<1>6. Following'
  BY <1>1, <1>2, <1>3, <1>n DEF Following, Base
<1>7. ReaderInv'
  <2>1. \A b \in (StartOffset + Len(new) + 1)..(StartOffset + taken) :
          \E f \in onDisk : Base(f) < b /\ b <= End(f)
    <3>1. \A b \in (StartOffset + Len(new) + 1)..(StartOffset + taken) :
            b \in (StartOffset + Len(got) + 1)..(StartOffset + taken)
      BY <1>3, <1>n
    <3>2. QED
      BY <3>1 DEF IInv, ReaderInv
  <2>2. QED
    BY <1>1, <1>6, <2>1 DEF ReaderInv, End, Base
<1>8. BytesInOrder'
  <2>1. ASSUME NEW i \in 1..Len(new) PROVE new[i] = StartOffset + i
    <3>1. CASE i <= Len(got)
      <4>1. i \in 1..Len(got)
        BY <3>1, <1>k
      <4>2. got[i] = StartOffset + i
        BY <4>1 DEF IInv, BytesInOrder
      <4>3. QED
        BY <1>3, <3>1, <4>2
    <3>2. CASE ~(i <= Len(got))
      <4>1. rPos + (i - Len(got)) \in 1..Len(content[rName])
        <5>1. i \in Nat /\ i <= Len(got) + n
          BY <1>3, <1>k
        <5>2. rPos + n <= Len(content[rName])
          BY <1>1
        <5>3. QED
          BY <3>2, <5>1, <5>2, <1>k, <1>r
      <4>2. content[rName][rPos + (i - Len(got))] = Base(rName) + (rPos + (i - Len(got)))
        BY <1>2, <4>1 DEF IInv, FileInv, Following
      <4>3. Base(rName) + rPos = StartOffset + Len(got)
        BY <1>2, <1>k, <1>r DEF Following
      <4>4. new[i] = content[rName][rPos + (i - Len(got))]
        BY <1>3, <3>2
      <4>5. i \in Int
        OBVIOUS
      <4>6. QED
        <5>1. Base(rName) + (rPos + (i - Len(got))) = StartOffset + i
          <6>1. Base(rName) \in Nat /\ rPos \in Nat /\ Len(got) \in Nat /\ StartOffset \in Nat
            BY <1>k, <1>r
          <6>2. QED
            BY <4>3, <4>5, <6>1
        <5>2. QED
          BY <4>2, <4>4, <5>1, Zenon
    <3>3. QED
      BY <3>1, <3>2
  <2>2. QED
    BY <1>1, <2>1 DEF BytesInOrder
<1>9. QED
  BY <1>4, <1>5, <1>7, <1>8

(* The file left behind ends where the next one begins: nothing in it is unread. *)
LEMMA NextFileStep ==
  ASSUME IInv, readNextFile, rOffset \in onDisk, rName # rOffset
  PROVE  DataInv'
<1> USE DEF DataInv
<1>n. /\ StartOffset \in Nat /\ taken \in Nat /\ wName \in Nat /\ wOffset \in Nat
      /\ wSize \in Nat /\ rName \in Nat /\ rPos \in Nat /\ rOffset \in Nat
      /\ Len(got) \in Nat /\ onDisk \subseteq Names
      /\ wName \in Names /\ rName \in Names /\ wOffset \in Names /\ rOffset \in Names
      /\ \A f \in Names : /\ f \in Nat /\ Len(content[f]) \in Nat
                        /\ Base(f) \in Nat /\ f <= Base(f)
                        /\ End(f) \in Nat /\ End(f) = Base(f) + Len(content[f])
  BY NumberFacts, Zenon
<1>w. /\ Base(wName) \in Nat /\ Len(content[wName]) \in Nat /\ wName <= Base(wName)
      /\ End(wName) \in Nat /\ End(wName) = Base(wName) + Len(content[wName])
  BY <1>n, Zenon
<1>r. /\ Base(rName) \in Nat /\ Len(content[rName]) \in Nat /\ rName <= Base(rName)
      /\ End(rName) \in Nat /\ End(rName) = Base(rName) + Len(content[rName])
  BY <1>n, Zenon
<1>k. /\ StartOffset \in Nat /\ taken \in Nat /\ wName \in Nat /\ wOffset \in Nat
      /\ wSize \in Nat /\ rName \in Nat /\ rPos \in Nat /\ rOffset \in Nat /\ Len(got) \in Nat
  BY <1>n, Zenon
<1>1. /\ pc = "eof" /\ pc' = "reading" /\ onDisk' = onDisk \ {rName}
      /\ content' = [content EXCEPT ![rName] = <<>>] /\ rName' = rOffset /\ rPos' = 0
      /\ UNCHANGED <<conn, taken, chunk, wName, wOffset, wSize, rOffset, got, recvOffset, acked>>
  BY DEF readNextFile, receiver, stat
<1>2. /\ rName \in onDisk /\ rOffset = Base(rName) + rPos
      /\ Len(got) = rOffset - StartOffset /\ conn \notin {"off", "open"}
  BY <1>1 DEF IInv, ReaderInv, Following
<1>3. rName < rOffset /\ rOffset # 0 /\ Base(rOffset) = rOffset
  BY <1>2, <1>n DEF Base
<1>4. End(rName) <= rOffset
  BY <1>2, <1>3 DEF IInv, FileInv
<1>5. rName # wName /\ wName \in onDisk'
  <2>1. rOffset <= wName /\ wName \in onDisk
    BY <1>2 DEF IInv, WriterInv
  <2>2. rName \in Nat /\ rOffset \in Nat /\ wName \in Nat
    BY <1>n
  <2>3. rName # wName
    BY <1>3, <2>1, <2>2
  <2>4. QED
    BY <1>1, <2>1, <2>3
<1>6. content'[rName] = <<>> /\ \A f \in Names : f # rName => content'[f] = content[f]
  <2>1. content \in [Names -> Seq(Nat)] /\ rName \in Names
    BY FileFacts, Zenon
  <2>2. content' = [content EXCEPT ![rName] = <<>>]
    BY <1>1
  <2>3. QED
    BY <2>1, <2>2
<1>7. \A f \in onDisk' : f \in onDisk /\ f \in Names /\ content'[f] = content[f] /\ End(f)' = End(f)
  <2>1. \A f \in onDisk' : f \in onDisk /\ f \in Names /\ content'[f] = content[f]
    BY <1>1, <1>6, <1>n
  <2>2. QED
    BY <2>1 DEF End, Base
<1>8. FileInv'
  <2>0. FileInv
    BY DEF IInv
  <2>1. \A f \in onDisk' : \A i \in 1..Len(content'[f]) : content'[f][i] = Base(f) + i
    BY <1>7, <2>0 DEF FileInv
  <2>2. \A f \in Names \ onDisk' : content'[f] = <<>>
    BY <1>1, <1>6, <2>0 DEF FileInv
  <2>3. \A f, g \in onDisk' : f < g => End(f)' <= g
    BY <1>7, <2>0 DEF FileInv
  <2>4. QED
    BY <2>1, <2>2, <2>3 DEF FileInv, Base
<1>9. WriterInv'
  <2>1. content'[wName] = content[wName]
    BY <1>5, <1>7
  <2>2. \A f \in onDisk' : f <= wName
    BY <1>2, <1>7 DEF IInv, WriterInv
  <2>3. wSize = Len(content[wName]) /\ wOffset = End(wName) /\ wOffset = StartOffset + taken
    BY <1>2 DEF IInv, WriterInv
  <2>4. QED
    BY <1>1, <1>2, <1>5, <2>1, <2>2, <2>3 DEF WriterInv, End, Base
<1>10. CountInv'
  BY <1>1 DEF IInv, CountInv
<1>11. Following'
  <2>1. rOffset \in onDisk'
    BY <1>1
  <2>2. Len(content'[rOffset]) \in Nat
    BY <1>7, <2>1, <1>n
  <2>3. QED
    BY <1>1, <1>2, <1>3, <2>1, <2>2, <1>n DEF Following, Base
<1>12. ReaderInv' /\ BytesInOrder'
  <2>1. ASSUME NEW b \in (StartOffset + Len(got) + 1)..(StartOffset + taken)
        PROVE  \E f \in onDisk' : Base(f) < b /\ b <= End(f)'
    <3>1. PICK f \in onDisk : Base(f) < b /\ b <= End(f)
      BY DEF IInv, ReaderInv
    <3>2. b > rOffset /\ b \in Int
      BY <1>2, <1>k
    <3>3. f # rName
      BY <1>4, <3>1, <3>2, <1>n
    <3>4. f \in onDisk'
      BY <1>1, <3>3
    <3>5. QED
      BY <1>7, <3>1, <3>4
  <2>2. ReaderInv'
    BY <1>1, <1>11, <2>1 DEF ReaderInv, Base
  <2>3. QED
    BY <1>1, <2>2 DEF IInv, BytesInOrder
<1>13. QED
  BY <1>8, <1>9, <1>10, <1>12

(* Every action keeps the rest of the invariant. *)
LEMMA DataStep == IInv /\ [Next]_vars => DataInv'
<1> SUFFICES ASSUME IInv, [Next]_vars PROVE DataInv'
  OBVIOUS
<1>1. ASSUME SendPSync PROVE DataInv'
  <2>1. QuietStep
    BY <1>1 DEF SendPSync, receiver, disk, follower, chan, outside, IInv, CountInv, QuietStep
  <2>2. CountInv'
    BY <1>1 DEF SendPSync, receiver, disk, follower, chan, outside, IInv, TypeOK, WriterInv, CountInv
  <2>3. QED
    BY <2>1, <2>2, Quiet
<1>2. ASSUME PSyncCancelled PROVE DataInv'
  <2>1. QuietStep
    BY <1>2 DEF PSyncCancelled, receiver, disk, follower, stat, chan, outside, IInv, CountInv, QuietStep
  <2>2. CountInv'
    BY <1>2 DEF PSyncCancelled, receiver, disk, follower, stat, chan, outside, IInv, TypeOK, WriterInv, CountInv
  <2>3. QED
    BY <2>1, <2>2, Quiet
<1>3. ASSUME ReceiveRDB PROVE DataInv'
  <2>1. QuietStep
    BY <1>3 DEF ReceiveRDB, AfterRdb, disk, follower, stat, chan, outside, IInv, CountInv, QuietStep
  <2>2. CountInv'
    BY <1>3 DEF ReceiveRDB, AfterRdb, disk, follower, stat, chan, outside, IInv, TypeOK, WriterInv, CountInv
  <2>3. QED
    BY <2>1, <2>2, Quiet
<1>4. ASSUME SendRdbEntry PROVE DataInv'
  <2>1. QuietStep
    BY <1>4 DEF SendRdbEntry, receiver, disk, follower, stat, outside, IInv, CountInv, QuietStep
  <2>2. CountInv'
    BY <1>4 DEF SendRdbEntry, receiver, disk, follower, stat, outside, IInv, TypeOK, WriterInv, CountInv
  <2>3. QED
    BY <2>1, <2>2, Quiet
<1>5. ASSUME RdbSent PROVE DataInv'
  <2>1. QuietStep
    BY <1>5 DEF RdbSent, AfterRdb, receiver, disk, follower, stat, chan, outside, IInv, CountInv, QuietStep
  <2>2. CountInv'
    BY <1>5 DEF RdbSent, AfterRdb, receiver, disk, follower, stat, chan, outside, IInv, TypeOK, WriterInv, CountInv
  <2>3. QED
    BY <2>1, <2>2, Quiet
<1>6. ASSUME OpenFirst PROVE DataInv'
  BY <1>6, OpenFirstStep
<1>7. ASSUME NEW n \in Nat, ReceiveAOF(n) PROVE DataInv'
  BY <1>7, ReceiveStep
<1>8. ASSUME Rotate PROVE DataInv'
  <2>1. CASE ~(wSize > MaxFileSize)
    <3>1. QuietStep
      BY <1>8, <2>1, SyncAssumption, NumberFacts DEF Rotate, follower, sender, stat, chan, outside, QuietStep
    <3>2. CountInv'
      BY <1>8, <3>1 DEF Rotate, follower, sender, stat, chan, outside, IInv, CountInv
    <3>3. QED
      BY <3>1, <3>2, Quiet
  <2>2. CASE wSize > MaxFileSize
    BY <1>8, <2>2, RotateStep
  <2>3. QED
    BY <2>1, <2>2
<1>9. ASSUME CountReceived PROVE DataInv'
  <2>1. QuietStep
    BY <1>9 DEF CountReceived, disk, follower, sender, chan, outside, IInv, CountInv, QuietStep
  <2>2. CountInv'
    BY <1>9 DEF CountReceived, disk, follower, sender, chan, outside, IInv, TypeOK, WriterInv, CountInv
  <2>3. QED
    BY <2>1, <2>2, Quiet
<1>10. ASSUME ReceiverCancelled PROVE DataInv'
  <2>1. QuietStep
    BY <1>10 DEF ReceiverCancelled, disk, follower, sender, stat, chan, outside, IInv, CountInv, QuietStep
  <2>2. CountInv'
    BY <1>10 DEF ReceiverCancelled, disk, follower, sender, stat, chan, outside, IInv, TypeOK, WriterInv, CountInv
  <2>3. QED
    BY <2>1, <2>2, Quiet
<1>11. ASSUME SendReplconfAck PROVE DataInv'
  <2>1. /\ acked' = recvOffset /\ conn # "off"
        /\ UNCHANGED <<onDisk, content, rName, rPos, rOffset, got, taken, wName, wOffset, wSize,
                       conn, pc, chunk, recvOffset>>
    BY <1>11 DEF SendReplconfAck, receiver, disk, follower, sender, stat
  <2>2. recvOffset <= StartOffset + taken
    <3>1. /\ conn = "open" => recvOffset = StartOffset /\ taken = 0
          /\ conn \in {"read", "done"} => recvOffset = StartOffset + taken
          /\ conn \in {"written", "count"} => recvOffset + chunk = StartOffset + taken
      BY <2>1 DEF IInv, CountInv, WriterInv
    <3>2. conn \in {"off", "open", "read", "written", "count", "done"} /\ chunk \in Nat
      BY DEF IInv, TypeOK
    <3>3. recvOffset \in Nat /\ StartOffset \in Nat /\ taken \in Nat
      BY FileFacts DEF IInv, TypeOK
    <3>4. QED
      BY <2>1, <3>1, <3>2, <3>3
  <2>3. CountInv'
    BY <2>1, <2>2 DEF IInv, CountInv
  <2>4. QED
    BY <2>1, <2>3, Quiet DEF QuietStep
<1>12. ASSUME OpenAOF PROVE DataInv'
  BY <1>12, OpenStep
<1>13. ASSUME OpenTimesOut PROVE DataInv'
  <2>1. QuietStep
    BY <1>13 DEF OpenTimesOut, receiver, disk, follower, sender, stat, chan, IInv, CountInv, QuietStep
  <2>2. CountInv'
    BY <1>13 DEF OpenTimesOut, receiver, disk, follower, sender, stat, chan, IInv, TypeOK, WriterInv, CountInv
  <2>3. QED
    BY <2>1, <2>2, Quiet
<1>14. ASSUME Loop PROVE DataInv'
  <2>1. QuietStep
    BY <1>14 DEF Loop, receiver, disk, follower, stat, chan, outside, IInv, CountInv, QuietStep
  <2>2. CountInv'
    BY <1>14 DEF Loop, receiver, disk, follower, stat, chan, outside, IInv, TypeOK, WriterInv, CountInv
  <2>3. QED
    BY <2>1, <2>2, Quiet
<1>15. ASSUME NEW n \in Nat, ReadAOF(n) PROVE DataInv'
  BY <1>15, ReadStep
<1>16. ASSUME ReadEOF PROVE DataInv'
  <2>1. QuietStep
    BY <1>16 DEF ReadEOF, receiver, disk, follower, stat, chan, outside, IInv, CountInv, QuietStep
  <2>2. CountInv'
    BY <1>16 DEF ReadEOF, receiver, disk, follower, stat, chan, outside, IInv, TypeOK, WriterInv, CountInv
  <2>3. QED
    BY <2>1, <2>2, Quiet
<1>17. ASSUME readNextFile PROVE DataInv'
  <2>1. CASE ~(rOffset \in onDisk /\ rName # rOffset)
    <3>1. QuietStep
      BY <1>17, <2>1 DEF readNextFile, receiver, disk, stat, chan, outside, QuietStep
    <3>2. CountInv'
      BY <1>17, <3>1 DEF readNextFile, receiver, disk, stat, chan, outside, IInv, CountInv
    <3>3. QED
      BY <3>1, <3>2, Quiet
  <2>2. CASE rOffset \in onDisk /\ rName # rOffset
    BY <1>17, <2>2, NextFileStep
  <2>3. QED
    BY <2>1, <2>2
<1>18. ASSUME ReadCancelled PROVE DataInv'
  <2>1. QuietStep
    BY <1>18 DEF ReadCancelled, receiver, disk, follower, stat, chan, outside, IInv, CountInv, QuietStep
  <2>2. CountInv'
    BY <1>18 DEF ReadCancelled, receiver, disk, follower, stat, chan, outside, IInv, TypeOK, WriterInv, CountInv
  <2>3. QED
    BY <2>1, <2>2, Quiet
<1>19. ASSUME ParseCommand PROVE DataInv'
  <2>1. QuietStep
    BY <1>19 DEF ParseCommand, receiver, disk, follower, chan, outside, IInv, CountInv, QuietStep
  <2>2. CountInv'
    BY <1>19 DEF ParseCommand, receiver, disk, follower, chan, outside, IInv, TypeOK, WriterInv, CountInv
  <2>3. QED
    BY <2>1, <2>2, Quiet
<1>20. ASSUME PushEntry PROVE DataInv'
  <2>1. QuietStep
    BY <1>20 DEF PushEntry, receiver, disk, follower, stat, outside, IInv, CountInv, QuietStep
  <2>2. CountInv'
    BY <1>20 DEF PushEntry, receiver, disk, follower, stat, outside, IInv, TypeOK, WriterInv, CountInv
  <2>3. QED
    BY <2>1, <2>2, Quiet
<1>21. ASSUME CloseChannel PROVE DataInv'
  <2>1. QuietStep
    BY <1>21 DEF CloseChannel, receiver, disk, follower, stat, chan, outside, IInv, CountInv, QuietStep
  <2>2. CountInv'
    BY <1>21 DEF CloseChannel, receiver, disk, follower, stat, chan, outside, IInv, TypeOK, WriterInv, CountInv
  <2>3. QED
    BY <2>1, <2>2, Quiet
<1>22. ASSUME Pump PROVE DataInv'
  <2>1. QuietStep
    BY <1>22 DEF Pump, receiver, disk, follower, sender, stat, outside, IInv, CountInv, QuietStep
  <2>2. CountInv'
    BY <1>22 DEF Pump, receiver, disk, follower, sender, stat, outside, IInv, TypeOK, WriterInv, CountInv
  <2>3. QED
    BY <2>1, <2>2, Quiet
<1>23. ASSUME Cancel PROVE DataInv'
  <2>1. QuietStep
    BY <1>23 DEF Cancel, receiver, disk, follower, sender, stat, chan, IInv, CountInv, QuietStep
  <2>2. CountInv'
    BY <1>23 DEF Cancel, receiver, disk, follower, sender, stat, chan, IInv, TypeOK, WriterInv, CountInv
  <2>3. QED
    BY <2>1, <2>2, Quiet
<1>24. ASSUME ConnectionLost PROVE DataInv'
  <2>1. QuietStep
    BY <1>24 DEF ConnectionLost, receiver, disk, follower, sender, stat, chan, IInv, CountInv, QuietStep
  <2>2. CountInv'
    BY <1>24 DEF ConnectionLost, receiver, disk, follower, sender, stat, chan, IInv, TypeOK, WriterInv, CountInv
  <2>3. QED
    BY <2>1, <2>2, Quiet
<1>25. ASSUME UNCHANGED vars PROVE DataInv'
  <2>1. UNCHANGED <<onDisk, content, rName, rPos, rOffset, got, taken, wName, wOffset, wSize,
                    conn, pc, chunk, recvOffset, acked>>
    BY <1>25 DEF vars, receiver, disk, follower, sender, stat
  <2>2. CountInv'
    BY <2>1 DEF IInv, CountInv
  <2>3. QED
    BY <2>1, <2>2, Quiet DEF QuietStep
<1>26. QED
  BY <1>1, <1>2, <1>3, <1>4, <1>5, <1>6, <1>7, <1>8, <1>9, <1>10, <1>11, <1>12, <1>13,
     <1>14, <1>15, <1>16, <1>17, <1>18, <1>19, <1>20, <1>21, <1>22, <1>23, <1>24, <1>25
     DEF Next, ReceiverStep, SenderStep

(* The invariant holds in every reachable state. *)
LEMMA Inv == Spec => []IInv
<1>1. IInv /\ [Next]_vars => IInv'
  BY TypeStep, DataStep DEF IInv, DataInv
<1>2. QED
  BY <1>1, InvInit, PTL DEF Spec

(* Every variable stays within its type, for every stream and every size. *)
THEOREM TypeCorrect == Spec => []TypeOK
<1>1. IInv => TypeOK
  BY DEF IInv
<1>2. QED
  BY <1>1, Inv, PTL

(***************************************************************************)
(* AOFReader returns the bytes of the stream in order, none lost, repeated *)
(* or swapped at a change of files.                                        *)
(***************************************************************************)
THEOREM ReaderFollowsStream == Spec => []BytesInOrder
<1>1. IInv => BytesInOrder
  BY DEF IInv
<1>2. QED
  BY <1>1, Inv, PTL

(***************************************************************************)
(* readNextFile removes no file with bytes still to be read: what was      *)
(* received and not yet read is in a file that exists.                     *)
(***************************************************************************)
THEOREM NoUnreadFileIsRemoved == Spec => []UnreadIsOnDisk
<1>1. IInv => UnreadIsOnDisk
  <2>1. SUFFICES ASSUME IInv, NEW b \in (StartOffset + Len(got) + 1)..(StartOffset + taken)
                 PROVE  \E f \in onDisk : \E i \in 1..Len(content[f]) : content[f][i] = b
    BY DEF UnreadIsOnDisk
  <2>2. PICK f \in onDisk : Base(f) < b /\ b <= End(f)
    BY <2>1 DEF IInv, ReaderInv
  <2>3. b \in Int /\ Base(f) \in Nat /\ Len(content[f]) \in Nat /\ End(f) = Base(f) + Len(content[f])
    BY <2>1, FileFacts
  <2>4. b - Base(f) \in 1..Len(content[f])
    BY <2>2, <2>3
  <2>5. content[f][b - Base(f)] = Base(f) + (b - Base(f))
    BY <2>1, <2>4 DEF IInv, FileInv
  <2>6. content[f][b - Base(f)] = b
    BY <2>3, <2>5
  <2>7. QED
    BY <2>4, <2>6
<1>2. QED
  BY <1>1, Inv, PTL

(***************************************************************************)
(* sendReplconfAck acknowledges only bytes that are in a file.             *)
(***************************************************************************)
THEOREM AcksAreCovered == Spec => []AckedIsOnDisk
<1>1. IInv => AckedIsOnDisk
  BY DEF IInv, CountInv, AckedIsOnDisk
<1>2. QED
  BY <1>1, Inv, PTL

-----------------------------------------------------------------------------
(***************************************************************************)
(* Entries.  What has been sent is described by EntriesExact itself; it is *)
(* inductive together with what each phase of StartRead has done so far.   *)
(***************************************************************************)
BeforeStream == {"psync", "rdb", "sendRdb"}
InStream     == {"openAof", "loop", "reading", "eof", "push"}

PhaseInv ==
  /\ pc \in BeforeStream => parsed = 0 /\ Len(Sent) = rdbSent
  /\ pc \in BeforeStream \cup {"openAof"} => sentOffset = 0
  /\ pc \in {"psync", "rdb"} => DbId = 0
  /\ pc = "sendRdb" => SyncRdb
  /\ pc \in InStream => ExecutedIn(parsed, DbId)
  /\ pc = "push" => parsed > 0 /\ Stream[parsed].kind = "data"
  /\ pc \notin BeforeStream /\ ~cancelled /\ SyncRdb => rdbSent = Len(RdbDbs)

EntryInv == EntriesExact /\ PhaseInv

(* The channel hands on what it is given: sending extends Sent, pumping keeps it. *)
LEMMA SentChanges ==
  ASSUME TypeOK
  PROVE  /\ Sent \in Seq(Entry) /\ Len(Sent) \in Nat
         /\ \A e \in Entry : out \o Append(ch, e) = Append(Sent, e)
         /\ ch # <<>> => Append(out, Head(ch)) \o Tail(ch) = Sent
<1>1. out \in Seq(Entry) /\ ch \in Seq(Entry)
  BY DEF TypeOK
<1>2. Sent \in Seq(Entry) /\ Len(Sent) \in Nat
  BY <1>1, ConcatProperties, LenProperties DEF Sent
<1>3. ASSUME NEW e \in Entry PROVE out \o Append(ch, e) = Append(Sent, e)
  <2>1. <<e>> \in Seq(Entry)
    OBVIOUS
  <2>2. Append(ch, e) = ch \o <<e>> /\ Append(Sent, e) = Sent \o <<e>>
    BY <1>1, <1>2, AppendIsConcat
  <2>3. QED
    BY <1>1, <2>1, <2>2, ConcatAssociative DEF Sent
<1>4. ASSUME ch # <<>> PROVE Append(out, Head(ch)) \o Tail(ch) = Sent
  <2>1. /\ Head(ch) \in Entry /\ Tail(ch) \in Seq(Entry) /\ Len(Tail(ch)) = Len(ch) - 1
        /\ \A i \in 1..Len(Tail(ch)) : Tail(ch)[i] = ch[i + 1]
        /\ Len(ch) \in Nat \ {0} /\ Len(out) \in Nat /\ Head(ch) = ch[1]
    BY <1>1, <1>4, HeadTailProperties, EmptySeq, LenProperties
  <2> DEFINE first == Append(out, Head(ch))
  <2>2. /\ first \in Seq(Entry) /\ Len(first) = Len(out) + 1 /\ first[Len(out) + 1] = Head(ch)
        /\ \A i \in 1..Len(out) : first[i] = out[i]
    BY <1>1, <2>1, AppendProperties
  <2> HIDE DEF first
  <2>3. /\ first \o Tail(ch) \in Seq(Entry) /\ Len(first \o Tail(ch)) = Len(out) + Len(ch)
        /\ \A i \in 1..Len(out) + Len(ch) :
             (first \o Tail(ch))[i] = IF i <= Len(out) + 1 THEN first[i] ELSE Tail(ch)[i - (Len(out) + 1)]
    BY <2>1, <2>2, ConcatProperties
  <2>4. /\ Len(Sent) = Len(out) + Len(ch)
        /\ \A i \in 1..Len(out) + Len(ch) : Sent[i] = IF i <= Len(out) THEN out[i] ELSE ch[i - Len(out)]
    BY <1>1, ConcatProperties DEF Sent
  <2>5. ASSUME NEW i \in 1..Len(out) + Len(ch) PROVE (first \o Tail(ch))[i] = Sent[i]
    <3>1. CASE i <= Len(out)
      BY <3>1, <2>1, <2>2, <2>3, <2>4
    <3>2. CASE i = Len(out) + 1
      <4>1. (first \o Tail(ch))[i] = Head(ch)
        BY <3>2, <2>1, <2>2, <2>3
      <4>2. Sent[i] = ch[1]
        BY <3>2, <2>1, <2>4
      <4>3. QED
        BY <4>1, <4>2, <2>1
    <3>3. CASE i > Len(out) + 1
      <4> DEFINE k == i - (Len(out) + 1)
      <4>1. k \in 1..Len(Tail(ch)) /\ k + 1 = i - Len(out)
        BY <3>3, <2>1
      <4>2. (first \o Tail(ch))[i] = Tail(ch)[k]
        BY <3>3, <2>1, <2>3
      <4>3. Sent[i] = ch[k + 1]
        BY <3>3, <4>1, <2>1, <2>4
      <4>4. QED
        BY <4>1, <4>2, <4>3, <2>1
    <3>4. i <= Len(out) \/ i = Len(out) + 1 \/ i > Len(out) + 1
      BY <2>1
    <3>5. QED
      BY <3>1, <3>2, <3>3, <3>4, Zenon
  <2>6. first \o Tail(ch) = Sent
    BY <1>2, <2>3, <2>4, <2>5, SeqEqual
  <2>7. QED
    BY <2>6 DEF first
<1>5. QED
  BY <1>2, <1>3, <1>4

(* SELECT changes the database for what follows, any other command keeps it. *)
LEMMA NextDb ==
  ASSUME NEW i \in Nat, NEW db, ExecutedIn(i, db)
  PROVE  ExecutedIn(i + 1, IF Stream[i + 1].kind = "select" THEN Stream[i + 1].db ELSE db)
<1>1. CASE Stream[i + 1].kind = "select"
  <2>1. i + 1 \in 1..(i + 1) /\ \A k \in (i + 1 + 1)..(i + 1) : FALSE
    OBVIOUS
  <2>2. QED
    BY <1>1, <2>1 DEF ExecutedIn
<1>2. CASE Stream[i + 1].kind # "select"
  <2>1. \A j \in 1..(i + 1) : j \in 1..i \/ j = i + 1
    OBVIOUS
  <2>2. \A j \in 1..i : j \in 1..(i + 1) /\ \A k \in (j + 1)..(i + 1) : k \in (j + 1)..i \/ k = i + 1
    OBVIOUS
  <2>3. QED
    BY <1>2, <2>1, <2>2 DEF ExecutedIn
<1>3. QED
  BY <1>1, <1>2

(* A step that sends nothing and handles no command. *)
LEMMA EntriesKept ==
  ASSUME EntriesExact, Sent' = Sent, rdbSent' = rdbSent, Handled' = Handled
  PROVE  EntriesExact'
BY DEF EntriesExact

(* ParseRDB sends its next entry. *)
LEMMA RdbEntryStep == ASSUME TypeOK, EntryInv, SendRdbEntry PROVE EntryInv'
<1> DEFINE e == [from |-> "rdb", n |-> rdbSent + 1, db |-> RdbDbs[rdbSent + 1]]
<1>1. /\ pc = "sendRdb" /\ rdbSent \in 0..Len(RdbDbs) /\ rdbSent < Len(RdbDbs) /\ rdbSent' = rdbSent + 1
      /\ UNCHANGED <<pc, parsed, DbId, out, sentOffset, cancelled>> /\ ch' = Append(ch, e)
      /\ Len(RdbDbs) \in Nat /\ rdbSent \in Nat
  BY SyncAssumption DEF SendRdbEntry, TypeOK, stat, outside
<1>2. e \in Entry
  BY <1>1, SyncAssumption DEF Entry
<1>3. Sent' = Append(Sent, e) /\ Sent \in Seq(Entry)
  BY <1>1, <1>2, SentChanges DEF Sent
<1>4. parsed = 0 /\ Len(Sent) = rdbSent
  BY <1>1 DEF EntryInv, PhaseInv, BeforeStream
<1> HIDE DEF e
<1>5. /\ Len(Sent') = rdbSent + 1 /\ Sent'[rdbSent + 1] = e
      /\ \A i \in 1..rdbSent : Sent'[i] = Sent[i]
  BY <1>2, <1>3, <1>4, AppendProperties
<1>6. Handled' = 0
  BY <1>1, <1>4 DEF Handled
<1>7. \A i \in 1..(rdbSent + 1) : Sent'[i] = [from |-> "rdb", n |-> i, db |-> RdbDbs[i]]
  <2>1. ASSUME NEW i \in 1..(rdbSent + 1) PROVE Sent'[i] = [from |-> "rdb", n |-> i, db |-> RdbDbs[i]]
    <3>1. CASE i \in 1..rdbSent
      BY <3>1, <1>5 DEF EntryInv, EntriesExact
    <3>2. CASE i = rdbSent + 1
      BY <3>2, <1>5 DEF e
    <3>3. QED
      BY <3>1, <3>2, <1>1
  <2>2. QED
    BY <2>1
<1>8. EntriesExact'
  BY <1>1, <1>5, <1>6, <1>7 DEF EntriesExact
<1>9. PhaseInv'
  BY <1>1, <1>4, <1>5 DEF EntryInv, PhaseInv, BeforeStream, InStream
<1>10. QED
  BY <1>8, <1>9 DEF EntryInv

(* sendAOF sends the command it has read. *)
LEMMA PushStep == ASSUME TypeOK, EntryInv, PushEntry PROVE EntryInv'
<1> DEFINE e == [from |-> "aof", n |-> parsed, db |-> DbId]
<1>1. /\ pc = "push" /\ pc' = "loop" /\ UNCHANGED <<parsed, DbId, rdbSent, out, sentOffset, cancelled>>
      /\ ch' = Append(ch, e) /\ parsed \in Nat /\ rdbSent \in Nat /\ DbId \in Nat
  BY SyncAssumption DEF PushEntry, TypeOK, stat, outside
<1>2. e \in Entry
  BY <1>1 DEF Entry
<1>3. Sent' = Append(Sent, e) /\ Sent \in Seq(Entry) /\ Len(Sent) \in Nat
  BY <1>1, <1>2, SentChanges DEF Sent
<1>4. parsed > 0 /\ Stream[parsed].kind = "data" /\ ExecutedIn(parsed, DbId)
  BY <1>1 DEF EntryInv, PhaseInv, InStream
<1> HIDE DEF e
<1>5. /\ Len(Sent') = Len(Sent) + 1 /\ Sent'[Len(Sent) + 1] = e
      /\ \A i \in 1..Len(Sent) : Sent'[i] = Sent[i]
  BY <1>2, <1>3, AppendProperties
<1>6. Handled' = parsed /\ Handled = parsed - 1
  BY <1>1 DEF Handled
<1>7. e.from = "aof" /\ e.n = parsed /\ e.db = DbId
  BY DEF e
<1>8. rdbSent <= Len(Sent)
  BY DEF EntryInv, EntriesExact
<1>9. ASSUME NEW i \in (rdbSent + 1)..Len(Sent')
      PROVE  /\ Sent'[i].from = "aof" /\ Sent'[i].n \in 1..parsed
             /\ Stream[Sent'[i].n].kind = "data" /\ ExecutedIn(Sent'[i].n, Sent'[i].db)
             /\ \A j \in (rdbSent + 1)..(i - 1) : Sent'[j].n < Sent'[i].n
  <2>1. CASE i \in (rdbSent + 1)..Len(Sent)
    <3>1. Sent'[i] = Sent[i] /\ \A j \in (rdbSent + 1)..(i - 1) : Sent'[j] = Sent[j]
      BY <2>1, <1>1, <1>3, <1>5
    <3>2. /\ Sent[i].from = "aof" /\ Sent[i].n \in 1..(parsed - 1)
          /\ Stream[Sent[i].n].kind = "data" /\ ExecutedIn(Sent[i].n, Sent[i].db)
          /\ \A j \in (rdbSent + 1)..(i - 1) : Sent[j].n < Sent[i].n
      BY <2>1, <1>6 DEF EntryInv, EntriesExact
    <3>3. Sent[i].n \in 1..parsed
      BY <3>2, <1>1
    <3>4. QED
      BY <3>1, <3>2, <3>3
  <2>2. CASE i = Len(Sent) + 1
    <3>1. Sent'[i] = e
      BY <2>2, <1>5
    <3>2. ASSUME NEW j \in (rdbSent + 1)..(i - 1) PROVE Sent'[j].n < parsed
      <4>1. j \in (rdbSent + 1)..Len(Sent) /\ j \in 1..Len(Sent)
        BY <2>2, <3>2, <1>1, <1>3
      <4>2. Sent[j].n \in 1..(parsed - 1)
        BY <4>1, <1>6 DEF EntryInv, EntriesExact
      <4>3. QED
        BY <4>1, <4>2, <1>1, <1>5
    <3>3. QED
      BY <3>1, <3>2, <1>1, <1>4, <1>7
  <2>3. QED
    BY <2>1, <2>2, <1>1, <1>3, <1>5
<1>10. ASSUME NEW c \in 1..parsed, Stream[c].kind = "data"
       PROVE  \E i \in (rdbSent + 1)..Len(Sent') : Sent'[i].n = c
  <2>1. CASE c = parsed
    BY <2>1, <1>1, <1>3, <1>5, <1>7, <1>8
  <2>2. CASE c \in 1..(parsed - 1)
    <3>1. PICK i \in (rdbSent + 1)..Len(Sent) : Sent[i].n = c
      BY <2>2, <1>6, <1>10 DEF EntryInv, EntriesExact
    <3>2. i \in (rdbSent + 1)..Len(Sent') /\ Sent'[i] = Sent[i]
      BY <3>1, <1>1, <1>3, <1>5
    <3>3. QED
      BY <3>1, <3>2
  <2>3. QED
    BY <2>1, <2>2, <1>1
<1>11. \A i \in 1..rdbSent : Sent'[i] = [from |-> "rdb", n |-> i, db |-> RdbDbs[i]]
  <2>1. \A i \in 1..rdbSent : i \in 1..Len(Sent)
    BY <1>1, <1>3, <1>8
  <2>2. QED
    BY <2>1, <1>5 DEF EntryInv, EntriesExact
<1>12. EntriesExact'
  BY <1>1, <1>3, <1>5, <1>6, <1>8, <1>9, <1>10, <1>11 DEF EntriesExact
<1>13. PhaseInv'
  BY <1>1, <1>4 DEF EntryInv, PhaseInv, BeforeStream, InStream
<1>14. QED
  BY <1>12, <1>13 DEF EntryInv

(* ReadReply returns a command; one that is not data is handled by that. *)
LEMMA ParseStep == ASSUME TypeOK, EntryInv, ParseCommand PROVE EntryInv'
<1>1. /\ pc = "reading" /\ parsed' = parsed + 1 /\ parsed \in Nat
      /\ UNCHANGED <<out, ch, rdbSent, cancelled>>
      /\ DbId' = (IF Cmd.kind = "select" THEN Cmd.db ELSE DbId)
      /\ pc' = (IF Cmd.kind = "data" THEN "push" ELSE "loop")
  BY DEF ParseCommand, TypeOK, chan, outside
<1>2. Sent' = Sent
  BY <1>1 DEF Sent
<1>3. ExecutedIn(parsed', DbId')
  <2>1. ExecutedIn(parsed, DbId)
    BY <1>1 DEF EntryInv, PhaseInv, InStream
  <2>2. QED
    BY <1>1, <2>1, NextDb DEF Cmd
<1>4. PhaseInv'
  BY <1>1, <1>3 DEF EntryInv, PhaseInv, BeforeStream, InStream, Cmd
<1>5. CASE Cmd.kind = "data"
  <2>1. Handled' = Handled
    BY <1>1, <1>5 DEF Handled
  <2>2. QED
    BY <1>1, <1>2, <1>4, <2>1, EntriesKept DEF EntryInv
<1>6. CASE Cmd.kind # "data"
  <2>1. Handled = parsed /\ Handled' = parsed + 1
    BY <1>1, <1>6 DEF Handled
  <2>2. /\ \A c \in 1..(parsed + 1) : c \in 1..parsed \/ Stream[c].kind # "data"
        /\ 1..parsed \subseteq 1..(parsed + 1)
    BY <1>1, <1>6 DEF Cmd
  <2>3. EntriesExact'
    BY <1>1, <1>2, <2>1, <2>2 DEF EntryInv, EntriesExact
  <2>4. QED
    BY <1>4, <2>3 DEF EntryInv
<1>7. QED
  BY <1>5, <1>6

LEMMA EntryInvInit == Init => EntryInv
<1> SUFFICES ASSUME Init PROVE EntryInv
  OBVIOUS
<1>1. Sent = <<>> /\ Len(Sent) = 0
  BY DEF Init, Sent
<1>2. Handled = 0 /\ rdbSent = 0 /\ parsed = 0 /\ pc = "psync" /\ DbId = 0 /\ sentOffset = 0
  BY DEF Init, Handled
<1>3. EntriesExact
  BY <1>1, <1>2 DEF EntriesExact
<1>4. PhaseInv
  BY <1>1, <1>2 DEF PhaseInv, BeforeStream, InStream
<1>5. QED
  BY <1>3, <1>4 DEF EntryInv

LEMMA EntryInvNext == TypeOK /\ EntryInv /\ [Next]_vars => EntryInv'
<1> SUFFICES ASSUME TypeOK, EntryInv, [Next]_vars PROVE EntryInv'
  OBVIOUS
<1> USE DEF receiver, disk, follower, stat, chan, outside
<1>1. CASE SendRdbEntry
  BY <1>1, RdbEntryStep
<1>2. CASE PushEntry
  BY <1>2, PushStep
<1>3. CASE ParseCommand
  BY <1>3, ParseStep
<1>4. CASE Pump
  <2>1. /\ Sent' = Sent
        /\ UNCHANGED <<pc, parsed, DbId, rdbSent, sentOffset, cancelled>>
    BY <1>4, SentChanges DEF Pump, Sent, sender
  <2>2. Handled' = Handled
    BY <2>1 DEF Handled
  <2>3. QED
    BY <2>1, <2>2, EntriesKept DEF EntryInv, PhaseInv
<1>5. ASSUME UNCHANGED <<out, ch, rdbSent, parsed, sentOffset>>, pc # "push" \/ pc' = "push", pc' # "push" \/ pc = "push",
             PhaseInv'
      PROVE  EntryInv'
  BY <1>5, EntriesKept DEF EntryInv, Sent, Handled
<1>6. ASSUME UNCHANGED <<out, ch>>
      PROVE  Sent' = Sent
  BY <1>6 DEF Sent
<1>7. CASE SendPSync \/ PSyncCancelled
  BY <1>5, <1>6, <1>7 DEF SendPSync, PSyncCancelled, EntryInv, PhaseInv, BeforeStream, InStream
<1>8. CASE ReceiveRDB
  <2>1. /\ pc = "rdb" /\ pc' \in {"sendRdb", "openAof", "close"} /\ (pc' = "sendRdb" <=> SyncRdb)
        /\ UNCHANGED <<out, ch, rdbSent, parsed, DbId, sentOffset, cancelled>>
    BY <1>8, SyncAssumption DEF ReceiveRDB, AfterRdb
  <2>2. DbId = 0 /\ parsed = 0
    BY <2>1 DEF EntryInv, PhaseInv, BeforeStream
  <2>3. ~SyncRdb => ExecutedIn(0, 0)
    BY DEF ExecutedIn
  <2>4. QED
    BY <1>5, <1>6, <2>1, <2>2, <2>3 DEF EntryInv, PhaseInv, BeforeStream, InStream
<1>9. CASE RdbSent
  <2>1. /\ pc = "sendRdb" /\ pc' \in {"openAof", "close"} /\ DbId' = ReplStreamDb
        /\ rdbSent = Len(RdbDbs) \/ cancelled
        /\ UNCHANGED <<out, ch, rdbSent, parsed, sentOffset, cancelled>>
    BY <1>9 DEF RdbSent, AfterRdb
  <2>2. SyncRdb /\ parsed = 0
    BY <2>1 DEF EntryInv, PhaseInv, BeforeStream
  <2>3. ExecutedIn(0, ReplStreamDb)
    BY <2>2 DEF ExecutedIn
  <2>4. QED
    BY <1>5, <2>1, <2>2, <2>3 DEF EntryInv, PhaseInv, BeforeStream, InStream
<1>10. CASE OpenAOF \/ Loop \/ ReadEOF \/ readNextFile \/ ReadCancelled \/ CloseChannel
  BY <1>5, <1>10 DEF OpenAOF, Loop, ReadEOF, readNextFile, ReadCancelled, CloseChannel, EntryInv,
                     PhaseInv, BeforeStream, InStream
<1>11. CASE Cancel
  <2>1. UNCHANGED <<out, ch, pc, parsed, DbId, rdbSent, sentOffset>> /\ cancelled'
    BY <1>11 DEF Cancel, sender
  <2>2. Sent' = Sent
    BY <1>6, <2>1
  <2>3. PhaseInv'
    BY <2>1, <2>2 DEF EntryInv, PhaseInv
  <2>4. QED
    BY <1>5, <2>1, <2>3
<1>12. CASE UNCHANGED <<out, ch, sender, sentOffset, cancelled>>
  <2>1. UNCHANGED <<out, ch, pc, parsed, DbId, rdbSent, sentOffset, cancelled>>
    BY <1>12 DEF sender
  <2>2. QED
    BY <1>5, <1>6, <2>1 DEF EntryInv, PhaseInv
<1>13. ReceiverStep \/ (\E n \in 1..ReadSize : ReceiveAOF(n)) \/ SendReplconfAck \/ OpenTimesOut
         \/ (\E n \in 1..ReadAhead : ReadAOF(n)) \/ ConnectionLost \/ UNCHANGED vars
           => UNCHANGED <<out, ch, sender, sentOffset, cancelled>>
  BY DEF ReceiverStep, OpenFirst, Rotate, CountReceived, ReceiverCancelled, ReceiveAOF,
         SendReplconfAck, OpenTimesOut, ReadAOF, ConnectionLost, vars
<1>14. QED
  BY <1>1, <1>2, <1>3, <1>4, <1>7, <1>8, <1>9, <1>10, <1>11, <1>12, <1>13 DEF Next, SenderStep

LEMMA EntryInvAlways == Spec => []EntryInv
<1>1. IInv => TypeOK
  BY DEF IInv
<1>2. QED
  BY <1>1, Inv, EntryInvInit, EntryInvNext, PTL DEF Spec

(***************************************************************************)
(* main receives the entries of the RDB and then the data commands of the  *)
(* stream, each once, in order and in the database the source executed it  *)
(* in: for every stream, every placement of SELECTs and every capacity.    *)
(***************************************************************************)
THEOREM EntriesAreExact == Spec => []EntriesExact
<1>1. EntryInv => EntriesExact
  BY DEF EntryInv
<1>2. QED
  BY <1>1, EntryInvAlways, PTL

(***************************************************************************)
(* The reader does not report consistency before the last entry of the RDB *)
(* has left its channel.                                                   *)
(***************************************************************************)
THEOREM ConsistencyIsNotEarly == Spec => []ConsistentAfterRdb
<1>1. TypeOK /\ EntryInv => ConsistentAfterRdb
  <2>1. SUFFICES ASSUME TypeOK, EntryInv, StatusConsistent, SyncRdb, ~cancelled,
                        NEW k \in 1..Len(RdbDbs)
                 PROVE  \E i \in 1..Len(out) : out[i].from = "rdb" /\ out[i].n = k
    BY DEF ConsistentAfterRdb
  <2>2. sentOffset # 0 /\ ch = <<>>
    BY <2>1 DEF StatusConsistent
  <2>3. rdbSent = Len(RdbDbs)
    BY <2>1, <2>2 DEF EntryInv, PhaseInv, BeforeStream
  <2>4. Sent = out
    BY <2>1, <2>2, ConcatEmptySeq DEF Sent, TypeOK
  <2>5. Len(out) \in Nat /\ Len(RdbDbs) \in Nat
    BY <2>1, SyncAssumption DEF TypeOK
  <2>6. k \in 1..Len(out) /\ out[k] = [from |-> "rdb", n |-> k, db |-> RdbDbs[k]]
    BY <2>1, <2>3, <2>4, <2>5 DEF EntryInv, EntriesExact
  <2>7. QED
    BY <2>6
<1>2. IInv => TypeOK
  BY DEF IInv
<1>3. QED
  BY <1>1, <1>2, Inv, EntryInvAlways, PTL

=============================================================================
