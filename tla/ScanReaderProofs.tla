-------------------------- MODULE ScanReaderProofs --------------------------
(***************************************************************************)
(* The goroutines of the scan reader stay in step: the replies restore     *)
(* counts off belong to the key it took, for every number of databases,    *)
(* keys, changes and every capacity, and UniqueQueue is a first-in         *)
(* first-out queue without duplicates.                                     *)
(***************************************************************************)
EXTENDS ScanReader, SequenceTheorems, FiniteSetTheorems, TLAPS

-----------------------------------------------------------------------------
(* Types *)

(* What SetToSeq makes of a finite set is a sequence of its elements. *)
LEMMA SetToSeqIsSeq ==
  ASSUME NEW S, IsFiniteSet(S)
  PROVE  SetToSeq(S) \in Seq(S)
<1>1. Cardinality(S) \in Nat /\ ExistsBijection(1..Cardinality(S), S)
  BY FS_CardinalityType
<1>2. \E f \in [1..Cardinality(S) -> S] : IsInjective(f)
  BY <1>1 DEF ExistsBijection, Bijection, Injection, IsInjective
<1>3. SetToSeq(S) \in [1..Cardinality(S) -> S]
  BY <1>2 DEF SetToSeq
<1>4. QED
  BY <1>1, <1>3

LEMMA ScanOrderIsSeq == ScanOrder \in Seq(Items)
<1> DEFINE A == {i \in Items : i.db = 0}
           B == {i \in Items : i.db # 0}
<1>1. IsFiniteSet(A) /\ IsFiniteSet(B)
  BY ScanAssumption, FS_Subset
<1>2. SetToSeq(A) \in Seq(A) /\ SetToSeq(B) \in Seq(B)
  BY <1>1, SetToSeqIsSeq
<1>3. SetToSeq(A) \in Seq(Items) /\ SetToSeq(B) \in Seq(Items)
  BY <1>2, SeqMonotonic
<1>4. QED
  BY <1>3, ConcatProperties DEF ScanOrder

LEMMA CountIsNat == Cardinality(Items) \in Nat
  BY ScanAssumption, FS_CardinalityType

LEMMA VersionFacts == 0 \in Version /\ Version \subseteq Nat
  BY ScanAssumption, CountIsNat DEF Version

LEMMA TypeInit == Init => TypeOK
<1> SUFFICES ASSUME Init PROVE TypeOK
  OBVIOUS
<1>1. SourceOK
  BY ScanAssumption DEF Init, SourceOK
<1>2. ProducersOK
  BY ScanOrderIsSeq DEF Init, ProducersOK
<1>3. QueueOK
  BY EmptySeq DEF Init, QueueOK
<1>4. DumpOK
  <2>1. Len(restoreChan) <= RestoreCap
    BY ScanAssumption, EmptySeq DEF Init
  <2>2. dump \in [pc : {"range", "push", "done"}, item : Items \cup {NoItem}, db : Dbs]
        /\ dump.pc # "push"
    BY ScanAssumption DEF Init
  <2>3. QED
    BY ScanAssumption, EmptySeq, <2>1, <2>2 DEF Init, DumpOK
<1>5. RestoreOK
  <2>1. NoValue \in Value
    BY VersionFacts DEF NoValue, Value
  <2>2. restore \in [pc : {"range", "emit", "done"}, db : Dbs, out : Seq(Restored)]
        /\ ch \in Seq(Entry) /\ Len(ch) <= ChCap
    BY ScanAssumption, EmptySeq DEF Init
  <2>3. QED
    BY <2>1, <2>2 DEF Init, RestoreOK
<1>6. QED
  BY <1>1, <1>2, <1>3, <1>4, <1>5 DEF TypeOK

(* A send on the closed channel panics; any other adds the item. *)
LEMMA PutSendType ==
  ASSUME QueueOK, NEW i \in Items, PutSend(i), UNCHANGED q
  PROVE  QueueOK' /\ panicked' \in BOOLEAN
  BY DEF QueueOK, PutSend

LEMMA CloseInnerType ==
  ASSUME QueueOK, CloseInner, UNCHANGED q
  PROVE  QueueOK' /\ panicked' \in BOOLEAN
  BY DEF QueueOK, CloseInner

LEMMA SourceType ==
  ASSUME TypeOK, NEW i \in Changing, SourceSet(i) \/ SourceDel(i) \/ SourceExpire(i)
  PROVE  TypeOK'
<1>1. PICK v \in Version, d \in BOOLEAN : Change(i, v, d)
  <2>1. 0 \in Version /\ (changes < MaxChanges => Cardinality(Items) + changes + 1 \in Version)
    BY ScanAssumption, CountIsNat DEF Version, TypeOK, SourceOK
  <2>2. CASE SourceSet(i)
    BY <2>1, <2>2 DEF SourceSet, Change
  <2>3. CASE SourceDel(i)
    BY <2>1, <2>3 DEF SourceDel
  <2>4. CASE SourceExpire(i)
    BY <2>1, <2>4 DEF SourceExpire
  <2>5. QED
    BY <2>2, <2>3, <2>4
<1>2. i \in Items
  BY ScanAssumption
<1>3. [item |-> i, del |-> d] \in Event
  BY <1>2 DEF Event
<1>4. /\ src' \in [Items -> Version] /\ changes' \in 0..MaxChanges
  BY <1>1, <1>2, ScanAssumption DEF Change, TypeOK, SourceOK
<1>5. events' \in Seq(Event) /\ Len(events') <= MaxEvents
  <2>1. events \in Seq(Event) /\ Len(events) < MaxEvents /\ Len(events) \in Nat
    BY <1>1, LenProperties DEF Change, TypeOK, SourceOK
  <2>2. events' = events \/ events' = Append(events, [item |-> i, del |-> d])
    BY <1>1 DEF Change, Publish
  <2>3. QED
    BY <1>3, <2>1, <2>2, AppendProperties, ScanAssumption
<1>6. SourceOK'
  BY <1>1, <1>4, <1>5 DEF Change, TypeOK, SourceOK
<1>7. ProducersOK' /\ QueueOK'
  BY <1>1 DEF Change, TypeOK, ProducersOK, QueueOK, queue
<1>8. DumpOK' /\ RestoreOK'
  BY <1>1 DEF Change, TypeOK, DumpOK, RestoreOK, conn, toRest, out
<1>9. QED
  BY <1>6, <1>7, <1>8 DEF TypeOK

LEMMA RepliesType ==
  ASSUME TypeOK, SourceReplies
  PROVE  TypeOK'
<1> DEFINE req == Head(reqs)
           i   == [db |-> connDb, name |-> req.item.name]
<1>1. req \in Request /\ reqs' \in Seq(Request)
  BY DEF SourceReplies, TypeOK, DumpOK
<1>2. i \in Items /\ src[i] \in Version
  BY <1>1 DEF Request, Items, TypeOK, DumpOK, SourceOK
<1>3. \E r \in Reply : replies' = Append(replies, r) /\ connDb' \in Dbs
  <2>1. CASE req.op = "SELECT"
    BY <1>1, <2>1 DEF SourceReplies, Request, Items, Reply
  <2>2. CASE req.op = "DUMP"
    BY <1>2, <2>2 DEF SourceReplies, Reply, TypeOK, DumpOK
  <2>3. CASE req.op = "PTTL"
    BY <1>2, <2>3 DEF SourceReplies, Reply, PttlOf, TypeOK, DumpOK
  <2>4. CASE req.op = "TYPE"
    <3>1. replies' = Append(replies, [kind |-> "type", skip |-> src[i] \in Foreign]) /\ connDb' = connDb
      BY <2>4 DEF SourceReplies
    <3>2. [kind |-> "type", skip |-> src[i] \in Foreign] \in Reply
      BY DEF Reply
    <3>3. QED
      BY <3>1, <3>2 DEF TypeOK, DumpOK
  <2>5. QED
    BY <1>1, <2>1, <2>2, <2>3, <2>4 DEF Request
<1>4. DumpOK'
  BY <1>1, <1>3 DEF SourceReplies, TypeOK, DumpOK, toRest
<1>5. SourceOK' /\ ProducersOK' /\ QueueOK' /\ RestoreOK'
  BY DEF SourceReplies, TypeOK, SourceOK, ProducersOK, QueueOK, RestoreOK, source, queue, out
<1>6. QED
  BY <1>4, <1>5 DEF TypeOK

LEMMA QueueType ==
  ASSUME TypeOK, QueueStep
  PROVE  TypeOK'
<1>1. QueueOK'
  BY DEF QueueStep, QTake, QDelete, QClose, TypeOK, QueueOK, queue
<1>2. SourceOK' /\ ProducersOK' /\ DumpOK' /\ RestoreOK'
  BY DEF QueueStep, TypeOK, SourceOK, ProducersOK, DumpOK, RestoreOK, source, conn, toRest, out
<1>3. QED
  BY <1>1, <1>2 DEF TypeOK

LEMMA SubType ==
  ASSUME TypeOK, SubStep
  PROVE  TypeOK'
<1> USE DEF TypeOK
<1>1. mode' = mode /\ src' = src /\ changes' = changes /\ scan' = scan /\ q' = q
      /\ DumpOK' /\ UNCHANGED <<scanFinished, restore, tgt, cancelled>>
  BY DEF SubStep, DumpOK, conn, toRest
<1>2. CASE SubLoop
  <2>1. QueueOK' /\ panicked' \in BOOLEAN
    BY <1>1, <1>2, CloseInnerType DEF SubLoop, queue, QueueOK, ProducersOK
  <2>2. QED
    BY <1>1, <1>2, <2>1 DEF SubLoop, SourceOK, ProducersOK, RestoreOK, out
<1>3. CASE SubReceive
  <2>1. Head(events) \in Event /\ events' \in Seq(Event)
        /\ Len(events') <= MaxEvents
    BY <1>3, ScanAssumption, HeadTailProperties, LenProperties DEF SubReceive, SourceOK
  <2>2. SourceOK'
    BY <1>1, <2>1 DEF SourceOK
  <2>3. QueueOK' /\ ProducersOK'
    BY <1>1, <1>3, <2>1 DEF SubReceive, Event, PutCheck, QueueOK, ProducersOK
  <2>4. QED
    BY <1>1, <1>3, <2>2, <2>3 DEF SubReceive, RestoreOK, out
<1>4. CASE SubPut
  <2>1. QueueOK' /\ panicked' \in BOOLEAN
    BY <1>1, <1>4, PutSendType DEF SubPut, ProducersOK
  <2>2. QED
    BY <1>1, <1>4, <2>1 DEF SubPut, SourceOK, ProducersOK, RestoreOK, out
<1>5. CASE SubDel
  <2>1. [op |-> "DEL", item |-> sub.item] \in Entry
    BY <1>5 DEF SubDel, Entry, ProducersOK
  <2>2. ch' \in Seq(Entry) /\ Len(ch') <= ChCap
    BY <1>5, <2>1, ScanAssumption DEF SubDel, RestoreOK
  <2>3. RestoreOK'
    BY <1>1, <1>5, <2>2 DEF SubDel, RestoreOK
  <2>4. QED
    BY <1>1, <1>5, <2>3 DEF SubDel, SourceOK, ProducersOK, RestoreOK, QueueOK, queue
<1>6. QED
  BY <1>2, <1>3, <1>4, <1>5 DEF SubStep

LEMMA ScanType ==
  ASSUME TypeOK, ScanStep
  PROVE  TypeOK'
<1> USE DEF TypeOK
<1>1. SourceOK' /\ DumpOK' /\ RestoreOK' /\ sub' = sub /\ q' = q /\ cancelled' = cancelled
  BY DEF ScanStep, SourceOK, DumpOK, RestoreOK, source, conn, toRest, out
<1>2. CASE ScanRound
  <2>1. QueueOK' /\ panicked' \in BOOLEAN
    BY <1>1, <1>2, CloseInnerType DEF ScanRound, queue, QueueOK, ProducersOK
  <2>2. Head(scan.todo) \in Items /\ Tail(scan.todo) \in Seq(Items)
    BY <1>2 DEF ScanRound, ProducersOK
  <2>3. QED
    BY <1>1, <1>2, <2>1, <2>2 DEF ScanRound, ProducersOK
<1>3. CASE ScanPutCheck
  BY <1>1, <1>3 DEF ScanPutCheck, PutCheck, ProducersOK, QueueOK
<1>4. CASE ScanPut
  <2>1. QueueOK' /\ panicked' \in BOOLEAN
    BY <1>1, <1>4, PutSendType DEF ScanPut, ProducersOK
  <2>2. QED
    BY <1>1, <1>4, <2>1 DEF ScanPut, ProducersOK
<1>5. CASE ScanEnd
  <2>1. QueueOK' /\ panicked' \in BOOLEAN
    BY <1>1, <1>5, CloseInnerType DEF ScanEnd, queue, QueueOK, ProducersOK
  <2>2. QED
    BY <1>1, <1>5, <2>1 DEF ScanEnd, ProducersOK
<1>6. QED
  BY <1>2, <1>3, <1>4, <1>5 DEF ScanStep

LEMMA CommandsType ==
  ASSUME DumpOK, NEW i \in Items
  PROVE  DumpCommands(i) \in Seq(Request)
<1>1. \A o \in {"SELECT", "DUMP", "PTTL", "TYPE"} : [op |-> o, item |-> i] \in Request
  BY DEF Request
<1>2. (IF SwitchesDb(dump.db, i) THEN <<[op |-> "SELECT", item |-> i]>> ELSE <<>>) \in Seq(Request)
  BY <1>1
<1>3. <<[op |-> "DUMP", item |-> i], [op |-> "PTTL", item |-> i]>> \in Seq(Request)
  BY <1>1
<1>4. (IF SkipUnknownType THEN <<[op |-> "TYPE", item |-> i]>> ELSE <<>>) \in Seq(Request)
  BY <1>1
<1>5. QED
  BY <1>2, <1>3, <1>4, ConcatProperties DEF DumpCommands

LEMMA DumpType ==
  ASSUME TypeOK, DumpStep
  PROVE  TypeOK'
<1> USE DEF TypeOK
<1>1. SourceOK' /\ ProducersOK' /\ RestoreOK' /\ UNCHANGED <<inner, innerClosed, set, connDb, replies>>
  BY DEF DumpStep, SourceOK, ProducersOK, RestoreOK, source, queue, out
<1>2. CASE DumpItem
  <2>1. q.item \in Items /\ q.item.db \in Dbs
    BY <1>2 DEF DumpItem, QueueOK, Items
  <2>2. reqs' \in Seq(Request)
    BY <1>2, <2>1, CommandsType, ConcatProperties DEF DumpItem, DumpOK
  <2>3. QueueOK'
    BY <1>1, <1>2 DEF DumpItem, QueueOK
  <2>4. DumpOK'
    BY <1>1, <1>2, <2>1, <2>2 DEF DumpItem, DumpOK, toRest
  <2>5. QED
    BY <1>1, <2>3, <2>4
<1>3. CASE DumpPush
  <2>1. restoreChan' \in Seq(Items) /\ Len(restoreChan') <= RestoreCap
    BY <1>3, ScanAssumption, AppendProperties, LenProperties DEF DumpPush, DumpOK
  <2>2. QueueOK' /\ DumpOK'
    BY <1>1, <1>3, <2>1 DEF DumpPush, QueueOK, DumpOK
  <2>3. QED
    BY <1>1, <2>2
<1>4. CASE DumpEnd
  BY <1>1, <1>4 DEF DumpEnd, QueueOK, DumpOK
<1>5. QED
  BY <1>2, <1>3, <1>4 DEF DumpStep

(* What restore sends for a key: RESTORE, or the commands and PEXPIRE. *)
LEMMA EntriesType ==
  ASSUME NEW i \in Items, NEW d, d.of \in Items, d.ver \in Version, NEW ttl \in {0, 1, 5}
  PROVE  /\ RestoreEntries(i, d, ttl) \in Seq(Restored)
         /\ \A n \in 1..Len(RestoreEntries(i, d, ttl)) :
              RestoreEntries(i, d, ttl)[n].item = i /\ RestoreEntries(i, d, ttl)[n].of = d.of
<1> DEFINE e(o, t) == [op |-> o, item |-> i, of |-> d.of, ver |-> d.ver, ttl |-> t]
<1>1. \A o \in {"RESTORE", "COMMANDS", "PEXPIRE"}, t \in {0, ttl} :
        e(o, t) \in Restored /\ e(o, t).item = i /\ e(o, t).of = d.of
  BY DEF Restored
<1>2. RestoreEntries(i, d, ttl) \in {<<e("RESTORE", ttl)>>, <<e("COMMANDS", 0)>> \o <<>>,
                                     <<e("COMMANDS", 0)>> \o <<e("PEXPIRE", ttl)>>}
  BY DEF RestoreEntries
<1> HIDE DEF e
<1>3. PICK x \in Restored, y \in Restored :
        /\ x.item = i /\ x.of = d.of /\ y.item = i /\ y.of = d.of
        /\ RestoreEntries(i, d, ttl) \in {<<x>>, <<x>> \o <<>>, <<x>> \o <<y>>}
  <2>1. CASE RestoreEntries(i, d, ttl) = <<e("RESTORE", ttl)>>
    BY <1>1, <2>1
  <2>2. CASE RestoreEntries(i, d, ttl) # <<e("RESTORE", ttl)>>
    BY <1>1, <1>2, <2>2
  <2>3. QED
    BY <2>1, <2>2
<1> DEFINE s == RestoreEntries(i, d, ttl)
<1>4. s \in {<<x>>, <<x>> \o <<>>, <<x>> \o <<y>>}
  BY <1>3
<1> HIDE DEF s
<1>5. s \in Seq(Restored) /\ \A n \in 1..Len(s) : s[n].item = i /\ s[n].of = d.of
  <2>1. /\ <<x>> \in Seq(Restored) /\ Len(<<x>>) = 1 /\ <<x>>[1] = x
        /\ <<y>> \in Seq(Restored) /\ Len(<<y>>) = 1 /\ <<y>>[1] = y
    BY <1>3
  <2>2. ASSUME s = <<x>> \/ s = <<x>> \o <<>> PROVE s \in Seq(Restored) /\ Len(s) = 1 /\ s[1] = x
    BY <2>1, <2>2, ConcatEmptySeq
  <2>3. ASSUME s = <<x>> \o <<y>> PROVE s \in Seq(Restored) /\ Len(s) = 2 /\ s[1] = x /\ s[2] = y
    <3>1. /\ s \in Seq(Restored) /\ Len(s) = Len(<<x>>) + Len(<<y>>)
          /\ \A n \in 1..Len(<<x>>) + Len(<<y>>) :
               s[n] = IF n <= Len(<<x>>) THEN <<x>>[n] ELSE <<y>>[n - Len(<<x>>)]
      BY <2>1, <2>3, ConcatProperties
    <3>2. QED
      BY <2>1, <3>1
  <2>4. QED
    BY <1>3, <1>4, <2>2, <2>3
<1>6. QED
  BY <1>5 DEF s

LEMMA RestoreType ==
  ASSUME TypeOK, RestoreStep
  PROVE  TypeOK'
<1> USE DEF TypeOK
<1>1. SourceOK' /\ QueueOK' /\ UNCHANGED <<sub, scan, dump, scanFinished, reqs, connDb, tgt, cancelled>>
  BY DEF RestoreStep, SourceOK, QueueOK, source, queue
<1>2. CASE RestoreKey
  <2> DEFINE i    == Head(restoreChan)
             sel  == IF SwitchesDb(restore.db, i) THEN 1 ELSE 0
             type == IF SkipUnknownType THEN 1 ELSE 0
             d    == replies[sel + 1]
             p    == replies[sel + 2]
             bad  == \/ sel = 1 /\ replies[1].kind # "ok"
                     \/ d.kind # "dump" \/ p.kind # "pttl"
                     \/ type = 1 /\ replies[sel + 3].kind # "type"
             skip == type = 1 /\ replies[sel + 3].skip
             emit == IF bad \/ skip \/ d.ver = 0 \/ p.ttl = -2 THEN <<>>
                     ELSE RestoreEntries(i, d, RestoreTtl(p.ttl))
  <2>1. /\ Len(replies) >= sel + 2 + type
        /\ replies' = SubSeq(replies, sel + 3 + type, Len(replies))
        /\ panicked' = bad
        /\ restore' = [db |-> i.db, out |-> emit, pc |-> IF emit = <<>> THEN "range" ELSE "emit"]
        /\ restoreChan' = Tail(restoreChan) /\ UNCHANGED <<restoreClosed, out>>
        /\ restoreChan # <<>>
    BY <1>2 DEF RestoreKey
  <2>2. i \in Items /\ i.db \in Dbs /\ restoreChan' \in Seq(Items) /\ Len(restoreChan') <= RestoreCap
    <3>1. i \in Items /\ Tail(restoreChan) \in Seq(Items) /\ Len(Tail(restoreChan)) = Len(restoreChan) - 1
          /\ Len(restoreChan) \in Nat /\ Len(restoreChan) <= RestoreCap
      BY <2>1, HeadTailProperties, LenProperties DEF DumpOK
    <3>2. restoreChan' = Tail(restoreChan)
      BY <2>1
    <3> HIDE DEF i
    <3>3. i.db \in Dbs
      BY <3>1 DEF Items
    <3>4. QED
      BY <3>1, <3>2, <3>3, ScanAssumption
  <2>3. sel \in {0, 1} /\ type \in {0, 1} /\ Len(replies) \in Nat
    BY LenProperties DEF DumpOK
  <2>4. replies' \in Seq(Reply)
    BY <2>1, <2>3, SubSeqProperties, ElementOfSeq DEF DumpOK
  <2>5. d \in Reply /\ p \in Reply
    BY <2>1, <2>3, ElementOfSeq DEF DumpOK
  <2>6. emit \in Seq(Restored)
    <3>1. CASE bad \/ d.ver = 0 \/ p.ttl = -2 \/ skip
      BY <3>1, EmptySeq
    <3>2. CASE ~(bad \/ d.ver = 0 \/ p.ttl = -2 \/ skip)
      <4>1. d.of \in Items /\ d.ver \in Version /\ p.ttl \in {-1, 0, 5}
        BY <3>2, <2>5 DEF Reply
      <4>2. RestoreTtl(p.ttl) \in {0, 1, 5}
        BY <4>1 DEF RestoreTtl
      <4>3. emit = RestoreEntries(i, d, RestoreTtl(p.ttl))
        BY <3>2
      <4> HIDE DEF i, d, p
      <4>4. QED
        BY <2>2, <4>1, <4>2, <4>3, EntriesType
    <3>3. QED
      BY <3>1, <3>2
  <2>7. bad \in BOOLEAN
    OBVIOUS
  <2> HIDE DEF emit, bad, i, d, p
  <2>8. RestoreOK'
    BY <1>1, <2>1, <2>2, <2>6 DEF RestoreOK, out
  <2>9. DumpOK' /\ ProducersOK'
    BY <1>1, <2>1, <2>2, <2>4, <2>7 DEF DumpOK, ProducersOK
  <2>10. QED
    BY <1>1, <2>8, <2>9
<1>3. CASE RestoreEmit
  <2>1. /\ Head(restore.out) \in Restored /\ Tail(restore.out) \in Seq(Restored)
        /\ Len(Tail(restore.out)) = Len(restore.out) - 1 /\ Len(restore.out) \in Nat \ {0}
    BY <1>3, HeadTailProperties, LenProperties, EmptySeq DEF RestoreEmit, RestoreOK
  <2>2. ch' \in Seq(Entry) /\ Len(ch') <= ChCap
    BY <1>3, <2>1, AppendProperties, LenProperties, ScanAssumption DEF RestoreEmit, RestoreOK, Entry
  <2>3. restore' \in [pc : {"range", "emit", "done"}, db : Dbs, out : Seq(Restored)]
        /\ restore'.pc \in {"range", "emit"} /\ (restore'.pc = "range" <=> Len(restore.out) = 1)
        /\ restore'.out = Tail(restore.out)
    BY <1>3, <2>1 DEF RestoreEmit, RestoreOK
  <2>4. Tail(restore.out) = <<>> <=> Len(restore.out) = 1
    <3>1. Tail(restore.out) = <<>> <=> Len(Tail(restore.out)) = 0
      BY <2>1, EmptySeq
    <3>2. QED
      BY <2>1, <3>1
  <2>5. RestoreOK'
    BY <1>1, <1>3, <2>2, <2>3, <2>4 DEF RestoreEmit, RestoreOK
  <2>6. QED
    BY <1>1, <1>3, <2>5 DEF RestoreEmit, ProducersOK, DumpOK, toRest
<1>4. CASE RestoreEnd
  <2>1. RestoreOK'
    BY <1>1, <1>4 DEF RestoreEnd, RestoreOK
  <2>2. ProducersOK' /\ DumpOK'
    BY <1>1, <1>4 DEF RestoreEnd, ProducersOK, DumpOK, toRest
  <2>3. QED
    BY <1>1, <2>1, <2>2
<1>5. QED
  BY <1>2, <1>3, <1>4 DEF RestoreStep

LEMMA DeliverType ==
  ASSUME TypeOK, Deliver
  PROVE  TypeOK'
<1> USE DEF TypeOK
<1> DEFINE e == Head(ch)
<1>1. e \in Entry /\ ch' \in Seq(Entry) /\ Len(ch') <= ChCap
  BY HeadTailProperties, LenProperties, ScanAssumption DEF Deliver, RestoreOK
<1>2. e.item \in Items /\ tgt[e.item] \in Value
  BY <1>1 DEF Entry, Restored, RestoreOK
<1>3. Apply(e) \in Value
  <2>1. NoValue \in Value
    BY VersionFacts DEF NoValue, Value
  <2>2. CASE e.op = "DEL"
    BY <2>1, <2>2 DEF Apply
  <2>3. CASE e.op = "PEXPIRE"
    BY <1>2, <2>1, <2>3 DEF Apply, Value
  <2>4. CASE e.op \in {"RESTORE", "COMMANDS"}
    <3>1. e.of \in Items /\ e.ver \in Version
      BY <1>1, <2>4 DEF Entry, Restored
    <3>2. QED
      BY <1>2, <2>4, <3>1 DEF Apply, Value
  <2>5. QED
    BY <1>1, <2>2, <2>3, <2>4 DEF Entry, Restored
<1>4. tgt' \in [Items -> Value]
  BY <1>2, <1>3 DEF Deliver, RestoreOK
<1>5. RestoreOK'
  BY <1>1, <1>4 DEF Deliver, RestoreOK
<1>6. SourceOK' /\ ProducersOK' /\ QueueOK' /\ DumpOK'
  BY DEF Deliver, SourceOK, ProducersOK, QueueOK, DumpOK, source, queue, conn, toRest
<1>7. QED
  BY <1>5, <1>6

LEMMA TypeNext == TypeOK /\ [Next]_vars => TypeOK'
<1> SUFFICES ASSUME TypeOK, [Next]_vars PROVE TypeOK'
  OBVIOUS
<1>1. CASE Cancel
  BY <1>1 DEF Cancel, TypeOK, SourceOK, ProducersOK, QueueOK, DumpOK, RestoreOK, source, queue, conn,
              toRest, out
<1>2. CASE UNCHANGED vars
  BY <1>2 DEF vars, TypeOK, SourceOK, ProducersOK, QueueOK, DumpOK, RestoreOK, source, queue, conn,
              toRest, out
<1>3. QED
  BY <1>1, <1>2, SourceType, RepliesType, QueueType, SubType, ScanType, DumpType, RestoreType,
     DeliverType DEF Next

(* Every channel, goroutine and connection stays in a state of the code. *)
THEOREM Types == Spec => []TypeOK
  BY TypeInit, TypeNext, PTL DEF Spec

-----------------------------------------------------------------------------
(* UniqueQueue implements UniqueFifo *)

WaitingIn(taker, channel) == (IF taker.pc = "taken" THEN <<taker.item>> ELSE <<>>) \o channel

Waiting == WaitingIn(q, inner)

(* An item is in the set as long as it waits or a producer is about to send it, *)
(* and then it is in one place only.                                            *)
QueueInv ==
  /\ \A n \in 1..Len(Waiting) : Waiting[n] \in set
  /\ \A m, n \in 1..Len(Waiting) : Waiting[m] = Waiting[n] => m = n
  /\ sub.pc = "put" => sub.item \in set /\ \A n \in 1..Len(Waiting) : Waiting[n] # sub.item
  /\ scan.pc = "put" => scan.item \in set /\ \A n \in 1..Len(Waiting) : Waiting[n] # scan.item
  /\ sub.pc = "put" /\ scan.pc = "put" => sub.item # scan.item

LEMMA WaitingShape ==
  ASSUME NEW t, NEW c \in Seq(Items), t.pc = "taken" => t.item \in Items
  PROVE  /\ WaitingIn(t, c) \in Seq(Items) /\ Len(WaitingIn(t, c)) \in Nat
         /\ t.pc # "taken" => WaitingIn(t, c) = c
         /\ t.pc = "taken" => /\ Len(WaitingIn(t, c)) = Len(c) + 1 /\ WaitingIn(t, c)[1] = t.item
                              /\ \A n \in 1..Len(c) : WaitingIn(t, c)[n + 1] = c[n]
<1>1. CASE t.pc # "taken"
  <2>1. WaitingIn(t, c) = <<>> \o c
    BY <1>1 DEF WaitingIn
  <2>2. WaitingIn(t, c) = c
    BY <2>1, ConcatEmptySeq
  <2>3. QED
    BY <1>1, <2>2, LenProperties
<1>2. CASE t.pc = "taken"
  <2> DEFINE h == <<t.item>>
  <2>1. h \in Seq(Items) /\ Len(h) = 1 /\ h[1] = t.item /\ Len(c) \in Nat
    BY <1>2, LenProperties
  <2>2. WaitingIn(t, c) = h \o c
    BY <1>2 DEF WaitingIn
  <2> HIDE DEF h
  <2>3. /\ h \o c \in Seq(Items) /\ Len(h \o c) = Len(h) + Len(c)
        /\ \A n \in 1..Len(h) + Len(c) : (h \o c)[n] = IF n <= Len(h) THEN h[n] ELSE c[n - Len(h)]
    BY <2>1, ConcatProperties
  <2>4. QED
    BY <1>2, <2>1, <2>2, <2>3
<1>3. QED
  BY <1>1, <1>2

(* How the steps of the queue change what waits. *)
LEMMA WaitingMoves ==
  ASSUME QueueOK
  PROVE  /\ Waiting \in Seq(Items) /\ Len(Waiting) \in Nat
         /\ q.pc # "taken" /\ q'.pc # "taken" /\ inner' = inner => Waiting' = Waiting
         /\ q' = q /\ inner' = inner => Waiting' = Waiting
         /\ \A i \in Items : q' = q /\ inner' = Append(inner, i) => Waiting' = Append(Waiting, i)
         /\ QTake => Waiting' = Waiting
         /\ QDelete => Waiting # <<>> /\ Waiting' = Tail(Waiting) /\ Waiting[1] = q.item
<1>1. inner \in Seq(Items) /\ (q.pc = "taken" => q.item \in Items) /\ Len(inner) \in Nat
  BY LenProperties DEF QueueOK
<1>2. Waiting \in Seq(Items) /\ Len(Waiting) \in Nat
  BY <1>1, WaitingShape DEF Waiting
<1>3. ASSUME q.pc # "taken", q'.pc # "taken", inner' = inner PROVE Waiting' = Waiting
  <2>1. WaitingIn(q, inner) = inner
    BY <1>1, <1>3, WaitingShape
  <2>2. WaitingIn(q', inner) = inner
    BY <1>1, <1>3, WaitingShape
  <2>3. QED
    BY <1>3, <2>1, <2>2 DEF Waiting
<1>4. ASSUME q' = q, inner' = inner PROVE Waiting' = Waiting
  BY <1>4 DEF Waiting
<1>5. ASSUME NEW i \in Items, q' = q, inner' = Append(inner, i) PROVE Waiting' = Append(Waiting, i)
  <2> DEFINE h == IF q.pc = "taken" THEN <<q.item>> ELSE <<>>
  <2>1. h \in Seq(Items) /\ <<i>> \in Seq(Items)
    BY <1>1, EmptySeq
  <2>2. Waiting = h \o inner /\ Waiting' = h \o Append(inner, i)
    BY <1>5 DEF Waiting, WaitingIn
  <2> HIDE DEF h
  <2>3. Append(inner, i) = inner \o <<i>> /\ Append(Waiting, i) = Waiting \o <<i>>
    BY <1>1, <1>2, AppendIsConcat
  <2>4. QED
    BY <1>1, <2>1, <2>2, <2>3, ConcatAssociative
<1>6. ASSUME QTake PROVE Waiting' = Waiting
  <2>1. /\ q.pc # "taken" /\ inner # <<>> /\ q'.pc = "taken" /\ q'.item = Head(inner) /\ inner' = Tail(inner)
    BY <1>6 DEF QTake
  <2>2. /\ Head(inner) \in Items /\ Head(inner) = inner[1] /\ Tail(inner) \in Seq(Items)
        /\ Len(Tail(inner)) = Len(inner) - 1
        /\ \A n \in 1..Len(Tail(inner)) : Tail(inner)[n] = inner[n + 1]
    BY <1>1, <2>1, HeadTailProperties
  <2>3. WaitingIn(q, inner) = inner
    BY <1>1, <2>1, WaitingShape
  <2> DEFINE w == WaitingIn(q', Tail(inner))
  <2>4. /\ w \in Seq(Items) /\ Len(w) = Len(Tail(inner)) + 1 /\ w[1] = inner[1]
        /\ \A n \in 1..Len(Tail(inner)) : w[n + 1] = Tail(inner)[n]
    BY <2>1, <2>2, WaitingShape
  <2> HIDE DEF w
  <2>5. ASSUME NEW n \in 1..Len(inner) PROVE w[n] = inner[n]
    <3>1. CASE n = 1
      BY <3>1, <2>4
    <3>2. CASE n # 1
      <4>1. n - 1 \in 1..Len(Tail(inner)) /\ (n - 1) + 1 = n
        BY <1>1, <2>2, <3>2
      <4>2. w[(n - 1) + 1] = Tail(inner)[n - 1] /\ Tail(inner)[n - 1] = inner[(n - 1) + 1]
        BY <4>1, <2>2, <2>4
      <4>3. QED
        BY <4>1, <4>2
    <3>3. QED
      BY <3>1, <3>2
  <2>6. w = inner
    <3>1. Len(w) = Len(inner)
      BY <1>1, <2>2, <2>4
    <3>2. QED
      BY <1>1, <2>4, <2>5, <3>1, SeqEqual
  <2>7. QED
    BY <2>1, <2>3, <2>6 DEF Waiting, w
<1>7. ASSUME QDelete PROVE Waiting # <<>> /\ Waiting' = Tail(Waiting) /\ Waiting[1] = q.item
  <2>1. q.pc = "taken" /\ q'.pc = "out" /\ inner' = inner
    BY <1>7 DEF QDelete, QueueOK
  <2>2. /\ Len(Waiting) = Len(inner) + 1 /\ Waiting[1] = q.item
        /\ \A n \in 1..Len(inner) : Waiting[n + 1] = inner[n]
    BY <1>1, <2>1, WaitingShape DEF Waiting
  <2>3. WaitingIn(q', inner) = inner
    BY <1>1, <2>1, WaitingShape
  <2>4. Waiting # <<>>
    BY <1>1, <2>2, EmptySeq
  <2>5. /\ Tail(Waiting) \in Seq(Items) /\ Len(Tail(Waiting)) = Len(Waiting) - 1
        /\ \A n \in 1..Len(Tail(Waiting)) : Tail(Waiting)[n] = Waiting[n + 1]
    BY <1>2, <2>4, HeadTailProperties
  <2>6. Len(Tail(Waiting)) = Len(inner)
    BY <1>1, <2>2, <2>5
  <2>7. \A n \in 1..Len(Tail(Waiting)) : Tail(Waiting)[n] = inner[n]
    BY <2>2, <2>5, <2>6
  <2>8. Tail(Waiting) = inner
    BY <1>1, <2>5, <2>6, <2>7, SeqEqual
  <2>9. QED
    BY <2>1, <2>2, <2>3, <2>4, <2>8 DEF Waiting
<1>8. QED
  BY <1>2, <1>3, <1>4, <1>5, <1>6, <1>7

(* The put steps of the two producers are the same but for the producer. *)
LEMMA SendKeeps ==
  ASSUME TypeOK, QueueInv, NEW i \in Items, PutSend(i), UNCHANGED q,
         \/ sub.pc = "put" /\ i = sub.item /\ sub'.pc # "put" /\ scan' = scan
         \/ scan.pc = "put" /\ i = scan.item /\ scan'.pc # "put" /\ sub' = sub
  PROVE  QueueInv'
<1>1. CASE innerClosed
  <2>1. Waiting' = Waiting /\ set' = set
    BY <1>1, WaitingMoves DEF PutSend, TypeOK
  <2>2. QED
    BY <2>1 DEF QueueInv
<1>2. CASE ~innerClosed
  <2>1. Waiting' = Append(Waiting, i) /\ set' = set /\ Waiting \in Seq(Items) /\ Len(Waiting) \in Nat
    BY <1>2, WaitingMoves DEF PutSend, TypeOK
  <2>2. /\ Len(Waiting') = Len(Waiting) + 1 /\ Waiting'[Len(Waiting) + 1] = i
        /\ \A n \in 1..Len(Waiting) : Waiting'[n] = Waiting[n]
    BY <2>1, AppendProperties
  <2>3. i \in set /\ \A n \in 1..Len(Waiting) : Waiting[n] # i
    BY DEF QueueInv
  <2>4. \A n \in 1..Len(Waiting') : n \in 1..Len(Waiting) \/ n = Len(Waiting) + 1
    BY <2>1, <2>2
  <2>5. /\ \A n \in 1..Len(Waiting') : Waiting'[n] \in set'
        /\ \A m, n \in 1..Len(Waiting') : Waiting'[m] = Waiting'[n] => m = n
    BY <2>1, <2>2, <2>3, <2>4 DEF QueueInv
  <2>6. sub'.pc = "put" => sub'.item \in set' /\ \A n \in 1..Len(Waiting') : Waiting'[n] # sub'.item
    BY <2>1, <2>2, <2>4 DEF QueueInv
  <2>7. scan'.pc = "put" => scan'.item \in set' /\ \A n \in 1..Len(Waiting') : Waiting'[n] # scan'.item
    BY <2>1, <2>2, <2>4 DEF QueueInv
  <2>8. ~(sub'.pc = "put" /\ scan'.pc = "put")
    OBVIOUS
  <2>9. QED
    BY <2>5, <2>6, <2>7, <2>8 DEF QueueInv
<1>3. QED
  BY <1>1, <1>2

LEMMA QueueInvSub ==
  ASSUME TypeOK, QueueInv, SubStep
  PROVE  QueueInv'
<1>1. UNCHANGED <<scan, q>>
  BY DEF SubStep
<1>2. CASE SubLoop
  <2>1. inner' = inner /\ set' = set /\ sub'.pc # "put"
    BY <1>2 DEF SubLoop, CloseInner, queue, TypeOK, ProducersOK
  <2>2. Waiting' = Waiting
    BY <1>1, <2>1, WaitingMoves DEF TypeOK
  <2>3. QED
    BY <1>1, <2>1, <2>2 DEF QueueInv
<1>3. CASE SubReceive
  <2>1. inner' = inner
    BY <1>3 DEF SubReceive
  <2>2. Waiting' = Waiting
    BY <1>1, <2>1, WaitingMoves DEF TypeOK
  <2>3. \/ set' = set /\ sub'.pc # "put"
        \/ set' = set \cup {sub'.item} /\ sub'.item \notin set
    BY <1>3 DEF SubReceive, PutCheck, TypeOK, ProducersOK
  <2>4. QED
    BY <1>1, <2>2, <2>3 DEF QueueInv
<1>4. CASE SubPut
  <2>1. sub.item \in Items /\ PutSend(sub.item) /\ sub.pc = "put" /\ sub'.pc # "put"
    BY <1>4 DEF SubPut, TypeOK, ProducersOK
  <2>2. QED
    BY <1>1, <2>1, SendKeeps
<1>5. CASE SubDel
  <2>1. inner' = inner /\ set' = set /\ sub'.pc # "put"
    BY <1>5 DEF SubDel, queue, TypeOK, ProducersOK
  <2>2. Waiting' = Waiting
    BY <1>1, <2>1, WaitingMoves DEF TypeOK
  <2>3. QED
    BY <1>1, <2>1, <2>2 DEF QueueInv
<1>6. QED
  BY <1>2, <1>3, <1>4, <1>5 DEF SubStep

LEMMA QueueInvScan ==
  ASSUME TypeOK, QueueInv, ScanStep
  PROVE  QueueInv'
<1>1. UNCHANGED <<sub, q>>
  BY DEF ScanStep
<1>2. CASE ScanRound \/ ScanEnd
  <2>1. inner' = inner /\ set' = set /\ scan'.pc # "put"
    BY <1>2 DEF ScanRound, ScanEnd, CloseInner, queue, TypeOK, ProducersOK
  <2>2. Waiting' = Waiting
    BY <1>1, <2>1, WaitingMoves DEF TypeOK
  <2>3. QED
    BY <1>1, <2>1, <2>2 DEF QueueInv
<1>3. CASE ScanPutCheck
  <2>1. inner' = inner
    BY <1>3 DEF ScanPutCheck
  <2>2. Waiting' = Waiting
    BY <1>1, <2>1, WaitingMoves DEF TypeOK
  <2>3. \/ set' = set /\ scan'.pc # "put"
        \/ set' = set \cup {scan'.item} /\ scan'.item \notin set
    BY <1>3 DEF ScanPutCheck, PutCheck, TypeOK, ProducersOK
  <2>4. QED
    BY <1>1, <2>2, <2>3 DEF QueueInv
<1>4. CASE ScanPut
  <2>1. scan.item \in Items /\ PutSend(scan.item) /\ scan.pc = "put" /\ scan'.pc # "put"
    BY <1>4 DEF ScanPut, TypeOK, ProducersOK
  <2>2. QED
    BY <1>1, <2>1, SendKeeps
<1>5. QED
  BY <1>2, <1>3, <1>4 DEF ScanStep

LEMMA QueueInvQueue ==
  ASSUME TypeOK, QueueInv, QueueStep
  PROVE  QueueInv'
<1>1. UNCHANGED <<sub, scan>>
  BY DEF QueueStep
<1>2. CASE QTake \/ QClose
  <2>1. set' = set
    BY <1>2 DEF QTake, QClose, queue
  <2>2. Waiting' = Waiting
    BY <1>2, WaitingMoves DEF QClose, queue, TypeOK, QueueOK
  <2>3. QED
    BY <1>1, <2>1, <2>2 DEF QueueInv
<1>3. CASE QDelete
  <2>1. /\ Waiting # <<>> /\ Waiting' = Tail(Waiting) /\ Waiting[1] = q.item
        /\ Waiting \in Seq(Items) /\ Len(Waiting) \in Nat
    BY <1>3, WaitingMoves DEF TypeOK
  <2>2. set' = set \ {q.item}
    BY <1>3 DEF QDelete
  <2>3. /\ Len(Waiting') = Len(Waiting) - 1 /\ Len(Waiting) \in Nat \ {0}
        /\ \A n \in 1..Len(Waiting') : Waiting'[n] = Waiting[n + 1]
    BY <2>1, HeadTailProperties, EmptySeq
  <2>4. \A n \in 1..Len(Waiting') : n + 1 \in 1..Len(Waiting) /\ n + 1 # 1
    BY <2>3
  <2>5. 1 \in 1..Len(Waiting)
    BY <2>3
  <2>6. \A n \in 1..Len(Waiting') : Waiting'[n] \in set'
    BY <2>1, <2>2, <2>3, <2>4, <2>5 DEF QueueInv
  <2>7. \A m, n \in 1..Len(Waiting') : Waiting'[m] = Waiting'[n] => m = n
    <3>1. SUFFICES ASSUME NEW m \in 1..Len(Waiting'), NEW n \in 1..Len(Waiting'), Waiting'[m] = Waiting'[n]
                   PROVE  m = n
      OBVIOUS
    <3>2. m + 1 = n + 1
      BY <2>3, <2>4, <3>1 DEF QueueInv
    <3>3. QED
      BY <2>3, <3>2
  <2>8. sub.pc = "put" => sub.item # q.item /\ \A n \in 1..Len(Waiting') : Waiting'[n] # sub.item
    BY <2>1, <2>3, <2>4, <2>5 DEF QueueInv
  <2>9. scan.pc = "put" => scan.item # q.item /\ \A n \in 1..Len(Waiting') : Waiting'[n] # scan.item
    BY <2>1, <2>3, <2>4, <2>5 DEF QueueInv
  <2>10. QED
    BY <1>1, <2>2, <2>6, <2>7, <2>8, <2>9 DEF QueueInv
<1>4. QED
  BY <1>2, <1>3 DEF QueueStep

(* The other goroutines leave the producers and what waits alone. *)
LEMMA OthersKeepQueue ==
  ASSUME TypeOK, [Next]_vars, ~SubStep, ~ScanStep, ~QueueStep
  PROVE  UNCHANGED <<sub, scan, set, inner, innerClosed>> /\ Waiting' = Waiting
<1>1. UNCHANGED <<sub, scan, set, inner, innerClosed>>
  BY DEF Next, vars, SourceSet, SourceDel, SourceExpire, Change, SourceReplies, Cancel, DumpStep,
         RestoreStep, Deliver, queue
<1>2. q' = q \/ (q.pc = "out" /\ q'.pc = "range")
  <2>1. CASE DumpStep
    BY <2>1 DEF DumpStep, DumpItem, DumpPush, DumpEnd
  <2>2. CASE ~DumpStep
    BY <2>2 DEF Next, vars, SourceSet, SourceDel, SourceExpire, Change, SourceReplies, Cancel, RestoreStep,
                Deliver
  <2>3. QED
    BY <2>1, <2>2
<1>3. QED
  BY <1>1, <1>2, WaitingMoves DEF TypeOK

LEMMA QueueInvInit == Init => QueueInv
<1> SUFFICES ASSUME Init PROVE QueueInv
  OBVIOUS
<1>1. QueueOK
  BY TypeInit DEF TypeOK
<1>2. WaitingIn(q, inner) = inner
  BY <1>1, WaitingShape DEF Init, QueueOK
<1>3. Len(Waiting) = 0
  BY <1>2, EmptySeq DEF Init, Waiting
<1>4. QED
  BY <1>3 DEF Init, QueueInv

LEMMA QueueInvNext == TypeOK /\ QueueInv /\ [Next]_vars => QueueInv'
<1> SUFFICES ASSUME TypeOK, QueueInv, [Next]_vars PROVE QueueInv'
  OBVIOUS
<1>1. CASE ~SubStep /\ ~ScanStep /\ ~QueueStep
  BY <1>1, OthersKeepQueue DEF QueueInv
<1>2. QED
  BY <1>1, QueueInvSub, QueueInvScan, QueueInvQueue

(* A step of the goroutines is a step of the queue, or leaves it alone. *)
LEMMA QueueRefines ==
  ASSUME TypeOK, QueueInv, [Next]_vars
  PROVE  [Fifo!FifoNext]_(Fifo!fifo)
<1> DEFINE Goal == \/ \E i \in Items : /\ ~innerClosed /\ (\A n \in DOMAIN Waiting : Waiting[n] # i)
                                       /\ Waiting' = Append(Waiting, i) /\ innerClosed' = innerClosed
                   \/ Waiting # <<>> /\ Waiting' = Tail(Waiting) /\ innerClosed' = innerClosed
                   \/ ~innerClosed /\ innerClosed' /\ Waiting' = Waiting
                   \/ Waiting' = Waiting /\ innerClosed' = innerClosed
<1> SUFFICES Goal
  <2>1. ASSUME NEW i \in Items, ~innerClosed, \A n \in DOMAIN Waiting : Waiting[n] # i,
               Waiting' = Append(Waiting, i), innerClosed' = innerClosed
        PROVE  Fifo!Put(i)
    BY <2>1 DEF Waiting, WaitingIn, Fifo!Put
  <2>2. ASSUME Waiting # <<>>, Waiting' = Tail(Waiting), innerClosed' = innerClosed PROVE Fifo!Get
    BY <2>2 DEF Waiting, WaitingIn, Fifo!Get
  <2>3. ASSUME ~innerClosed, innerClosed', Waiting' = Waiting PROVE Fifo!CloseFifo
    BY <2>3 DEF Waiting, WaitingIn, Fifo!CloseFifo
  <2>4. ASSUME Waiting' = Waiting, innerClosed' = innerClosed PROVE UNCHANGED Fifo!fifo
    BY <2>4 DEF Waiting, WaitingIn, Fifo!fifo
  <2>5. QED
    BY <2>1, <2>2, <2>3, <2>4 DEF Fifo!FifoNext
<1>1. Waiting \in Seq(Items) /\ DOMAIN Waiting = 1..Len(Waiting)
  BY WaitingMoves, LenProperties DEF TypeOK
<1>2. ASSUME CloseInner, UNCHANGED q PROVE Goal
  BY <1>2, WaitingMoves DEF CloseInner, TypeOK, QueueOK
<1>3. ASSUME NEW i \in Items, PutSend(i), UNCHANGED q, \A n \in 1..Len(Waiting) : Waiting[n] # i
      PROVE  Goal
  BY <1>1, <1>3, WaitingMoves DEF PutSend, TypeOK
<1>4. ASSUME UNCHANGED <<q, inner, innerClosed>> PROVE Goal
  BY <1>4, WaitingMoves DEF TypeOK
<1> HIDE DEF Goal
<1>5. CASE SubStep
  <2>1. UNCHANGED q /\ (SubLoop \/ SubReceive \/ SubPut \/ SubDel)
    BY <1>5 DEF SubStep
  <2>2. CASE SubPut
    BY <1>3, <2>1, <2>2 DEF SubPut, TypeOK, ProducersOK, QueueInv
  <2>3. CASE SubLoop
    BY <1>2, <1>4, <2>1, <2>3 DEF SubLoop, queue
  <2>4. CASE SubReceive \/ SubDel
    BY <1>4, <2>1, <2>4 DEF SubReceive, SubDel, queue
  <2>5. QED
    BY <2>1, <2>2, <2>3, <2>4
<1>6. CASE ScanStep
  <2>1. UNCHANGED q /\ (ScanRound \/ ScanPutCheck \/ ScanPut \/ ScanEnd)
    BY <1>6 DEF ScanStep
  <2>2. CASE ScanPut
    BY <1>3, <2>1, <2>2 DEF ScanPut, TypeOK, ProducersOK, QueueInv
  <2>3. CASE ScanRound \/ ScanEnd
    BY <1>2, <1>4, <2>1, <2>3 DEF ScanRound, ScanEnd, queue
  <2>4. CASE ScanPutCheck
    BY <1>4, <2>1, <2>4 DEF ScanPutCheck
  <2>5. QED
    BY <2>1, <2>2, <2>3, <2>4
<1>7. CASE QueueStep
  <2>1. CASE QTake \/ QClose
    BY <2>1, WaitingMoves DEF QTake, QClose, queue, TypeOK, QueueOK, Goal
  <2>2. CASE QDelete
    BY <2>2, WaitingMoves DEF QDelete, TypeOK, Goal
  <2>3. QED
    BY <1>7, <2>1, <2>2 DEF QueueStep
<1>8. CASE ~SubStep /\ ~ScanStep /\ ~QueueStep
  BY <1>8, OthersKeepQueue DEF Goal
<1>9. QED
  BY <1>5, <1>6, <1>7, <1>8

(***************************************************************************)
(* UniqueQueue, with its lock, its channel, its goroutine and two          *)
(* producers that check and send in two steps, implements a first-in       *)
(* first-out queue without duplicates that is closed at most once.         *)
(***************************************************************************)
THEOREM QueueImplementsFifo == Spec => QueueIsFifo
<1>1. Init => Fifo!FifoInit
  <2> SUFFICES ASSUME Init PROVE Fifo!FifoInit
    OBVIOUS
  <2>1. QueueOK
    BY TypeInit DEF TypeOK
  <2>2. WaitingIn(q, inner) = inner
    BY <2>1, WaitingShape DEF Init, QueueOK
  <2>3. QED
    BY <2>2 DEF Init, WaitingIn, Fifo!FifoInit
<1>2. QED
  BY <1>1, Types, QueueInvInit, QueueInvNext, QueueRefines, PTL
  DEF Spec, QueueIsFifo, Fifo!FifoSpec

-----------------------------------------------------------------------------
(* The replies stay aligned with the keys *)

(* The database the k-th of the keys w finds, when the first of them finds db. *)
Before(w, db, k) == IF k = 1 THEN db ELSE w[k - 1].db

Selects(w, db, k) == IF SwitchesDb(Before(w, db, k), w[k]) THEN 1 ELSE 0

TypeReplies == IF SkipUnknownType THEN 1 ELSE 0

(* The k-th key's commands follow the first at[k] of the pipeline. *)
Places(w, db, total, at) ==
  /\ at \in [1..(Len(w) + 1) -> Nat]
  /\ at[1] = 0
  /\ \A k \in 1..Len(w) : at[k + 1] = at[k] + Selects(w, db, k) + 2 + TypeReplies
  /\ \A j, k \in 1..(Len(w) + 1) : j <= k => at[j] <= at[k]
  /\ at[Len(w) + 1] = total

KindOf(op) ==
  CASE op = "SELECT" -> "ok" [] op = "DUMP" -> "dump" [] op = "PTTL" -> "pttl" [] OTHER -> "type"

Answers(r, op, i) == r.kind = KindOf(op) /\ (op = "DUMP" => r.of = i)

(* The p-th command of the pipeline is op on i: it is answered as such, or it is still to be. *)
Asked(rs, qs, p, op, i) ==
  IF p <= Len(rs) THEN Answers(rs[p], op, i) ELSE qs[p - Len(rs)] = [op |-> op, item |-> i]

Commanded(w, db, rs, qs, at, k) ==
  /\ Selects(w, db, k) = 1 => Asked(rs, qs, at[k] + 1, "SELECT", w[k])
  /\ Asked(rs, qs, at[k] + Selects(w, db, k) + 1, "DUMP", w[k])
  /\ Asked(rs, qs, at[k] + Selects(w, db, k) + 2, "PTTL", w[k])
  /\ SkipUnknownType => Asked(rs, qs, at[k] + Selects(w, db, k) + 3, "TYPE", w[k])

(* The source has come to the commands of the cur-th key, in the database they need. *)
Cursor(w, db, answered, cdb, at, cur) ==
  /\ cur \in 1..(Len(w) + 1)
  /\ at[cur] <= answered
  /\ cur <= Len(w) => answered < at[cur + 1]
  /\ cdb = IF answered = at[cur] THEN Before(w, db, cur) ELSE w[cur].db

(* The replies rs and then the requests qs, on a connection in cdb, are those of the keys w. *)
Aligned(w, db, rs, qs, cdb) ==
  \E at \in [1..(Len(w) + 1) -> Nat], cur \in 1..(Len(w) + 1) :
    /\ Places(w, db, Len(rs) + Len(qs), at)
    /\ Cursor(w, db, Len(rs), cdb, at, cur)
    /\ \A k \in 1..Len(w) : Commanded(w, db, rs, qs, at, k)

(* The keys whose commands dump has sent and whose replies restore has not taken. *)
Work == IF dump.pc = "push" THEN Append(restoreChan, dump.item) ELSE restoreChan

AlignInv ==
  /\ dump.db = Before(Work, restore.db, Len(Work) + 1)
  /\ Aligned(Work, restore.db, replies, reqs, connDb)

LEMMA SelectsBit ==
  ASSUME NEW w, NEW db, NEW k
  PROVE  Selects(w, db, k) \in {0, 1} /\ TypeReplies \in {0, 1} /\ (TypeReplies = 1 <=> SkipUnknownType)
  BY DEF Selects, TypeReplies

(* Where dump's commands are among the requests it adds. *)
LEMMA CommandsShape ==
  ASSUME DumpOK, NEW i \in Items, NEW w, NEW db, NEW k, w[k] = i, dump.db = Before(w, db, k)
  PROVE  /\ Len(DumpCommands(i)) = Selects(w, db, k) + 2 + TypeReplies
         /\ Selects(w, db, k) = 1 => DumpCommands(i)[1] = [op |-> "SELECT", item |-> i]
         /\ DumpCommands(i)[Selects(w, db, k) + 1] = [op |-> "DUMP", item |-> i]
         /\ DumpCommands(i)[Selects(w, db, k) + 2] = [op |-> "PTTL", item |-> i]
         /\ SkipUnknownType => DumpCommands(i)[Selects(w, db, k) + 3] = [op |-> "TYPE", item |-> i]
<1> DEFINE cmd(o) == [op |-> o, item |-> i]
           A == IF SwitchesDb(dump.db, i) THEN <<cmd("SELECT")>> ELSE <<>>
           B == <<cmd("DUMP"), cmd("PTTL")>>
           C == IF SkipUnknownType THEN <<cmd("TYPE")>> ELSE <<>>
           a == Selects(w, db, k)
           t == TypeReplies
<1>1. \A o \in {"SELECT", "DUMP", "PTTL", "TYPE"} : cmd(o) \in Request
  BY DEF Request
<1>2. DumpCommands(i) = (A \o B) \o C
  BY DEF DumpCommands
<1>3. a = 1 <=> SwitchesDb(dump.db, i)
  BY DEF Selects
<1>4. a \in {0, 1} /\ t \in {0, 1} /\ (t = 1 <=> SkipUnknownType)
  BY SelectsBit
<1> HIDE DEF a, t, cmd
<1>5. A \in Seq(Request) /\ Len(A) = a /\ (a = 1 => A[1] = cmd("SELECT"))
  <2>1. CASE SwitchesDb(dump.db, i)
    BY <1>1, <1>3, <1>4, <2>1
  <2>2. CASE ~SwitchesDb(dump.db, i)
    BY <1>3, <1>4, <2>2
  <2>3. QED
    BY <2>1, <2>2
<1>6. B \in Seq(Request) /\ Len(B) = 2 /\ B[1] = cmd("DUMP") /\ B[2] = cmd("PTTL")
  BY <1>1
<1>7. C \in Seq(Request) /\ Len(C) = t /\ (t = 1 => C[1] = cmd("TYPE"))
  <2>1. CASE SkipUnknownType
    BY <1>1, <1>4, <2>1
  <2>2. CASE ~SkipUnknownType
    BY <1>4, <2>2
  <2>3. QED
    BY <2>1, <2>2
<1> HIDE DEF A, B, C
<1> DEFINE D == A \o B
<1>8. /\ D \in Seq(Request) /\ Len(D) = a + 2
      /\ \A n \in 1..(a + 2) : D[n] = IF n <= a THEN A[n] ELSE B[n - a]
  <2>1. /\ D \in Seq(Request) /\ Len(D) = Len(A) + Len(B)
        /\ \A n \in 1..Len(A) + Len(B) : D[n] = IF n <= Len(A) THEN A[n] ELSE B[n - Len(A)]
    BY <1>5, <1>6, ConcatProperties
  <2>2. Len(A) + Len(B) = a + 2
    BY <1>4, <1>5, <1>6
  <2>3. QED
    BY <1>5, <2>1, <2>2
<1> HIDE DEF D
<1>9. /\ Len(D \o C) = a + 2 + t
      /\ \A n \in 1..(a + 2 + t) : (D \o C)[n] = IF n <= a + 2 THEN D[n] ELSE C[n - (a + 2)]
  <2>1. /\ Len(D \o C) = Len(D) + Len(C)
        /\ \A n \in 1..Len(D) + Len(C) : (D \o C)[n] = IF n <= Len(D) THEN D[n] ELSE C[n - Len(D)]
    BY <1>7, <1>8, ConcatProperties
  <2>2. Len(D) + Len(C) = a + 2 + t
    BY <1>4, <1>7, <1>8
  <2>3. QED
    BY <1>7, <1>8, <2>1, <2>2
<1>10. /\ a = 1 => (D \o C)[1] = cmd("SELECT")
       /\ (D \o C)[a + 1] = cmd("DUMP") /\ (D \o C)[a + 2] = cmd("PTTL")
       /\ t = 1 => (D \o C)[a + 3] = cmd("TYPE")
  <2>1. \A n \in 1..(a + 2) : (D \o C)[n] = D[n]
    BY <1>4, <1>9
  <2>2. a = 1 => D[1] = A[1]
    BY <1>4, <1>8
  <2>3. D[a + 1] = B[1] /\ D[a + 2] = B[2]
    <3>1. a + 1 \in 1..(a + 2) /\ a + 2 \in 1..(a + 2) /\ ~(a + 1 <= a) /\ ~(a + 2 <= a)
          /\ (a + 1) - a = 1 /\ (a + 2) - a = 2
      BY <1>4
    <3>2. QED
      BY <1>8, <3>1
  <2>4. t = 1 => (D \o C)[a + 3] = C[1]
    <3>1. t = 1 => a + 3 \in 1..(a + 2 + t) /\ ~(a + 3 <= a + 2) /\ (a + 3) - (a + 2) = 1
      BY <1>4
    <3>2. QED
      BY <1>9, <3>1
  <2>5. 1 \in 1..(a + 2) /\ a + 1 \in 1..(a + 2) /\ a + 2 \in 1..(a + 2)
    BY <1>4
  <2>6. QED
    BY <1>5, <1>6, <1>7, <2>1, <2>2, <2>3, <2>4, <2>5
<1>11. DumpCommands(i) = D \o C
  BY <1>2 DEF D
<1>12. QED
  BY <1>4, <1>9, <1>10, <1>11 DEF cmd, a, t

Ops == {"SELECT", "DUMP", "PTTL", "TYPE"}

LEMMA InPipeline ==
  ASSUME NEW w \in Seq(Items), NEW db, NEW total \in Nat, NEW at, Places(w, db, total, at),
         NEW k \in 1..Len(w)
  PROVE  /\ Len(w) \in Nat /\ at[k] \in Nat /\ at[k + 1] \in Nat /\ w[k] \in Items
         /\ at[k + 1] = at[k] + Selects(w, db, k) + 2 + TypeReplies /\ at[k + 1] <= total
<1>1. Len(w) \in Nat /\ w[k] \in Items
  BY LenProperties, ElementOfSeq
<1>2. k + 1 \in 1..(Len(w) + 1) /\ k \in 1..(Len(w) + 1) /\ Len(w) + 1 \in 1..(Len(w) + 1) /\ k + 1 <= Len(w) + 1
  BY <1>1
<1>3. QED
  BY <1>1, <1>2 DEF Places

(* A pipeline that goes on asking what it asked serves the key it served. *)
LEMMA StillCommanded ==
  ASSUME NEW w \in Seq(Items), NEW db, NEW total \in Nat, NEW at, Places(w, db, total, at),
         NEW k \in 1..Len(w), NEW rs, NEW qs, NEW rs2, NEW qs2,
         Commanded(w, db, rs, qs, at, k),
         \A p \in 1..total, op \in Ops, i \in Items : Asked(rs, qs, p, op, i) => Asked(rs2, qs2, p, op, i)
  PROVE  Commanded(w, db, rs2, qs2, at, k)
<1> DEFINE a == Selects(w, db, k)
<1>1. a \in {0, 1} /\ TypeReplies \in {0, 1} /\ (TypeReplies = 1 <=> SkipUnknownType)
  BY SelectsBit
<1>2. at[k] \in Nat /\ w[k] \in Items /\ at[k] + a + 2 + TypeReplies <= total
  BY InPipeline
<1> HIDE DEF a
<1>3. /\ at[k] + 1 \in 1..total /\ at[k] + a + 1 \in 1..total /\ at[k] + a + 2 \in 1..total
      /\ SkipUnknownType => at[k] + a + 3 \in 1..total
  <2>1. CASE SkipUnknownType
    <3>1. TypeReplies = 1
      BY <1>1, <2>1
    <3>2. at[k] + 1 \in 1..total /\ at[k] + a + 1 \in 1..total
      BY <1>1, <1>2, <3>1
    <3>3. at[k] + a + 2 \in 1..total /\ at[k] + a + 3 \in 1..total
      BY <1>1, <1>2, <3>1
    <3>4. QED
      BY <3>2, <3>3
  <2>2. CASE ~SkipUnknownType
    <3>1. TypeReplies = 0
      BY <1>1, <2>2
    <3>2. QED
      BY <1>1, <1>2, <2>2, <3>1
  <2>3. QED
    BY <2>1, <2>2
<1>4. QED
  BY <1>2, <1>3 DEF Commanded, a, Ops

(* dump adds a key and the commands for it. *)
LEMMA AlignedAppend ==
  ASSUME DumpOK, NEW w \in Seq(Items), NEW db, NEW i \in Items,
         Aligned(w, db, replies, reqs, connDb), dump.db = Before(w, db, Len(w) + 1)
  PROVE  /\ Aligned(Append(w, i), db, replies, reqs \o DumpCommands(i), connDb)
         /\ Before(Append(w, i), db, Len(w) + 2) = i.db
<1> DEFINE W  == Append(w, i)
           N  == Len(w)
           R  == Len(replies)
           Q  == Len(reqs)
           qs == reqs \o DumpCommands(i)
           s  == Selects(W, db, N + 1)
<1>1. N \in Nat /\ R \in Nat /\ Q \in Nat
  BY LenProperties DEF DumpOK
<1>2. /\ W \in Seq(Items) /\ Len(W) = N + 1 /\ W[N + 1] = i /\ \A k \in 1..N : W[k] = w[k]
  BY AppendProperties
<1>3. PICK at \in [1..(N + 1) -> Nat], cur \in 1..(N + 1) :
        /\ Places(w, db, R + Q, at)
        /\ Cursor(w, db, R, connDb, at, cur)
        /\ \A k \in 1..N : Commanded(w, db, replies, reqs, at, k)
  BY DEF Aligned
<1> HIDE DEF W
<1>4. \A k \in 1..(N + 1) : Before(W, db, k) = Before(w, db, k)
  <2>1. SUFFICES ASSUME NEW k \in 1..(N + 1) PROVE Before(W, db, k) = Before(w, db, k)
    OBVIOUS
  <2>2. k # 1 => k - 1 \in 1..N
    BY <1>1
  <2>3. QED
    BY <1>2, <2>2 DEF Before
<1>5. \A k \in 1..N : Selects(W, db, k) = Selects(w, db, k)
  <2>1. \A k \in 1..N : k \in 1..(N + 1)
    BY <1>1
  <2>2. QED
    BY <1>2, <1>4, <2>1 DEF Selects
<1>6. s \in {0, 1} /\ TypeReplies \in {0, 1}
  BY SelectsBit
<1>7. /\ Len(DumpCommands(i)) = s + 2 + TypeReplies
      /\ s = 1 => DumpCommands(i)[1] = [op |-> "SELECT", item |-> i]
      /\ DumpCommands(i)[s + 1] = [op |-> "DUMP", item |-> i]
      /\ DumpCommands(i)[s + 2] = [op |-> "PTTL", item |-> i]
      /\ SkipUnknownType => DumpCommands(i)[s + 3] = [op |-> "TYPE", item |-> i]
  <2>1. dump.db = Before(W, db, N + 1)
    BY <1>1, <1>4
  <2>2. QED
    BY <1>2, <2>1, CommandsShape
<1> HIDE DEF s
<1>8. /\ Len(qs) = Q + s + 2 + TypeReplies
      /\ \A p \in 1..Q : qs[p] = reqs[p]
      /\ \A j \in 1..(s + 2 + TypeReplies) : qs[Q + j] = DumpCommands(i)[j]
  <2>1. reqs \in Seq(Request) /\ DumpCommands(i) \in Seq(Request)
    BY CommandsType DEF DumpOK
  <2> DEFINE c == DumpCommands(i)
  <2>2. c \in Seq(Request) /\ Len(c) = s + 2 + TypeReplies
    BY <1>7, <2>1
  <2> HIDE DEF c
  <2>3. /\ Len(reqs \o c) = Q + Len(c)
        /\ \A p \in 1..Q + Len(c) : (reqs \o c)[p] = IF p <= Q THEN reqs[p] ELSE c[p - Q]
    BY <2>1, <2>2, ConcatProperties
  <2>4. QED
    <3>1. \A p \in 1..Q : p \in 1..Q + Len(c) /\ p <= Q
      BY <1>1, <1>6, <2>2
    <3>2. \A j \in 1..(s + 2 + TypeReplies) : Q + j \in 1..Q + Len(c) /\ ~(Q + j <= Q) /\ (Q + j) - Q = j
      BY <1>1, <1>6, <2>2
    <3>3. /\ Len(reqs \o c) = Q + s + 2 + TypeReplies
          /\ \A p \in 1..Q : (reqs \o c)[p] = reqs[p]
          /\ \A j \in 1..(s + 2 + TypeReplies) : (reqs \o c)[Q + j] = c[j]
      BY <1>1, <1>6, <2>2, <2>3, <3>1, <3>2
    <3>4. QED
      BY <3>3 DEF c
<1> HIDE DEF qs
<1> DEFINE bt == [k \in 1..(N + 2) |-> IF k = N + 2 THEN R + Q + s + 2 + TypeReplies ELSE at[k]]
<1>9. /\ bt \in [1..(Len(W) + 1) -> Nat]
      /\ \A k \in 1..(N + 1) : bt[k] = at[k]
      /\ bt[N + 2] = R + Q + s + 2 + TypeReplies
      /\ at[1] = 0 /\ at[N + 1] = R + Q
      /\ \A k \in 1..(N + 1) : at[k] \in Nat /\ at[k] <= R + Q
  <2>1. at[1] = 0 /\ at[N + 1] = R + Q
    BY <1>3 DEF Places
  <2>2. \A k \in 1..(N + 1) : at[k] \in Nat /\ at[k] <= R + Q
    <3>1. \A k \in 1..(N + 1) : k <= N + 1 /\ N + 1 \in 1..(N + 1)
      BY <1>1
    <3>2. QED
      BY <1>3, <2>1, <3>1 DEF Places
  <2>3. \A k \in 1..(N + 1) : k \in 1..(N + 2) /\ k # N + 2
    BY <1>1
  <2>4. R + Q + s + 2 + TypeReplies \in Nat /\ N + 2 \in 1..(N + 2) /\ Len(W) + 1 = N + 2
    BY <1>1, <1>2, <1>6
  <2>5. bt \in [1..(N + 2) -> Nat]
    <3>1. \A k \in 1..(N + 2) : k # N + 2 => k \in 1..(N + 1)
      BY <1>1
    <3>2. QED
      BY <2>2, <2>4, <3>1
  <2>6. QED
    BY <2>1, <2>2, <2>3, <2>4, <2>5
<1> HIDE DEF bt
<1>10. Places(W, db, R + Len(qs), bt)
  <2>1. \A k \in 1..Len(W) : bt[k + 1] = bt[k] + Selects(W, db, k) + 2 + TypeReplies
    <3>1. SUFFICES ASSUME NEW k \in 1..(N + 1)
                   PROVE  bt[k + 1] = bt[k] + Selects(W, db, k) + 2 + TypeReplies
      BY <1>2
    <3>2. CASE k = N + 1
      BY <1>1, <1>9, <3>2 DEF s
    <3>3. CASE k \in 1..N
      <4>1. k \in 1..(N + 1) /\ k + 1 \in 1..(N + 1)
        BY <1>1, <3>3
      <4>2. at[k + 1] = at[k] + Selects(w, db, k) + 2 + TypeReplies
        BY <1>3, <3>3 DEF Places
      <4>3. QED
        BY <1>5, <1>9, <3>3, <4>1, <4>2
    <3>4. QED
      BY <1>1, <3>2, <3>3
  <2>2. \A j, k \in 1..(N + 2) : j <= k => bt[j] <= bt[k]
    <3>1. SUFFICES ASSUME NEW j \in 1..(N + 2), NEW k \in 1..(N + 2), j <= k PROVE bt[j] <= bt[k]
      OBVIOUS
    <3>2. CASE k = N + 2
      <4>1. bt[k] \in Nat /\ bt[k] >= R + Q
        BY <1>1, <1>6, <1>9, <3>2
      <4>2. j = N + 2 \/ j \in 1..(N + 1)
        BY <1>1
      <4>3. QED
        BY <1>1, <1>9, <3>2, <4>1, <4>2
    <3>3. CASE k # N + 2
      <4>1. j \in 1..(N + 1) /\ k \in 1..(N + 1)
        BY <1>1, <3>1, <3>3
      <4>2. at[j] <= at[k]
        BY <1>3, <3>1, <4>1 DEF Places
      <4>3. QED
        BY <1>9, <4>1, <4>2
    <3>4. QED
      BY <3>2, <3>3
  <2>3. bt[1] = 0 /\ bt[Len(W) + 1] = R + Len(qs) /\ Len(W) + 1 = N + 2
    BY <1>1, <1>2, <1>6, <1>8, <1>9
  <2>4. QED
    BY <1>9, <2>1, <2>2, <2>3 DEF Places
<1>11. Cursor(W, db, R, connDb, bt, cur)
  <2>1. at[cur] = bt[cur] /\ Before(W, db, cur) = Before(w, db, cur) /\ cur \in 1..(Len(W) + 1)
    BY <1>1, <1>2, <1>4, <1>9
  <2>2. CASE cur = N + 1
    <3>1. R = at[cur]
      BY <1>1, <1>3, <1>9, <2>2 DEF Cursor
    <3>2. R < bt[cur + 1]
      BY <1>1, <1>6, <1>9, <2>2
    <3>3. QED
      BY <1>3, <2>1, <3>1, <3>2 DEF Cursor
  <2>3. CASE cur # N + 1
    <3>1. cur \in 1..N /\ cur + 1 \in 1..(N + 1)
      BY <1>1, <2>3
    <3>2. R < at[cur + 1] /\ at[cur + 1] = bt[cur + 1] /\ W[cur] = w[cur]
      BY <1>2, <1>3, <1>9, <3>1 DEF Cursor
    <3>3. QED
      BY <1>3, <2>1, <3>2 DEF Cursor
  <2>4. QED
    BY <2>2, <2>3
<1>12. \A p \in 1..(R + Q), op \in Ops, j \in Items :
         Asked(replies, reqs, p, op, j) => Asked(replies, qs, p, op, j)
  <2>1. \A p \in 1..(R + Q) : p <= R \/ p - R \in 1..Q
    BY <1>1
  <2>2. QED
    BY <1>8, <2>1 DEF Asked
<1>13. \A k \in 1..Len(W) : Commanded(W, db, replies, qs, bt, k)
  <2>1. SUFFICES ASSUME NEW k \in 1..(N + 1) PROVE Commanded(W, db, replies, qs, bt, k)
    BY <1>2
  <2>2. CASE k = N + 1
    <3>1. bt[k] = R + Q /\ W[k] = i /\ Selects(W, db, k) = s
      BY <1>1, <1>2, <1>9, <2>2 DEF s
    <3>2. \A j \in 1..(s + 2 + TypeReplies) :
            ~(R + Q + j <= R) /\ (R + Q + j) - R = Q + j
      BY <1>1, <1>6
    <3>3. \A j \in 1..(s + 2 + TypeReplies), op \in Ops :
            DumpCommands(i)[j] = [op |-> op, item |-> i] => Asked(replies, qs, R + Q + j, op, i)
      BY <1>8, <3>2 DEF Asked
    <3>4. /\ 1 \in 1..(s + 2 + TypeReplies) /\ s + 1 \in 1..(s + 2 + TypeReplies)
          /\ s + 2 \in 1..(s + 2 + TypeReplies) /\ (SkipUnknownType => s + 3 \in 1..(s + 2 + TypeReplies))
          /\ R + Q + (s + 1) = R + Q + s + 1 /\ R + Q + (s + 2) = R + Q + s + 2 /\ R + Q + (s + 3) = R + Q + s + 3
      BY <1>1, <1>6 DEF TypeReplies
    <3>5. QED
      BY <1>7, <3>1, <3>3, <3>4 DEF Commanded, Ops
  <2>3. CASE k \in 1..N
    <3>1. Commanded(w, db, replies, reqs, at, k) /\ R + Q \in Nat
      BY <1>1, <1>3, <2>3
    <3>2. Commanded(w, db, replies, qs, at, k)
      BY <1>3, <1>12, <2>3, <3>1, StillCommanded
    <3>3. Selects(W, db, k) = Selects(w, db, k) /\ W[k] = w[k] /\ bt[k] = at[k]
      BY <1>1, <1>2, <1>5, <1>9, <2>3
    <3>4. QED
      BY <3>2, <3>3 DEF Commanded
  <2>4. QED
    BY <1>1, <2>2, <2>3
<1>14. cur \in 1..(Len(W) + 1)
  BY <1>11 DEF Cursor
<1>15. Aligned(W, db, replies, qs, connDb)
  BY <1>9, <1>10, <1>11, <1>13, <1>14 DEF Aligned
<1>16. Before(W, db, N + 2) = i.db
  BY <1>1, <1>2 DEF Before
<1>17. QED
  BY <1>15, <1>16 DEF W, qs

(* The source answers the next request. *)
LEMMA AlignedReply ==
  ASSUME NEW w \in Seq(Items), NEW db, NEW rs \in Seq(Reply), NEW qs \in Seq(Request), NEW cdb,
         Aligned(w, db, rs, qs, cdb), qs # <<>>, NEW r \in Reply, NEW cdb2,
         r.kind = KindOf(Head(qs).op),
         Head(qs).op = "DUMP" => r.of = [db |-> cdb, name |-> Head(qs).item.name],
         cdb2 = IF Head(qs).op = "SELECT" THEN Head(qs).item.db ELSE cdb
  PROVE  Aligned(w, db, Append(rs, r), Tail(qs), cdb2)
<1> DEFINE N  == Len(w)
           R  == Len(rs)
           Q  == Len(qs)
           rt == Append(rs, r)
           qt == Tail(qs)
<1>1. N \in Nat /\ R \in Nat /\ Q \in Nat \ {0}
  BY LenProperties, EmptySeq
<1>2. Len(rt) = R + 1 /\ rt[R + 1] = r /\ \A p \in 1..R : rt[p] = rs[p]
  BY AppendProperties
<1>3. Head(qs) = qs[1] /\ Len(qt) = Q - 1 /\ \A p \in 1..(Q - 1) : qt[p] = qs[p + 1]
  BY HeadTailProperties
<1>4. PICK at \in [1..(N + 1) -> Nat], cur \in 1..(N + 1) :
        /\ Places(w, db, R + Q, at)
        /\ Cursor(w, db, R, cdb, at, cur)
        /\ \A k \in 1..N : Commanded(w, db, rs, qs, at, k)
  BY DEF Aligned
<1> DEFINE s == Selects(w, db, cur)
<1>5. cur \in 1..N
  <2>1. at[N + 1] = R + Q /\ at[cur] <= R
    BY <1>4 DEF Places, Cursor
  <2>2. cur # N + 1
    BY <1>1, <2>1
  <2>3. QED
    BY <1>1, <2>2
<1>6. /\ at[cur] \in Nat /\ at[cur + 1] \in Nat /\ w[cur] \in Items
      /\ at[cur + 1] = at[cur] + s + 2 + TypeReplies
  <2>1. R + Q \in Nat
    BY <1>1
  <2>2. QED
    BY <1>4, <1>5, <2>1, InPipeline
<1>7. s \in {0, 1} /\ TypeReplies \in {0, 1} /\ (TypeReplies = 1 <=> SkipUnknownType)
  BY SelectsBit
<1>8. at[cur] <= R /\ R < at[cur + 1] /\ cdb = IF R = at[cur] THEN Before(w, db, cur) ELSE w[cur].db
  BY <1>1, <1>4, <1>5 DEF Cursor
<1>9. Commanded(w, db, rs, qs, at, cur)
  BY <1>4, <1>5
<1>10. s = 0 => Before(w, db, cur) = w[cur].db
  BY DEF Selects, SwitchesDb
<1> HIDE DEF s, rt, qt
<1>11. ASSUME NEW op, Asked(rs, qs, R + 1, op, w[cur]) PROVE Head(qs) = [op |-> op, item |-> w[cur]]
  <2>1. ~(R + 1 <= R) /\ (R + 1) - R = 1
    BY <1>1
  <2>2. QED
    BY <1>3, <1>11, <2>1 DEF Asked
<1>12. /\ Head(qs).item = w[cur]
       /\ Head(qs).op # "SELECT" => cdb = w[cur].db
  <2>1. CASE s = 1 /\ R = at[cur]
    <3>1. Asked(rs, qs, R + 1, "SELECT", w[cur])
      BY <1>9, <2>1 DEF Commanded, s
    <3>2. QED
      BY <1>11, <3>1
  <2>2. CASE ~(s = 1 /\ R = at[cur])
    <3>1. cdb = w[cur].db
      BY <1>7, <1>8, <1>10, <2>2
    <3>2. R + 1 = at[cur] + s + 1 \/ R + 1 = at[cur] + s + 2 \/ (R + 1 = at[cur] + s + 3 /\ TypeReplies = 1)
      <4> DEFINE x == at[cur]
                 t == TypeReplies
      <4>1. /\ x \in Nat /\ s \in {0, 1} /\ t \in {0, 1} /\ R \in Nat
            /\ x <= R /\ R < x + s + 2 + t /\ ~(s = 1 /\ R = x)
        BY <1>1, <1>6, <1>7, <1>8, <2>2
      <4> HIDE DEF x, t
      <4>2. R + 1 = x + s + 1 \/ R + 1 = x + s + 2 \/ (R + 1 = x + s + 3 /\ t = 1)
        BY <4>1
      <4>3. QED
        BY <4>2 DEF x, t
    <3>3. CASE R + 1 = at[cur] + s + 1
      BY <1>9, <1>11, <3>1, <3>3 DEF Commanded, s
    <3>4. CASE R + 1 = at[cur] + s + 2
      BY <1>9, <1>11, <3>1, <3>4 DEF Commanded, s
    <3>5. CASE R + 1 = at[cur] + s + 3 /\ TypeReplies = 1
      BY <1>7, <1>9, <1>11, <3>1, <3>5 DEF Commanded, s
    <3>6. QED
      BY <3>2, <3>3, <3>4, <3>5
  <2>3. QED
    BY <2>1, <2>2
<1>13. cdb2 = w[cur].db
  BY <1>12
<1>14. Head(qs).op = "DUMP" => r.of = w[cur]
  BY <1>6, <1>12 DEF Items
<1>15. \A p \in 1..(R + Q), op \in Ops, i \in Items : Asked(rs, qs, p, op, i) => Asked(rt, qt, p, op, i)
  <2>1. SUFFICES ASSUME NEW p \in 1..(R + Q), NEW op \in Ops, NEW i \in Items, Asked(rs, qs, p, op, i)
                 PROVE  Asked(rt, qt, p, op, i)
    OBVIOUS
  <2>2. CASE p \in 1..R
    <3>1. p <= R /\ p <= R + 1
      BY <1>1, <2>2
    <3>2. QED
      BY <1>2, <2>1, <2>2, <3>1 DEF Asked
  <2>3. CASE p = R + 1
    <3>1. ~(R + 1 <= R) /\ (R + 1) - R = 1 /\ R + 1 <= R + 1
      BY <1>1
    <3>2. qs[1] = [op |-> op, item |-> i]
      BY <2>1, <2>3, <3>1 DEF Asked
    <3>3. Head(qs).op = op /\ Head(qs).item = i
      BY <1>3, <3>2
    <3>4. Answers(r, op, i)
      BY <1>12, <1>14, <3>3 DEF Answers
    <3>5. QED
      BY <1>2, <2>3, <3>1, <3>4 DEF Asked
  <2>4. CASE p > R + 1
    <3>1. ~(p <= R) /\ ~(p <= R + 1) /\ p - (R + 1) \in 1..(Q - 1) /\ (p - (R + 1)) + 1 = p - R
      BY <1>1, <2>4
    <3>2. qs[p - R] = [op |-> op, item |-> i]
      BY <2>1, <3>1 DEF Asked
    <3>3. qt[p - (R + 1)] = qs[p - R]
      BY <1>3, <3>1
    <3>4. QED
      BY <1>2, <3>1, <3>2, <3>3 DEF Asked
  <2>5. QED
    BY <1>1, <2>2, <2>3, <2>4
<1>16. \A k \in 1..N : Commanded(w, db, rt, qt, at, k)
  <2>1. R + Q \in Nat
    BY <1>1
  <2>2. QED
    BY <1>4, <1>15, <2>1, StillCommanded
<1>17. Len(rt) + Len(qt) = R + Q
  BY <1>1, <1>2, <1>3
<1> DEFINE cur2 == IF R + 1 < at[cur + 1] THEN cur ELSE cur + 1
<1>18. cur2 \in 1..(N + 1) /\ Cursor(w, db, R + 1, cdb2, at, cur2)
  <2>1. CASE R + 1 < at[cur + 1]
    <3>1. at[cur] <= R + 1 /\ ~(R + 1 = at[cur]) /\ cur2 = cur
      BY <1>1, <1>6, <1>8, <2>1
    <3>2. QED
      BY <1>13, <2>1, <3>1 DEF Cursor
  <2>2. CASE ~(R + 1 < at[cur + 1])
    <3>1. at[cur + 1] = R + 1 /\ cur2 = cur + 1 /\ cur + 1 \in 1..(N + 1)
      BY <1>1, <1>5, <1>6, <1>8, <2>2
    <3>2. cur + 1 <= N => R + 1 < at[(cur + 1) + 1]
      <4>1. SUFFICES ASSUME cur + 1 <= N PROVE R + 1 < at[(cur + 1) + 1]
        OBVIOUS
      <4>2. cur + 1 \in 1..N /\ R + Q \in Nat
        BY <1>1, <1>5, <4>1
      <4>3. at[(cur + 1) + 1] = at[cur + 1] + Selects(w, db, cur + 1) + 2 + TypeReplies
        BY <1>4, <4>2, InPipeline
      <4>4. Selects(w, db, cur + 1) \in {0, 1}
        BY SelectsBit
      <4>5. QED
        BY <1>1, <1>7, <3>1, <4>3, <4>4
    <3>3. Before(w, db, cur + 1) = w[cur].db
      <4>1. cur + 1 # 1 /\ (cur + 1) - 1 = cur
        BY <1>1, <1>5
      <4>2. QED
        BY <4>1 DEF Before
    <3>4. R + 1 \in Nat
      BY <1>1
    <3>5. QED
      BY <1>13, <3>1, <3>2, <3>3, <3>4 DEF Cursor
  <2>3. QED
    BY <2>1, <2>2
<1> HIDE DEF cur2
<1>19. Aligned(w, db, rt, qt, cdb2)
  BY <1>2, <1>4, <1>16, <1>17, <1>18 DEF Aligned
<1>20. QED
  BY <1>19 DEF rt, qt

(* restore takes the first key and its replies, which are those it expects. *)
LEMMA AlignedTake ==
  ASSUME NEW w \in Seq(Items), NEW db, NEW rs \in Seq(Reply), NEW qs \in Seq(Request), NEW cdb,
         Aligned(w, db, rs, qs, cdb), w # <<>>,
         NEW m, m = Selects(w, db, 1) + 2 + TypeReplies, Len(rs) >= m
  PROVE  /\ Aligned(Tail(w), w[1].db, SubSeq(rs, m + 1, Len(rs)), qs, cdb)
         /\ Before(Tail(w), w[1].db, Len(Tail(w)) + 1) = Before(w, db, Len(w) + 1)
         /\ Selects(w, db, 1) = 1 => rs[1].kind = "ok"
         /\ rs[Selects(w, db, 1) + 1].kind = "dump" /\ rs[Selects(w, db, 1) + 1].of = w[1]
         /\ rs[Selects(w, db, 1) + 2].kind = "pttl"
         /\ SkipUnknownType => rs[Selects(w, db, 1) + 3].kind = "type"
<1> DEFINE N == Len(w)
           R == Len(rs)
           Q == Len(qs)
           s == Selects(w, db, 1)
           v == Tail(w)
           d == w[1].db
           rt == SubSeq(rs, m + 1, R)
<1>1. N \in Nat \ {0} /\ R \in Nat /\ Q \in Nat
  BY LenProperties, EmptySeq
<1>2. v \in Seq(Items) /\ Len(v) = N - 1 /\ \A k \in 1..(N - 1) : v[k] = w[k + 1]
  BY HeadTailProperties
<1>3. s \in {0, 1} /\ TypeReplies \in {0, 1} /\ (TypeReplies = 1 <=> SkipUnknownType)
  BY SelectsBit
<1>4. PICK at \in [1..(N + 1) -> Nat], cur \in 1..(N + 1) :
        /\ Places(w, db, R + Q, at)
        /\ Cursor(w, db, R, cdb, at, cur)
        /\ \A k \in 1..N : Commanded(w, db, rs, qs, at, k)
  BY DEF Aligned
<1>5. 1 \in 1..N /\ at[1] = 0 /\ at[2] = m /\ m \in Nat
  <2>1. 1 \in 1..N /\ at[1] = 0
    BY <1>1, <1>4 DEF Places
  <2>2. at[1 + 1] = at[1] + s + 2 + TypeReplies
    BY <1>4, <2>1 DEF Places
  <2>3. QED
    BY <1>3, <2>1, <2>2
<1>6. Commanded(w, db, rs, qs, at, 1)
  BY <1>4, <1>5
<1> HIDE DEF s
<1>7. /\ s = 1 => rs[1].kind = "ok"
      /\ rs[s + 1].kind = "dump" /\ rs[s + 1].of = w[1] /\ rs[s + 2].kind = "pttl"
      /\ SkipUnknownType => rs[s + 3].kind = "type"
  <2>1. \A p \in 1..m, op \in Ops : Asked(rs, qs, p, op, w[1]) => Answers(rs[p], op, w[1])
    <3>1. \A p \in 1..m : p <= R
      BY <1>1, <1>5
    <3>2. QED
      BY <3>1 DEF Asked
  <2>2. /\ 1 \in 1..m /\ s + 1 \in 1..m /\ s + 2 \in 1..m
        /\ 0 + s + 1 = s + 1 /\ 0 + s + 2 = s + 2 /\ 0 + s + 3 = s + 3 /\ 0 + 1 = 1
    BY <1>3 DEF s
  <2>3. SkipUnknownType => s + 3 \in 1..m
    <3>1. SkipUnknownType => m = s + 3
      BY <1>3 DEF s
    <3>2. QED
      BY <1>3, <3>1
  <2>4. /\ s = 1 => Answers(rs[1], "SELECT", w[1])
        /\ Answers(rs[s + 1], "DUMP", w[1]) /\ Answers(rs[s + 2], "PTTL", w[1])
        /\ SkipUnknownType => Answers(rs[s + 3], "TYPE", w[1])
    BY <1>5, <1>6, <2>1, <2>2, <2>3 DEF Commanded, s, Ops
  <2>5. QED
    BY <2>4 DEF Answers, KindOf
<1>8. Len(rt) = R - m /\ \A p \in 1..(R - m) : rt[p] = rs[p + m]
  <2>1. \A p \in (m + 1)..R : rs[p] \in Reply
    <3>1. \A p \in (m + 1)..R : p \in 1..R
      BY <1>1, <1>5
    <3>2. QED
      BY <3>1, ElementOfSeq
  <2>2. /\ Len(rt) = IF m + 1 <= R THEN R - (m + 1) + 1 ELSE 0
        /\ \A p \in 1..R - (m + 1) + 1 : rt[p] = rs[(m + 1) + p - 1]
    <3>1. m + 1 \in Int /\ R \in Int
      BY <1>1, <1>5
    <3>2. QED
      BY <2>1, <3>1, SubSeqProperties
  <2>3. Len(rt) = R - m
    BY <1>1, <1>5, <2>2
  <2>4. R - (m + 1) + 1 = R - m /\ \A p \in 1..(R - m) : (m + 1) + p - 1 = p + m
    BY <1>1, <1>5
  <2>5. QED
    BY <2>2, <2>3, <2>4
<1> HIDE DEF v, rt
<1>9. \A k \in 1..N : Before(v, d, k) = Before(w, db, k + 1)
  <2>1. SUFFICES ASSUME NEW k \in 1..N PROVE Before(v, d, k) = Before(w, db, k + 1)
    OBVIOUS
  <2>2. k + 1 # 1 /\ (k + 1) - 1 = k
    BY <1>1
  <2>3. CASE k = 1
    BY <2>2, <2>3 DEF Before
  <2>4. CASE k # 1
    <3>1. k - 1 \in 1..(N - 1) /\ (k - 1) + 1 = k
      BY <1>1, <2>4
    <3>2. v[k - 1] = w[k]
      BY <1>2, <3>1
    <3>3. QED
      BY <2>2, <2>4, <3>2 DEF Before
  <2>5. QED
    BY <2>3, <2>4
<1>10. \A k \in 1..(N - 1) : k \in 1..N /\ k + 1 \in 1..N /\ v[k] = w[k + 1]
                             /\ Selects(v, d, k) = Selects(w, db, k + 1)
  <2>1. \A k \in 1..(N - 1) : k \in 1..N /\ k + 1 \in 1..N
    BY <1>1
  <2>2. QED
    BY <1>2, <1>9, <2>1 DEF Selects
<1> DEFINE bt == [k \in 1..N |-> at[k + 1] - m]
<1>11. \A k \in 1..N : k + 1 \in 1..(N + 1) /\ at[k + 1] \in Nat /\ at[k + 1] >= m
  <2>1. \A k \in 1..N : k + 1 \in 1..(N + 1) /\ 2 <= k + 1 /\ 2 \in 1..(N + 1)
    BY <1>1
  <2>2. QED
    BY <1>4, <1>5, <2>1 DEF Places
<1>12. bt \in [1..N -> Nat] /\ \A k \in 1..N : bt[k] = at[k + 1] - m
  BY <1>5, <1>11
<1> HIDE DEF bt
<1>13. Places(v, d, Len(rt) + Q, bt)
  <2>1. Len(v) + 1 = N
    BY <1>1, <1>2
  <2>2. bt[1] = 0 /\ bt[N] = Len(rt) + Q
    <3>1. 1 + 1 = 2 /\ N \in 1..N /\ at[N + 1] = R + Q
      BY <1>1, <1>4 DEF Places
    <3>2. bt[1] = at[2] - m /\ bt[N] = at[N + 1] - m
      BY <1>5, <1>12, <3>1
    <3>3. QED
      BY <1>1, <1>5, <1>8, <3>1, <3>2
  <2>3. ASSUME NEW k \in 1..(N - 1) PROVE bt[k + 1] = bt[k] + Selects(v, d, k) + 2 + TypeReplies
    <3>1. k \in 1..N /\ k + 1 \in 1..N /\ Selects(v, d, k) = Selects(w, db, k + 1)
      BY <1>10
    <3>2. at[(k + 1) + 1] = at[k + 1] + Selects(w, db, k + 1) + 2 + TypeReplies
      BY <1>4, <3>1 DEF Places
    <3>3. Selects(w, db, k + 1) \in {0, 1}
      BY SelectsBit
    <3>4. /\ bt[k] = at[k + 1] - m /\ bt[k + 1] = at[(k + 1) + 1] - m
          /\ at[k + 1] \in Nat /\ m \in Nat /\ TypeReplies \in {0, 1}
      BY <1>3, <1>5, <1>11, <1>12, <3>1
    <3>5. QED
      BY <3>1, <3>2, <3>3, <3>4
  <2>4. ASSUME NEW j \in 1..N, NEW k \in 1..N, j <= k PROVE bt[j] <= bt[k]
    <3>1. j + 1 \in 1..(N + 1) /\ k + 1 \in 1..(N + 1) /\ j + 1 <= k + 1
      BY <1>1, <2>4
    <3>2. at[j + 1] <= at[k + 1]
      BY <1>4, <3>1 DEF Places
    <3>3. QED
      BY <1>5, <1>11, <1>12, <3>2
  <2>5. QED
    BY <1>2, <1>12, <2>1, <2>2, <2>3, <2>4 DEF Places
<1>14. cur # 1
  <2>1. cur = 1 => R < at[1 + 1]
    BY <1>1, <1>4 DEF Cursor
  <2>2. QED
    BY <1>1, <1>5, <2>1
<1>15. cur - 1 \in 1..N /\ (cur - 1) + 1 = cur
  BY <1>1, <1>14
<1>16. Cursor(v, d, R - m, cdb, bt, cur - 1)
  <2>1. bt[cur - 1] = at[cur] - m /\ at[cur] \in Nat /\ Before(v, d, cur - 1) = Before(w, db, cur)
    BY <1>9, <1>11, <1>12, <1>15
  <2>2. at[cur] <= R /\ (cur <= N => R < at[cur + 1])
        /\ cdb = IF R = at[cur] THEN Before(w, db, cur) ELSE w[cur].db
    BY <1>4 DEF Cursor
  <2>3. bt[cur - 1] <= R - m /\ (R - m = bt[cur - 1] <=> R = at[cur])
    BY <1>1, <1>5, <2>1, <2>2
  <2>4. CASE cur \in 1..N
    <3>1. cur - 1 \in 1..(N - 1) /\ cur <= N
      BY <1>1, <1>15, <2>4
    <3>2. v[cur - 1] = w[cur] /\ bt[(cur - 1) + 1] = at[cur + 1] - m
      BY <1>2, <1>12, <1>15, <2>4, <3>1
    <3>3. R - m < bt[(cur - 1) + 1]
      BY <1>1, <1>5, <1>11, <2>2, <2>4, <3>1, <3>2
    <3>4. cur - 1 \in 1..(Len(v) + 1)
      BY <1>1, <1>2, <3>1
    <3>5. QED
      BY <2>1, <2>2, <2>3, <3>2, <3>3, <3>4 DEF Cursor
  <2>5. CASE cur = N + 1
    <3>1. at[N + 1] = R + Q
      BY <1>4 DEF Places
    <3>2. R = at[cur] /\ ~(cur - 1 <= Len(v)) /\ cur - 1 \in 1..(Len(v) + 1)
      BY <1>1, <1>2, <2>2, <2>5, <3>1
    <3>3. QED
      BY <2>1, <2>2, <2>3, <3>2 DEF Cursor
  <2>6. QED
    BY <1>1, <2>4, <2>5
<1>17. \A k \in 1..(N - 1) : Commanded(v, d, rt, qs, bt, k)
  <2>1. SUFFICES ASSUME NEW k \in 1..(N - 1) PROVE Commanded(v, d, rt, qs, bt, k)
    OBVIOUS
  <2>2. Commanded(w, db, rs, qs, at, k + 1) /\ v[k] = w[k + 1] /\ Selects(v, d, k) = Selects(w, db, k + 1)
        /\ bt[k] = at[k + 1] - m /\ at[k + 1] \in Nat /\ at[k + 1] >= m
    BY <1>4, <1>10, <1>11, <1>12
  <2> DEFINE b == Selects(w, db, k + 1)
             a == at[k + 1]
  <2>3. b \in {0, 1} /\ a \in Nat /\ m \in Nat /\ a >= m
    BY <1>5, <2>2, SelectsBit
  <2> HIDE DEF a, b
  <2>4. ASSUME NEW j \in {1, b + 1, b + 2, b + 3}, NEW op, Asked(rs, qs, a + j, op, w[k + 1])
        PROVE  Asked(rt, qs, (a - m) + j, op, w[k + 1])
    <3>1. j \in 1..4 /\ (a - m) + j \in Nat \ {0} /\ ((a - m) + j) + m = a + j
      BY <2>3
    <3>2. CASE a + j <= R
      <4>1. (a - m) + j \in 1..(R - m) /\ (a - m) + j <= Len(rt)
        BY <1>1, <1>8, <2>3, <3>1, <3>2
      <4>2. rt[(a - m) + j] = rs[a + j]
        BY <1>8, <3>1, <4>1
      <4>3. QED
        BY <2>4, <3>2, <4>1, <4>2 DEF Asked
    <3>3. CASE ~(a + j <= R)
      <4>1. ~((a - m) + j <= Len(rt)) /\ ((a - m) + j) - Len(rt) = (a + j) - R
        BY <1>1, <1>8, <2>3, <3>1, <3>3
      <4>2. QED
        BY <2>4, <3>3, <4>1 DEF Asked
    <3>4. QED
      BY <3>2, <3>3
  <2>5. /\ a + b + 1 = a + (b + 1) /\ a + b + 2 = a + (b + 2) /\ a + b + 3 = a + (b + 3)
        /\ (a - m) + b + 1 = (a - m) + (b + 1) /\ (a - m) + b + 2 = (a - m) + (b + 2)
        /\ (a - m) + b + 3 = (a - m) + (b + 3)
    BY <2>3
  <2>6. /\ b = 1 => Asked(rt, qs, (a - m) + 1, "SELECT", w[k + 1])
        /\ Asked(rt, qs, (a - m) + b + 1, "DUMP", w[k + 1])
        /\ Asked(rt, qs, (a - m) + b + 2, "PTTL", w[k + 1])
        /\ SkipUnknownType => Asked(rt, qs, (a - m) + b + 3, "TYPE", w[k + 1])
    <3>1. /\ b = 1 => Asked(rs, qs, a + 1, "SELECT", w[k + 1])
          /\ Asked(rs, qs, a + (b + 1), "DUMP", w[k + 1])
          /\ Asked(rs, qs, a + (b + 2), "PTTL", w[k + 1])
          /\ SkipUnknownType => Asked(rs, qs, a + (b + 3), "TYPE", w[k + 1])
      BY <2>2, <2>5 DEF Commanded, a, b
    <3>2. QED
      BY <2>4, <2>5, <3>1
  <2>7. QED
    BY <2>2, <2>6 DEF Commanded, a, b
<1>18. Aligned(v, d, rt, qs, cdb)
  <2>1. Len(v) + 1 = N /\ Len(v) = N - 1
    BY <1>1, <1>2
  <2>2. bt \in [1..(Len(v) + 1) -> Nat] /\ cur - 1 \in 1..(Len(v) + 1)
    BY <1>12, <1>15, <2>1
  <2>3. QED
    BY <1>8, <1>13, <1>16, <1>17, <2>1, <2>2 DEF Aligned
<1>19. Before(v, d, Len(v) + 1) = Before(w, db, N + 1)
  <2>1. Len(v) + 1 = N /\ N \in 1..N
    BY <1>1, <1>2
  <2>2. QED
    BY <1>9, <2>1
<1>20. QED
  BY <1>7, <1>18, <1>19 DEF v, rt, s

LEMMA WorkFacts ==
  ASSUME DumpOK
  PROVE  /\ Work \in Seq(Items)
         /\ restoreChan # <<>> => Work # <<>> /\ Work[1] = Head(restoreChan)
  BY AppendProperties, HeadTailProperties, LenProperties, EmptySeq DEF DumpOK, Work

LEMMA AlignReplies ==
  ASSUME TypeOK, AlignInv, SourceReplies
  PROVE  AlignInv'
<1> DEFINE req == Head(reqs)
           i   == [db |-> connDb, name |-> req.item.name]
<1>1. req \in Request /\ reqs # <<>> /\ reqs' = Tail(reqs)
  BY HeadTailProperties DEF SourceReplies, TypeOK, DumpOK
<1>2. PICK r : replies' = Append(replies, r) /\ r \in Reply /\ r.kind = KindOf(req.op)
               /\ (req.op = "DUMP" => r.of = i)
               /\ connDb' = IF req.op = "SELECT" THEN req.item.db ELSE connDb
  <2>1. i \in Items /\ src[i] \in Version
    BY <1>1 DEF Request, Items, TypeOK, DumpOK, SourceOK
  <2>2. CASE req.op = "SELECT"
    BY <2>2 DEF SourceReplies, Reply, KindOf
  <2>3. CASE req.op = "DUMP"
    BY <2>1, <2>3 DEF SourceReplies, Reply, KindOf
  <2>4. CASE req.op = "PTTL"
    BY <2>1, <2>4 DEF SourceReplies, Reply, KindOf, PttlOf
  <2>5. CASE req.op = "TYPE"
    <3>1. replies' = Append(replies, [kind |-> "type", skip |-> src[i] \in Foreign]) /\ connDb' = connDb
      BY <2>5 DEF SourceReplies
    <3>2. [kind |-> "type", skip |-> src[i] \in Foreign] \in Reply
      BY DEF Reply
    <3>3. QED
      BY <2>5, <3>1, <3>2 DEF KindOf
  <2>6. QED
    BY <1>1, <2>2, <2>3, <2>4, <2>5 DEF Request
<1>3. UNCHANGED <<dump, restoreChan, restore>>
  BY DEF SourceReplies, toRest
<1>4. Work' = Work
  BY <1>3 DEF Work
<1>5. Aligned(Work, restore.db, Append(replies, r), Tail(reqs), connDb')
  <2>1. Work \in Seq(Items) /\ replies \in Seq(Reply) /\ reqs \in Seq(Request)
    BY WorkFacts DEF TypeOK, DumpOK
  <2>2. Aligned(Work, restore.db, replies, reqs, connDb)
    BY DEF AlignInv
  <2>3. QED
    BY <1>1, <1>2, <2>1, <2>2, AlignedReply
<1>6. QED
  BY <1>1, <1>2, <1>3, <1>4, <1>5 DEF AlignInv

LEMMA AlignDump ==
  ASSUME TypeOK, AlignInv, DumpStep
  PROVE  AlignInv'
<1>1. UNCHANGED <<restore, connDb, replies>>
  BY DEF DumpStep
<1>2. CASE DumpItem
  <2>1. /\ q.item \in Items /\ Work = restoreChan /\ Work' = Append(restoreChan, q.item)
        /\ dump'.db = q.item.db /\ reqs' = reqs \o DumpCommands(q.item)
    BY <1>2 DEF DumpItem, Work, toRest, TypeOK, QueueOK
  <2>2. Work \in Seq(Items) /\ Len(Work) \in Nat
    BY WorkFacts, LenProperties DEF TypeOK
  <2>3. /\ Aligned(Append(Work, q.item), restore.db, replies, reqs \o DumpCommands(q.item), connDb)
        /\ Before(Append(Work, q.item), restore.db, Len(Work) + 2) = q.item.db
    BY <2>1, <2>2, AlignedAppend DEF AlignInv, TypeOK
  <2>4. Len(Work') + 1 = Len(Work) + 2
    BY <2>1, <2>2, AppendProperties
  <2>5. QED
    BY <1>1, <2>1, <2>3, <2>4 DEF AlignInv
<1>3. CASE DumpPush \/ DumpEnd
  <2>1. Work' = Work /\ reqs' = reqs /\ dump'.db = dump.db
    BY <1>3 DEF DumpPush, DumpEnd, Work, TypeOK, DumpOK
  <2>2. QED
    BY <1>1, <2>1 DEF AlignInv
<1>4. QED
  BY <1>2, <1>3 DEF DumpStep

(* restore never sees a reply of another kind, and it sends what was dumped from the key. *)
LEMMA RestoreKeyFits ==
  ASSUME TypeOK, AlignInv, RestoreKey, UNCHANGED <<dump, reqs, connDb>>
  PROVE  /\ AlignInv' /\ ~panicked'
         /\ \A n \in 1..Len(restore'.out) : restore'.out[n].of = restore'.out[n].item
<1> DEFINE i    == Head(restoreChan)
           sel  == IF SwitchesDb(restore.db, i) THEN 1 ELSE 0
           type == IF SkipUnknownType THEN 1 ELSE 0
           d    == replies[sel + 1]
           p    == replies[sel + 2]
           bad  == \/ sel = 1 /\ replies[1].kind # "ok"
                   \/ d.kind # "dump" \/ p.kind # "pttl"
                   \/ type = 1 /\ replies[sel + 3].kind # "type"
           skip == type = 1 /\ replies[sel + 3].skip
           emit == IF bad \/ skip \/ d.ver = 0 \/ p.ttl = -2 THEN <<>>
                   ELSE RestoreEntries(i, d, RestoreTtl(p.ttl))
           m    == Selects(Work, restore.db, 1) + 2 + TypeReplies
<1>1. /\ Len(replies) >= sel + 2 + type
      /\ replies' = SubSeq(replies, sel + 3 + type, Len(replies))
      /\ panicked' = bad
      /\ restore' = [db |-> i.db, out |-> emit, pc |-> IF emit = <<>> THEN "range" ELSE "emit"]
      /\ restoreChan' = Tail(restoreChan) /\ restoreChan # <<>>
  BY DEF RestoreKey
<1>2. Work \in Seq(Items) /\ Work # <<>> /\ Work[1] = i /\ i \in Items
  BY <1>1, WorkFacts, HeadTailProperties DEF TypeOK, DumpOK
<1>3. sel = Selects(Work, restore.db, 1) /\ type = TypeReplies
  BY <1>2 DEF Selects, Before, TypeReplies
<1>4. sel \in {0, 1} /\ type \in {0, 1} /\ (type = 1 <=> SkipUnknownType) /\ Len(replies) \in Nat
  BY LenProperties DEF TypeOK, DumpOK
<1>5. Len(replies) >= m /\ sel + 3 + type = m + 1
  BY <1>1, <1>3, <1>4
<1>6. /\ Aligned(Tail(Work), i.db, SubSeq(replies, m + 1, Len(replies)), reqs, connDb)
      /\ Before(Tail(Work), i.db, Len(Tail(Work)) + 1) = Before(Work, restore.db, Len(Work) + 1)
      /\ sel = 1 => replies[1].kind = "ok"
      /\ d.kind = "dump" /\ d.of = i /\ p.kind = "pttl"
      /\ SkipUnknownType => replies[sel + 3].kind = "type"
  <2>1. replies \in Seq(Reply) /\ reqs \in Seq(Request)
    BY DEF TypeOK, DumpOK
  <2>2. Aligned(Work, restore.db, replies, reqs, connDb)
    BY DEF AlignInv
  <2> HIDE DEF m, i
  <2>3. m = Selects(Work, restore.db, 1) + 2 + TypeReplies
    BY DEF m
  <2>4. /\ Aligned(Tail(Work), Work[1].db, SubSeq(replies, m + 1, Len(replies)), reqs, connDb)
        /\ Before(Tail(Work), Work[1].db, Len(Tail(Work)) + 1) = Before(Work, restore.db, Len(Work) + 1)
        /\ Selects(Work, restore.db, 1) = 1 => replies[1].kind = "ok"
        /\ replies[Selects(Work, restore.db, 1) + 1].kind = "dump"
        /\ replies[Selects(Work, restore.db, 1) + 1].of = Work[1]
        /\ replies[Selects(Work, restore.db, 1) + 2].kind = "pttl"
        /\ SkipUnknownType => replies[Selects(Work, restore.db, 1) + 3].kind = "type"
    BY <1>2, <1>5, <2>1, <2>2, <2>3, AlignedTake
  <2>5. QED
    BY <1>2, <1>3, <2>4
<1>7. ~bad
  BY <1>4, <1>6
<1>8. Work' = Tail(Work)
  <2>1. CASE dump.pc = "push"
    <3>1. Work = Append(restoreChan, dump.item) /\ Work' = Append(Tail(restoreChan), dump.item)
      BY <1>1, <2>1 DEF Work
    <3>2. QED
      BY <1>1, <3>1, HeadTailAppend DEF TypeOK, DumpOK
  <2>2. CASE dump.pc # "push"
    BY <1>1, <2>2 DEF Work
  <2>3. QED
    BY <2>1, <2>2
<1>9. emit = <<>> \/ \A n \in 1..Len(emit) : emit[n].of = emit[n].item
  <2>1. CASE bad \/ skip \/ d.ver = 0 \/ p.ttl = -2
    BY <2>1
  <2>2. CASE ~(bad \/ skip \/ d.ver = 0 \/ p.ttl = -2)
    <3>1. d \in Reply /\ p \in Reply
      <4>1. sel + 1 \in 1..Len(replies) /\ sel + 2 \in 1..Len(replies)
        BY <1>1, <1>4
      <4>2. QED
        BY <4>1, ElementOfSeq DEF TypeOK, DumpOK
    <3>2. d.ver \in Version /\ p.ttl \in {-1, 0, 5}
      BY <1>6, <2>2, <3>1 DEF Reply
    <3>3. RestoreTtl(p.ttl) \in {0, 1, 5}
      BY <3>2 DEF RestoreTtl
    <3>4. emit = RestoreEntries(i, d, RestoreTtl(p.ttl)) /\ d.of \in Items
      BY <1>2, <1>6, <2>2
    <3>5. d.of = i
      BY <1>6
    <3> HIDE DEF i, d, p, emit
    <3>6. \A n \in 1..Len(emit) : emit[n].item = i /\ emit[n].of = d.of
      BY <1>2, <3>2, <3>3, <3>4, EntriesType
    <3>7. QED
      BY <3>5, <3>6
  <2>3. QED
    BY <2>1, <2>2
<1> HIDE DEF i, sel, type, d, p, bad, emit, m
<1>10. AlignInv'
  <2>1. restore'.db = i.db
    BY <1>1
  <2>2. replies' = SubSeq(replies, m + 1, Len(replies))
    BY <1>1, <1>5
  <2>3. QED
    BY <1>6, <1>8, <2>1, <2>2 DEF AlignInv
<1>11. \A n \in 1..Len(restore'.out) : restore'.out[n].of = restore'.out[n].item
  <2>1. restore'.out = emit
    BY <1>1
  <2>2. CASE emit = <<>>
    BY <2>1, <2>2, EmptySeq
  <2>3. QED
    BY <1>9, <2>1, <2>2
<1>12. QED
  BY <1>1, <1>7, <1>10, <1>11

LEMMA AlignInvInit == Init => AlignInv
<1> SUFFICES ASSUME Init PROVE AlignInv
  OBVIOUS
<1>1. Work = <<>> /\ Len(Work) = 0 /\ Len(replies) = 0 /\ Len(reqs) = 0
  BY EmptySeq DEF Init, Work
<1> DEFINE at == [k \in 1..1 |-> 0]
<1>2. at \in [1..(Len(Work) + 1) -> Nat] /\ at[1] = 0 /\ 1 \in 1..(Len(Work) + 1)
  BY <1>1
<1> HIDE DEF at
<1>3. Places(Work, restore.db, Len(replies) + Len(reqs), at)
  BY <1>1, <1>2 DEF Places
<1>4. Before(Work, restore.db, 1) = 0 /\ dump.db = 0 /\ connDb = 0
  BY DEF Init, Before
<1>5. Cursor(Work, restore.db, Len(replies), connDb, at, 1)
  BY <1>1, <1>2, <1>4 DEF Cursor
<1>6. QED
  BY <1>1, <1>2, <1>3, <1>4, <1>5 DEF AlignInv, Aligned

LEMMA AlignInvNext == TypeOK /\ AlignInv /\ [Next]_vars => AlignInv'
<1> SUFFICES ASSUME TypeOK, AlignInv, [Next]_vars PROVE AlignInv'
  OBVIOUS
<1>1. CASE UNCHANGED <<dump, restoreChan, replies, reqs, connDb>> /\ restore'.db = restore.db
  BY <1>1 DEF AlignInv, Work
<1>2. CASE RestoreStep
  <2>1. CASE RestoreKey
    BY <1>2, <2>1, RestoreKeyFits DEF RestoreStep
  <2>2. CASE RestoreEmit \/ RestoreEnd
    BY <1>1, <1>2, <2>2 DEF RestoreStep, RestoreEmit, RestoreEnd, toRest, TypeOK, RestoreOK
  <2>3. QED
    BY <1>2, <2>1, <2>2 DEF RestoreStep
<1>3. CASE ~SourceReplies /\ ~DumpStep /\ ~RestoreStep
  <2>1. UNCHANGED <<dump, restoreChan, replies, reqs, connDb, restore>>
    BY <1>3 DEF Next, vars, SourceSet, SourceDel, SourceExpire, Change, Cancel, QueueStep, SubStep,
                ScanStep, Deliver, conn, toRest
  <2>2. QED
    BY <1>1, <2>1
<1>4. QED
  BY <1>2, <1>3, AlignReplies, AlignDump

(* What restore sends, and what the target holds, was dumped from its key. *)
KeyInv ==
  /\ \A n \in 1..Len(restore.out) : restore.out[n].of = restore.out[n].item
  /\ \A n \in 1..Len(ch) : ch[n].op # "DEL" => ch[n].of = ch[n].item
  /\ ValueBelongsToKey

LEMMA KeyInvInit == Init => KeyInv
  BY EmptySeq DEF Init, KeyInv, ValueBelongsToKey, NoValue

LEMMA KeyInvDeliver ==
  ASSUME TypeOK, KeyInv, Deliver
  PROVE  KeyInv'
<1> DEFINE e == Head(ch)
<1>1. /\ e \in Entry /\ e = ch[1] /\ Len(ch) \in Nat \ {0} /\ Len(ch') = Len(ch) - 1
      /\ \A n \in 1..Len(ch') : ch'[n] = ch[n + 1]
  BY HeadTailProperties, EmptySeq DEF Deliver, TypeOK, RestoreOK
<1>2. e.op # "DEL" => e.of = e.item
  BY <1>1 DEF KeyInv
<1>3. \A n \in 1..Len(ch') : n + 1 \in 1..Len(ch)
  BY <1>1
<1>4. e.item \in Items /\ tgt[e.item] \in Value /\ (e.op # "DEL" => e.op \in {"RESTORE", "COMMANDS", "PEXPIRE"})
  BY <1>1 DEF Entry, Restored, TypeOK, RestoreOK
<1>5. Apply(e).ver # 0 => Apply(e).of = e.item
  <2>1. CASE e.op = "DEL"
    BY <2>1 DEF Apply, NoValue
  <2>2. CASE e.op = "RESTORE"
    BY <1>2, <2>2 DEF Apply
  <2>3. CASE e.op = "COMMANDS"
    BY <1>2, <1>4, <2>3 DEF Apply, KeyInv, ValueBelongsToKey, Value
  <2>4. CASE e.op = "PEXPIRE"
    BY <1>4, <2>4 DEF Apply, KeyInv, ValueBelongsToKey, Value, NoValue
  <2>5. QED
    BY <1>4, <2>1, <2>2, <2>3, <2>4
<1>6. tgt' = [tgt EXCEPT ![e.item] = Apply(e)] /\ restore' = restore /\ tgt \in [Items -> Value]
  BY DEF Deliver, TypeOK, RestoreOK
<1> HIDE DEF e
<1>7. ValueBelongsToKey'
  BY <1>4, <1>5, <1>6 DEF KeyInv, ValueBelongsToKey
<1>8. QED
  BY <1>1, <1>3, <1>6, <1>7 DEF KeyInv

LEMMA KeyInvNext == TypeOK /\ AlignInv /\ KeyInv /\ [Next]_vars => KeyInv'
<1> SUFFICES ASSUME TypeOK, AlignInv, KeyInv, [Next]_vars PROVE KeyInv'
  OBVIOUS
<1>1. CASE RestoreStep
  <2>1. tgt' = tgt
    BY <1>1 DEF RestoreStep
  <2>2. CASE RestoreKey
    <3>1. \A n \in 1..Len(restore'.out) : restore'.out[n].of = restore'.out[n].item
      BY <1>1, <2>2, RestoreKeyFits DEF RestoreStep
    <3>2. ch' = ch
      BY <2>2 DEF RestoreKey, out
    <3>3. QED
      BY <2>1, <3>1, <3>2 DEF KeyInv, ValueBelongsToKey
  <2>3. CASE RestoreEmit
    <3> DEFINE o == restore.out
    <3>1. /\ o \in Seq(Restored) /\ o # <<>> /\ Len(o) \in Nat \ {0} /\ Head(o) = o[1] /\ Head(o) \in Entry
          /\ Len(Tail(o)) = Len(o) - 1 /\ \A n \in 1..Len(Tail(o)) : Tail(o)[n] = o[n + 1]
      BY <2>3, HeadTailProperties, EmptySeq DEF RestoreEmit, TypeOK, RestoreOK, Entry
    <3>2. restore'.out = Tail(o) /\ ch' = Append(ch, Head(o)) /\ ch \in Seq(Entry) /\ Len(ch) \in Nat
      BY <2>3, LenProperties DEF RestoreEmit, TypeOK, RestoreOK
    <3>3. /\ Len(ch') = Len(ch) + 1 /\ ch'[Len(ch) + 1] = o[1]
          /\ \A n \in 1..Len(ch) : ch'[n] = ch[n]
      BY <3>1, <3>2, AppendProperties
    <3>4. /\ \A n \in 1..Len(Tail(o)) : n + 1 \in 1..Len(o)
          /\ 1 \in 1..Len(o) /\ \A n \in 1..Len(ch') : n \in 1..Len(ch) \/ n = Len(ch) + 1
      BY <3>1, <3>2, <3>3
    <3>5. \A n \in 1..Len(o) : o[n].of = o[n].item
      BY DEF KeyInv
    <3> HIDE DEF o
    <3>6. \A n \in 1..Len(restore'.out) : restore'.out[n].of = restore'.out[n].item
      BY <3>1, <3>2, <3>4, <3>5
    <3>7. \A n \in 1..Len(ch') : ch'[n].op # "DEL" => ch'[n].of = ch'[n].item
      BY <3>3, <3>4, <3>5 DEF KeyInv
    <3>8. QED
      BY <2>1, <3>6, <3>7 DEF KeyInv, ValueBelongsToKey
  <2>4. CASE RestoreEnd
    <3>1. restore'.out = restore.out /\ ch' = ch
      BY <2>4 DEF RestoreEnd, TypeOK, RestoreOK
    <3>2. QED
      BY <2>1, <3>1 DEF KeyInv, ValueBelongsToKey
  <2>5. QED
    BY <1>1, <2>2, <2>3, <2>4 DEF RestoreStep
<1>2. CASE SubStep
  <2>1. UNCHANGED <<restore, tgt>>
    BY <1>2 DEF SubStep
  <2>2. ch' = ch \/ (SubDel /\ ~chClosed)
    BY <1>2 DEF SubStep, SubLoop, SubReceive, SubPut, SubDel, out
  <2>3. CASE ch' = ch
    BY <2>1, <2>3 DEF KeyInv, ValueBelongsToKey
  <2>4. CASE SubDel /\ ~chClosed
    <3> DEFINE d == [op |-> "DEL", item |-> sub.item]
    <3>1. d \in Entry /\ ch' = Append(ch, d) /\ ch \in Seq(Entry) /\ Len(ch) \in Nat /\ d.op = "DEL"
      BY <2>4, LenProperties DEF SubDel, Entry, TypeOK, ProducersOK, RestoreOK
    <3> HIDE DEF d
    <3>2. /\ Len(ch') = Len(ch) + 1 /\ ch'[Len(ch) + 1] = d /\ \A n \in 1..Len(ch) : ch'[n] = ch[n]
      BY <3>1, AppendProperties
    <3>3. \A n \in 1..Len(ch') : n \in 1..Len(ch) \/ n = Len(ch) + 1
      BY <3>1, <3>2
    <3>4. QED
      BY <2>1, <3>1, <3>2, <3>3 DEF KeyInv, ValueBelongsToKey
  <2>5. QED
    BY <2>2, <2>3, <2>4
<1>3. CASE ~RestoreStep /\ ~SubStep /\ ~Deliver
  <2>1. UNCHANGED <<restore, ch, tgt>>
    BY <1>3 DEF Next, vars, SourceSet, SourceDel, SourceExpire, Change, SourceReplies, Cancel, QueueStep,
                ScanStep, DumpStep, out
  <2>2. QED
    BY <2>1 DEF KeyInv, ValueBelongsToKey
<1>4. QED
  BY <1>1, <1>2, <1>3, KeyInvDeliver

LEMMA AlignInvAlways == Spec => []AlignInv
  BY Types, AlignInvInit, AlignInvNext, PTL DEF Spec

(***************************************************************************)
(* Every value that reaches the target under a key was dumped from that    *)
(* key in that database: dump's pipelined SELECT, DUMP, PTTL and TYPE and  *)
(* the replies restore counts off agree for every mix of databases, every  *)
(* capacity and every timing of the source.                                *)
(***************************************************************************)
THEOREM ValuesBelongToKeys == Spec => []ValueBelongsToKey
<1>1. KeyInv => ValueBelongsToKey
  BY DEF KeyInv
<1>2. QED
  BY <1>1, Types, AlignInvAlways, KeyInvInit, KeyInvNext, PTL DEF Spec

-----------------------------------------------------------------------------
(* The channels are closed one after the other, by the goroutine that sends on them. *)

ClosedInv ==
  /\ ~mode.ksn => sub.pc = "done"
  /\ ~mode.scan => scan.pc = "done"
  /\ innerClosed => \/ mode.ksn /\ sub.pc = "done" /\ cancelled
                    \/ mode.scan /\ scan.pc = "done" /\ (cancelled \/ ~mode.ksn)
  /\ q.pc = "done" => innerClosed
  /\ dump.pc = "done" => q.pc = "done"
  /\ restoreClosed => dump.pc = "done"
  /\ chClosed => restoreClosed

LEMMA ClosedInvInit == Init => ClosedInv /\ OneProducerIsSafe
  BY DEF Init, ClosedInv, OneProducerIsSafe

LEMMA ClosedInvSub ==
  ASSUME TypeOK, ClosedInv, ~panicked, SubStep
  PROVE  ClosedInv' /\ OneProducerIsSafe'
<1>1. UNCHANGED <<mode, scan, q, dump, restoreClosed, cancelled>> /\ mode.ksn /\ chClosed' = chClosed
  BY DEF SubStep, SubLoop, SubReceive, SubPut, SubDel, toRest, out, ClosedInv
<1>2. sub.pc # "done" /\ (chClosed => innerClosed)
  BY DEF SubStep, SubLoop, SubReceive, SubPut, SubDel, ClosedInv
<1>3. innerClosed => mode.scan /\ scan.pc = "done" /\ cancelled
  BY <1>1, <1>2 DEF ClosedInv
<1>4. (panicked' => innerClosed) /\ (innerClosed' => innerClosed \/ (sub'.pc = "done" /\ cancelled))
  BY <1>2 DEF SubStep, SubLoop, SubReceive, SubPut, SubDel, CloseInner, PutSend, queue, TypeOK,
              ProducersOK, QueueOK
<1>5. innerClosed => innerClosed'
  BY DEF SubStep, SubLoop, SubReceive, SubPut, SubDel, CloseInner, PutSend, queue
<1>6. OneProducerIsSafe'
  BY <1>1, <1>3, <1>4 DEF OneProducerIsSafe
<1>7. ClosedInv'
  BY <1>1, <1>2, <1>3, <1>4, <1>5 DEF ClosedInv
<1>8. QED
  BY <1>6, <1>7

LEMMA ClosedInvScan ==
  ASSUME TypeOK, ClosedInv, ~panicked, ScanStep
  PROVE  ClosedInv' /\ OneProducerIsSafe'
<1>1. UNCHANGED <<mode, sub, q, dump, restoreClosed, chClosed, cancelled>> /\ mode.scan
  BY DEF ScanStep, ScanRound, ScanPutCheck, ScanPut, ScanEnd, toRest, out, ClosedInv
<1>2. scan.pc # "done"
  BY DEF ScanStep, ScanRound, ScanPutCheck, ScanPut, ScanEnd
<1>3. innerClosed => mode.ksn /\ sub.pc = "done" /\ cancelled
  BY <1>2 DEF ClosedInv
<1>4. (panicked' => innerClosed)
      /\ (innerClosed' => innerClosed \/ (scan'.pc = "done" /\ (cancelled \/ ~mode.ksn)))
  BY DEF ScanStep, ScanRound, ScanPutCheck, ScanPut, ScanEnd, CloseInner, PutSend, queue, TypeOK,
         ProducersOK, QueueOK
<1>5. innerClosed => innerClosed'
  BY DEF ScanStep, ScanRound, ScanPutCheck, ScanPut, ScanEnd, CloseInner, PutSend, queue
<1>6. OneProducerIsSafe'
  BY <1>1, <1>3, <1>4 DEF OneProducerIsSafe
<1>7. ClosedInv'
  BY <1>1, <1>3, <1>4, <1>5 DEF ClosedInv
<1>8. QED
  BY <1>6, <1>7

LEMMA ClosedInvNext ==
  TypeOK /\ AlignInv /\ ClosedInv /\ OneProducerIsSafe /\ [Next]_vars => ClosedInv' /\ OneProducerIsSafe'
<1> SUFFICES ASSUME TypeOK, AlignInv, ClosedInv, OneProducerIsSafe, [Next]_vars
             PROVE  ClosedInv' /\ OneProducerIsSafe'
  OBVIOUS
<1>1. CASE UNCHANGED vars
  BY <1>1 DEF vars, queue, toRest, out, ClosedInv, OneProducerIsSafe
<1>2. CASE QueueStep
  <2>1. UNCHANGED <<mode, sub, scan, innerClosed, dump, restoreClosed, chClosed, cancelled, panicked>>
    BY <1>2 DEF QueueStep, QTake, QDelete, QClose, queue, toRest, out
  <2>2. (q.pc = "done" => q'.pc = "done") /\ (q'.pc = "done" => innerClosed)
    BY <1>2 DEF QueueStep, QTake, QDelete, QClose, TypeOK, QueueOK, ClosedInv
  <2>3. QED
    BY <2>1, <2>2 DEF ClosedInv, OneProducerIsSafe
<1>3. CASE DumpStep
  <2>1. UNCHANGED <<mode, sub, scan, innerClosed, chClosed, cancelled, panicked>>
    BY <1>3 DEF DumpStep, queue, out
  <2>2. /\ q.pc = "done" => q'.pc = "done"
        /\ q'.pc = "done" => innerClosed
        /\ dump'.pc = "done" => q'.pc = "done"
        /\ restoreClosed' => dump'.pc = "done"
        /\ restoreClosed => restoreClosed'
    <3>1. CASE DumpItem
      BY <3>1 DEF DumpItem, toRest, ClosedInv
    <3>2. CASE DumpPush
      BY <3>2 DEF DumpPush, ClosedInv
    <3>3. CASE DumpEnd
      BY <3>3 DEF DumpEnd, TypeOK, DumpOK, ClosedInv
    <3>4. QED
      BY <1>3, <3>1, <3>2, <3>3 DEF DumpStep
  <2>3. QED
    BY <2>1, <2>2 DEF ClosedInv, OneProducerIsSafe
<1>4. CASE RestoreStep
  <2>1. UNCHANGED <<mode, sub, scan, innerClosed, q, dump, cancelled>>
    BY <1>4 DEF RestoreStep, queue
  <2>2. restoreClosed' = restoreClosed /\ (chClosed' => chClosed \/ restoreClosed)
    <3>1. CASE RestoreKey
      BY <3>1 DEF RestoreKey, out
    <3>2. CASE RestoreEmit
      BY <3>2 DEF RestoreEmit, toRest
    <3>3. CASE RestoreEnd
      BY <3>3 DEF RestoreEnd, toRest
    <3>4. QED
      BY <1>4, <3>1, <3>2, <3>3 DEF RestoreStep
  <2>3. panicked' => panicked
    BY <1>4, RestoreKeyFits DEF RestoreStep, RestoreEmit, RestoreEnd
  <2>4. QED
    BY <2>1, <2>2, <2>3 DEF ClosedInv, OneProducerIsSafe
<1>5. CASE (\E i \in Changing : SourceSet(i) \/ SourceDel(i) \/ SourceExpire(i)) \/ SourceReplies \/ Cancel
           \/ Deliver
  <2>1. UNCHANGED <<mode, sub, scan, innerClosed, q, dump, restoreClosed, chClosed, panicked>>
        /\ (cancelled => cancelled')
    <3>1. CASE Cancel
      BY <3>1 DEF Cancel, queue, toRest, out
    <3>2. CASE SourceReplies
      BY <3>2 DEF SourceReplies, queue, toRest, out
    <3>3. CASE Deliver
      BY <3>3 DEF Deliver, queue, toRest
    <3>4. CASE \E i \in Changing : SourceSet(i) \/ SourceDel(i) \/ SourceExpire(i)
      <4>1. PICK i \in Changing : \E v, d : Change(i, v, d)
        BY <3>4 DEF SourceSet, SourceDel, SourceExpire
      <4>2. QED
        BY <4>1 DEF Change, queue, toRest, out
    <3>5. QED
      BY <1>5, <3>1, <3>2, <3>3, <3>4
  <2>2. QED
    BY <2>1 DEF ClosedInv, OneProducerIsSafe
<1>6. QED
  BY <1>1, <1>2, <1>3, <1>4, <1>5, ClosedInvSub, ClosedInvScan DEF Next

(***************************************************************************)
(* The process panics only when both producers run and the context is      *)
(* cancelled (the second Close, or a send after the first): with one       *)
(* producer every channel is closed once and nobody sends on it afterwards, *)
(* and restore never meets a reply of the wrong kind.                      *)
(***************************************************************************)
THEOREM PanicNeedsTwoProducers == Spec => []OneProducerIsSafe
  BY Types, AlignInvAlways, ClosedInvInit, ClosedInvNext, PTL DEF Spec

=============================================================================
