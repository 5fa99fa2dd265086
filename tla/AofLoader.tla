----------------------------- MODULE AofLoader -----------------------------
(***************************************************************************)
(* aof_reader: the files of a multi-part AOF, or one AOF, turned into      *)
(* entries.  The path of the configuration names a manifest or an AOF; the *)
(* reader finds out which by reading it as a manifest first.               *)
(***************************************************************************)
EXTENDS RdbLoader, FiniteSets

VARIABLES
  disk,         \* what the reader finds: the file at the path, the other files
  timestamp,    \* aof_timestamp, 0 for none
  aof           \* the goroutine of StartRead

aofVars == <<disk, timestamp, aof>>

(***************************************************************************)
(* disk.path is [kind |-> "manifest", lines |-> ...] or an AOF, disk.files *)
(* maps the names of the other files to what they hold.  An AOF is         *)
(* [kind |-> "aof", recs |-> ...], its records                             *)
(*   [rec |-> "cmd", argv |-> ...]   a command that is whole               *)
(*   [rec |-> "ts", at |-> ...]      "#TS:<at>"; at = None when unreadable *)
(*   [rec |-> "note"]                any other line that starts with #     *)
(*   [rec |-> "cut"]                 a command the file ends in            *)
(*   [rec |-> "garbage"]             a line that is neither                *)
(* and an RDB is [kind |-> "rdb", ops |-> ...].                            *)
(***************************************************************************)
AofRecords ==
  [rec : {"cmd"}, argv : Seq(Words)] \cup [rec : {"ts"}, at : Int]
    \cup [rec : {"note", "cut", "garbage"}]
FileInfos == [line : {"info"}, type : {"b", "h", "i"}, name : Words, seq : Nat, baseRdb : BOOLEAN]
Lines == FileInfos \cup [line : {"comment", "blank", "short", "invalid", "unended"}]

AofFile(f) == f.kind = "aof" /\ f.recs \in Seq(AofRecords)
RdbFile(f) == f.kind = "rdb" /\ Snapshot(f.ops)

(* Of a manifest only the last line can lack its newline; a snapshot is a base. *)
ManifestOK(lines, files) ==
  /\ lines \in Seq(Lines)
  /\ \A i \in DOMAIN lines :
       /\ lines[i].line = "unended" => i = Len(lines)
       /\ lines[i].line = "info" /\ lines[i].name \in DOMAIN files =>
            \/ lines[i].type = "b" \/ (lines[i].type = "h" /\ lines[i].baseRdb)
            \/ AofFile(files[lines[i].name])

Disk(d) ==
  /\ AofFile(d.path) \/ (d.path.kind = "manifest" /\ ManifestOK(d.path.lines, d.files))
  /\ \A name \in DOMAIN d.files : AofFile(d.files[name]) \/ RdbFile(d.files[name])

NoManifest == [base |-> <<>>, hist |-> <<>>, incr |-> <<>>]

IdleAof == [pc |-> "idle", lines |-> <<>>, lineNum |-> 0, am |-> NoManifest,
            single |-> FALSE, todo |-> <<>>, recs |-> <<>>, at |-> 0, e |-> <<>>]

(* How a record of an AOF looks to the parser of manifests. *)
AsLine(r) == IF r.rec \in {"ts", "note"} THEN [line |-> "comment"] ELSE [line |-> "short"]

ManifestLines(f) ==
  IF f.kind = "manifest" THEN f.lines ELSE [i \in 1..Len(f.recs) |-> AsLine(f.recs[i])]

(* StartRead: AOFLoadManifestFromDisk opens the file at the path. *)
StartAof(d) == [IdleAof EXCEPT !.pc = "manifest", !.lines = ManifestLines(d.path)]

KeepRest == UNCHANGED <<disk, timestamp, cancelled>>

-----------------------------------------------------------------------------
(* The manifest. *)

MaxSeq(incr) == IF incr = <<>> THEN 0 ELSE incr[Len(incr)].seq

(* A line that ends the process: no name, no sequence number, no known type, a name
   that is a path, a second base, an incremental file out of order. *)
BadLine(l) ==
  \/ l.line = "invalid"
  \/ l.line = "info" /\ l.type = "b" /\ aof.am.base # <<>>
  \/ l.line = "info" /\ l.type = "i" /\ l.seq <= MaxSeq(aof.am.incr)

(* A line with the name, number and type of a file. *)
AddLine(am, l) ==
  CASE l.type = "b" -> [am EXCEPT !.base = Append(@, l)]
    [] l.type = "h" -> [am EXCEPT !.hist = IF l.baseRdb THEN @ ELSE Append(@, l)]
    [] l.type = "i" -> [am EXCEPT !.incr = Append(@, l)]

(* One round of AOFLoadManifestFromFile.  "unended" is a last line without newline,
   "short" one of fewer than six words, "blank" an empty one. *)
AofManifestLine ==
  /\ aof.pc = "manifest" /\ aof.lines # <<>> /\ Head(aof.lines).line # "unended"
  /\ LET l == Head(aof.lines)
         next == [aof EXCEPT !.lines = Tail(@), !.lineNum = @ + 1]
     IN  \/ l.line = "comment" /\ aof' = next /\ UNCHANGED proc
         \/ l.line \in {"blank", "short"} /\ UNCHANGED proc
              /\ aof' = [next EXCEPT !.pc = "single"]
         \/ BadLine(l) /\ Panic /\ UNCHANGED aof
         \/ l.line = "info" /\ ~BadLine(l) /\ UNCHANGED proc
              /\ aof' = [next EXCEPT !.am = AddLine(@, l)]
  /\ KeepRest /\ UNCHANGED <<chs, open, sent, rdbVars>>

(* The end of the manifest: an empty one is no manifest. *)
AofManifestEnd ==
  /\ aof.pc = "manifest"
  /\ aof.lines # <<>> => Head(aof.lines).line = "unended"
  /\ aof' = [aof EXCEPT !.pc = IF aof.lineNum = 0 THEN "single" ELSE "multi"]
  /\ KeepRest /\ UNCHANGED <<chs, open, sent, proc, rdbVars>>

-----------------------------------------------------------------------------
(* The files. *)

Size(f) == IF f.kind = "rdb" THEN Len(f.ops) ELSE Len(f.recs)

(* How a line of a manifest looks to the loader of an AOF. *)
AsRecord(l) == IF l.line = "comment" THEN [rec |-> "note"] ELSE [rec |-> "garbage"]

Records(f) ==
  IF f.kind = "aof" THEN f.recs ELSE [i \in 1..Len(f.lines) |-> AsRecord(f.lines[i])]

(* A manifest that came out nil: the file at the path is taken for the AOF. *)
AofSingle ==
  /\ aof.pc = "single"
  /\ aof' = [aof EXCEPT !.pc = "read", !.single = TRUE, !.at = timestamp,
                        !.recs = Records(disk.path)]
  /\ KeepRest /\ UNCHANGED <<chs, open, sent, proc, rdbVars>>

BaseAndIncr(am) == am.base \o am.incr

(* The files LoadAppendOnlyFile goes through: history only stands in for a missing base. *)
FilesInOrder(am) ==
  IF am.base # <<>> THEN am.base \o am.incr ELSE am.hist \o am.incr

Missing(l) == l.name \notin DOMAIN disk.files

(* The beginning of LoadAppendOnlyFile: number and size of the files. *)
AofMulti ==
  LET files == BaseAndIncr(aof.am)
      bad   == files = <<>> \/ \E i \in DOMAIN files : Missing(files[i])
      empty == ~bad /\ \A i \in DOMAIN files : Size(disk.files[files[i].name]) = 0
  IN  /\ aof.pc = "multi"
      /\ \/ bad /\ Panic /\ UNCHANGED aof
         \/ empty /\ UNCHANGED proc /\ aof' = [aof EXCEPT !.pc = "close"]
         \/ ~bad /\ ~empty /\ UNCHANGED proc
              /\ aof' = [aof EXCEPT !.pc = "next", !.todo = FilesInOrder(aof.am)]
      /\ KeepRest /\ UNCHANGED <<chs, open, sent, rdbVars>>

(* ParsingSingleAppendOnlyFile: open the next file; the base is never cut at a timestamp. *)
AofOpen ==
  /\ aof.pc = "next" /\ aof.todo # <<>>
  /\ LET l == Head(aof.todo)
         f == disk.files[l.name]
     IN  \/ /\ Missing(l)                        \* NotExist: go on with the next
            /\ aof' = [aof EXCEPT !.todo = Tail(@)]
            /\ UNCHANGED rdbVars
         \/ /\ ~Missing(l) /\ f.kind = "rdb"
            /\ aof' = [aof EXCEPT !.pc = "forward"]
            /\ rdb' = StartRdb(f.ops, TRUE)
            /\ UNCHANGED rdbCh
         \/ /\ ~Missing(l) /\ f.kind = "aof"
            /\ aof' = [aof EXCEPT !.pc = "read", !.recs = f.recs,
                                  !.at = IF l.type = "b" THEN 0 ELSE timestamp]
            /\ UNCHANGED rdbVars
  /\ KeepRest /\ UNCHANGED <<chs, open, sent, proc>>

(* Every file was gone through. *)
AofAllFiles ==
  /\ aof.pc = "next" /\ aof.todo = <<>>
  /\ aof' = [aof EXCEPT !.pc = "close"]
  /\ KeepRest /\ UNCHANGED <<chs, open, sent, proc, rdbVars>>

(* Fault: the rest of a file cut short is waited for. *)
EndFileWaits(ret) ==
  IF ret = "failed" THEN UNCHANGED <<aof, proc>>
  ELSE IF ~aof.single /\ Head(aof.todo).type = "b"
  THEN aof' = [aof EXCEPT !.pc = "next", !.todo = Tail(@)] /\ UNCHANGED proc
  ELSE aof' = [aof EXCEPT !.pc = "close"] /\ UNCHANGED proc

(* What LoadAppendOnlyFile does with the return of a file: after the base it goes on, a
   base that failed ends the process, and after any other file it returns. *)
EndFile(ret) ==
  IF ~aof.single /\ Head(aof.todo).type = "b"
  THEN IF ret = "failed" THEN Panic /\ UNCHANGED aof
       ELSE aof' = [aof EXCEPT !.pc = "next", !.todo = Tail(@)] /\ UNCHANGED proc
  ELSE aof' = [aof EXCEPT !.pc = "close"] /\ UNCHANGED proc

(* The loop over the entries of a nested rdb_reader. *)
AofForward ==
  /\ aof.pc = "forward" /\ rdbCh # <<>>
  /\ Push(1, Head(rdbCh))
  /\ rdbCh' = Tail(rdbCh)
  /\ KeepRest /\ UNCHANGED <<open, proc, rdb, aof>>

AofForwardEnd ==
  /\ aof.pc = "forward" /\ rdbCh = <<>> /\ rdb.pc = "closed"
  /\ EndFile("ok")
  /\ rdb' = IdleRdb
  /\ KeepRest /\ UNCHANGED <<chs, open, sent, rdbCh>>

-----------------------------------------------------------------------------
(* LoadSingleAppendOnlyFile. *)

(* Fault: the annotation at the timestamp itself already ends the log. *)
TruncatesEarly(r) == aof.at # 0 /\ r.rec = "ts" /\ r.at >= aof.at

(* A "#TS:" annotation behind the recovery timestamp. *)
Truncates(r) == aof.at # 0 /\ r.rec = "ts" /\ r.at > aof.at

Panics(r) == r.rec = "garbage" \/ (aof.at # 0 /\ r.rec = "ts" /\ r.at = None)

(* One round of its loop, up to a command that is ready to be sent. *)
AofRead ==
  /\ aof.pc = "read"
  /\ IF cancelled \/ aof.recs = <<>> THEN EndFile("ok")
     ELSE LET r == Head(aof.recs)
          IN  \/ Panics(r) /\ Panic /\ UNCHANGED aof
              \/ ~Panics(r) /\ Truncates(r) /\ EndFile("truncated")
              \/ r.rec = "cut" /\ EndFile("failed")
              \/ /\ r.rec \in {"ts", "note"} /\ ~Panics(r) /\ ~Truncates(r)
                 /\ aof' = [aof EXCEPT !.recs = Tail(@)] /\ UNCHANGED proc
              \/ /\ r.rec = "cmd"
                 /\ aof' = [aof EXCEPT !.pc = "send", !.recs = Tail(@),
                                       !.e = << Entry(0, r.argv, 0, NoValue) >>]
                 /\ UNCHANGED proc
  /\ KeepRest /\ UNCHANGED <<chs, open, sent, rdbVars>>

(* ld.ch <- e, whether ctx was cancelled meanwhile or not. *)
AofSend ==
  /\ aof.pc = "send"
  /\ Push(1, aof.e[1])
  /\ aof' = [aof EXCEPT !.pc = "read", !.e = <<>>]
  /\ KeepRest /\ UNCHANGED <<open, proc, rdbVars>>

(* close(r.ch). *)
AofClose ==
  /\ aof.pc = "close"
  /\ open' = [open EXCEPT ![1] = FALSE]
  /\ aof' = [aof EXCEPT !.pc = "closed"]
  /\ KeepRest /\ UNCHANGED <<chs, sent, proc, rdbVars>>

AofStep ==
  \/ AofManifestLine \/ AofManifestEnd \/ AofSingle \/ AofMulti
  \/ AofOpen \/ AofAllFiles \/ AofForward \/ AofForwardEnd
  \/ AofRead \/ AofSend \/ AofClose

=============================================================================
