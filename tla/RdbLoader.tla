----------------------------- MODULE RdbLoader -----------------------------
(***************************************************************************)
(* rdb.Loader and rdb_reader: a snapshot file turned into entries.  The    *)
(* file is a sequence of opcodes; an expiry is an opcode of its own in     *)
(* front of the value it belongs to.  The loader serves rdb_reader, whose  *)
(* channel main reads, and aof_reader, which starts an rdb_reader of its   *)
(* own for a base file (nested) and forwards what comes out of it.         *)
(***************************************************************************)
EXTENDS Integers, Sequences

CONSTANTS
  ChCap,        \* capacity of a reader's channel; 1024 in the code
  Words,        \* the strings keys, arguments and names are made of
  Times,        \* the values time.Now() may have when an expiry is read
  Rewrite       \* rdb_restore_command_behavior = "rewrite"

ASSUME RdbAssumption ==
  /\ ChCap \in Nat \ {0}
  /\ {"RESTORE", "ms", "dump", "replace", "PEXPIRE", "script", "load", "lua", "function", "lib"}
       \subseteq Words
  /\ Times \subseteq Nat /\ Times # {}
  /\ Rewrite \in BOOLEAN

VARIABLES
  chs,          \* the channels StartRead returned
  open,         \* which of them are not closed yet
  sent,         \* every entry ever put into each of them
  cancelled,    \* ctx of main
  proc,         \* the process: "run", "panic" or "exit"
  rdb,          \* the loader: its program counter and fields
  rdbCh         \* the channel of a nested rdb_reader

rdbVars == <<rdb, rdbCh>>

None == -1      \* no expiry

(* Where an entry comes from, for the properties only: the key and the expiry of the value
   of the file, the time its expiry was read at, and whether it is the last entry of that
   value. *)
Origin(key, at, now) == [key |-> key, at |-> at, now |-> now, last |-> FALSE]
NoValue == Origin("", None, 0)
Origins == [key : Words \cup {""}, at : Int, now : Nat, last : BOOLEAN]

(* An entry; of is no field of the code, and ttl is the number among the arguments. *)
Entry(db, argv, ttl, of) == [db |-> db, argv |-> argv, ttl |-> ttl, of |-> of]
Entries == [db : Nat, argv : Seq(Words), ttl : Nat, of : Origins]

(* What a file consists of.  A value carries the commands it can be rewritten to and, for
   the properties only, the expiry its key has. *)
Opcodes ==
  [op : {"value"}, key : Words, at : Int, big : BOOLEAN, cmds : Seq(Seq(Words))]
    \cup [op : {"expire"}, at : Nat] \cup [op : {"select"}, db : Nat]
    \cup [op : {"aux"}, key : Words]
    \cup [op : {"function2", "ignored", "eof", "function", "unknown"}]

(* The expiry of a value is the opcode in front of it, with none and no value in between. *)
Between(ops, j, i) == \A k \in (j + 1)..(i - 1) : ops[k].op \notin {"expire", "value"}
ExpiriesInFront(ops) ==
  \A i \in DOMAIN ops : ops[i].op = "value" =>
    /\ \A j \in 1..(i - 1) : ops[j].op = "expire" /\ Between(ops, j, i) => ops[i].at = ops[j].at
    /\ (\A j \in 1..(i - 1) : ops[j].op = "expire" => ~Between(ops, j, i)) => ops[i].at = None

(* The commands a value is rewritten to are those of its type. *)
RewritesOK(ops) ==
  \A i \in DOMAIN ops : ops[i].op = "value" =>
    \A j \in DOMAIN ops[i].cmds :
      ops[i].cmds[j] # <<>> /\ ops[i].cmds[j][1] \notin {"RESTORE", "PEXPIRE"}

(* EOF ends the file. *)
EofLast(ops) == \A i \in DOMAIN ops : ops[i].op = "eof" => i = Len(ops)

Snapshot(ops) ==
  ops \in Seq(Opcodes) /\ ExpiriesInFront(ops) /\ RewritesOK(ops) /\ EofLast(ops)

(* The entry says of its key's expiry what the file says.  A key without one gets none; the
   last entry of a volatile key gives it what is left of its time, or 1 ms.  Only a key that
   expires in the very millisecond its expiry is read is left out: 0 stands for no expiry. *)
ExpiryKept(e) ==
  /\ e.of.at = None => e.ttl = 0
  /\ e.of.at # None /\ e.of.last /\ e.of.at # e.of.now =>
       /\ Len(e.argv) > 1 /\ e.argv[1] \in {"RESTORE", "PEXPIRE"} /\ e.argv[2] = e.of.key
       /\ e.ttl = IF e.of.at > e.of.now THEN e.of.at - e.of.now ELSE 1

(* now is the time expireMs was computed at (for the properties only). *)
IdleRdb == [pc |-> "idle", rest |-> <<>>, db |-> 0, expireMs |-> 0, now |-> 0,
            pending |-> <<>>, nested |-> FALSE]

(* StartRead of an rdb_reader over a file with these opcodes. *)
StartRdb(ops, nested) ==
  [IdleRdb EXCEPT !.pc = "read", !.rest = ops, !.nested = nested]

Panic == proc' = "panic"

HasRoom(c) == Len(chs[c]) < ChCap

(* ch <- e of a reader whose channel is chs[c]. *)
Push(c, e) ==
  /\ HasRoom(c)
  /\ chs' = [chs EXCEPT ![c] = Append(@, e)]
  /\ sent' = [sent EXCEPT ![c] = Append(@, e)]

-----------------------------------------------------------------------------
(* expireMs for an expiry at this time. *)
ExpireMs(at, now) == IF at - now < 0 THEN 1 ELSE at - now

(* Fault: the expiry of an oversized value is forgotten. *)
BigValueNoExpiry(o) ==
  [i \in 1..Len(o.cmds) |-> Entry(rdb.db, o.cmds[i], 0, Origin(o.key, o.at, rdb.now))]

(* A value larger than target_redis_proto_max_bulk_len: the commands of Rewrite, and the
   expiry behind them. *)
BigValue(o) ==
  LET of == Origin(o.key, o.at, rdb.now)
  IN  [i \in 1..Len(o.cmds) |-> Entry(rdb.db, o.cmds[i], 0, of)]
        \o IF rdb.expireMs # 0
           THEN << Entry(rdb.db, <<"PEXPIRE", o.key, "ms">>, rdb.expireMs, of) >>
           ELSE <<>>

Restore(key) ==
  <<"RESTORE", key, "ms", "dump">> \o IF Rewrite THEN <<"replace">> ELSE <<>>

(* Any other value: RESTORE with a dump made from its bytes. *)
DumpedValue(o) ==
  LET pttl == IF rdb.expireMs > 0 THEN rdb.expireMs ELSE 0
  IN  << Entry(rdb.db, Restore(o.key), pttl, Origin(o.key, o.at, rdb.now)) >>

(* The entries of a value, with the last one marked. *)
MarkLast(s) == IF s = <<>> THEN s ELSE [s EXCEPT ![Len(s)].of.last = TRUE]
ValueEntries(o) == MarkLast(IF o.big THEN BigValue(o) ELSE DumpedValue(o))

(* The default case of parseRDBEntry: a key and its value. *)
ReadValue(o) ==
  rdb' = [rdb EXCEPT !.pc = "send", !.rest = Tail(@), !.expireMs = 0, !.now = 0,
                     !.pending = ValueEntries(o)]

ReadExpire(o) ==
  \E now \in Times :
    rdb' = [rdb EXCEPT !.pc = "send", !.rest = Tail(@), !.expireMs = ExpireMs(o.at, now),
                       !.now = now]

ReadSelect(o) ==
  rdb' = [rdb EXCEPT !.pc = "send", !.rest = Tail(@), !.db = o.db]

(* AUX fields: a lua script is loaded on the target, others are only logged. *)
ReadAux(o) ==
  rdb' = [rdb EXCEPT !.pc = "send", !.rest = Tail(@),
                     !.pending = IF o.key = "lua"
                                 THEN << Entry(0, <<"script", "load", "lua">>, 0, NoValue) >>
                                 ELSE <<>>]

(* A function library of Redis 7. *)
ReadFunction2(o) ==
  rdb' = [rdb EXCEPT !.pc = "send", !.rest = Tail(@),
                     !.pending = << Entry(0, <<"function", "load", "replace", "lib">>, 0, NoValue) >>]

(* SLOTINFO, RESIZEDB, IDLE, FREQ and MODULE_AUX: read and put aside. *)
ReadIgnored(o) ==
  rdb' = [rdb EXCEPT !.pc = "send", !.rest = Tail(@)]

(* EOF: ParseRDB returns. *)
ReadEof(o) ==
  rdb' = [rdb EXCEPT !.pc = "end", !.rest = Tail(@)]

ReadOp(o) ==
  CASE o.op = "value"     -> ReadValue(o)
    [] o.op = "expire"    -> ReadExpire(o)
    [] o.op = "select"    -> ReadSelect(o)
    [] o.op = "aux"       -> ReadAux(o)
    [] o.op = "function2" -> ReadFunction2(o)
    [] o.op = "ignored"   -> ReadIgnored(o)
    [] o.op = "eof"       -> ReadEof(o)

(* A file cut short, an old function library or an unknown type byte ends the process. *)
Unreadable == rdb.rest # <<>> => Head(rdb.rest).op \in {"function", "unknown"}

(* One round of parseRDBEntry. *)
RdbRead ==
  /\ rdb.pc = "read"
  /\ \/ Unreadable /\ Panic /\ UNCHANGED rdb
     \/ ~Unreadable /\ ReadOp(Head(rdb.rest)) /\ UNCHANGED proc
  /\ UNCHANGED <<chs, open, sent, cancelled, rdbCh>>

(* ld.ch <- e. *)
RdbSend ==
  /\ rdb.pc = "send" /\ rdb.pending # <<>>
  /\ IF rdb.nested
     THEN /\ Len(rdbCh) < ChCap
          /\ rdbCh' = Append(rdbCh, Head(rdb.pending))
          /\ UNCHANGED <<chs, sent>>
     ELSE Push(1, Head(rdb.pending)) /\ UNCHANGED rdbCh
  /\ rdb' = [rdb EXCEPT !.pending = Tail(@)]
  /\ UNCHANGED <<open, cancelled, proc>>

(* The select at the end of a round; a tick that is due may win over ctx. *)
RdbCheck ==
  /\ rdb.pc = "send" /\ rdb.pending = <<>>
  /\ \E pc \in (IF cancelled THEN {"read", "end"} ELSE {"read"}) :
       rdb' = [rdb EXCEPT !.pc = pc]
  /\ UNCHANGED <<chs, open, sent, cancelled, proc, rdbCh>>

(* close(r.ch) after ParseRDB; a nested channel is closed when pc is "closed". *)
RdbClose ==
  /\ rdb.pc = "end"
  /\ rdb' = [rdb EXCEPT !.pc = "closed"]
  /\ open' = IF rdb.nested THEN open ELSE [open EXCEPT ![1] = FALSE]
  /\ UNCHANGED <<chs, sent, cancelled, proc, rdbCh>>

RdbStep == RdbRead \/ RdbSend \/ RdbCheck \/ RdbClose

=============================================================================
