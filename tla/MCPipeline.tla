----------------------------- MODULE MCPipeline -----------------------------
(* Instances of Pipeline for TLC: the configurations and what their sources hold. *)
EXTENDS Pipeline

MCWords == STRING

(* Keys: a key is written as its name; "ta" is {a}x, "ea" is {}a, "xb" is x{b}y}. *)
MCSpelling ==
  [w \in {"a", "b", "ta", "ea", "xb", "v", "0", "1", "2", "ms", "km", "STORE", "dump"} |->
     CASE w = "ta" -> <<"{", "a", "}", "x">>
       [] w = "ea" -> <<"{", "}", "a">>
       [] w = "xb" -> <<"x", "{", "b", "}", "y", "}">>
       [] OTHER    -> <<w>>]
MCNumeral == "0" :> 0 @@ "1" :> 1 @@ "2" :> 2
MCUpperCase == "set" :> "SET" @@ "script" :> "SCRIPT" @@ "load" :> "LOAD" @@ "function" :> "FUNCTION"
Code(x) == CASE x = "a" -> 1 [] x = "b" -> 2 [] x = "{" -> 3 [] x = "}" -> 7 [] x = "x" -> 5 [] OTHER -> 6
MCCrc16(s) == FoldSeq(LAMBDA x, n : 5 * n + Code(x), 0, s)

(* The scripts: one splits MSET, one keeps nothing of database 0. *)
MCRunScript(fn, e) ==
  CASE fn = "split" -> IF ToUpper(e.argv[1]) # "MSET" THEN <<e>>
                       ELSE [i \in 1..(Len(e.argv) \div 2) |->
                               [e EXCEPT !.argv = <<"SET", e.argv[2 * i], e.argv[2 * i + 1]>>]]
    [] fn = "drop"  -> IF e.db = 0 THEN <<>> ELSE <<e>>

NoList == [keys |-> {}, regex |-> {}, prefix |-> {}, suffix |-> {}, any |-> FALSE]
NoRules == [allow |-> NoList, block |-> NoList, allowDb |-> {}, blockDb |-> {},
            allowCmd |-> {}, blockCmd |-> {}, allowGroup |-> {}, blockGroup |-> {}]

Word(f, t) == [from |-> f, to |-> t, mark |-> FALSE]
Moving == [from |-> 0, to |-> 0, mark |-> TRUE]
MasterLine(id, words) == [id |-> id, addr |-> id, master |-> TRUE, bad |-> FALSE, of |-> "-", words |-> words]
ReplicaLine(id, of, bad) == [id |-> id, addr |-> id, master |-> FALSE, bad |-> bad, of |-> of, words |-> <<>>]

OneNode   == << MasterLine("s1", << Word(0, 3) >>) >>
TwoNodes  == << MasterLine("s1", << Word(0, 1) >>), MasterLine("s2", << Word(2, 3) >>) >>
Target    == << MasterLine("n1", << Word(0, 0), Word(2, 2) >>), MasterLine("n2", << Word(1, 1), Word(3, 3) >>) >>
Importing == << MasterLine("n3", << Moving >>), MasterLine("n1", << Word(0, 1), Moving >>), MasterLine("n2", << Word(2, 3) >>) >>
Replicated == << ReplicaLine("r0", "s1", TRUE), MasterLine("s1", << Word(0, 1), Moving >>),
                 MasterLine("s3", <<>>), ReplicaLine("r1", "s1", FALSE), MasterLine("s2", << Word(2, 3) >>) >>
Lacking   == << MasterLine("n1", << Word(0, 0) >>), MasterLine("n2", << Word(2, 3) >>) >>
Doubled   == << MasterLine("n1", << Word(0, 1) >>), MasterLine("n2", << Word(1, 2) >>) >>

NoDisk == [path |-> [kind |-> "aof", recs |-> <<>>], files |-> << >>]

Config == [reader |-> "cluster", source |-> OneNode, preferReplica |-> FALSE, data |-> << >>,
           disk |-> NoDisk, timestamp |-> 0, ops |-> <<>>,
           sink |-> "cluster", target |-> Target, emptyDb |-> FALSE, rules |-> NoRules, fn |-> "",
           pings |-> 0, signals |-> 0]

E(db, argv) == Entry(db, argv, 0, NoValue)

-----------------------------------------------------------------------------
(* One command of every form over a few keys, with and without rules. *)
SomeKeys == {"a", "ta", "xb"}

Argvs ==
  {<<"set", k, "v">> : k \in SomeKeys \cup {"b", "ea"}}
    \cup {<<"MSET", k, "v", l, "v">> : k, l \in SomeKeys}
    \cup {<<"DEL", k, l>> : k, l \in SomeKeys} \cup {<<"DEL", k>> : k \in SomeKeys}
    \cup {<<"BLPOP", k, l, "0">> : k, l \in SomeKeys}
    \cup {<<"BITOP", "AND", k, l>> : k, l \in SomeKeys}
    \cup {<<"EVAL", "lua", n, k, l>> : n \in {"0", "1", "2"}, k, l \in SomeKeys}
    \cup {<<"ZUNIONSTORE", k, n, l, "a">> : n \in {"1", "2"}, k, l \in SomeKeys}
    \cup {<<"GEORADIUS", k, "1", "1", "1", "km">> : k \in SomeKeys}
    \cup {<<"GEORADIUS", k, "1", "1", "1", "km", "STORE", l>> : k, l \in SomeKeys}
    \cup {<<"FLUSHALL">>, <<"script", "load", "lua">>, <<"NEWCMD", "a">>, <<"EVAL", "lua", "2", "a">>, <<"EVAL", "lua">>}

RuleSets ==
  {NoRules,
   [NoRules EXCEPT !.block.keys = {"xb"}, !.allow.prefix = {<<"{", "a">>}, !.allow.keys = {"a", "xb"}],
   [NoRules EXCEPT !.allow.any = TRUE, !.block.suffix = {<<"}">>}, !.blockGroup = {"LIST"}],
   [NoRules EXCEPT !.allow.regex = {"ta", "xb"}, !.blockCmd = {"MSET"}, !.allowGroup = {"STRING", "GENERIC", "GEO"}]}

(* What the table says of these commands and of all the others whose keys Redis documents,
   except SORT, which it lacks. *)
TableArgvs ==
  {<<name, "a", "b", "ta", "xb">> : name \in KeyFirst \cup KeysFirstTwo \cup KeysAll}
    \cup {<<"MSETNX", "a", "v", "b", "v">>, <<"BRPOP", "a", "b", "0">>}
    \cup {<<name, "f", "2", "a", "b", "ta">> : name \in {"EVALSHA", "FCALL"}}
    \cup {<<name, "a", "2", "b", "ta", "WEIGHTS">> : name \in {"ZINTERSTORE", "ZDIFFSTORE"}}

ASSUME TableAgrees ==
  /\ \A argv \in Argvs \cup TableArgvs : KeysAgree(argv)
  /\ ~KeysAgree(<<"SORT", "a", "STORE", "b">>)

CommandConfigs ==
  {[Config EXCEPT !.data = "s1" :> << E(0, argv) >>, !.rules = r] : argv \in Argvs, r \in RuleSets}

(* Two channels, a function, databases, broadcasts; the topologies; a file as target. *)
TwoData == "s1" :> << E(0, <<"SET", "a", "v">>), E(1, <<"FLUSHALL">>) >> @@
           "s2" :> << E(1, <<"MSET", "xb", "v", "b", "v">>), E(0, <<"DEL", "ta">>) >>
ReplicaData == [a \in {"r0", "s1", "s3"} |-> <<>>] @@ "r1" :> << E(0, <<"SET", "a", "v">>) >> @@ "s2" :> << E(1, <<"SET", "b", "v">>) >>

ClusterConfigs ==
  {[Config EXCEPT !.source = TwoNodes, !.data = TwoData, !.fn = "split", !.emptyDb = TRUE, !.pings = 1],
   [Config EXCEPT !.target = Importing, !.emptyDb = TRUE, !.pings = 1,
                  !.data = "s1" :> << E(0, <<"FLUSHALL">>), E(0, <<"SET", "b", "v">>) >>],
   [Config EXCEPT !.source = TwoNodes, !.data = TwoData, !.fn = "drop", !.sink = "file", !.signals = 2],
   [Config EXCEPT !.source = TwoNodes, !.data = TwoData, !.sink = "file", !.rules.allowDb = {1}, !.rules.blockDb = {0},
                  !.pings = 1],
   [Config EXCEPT !.source = Replicated, !.preferReplica = TRUE, !.data = ReplicaData, !.signals = 1],
   [Config EXCEPT !.source = Lacking, !.data = [a \in {"n1", "n2"} |-> <<>>]],
   [Config EXCEPT !.target = Lacking, !.data = "s1" :> <<>>],
   [Config EXCEPT !.target = Doubled, !.data = "s1" :> <<>>]}

-----------------------------------------------------------------------------
(* Snapshots and AOFs, exported to a file. *)
Value(k, at, big) == [op |-> "value", key |-> k, at |-> at, big |-> big,
                      cmds |-> IF big THEN << <<"RPUSH", k, "v">>, <<"RPUSH", k, "1">> >> ELSE <<>>]
Op(o) == [op |-> o]
Expire(at) == [op |-> "expire", at |-> at]
SelectOp(db) == [op |-> "select", db |-> db]
Aux(k) == [op |-> "aux", key |-> k]

Snapshots ==
  {<< Aux("repl-stream-db"), SelectOp(1), Expire(5), Value("a", 5, FALSE), Value("b", None, FALSE), Op("eof") >>,
   << Aux("lua"), Expire(2), Value("a", 2, TRUE), Op("ignored"), Value("b", None, TRUE), Op("eof") >>,
   << Op("function2"), Expire(9), Op("ignored"), Value("ta", 9, TRUE), Expire(1), Value("b", 1, FALSE), Op("eof") >>,
   << Value("a", None, FALSE) >>, << Op("function") >>}

Cmd(argv) == [rec |-> "cmd", argv |-> argv]
Ts(n) == [rec |-> "ts", at |-> n]
Info(t, n, s) == [line |-> "info", type |-> t, name |-> n, seq |-> s, baseRdb |-> FALSE]
Line(k) == [line |-> k]
Aof(recs) == [kind |-> "aof", recs |-> recs]
Rdb(ops) == [kind |-> "rdb", ops |-> ops]

SetA == Cmd(<<"SET", "a", "v">>)
SetB == Cmd(<<"set", "b", "v">>)
DelA == Cmd(<<"DEL", "a">>)
Small == << Value("ea", None, FALSE), Op("eof") >>
Mixed == << Aux("lua"), Expire(5), Value("ea", 5, TRUE), Op("eof") >>

Files ==
  "rdb" :> Rdb(Small) @@ "mixed" :> Rdb(Mixed) @@ "aof" :> Aof(<<Ts(9), SetA>>) @@ "cutbase" :> Aof(<<SetA, [rec |-> "cut"]>>)
    @@ "i1" :> Aof(<<Ts(1), SetB, Ts(3), DelA>>) @@ "i2" :> Aof(<<Ts(4), SetA>>)
    @@ "cut" :> Aof(<<SetB, [rec |-> "cut"]>>) @@ "empty" :> Aof(<<>>) @@ "badts" :> Aof(<<Ts(None), SetB>>)

Manifests ==
  {<< Info("b", "rdb", 1), Info("i", "i1", 1) >>, << Info("i", "i1", 1), Info("b", "aof", 1) >>,
   << Line("comment"), Info("b", "rdb", 1), Info("i", "i1", 1), Info("i", "i2", 2) >>,
   << Info("i", "i1", 1), Info("i", "i2", 2) >>, << Info("b", "empty", 1), Info("i", "cut", 1) >>,
   << Info("h", "i1", 1), Info("i", "i2", 1) >>, << Info("h", "gone", 1), Info("i", "i2", 2) >>,
   << [Info("h", "rdb", 1) EXCEPT !.baseRdb = TRUE], Info("i", "badts", 1) >>,
   << Info("b", "empty", 1), Info("i", "empty", 1) >>, << Info("b", "cutbase", 1), Info("i", "i1", 1) >>,
   << Info("b", "rdb", 1), Info("b", "aof", 2) >>, << Info("i", "i1", 2), Info("i", "i2", 2) >>,
   << Info("b", "gone", 1) >>, << Line("comment") >>, <<>>, << Line("unended") >>,
   << Info("b", "mixed", 1), Line("unended") >>, << Line("comment"), Line("blank") >>, << Line("invalid") >>}

Disks ==
  {[path |-> [kind |-> "manifest", lines |-> m], files |-> Files] : m \in Manifests}
    \cup {[path |-> Aof(r), files |-> << >>] :
            r \in {<<SetA, Ts(4), SetB>>, <<[rec |-> "note"], SetA, [rec |-> "cut"]>>, <<Ts(1)>>,
                   <<SetA, [rec |-> "garbage"]>>}}

FileConfig == [Config EXCEPT !.sink = "file", !.pings = 1, !.signals = 1]

BackupConfigs ==
  {[FileConfig EXCEPT !.reader = "aof", !.disk = d, !.timestamp = t] : d \in Disks, t \in {0, 3}}
SnapshotConfigs ==
  {[FileConfig EXCEPT !.reader = "rdb", !.ops = s] : s \in Snapshots}

MCConfigs == CommandConfigs \cup ClusterConfigs \cup BackupConfigs \cup SnapshotConfigs
TwoIncrements == {c \in BackupConfigs : c.timestamp = 0}

=============================================================================
