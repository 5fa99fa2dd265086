---------------------------- MODULE MCRedisWriter ----------------------------
(* Instances of RedisWriter for TLC. *)
EXTENDS RedisWriter

(* Writes to two databases, smaller and larger than the bufio.Writer of the cfg. *)
WriteEntries == [cmd : {"write"}, db : {0, 1}, to : {0}, size : {1, 3}]

(***************************************************************************)
(* What main may write: the entries of the readers, which carry their      *)
(* database, the SELECT entries of aof_reader, whose entries all have      *)
(* DbId 0, and with a filter function (shake.call) any mixture of them.    *)
(***************************************************************************)
AllEntries ==
  WriteEntries \cup [cmd : {"select"}, db : {0}, to : {0, 1}, size : {1}]

=============================================================================
