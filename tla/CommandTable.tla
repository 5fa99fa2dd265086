---------------------------- MODULE CommandTable ----------------------------
(***************************************************************************)
(* table.go: the group and the key specifications of every command.  The   *)
(* rows of the table take one of a few shapes, named here; the definitions *)
(* below list the commands of each shape in the order of the file.         *)
(***************************************************************************)
EXTENDS Integers, Sequences, TLC

(* A key specification: where the search begins, how the keys are found from there. *)
Index(i)            == [search |-> "index", index |-> i, keyword |-> "", from |-> 0]
Keyword(w, from)    == [search |-> "keyword", index |-> 0, keyword |-> w, from |-> from]
KeyRange(b, last, step, limit) ==
  [begin |-> b, find |-> "range", last |-> last, step |-> step, limit |-> limit]
KeyCount(b, first, step) == [begin |-> b, find |-> "keynum", first |-> first, step |-> step]

NoKeys           == << >>
First            == << KeyRange(Index(1), 0, 1, 0) >>
Second           == << KeyRange(Index(2), 0, 1, 0) >>
FirstTwo         == First \o Second
OneAndNext       == << KeyRange(Index(1), 1, 1, 0) >>
All              == << KeyRange(Index(1), -1, 1, 0) >>
AllButLast       == << KeyRange(Index(1), -2, 1, 0) >>
EveryOther       == << KeyRange(Index(1), -1, 2, 0) >>
FirstAndRest     == First \o << KeyRange(Index(2), -1, 1, 0) >>
SecondAndRest    == Second \o << KeyRange(Index(3), -1, 1, 0) >>
CountedFrom1     == << KeyCount(Index(1), 1, 1) >>
CountedFrom2     == << KeyCount(Index(2), 1, 1) >>
CountedPairs     == << KeyCount(Index(1), 1, 2) >>
FirstAndCounted  == First \o CountedFrom2
FirstAndStore(i) == First \o << KeyRange(Keyword("STORE", i), 0, 1, 0),
                                KeyRange(Keyword("STOREDIST", i), 0, 1, 0) >>
Streams(i)       == << KeyRange(Keyword("STREAMS", i), -1, 1, 2) >>

Rows(group, shape, names) == [n \in names |-> [group |-> group, keySpec |-> shape]]

-----------------------------------------------------------------------------
containers ==
  {"ACL", "CLIENT", "CLUSTER", "COMMAND", "COMMANDLOG", "CONFIG", "FUNCTION", "LATENCY",
   "MEMORY", "MODULE", "OBJECT", "PUBSUB", "SCRIPT", "SENTINEL", "SLOWLOG", "XGROUP", "XINFO"}

ServerCommands1 ==
     Rows("SERVER", NoKeys, {"ACL-CAT", "ACL-DELUSER", "ACL-DRYRUN",
         "ACL-GENPASS", "ACL-GETUSER", "ACL-HELP", "ACL-LIST", "ACL-LOAD",
         "ACL-LOG", "ACL-SAVE", "ACL-SETUSER", "ACL-USERS", "ACL-WHOAMI", "ACL",
         "BGREWRITEAOF", "BGSAVE", "COMMAND-COUNT", "COMMAND-DOCS",
         "COMMAND-GETKEYS", "COMMAND-GETKEYSANDFLAGS", "COMMAND-HELP",
         "COMMAND-INFO", "COMMAND-LIST", "COMMAND", "COMMANDLOG-GET",
         "COMMANDLOG-HELP", "COMMANDLOG-LEN", "COMMANDLOG-RESET", "COMMANDLOG",
         "CONFIG-GET", "CONFIG-HELP", "CONFIG-RESETSTAT", "CONFIG-REWRITE",
         "CONFIG-SET", "CONFIG", "DBSIZE", "DEBUG"})

ServerCommands2 ==
     Rows("SERVER", NoKeys, {"FAILOVER", "FLUSHALL", "FLUSHDB", "INFO",
         "LASTSAVE", "LATENCY-DOCTOR", "LATENCY-GRAPH", "LATENCY-HELP",
         "LATENCY-HISTOGRAM", "LATENCY-HISTORY", "LATENCY-LATEST",
         "LATENCY-RESET", "LATENCY", "LOLWUT", "MEMORY-DOCTOR", "MEMORY-HELP",
         "MEMORY-MALLOC-STATS", "MEMORY-PURGE", "MEMORY-STATS", "MEMORY",
         "MODULE-HELP", "MODULE-LIST", "MODULE-LOAD", "MODULE-LOADEX",
         "MODULE-UNLOAD", "MODULE", "MONITOR", "PSYNC", "REPLCONF",
         "REPLICAOF"})
  @@ Rows("SERVER", Second, {"MEMORY-USAGE"})

ServerCommands3 ==
     Rows("SERVER", First, {"RESTORE-ASKING"})
  @@ Rows("SERVER", NoKeys, {"ROLE", "SAVE", "SFLUSH", "SHUTDOWN", "SLAVEOF",
         "SLOWLOG-GET", "SLOWLOG-HELP", "SLOWLOG-LEN", "SLOWLOG-RESET",
         "SLOWLOG", "SWAPDB", "SYNC", "TIME", "TRIMSLOTS"})

StringCommands1 ==
     Rows("STRING", First, {"APPEND", "DECR", "DECRBY", "DELEX", "DELIFEQ",
         "DIGEST", "GET", "GETDEL"})

StringCommands2 ==
     Rows("STRING", First, {"GETEX", "GETRANGE", "GETSET", "INCR", "INCRBY",
         "INCRBYFLOAT"})
  @@ Rows("STRING", OneAndNext, {"LCS"})
  @@ Rows("STRING", All, {"MGET"})

StringCommands3 ==
     Rows("STRING", EveryOther, {"MSET", "MSETNX"})
  @@ Rows("STRING", CountedPairs, {"MSETEX"})
  @@ Rows("STRING", First, {"PSETEX", "SET", "SETEX", "SETNX", "SETRANGE"})

StringCommands4 ==
     Rows("STRING", First, {"STRLEN", "SUBSTR"})

ClusterCommands1 ==
     Rows("CLUSTER", NoKeys, {"ASKING", "CLUSTER-ADDSLOTS",
         "CLUSTER-ADDSLOTSRANGE", "CLUSTER-BUMPEPOCH",
         "CLUSTER-CANCELSLOTMIGRATIONS", "CLUSTER-COUNT-FAILURE-REPORTS",
         "CLUSTER-COUNTKEYSINSLOT", "CLUSTER-DELSLOTS", "CLUSTER-DELSLOTSRANGE",
         "CLUSTER-FAILOVER", "CLUSTER-FLUSHSLOT", "CLUSTER-FLUSHSLOTS",
         "CLUSTER-FORGET", "CLUSTER-GETKEYSINSLOT", "CLUSTER-GETSLOTMIGRATIONS",
         "CLUSTER-HELP", "CLUSTER-INFO", "CLUSTER-KEYSLOT", "CLUSTER-LINKS",
         "CLUSTER-MEET", "CLUSTER-MIGRATESLOTS", "CLUSTER-MIGRATION",
         "CLUSTER-MYID", "CLUSTER-MYSHARDID", "CLUSTER-NODES",
         "CLUSTER-REPLICAS", "CLUSTER-REPLICATE", "CLUSTER-RESET",
         "CLUSTER-SAVECONFIG", "CLUSTER-SET-CONFIG-EPOCH", "CLUSTER-SETSLOT",
         "CLUSTER-SHARDS", "CLUSTER-SLAVES", "CLUSTER-SLOT-STATS",
         "CLUSTER-SLOTS", "CLUSTER-SYNCSLOTS", "CLUSTER"})

ClusterCommands2 ==
     Rows("CLUSTER", NoKeys, {"READONLY", "READWRITE"})

ConnectionCommands ==
     Rows("CONNECTION", NoKeys, {"AUTH", "CLIENT-CACHING", "CLIENT-CAPA",
         "CLIENT-GETNAME", "CLIENT-GETREDIR", "CLIENT-HELP", "CLIENT-ID",
         "CLIENT-IMPORT-SOURCE", "CLIENT-INFO", "CLIENT-KILL", "CLIENT-LIST",
         "CLIENT-NO-EVICT", "CLIENT-NO-TOUCH", "CLIENT-PAUSE", "CLIENT-REPLY",
         "CLIENT-SETINFO", "CLIENT-SETNAME", "CLIENT-TRACKING",
         "CLIENT-TRACKINGINFO", "CLIENT-UNBLOCK", "CLIENT-UNPAUSE", "CLIENT",
         "ECHO", "HELLO", "PING", "QUIT", "RESET", "SELECT"})

BitmapCommands ==
     Rows("BITMAP", First, {"BITCOUNT", "BITFIELD", "BITFIELD_RO", "BITPOS",
         "GETBIT", "SETBIT"})
  @@ Rows("BITMAP", SecondAndRest, {"BITOP"})

ListCommands1 ==
     Rows("LIST", FirstTwo, {"BLMOVE", "BRPOPLPUSH"})
  @@ Rows("LIST", CountedFrom2, {"BLMPOP"})
  @@ Rows("LIST", AllButLast, {"BLPOP", "BRPOP"})
  @@ Rows("LIST", First, {"LINDEX"})

ListCommands2 ==
     Rows("LIST", First, {"LINSERT", "LLEN", "LPOP", "LPOS", "LPUSH"})
  @@ Rows("LIST", FirstTwo, {"LMOVE"})
  @@ Rows("LIST", CountedFrom1, {"LMPOP"})

ListCommands3 ==
     Rows("LIST", First, {"LPUSHX", "LRANGE", "LREM", "LSET", "LTRIM", "RPOP"})
  @@ Rows("LIST", FirstTwo, {"RPOPLPUSH"})

ListCommands4 ==
     Rows("LIST", First, {"RPUSH", "RPUSHX"})

SortedSetCommands1 ==
     Rows("SORTED_SET", CountedFrom2, {"BZMPOP"})
  @@ Rows("SORTED_SET", AllButLast, {"BZPOPMAX", "BZPOPMIN"})
  @@ Rows("SORTED_SET", First, {"ZADD", "ZCARD", "ZCOUNT"})
  @@ Rows("SORTED_SET", CountedFrom1, {"ZDIFF"})

SortedSetCommands2 ==
     Rows("SORTED_SET", FirstAndCounted, {"ZDIFFSTORE", "ZINTERSTORE"})
  @@ Rows("SORTED_SET", First, {"ZINCRBY", "ZLEXCOUNT"})
  @@ Rows("SORTED_SET", CountedFrom1, {"ZINTER", "ZINTERCARD"})

SortedSetCommands3 ==
     Rows("SORTED_SET", CountedFrom1, {"ZMPOP"})
  @@ Rows("SORTED_SET", First, {"ZMSCORE", "ZPOPMAX", "ZPOPMIN", "ZRANDMEMBER",
         "ZRANGE", "ZRANGEBYLEX", "ZRANGEBYSCORE"})

SortedSetCommands4 ==
     Rows("SORTED_SET", FirstTwo, {"ZRANGESTORE"})
  @@ Rows("SORTED_SET", First, {"ZRANK", "ZREM", "ZREMRANGEBYLEX",
         "ZREMRANGEBYRANK", "ZREMRANGEBYSCORE", "ZREVRANGE"})

SortedSetCommands5 ==
     Rows("SORTED_SET", First, {"ZREVRANGEBYLEX", "ZREVRANGEBYSCORE",
         "ZREVRANK", "ZSCAN", "ZSCORE"})
  @@ Rows("SORTED_SET", CountedFrom1, {"ZUNION"})
  @@ Rows("SORTED_SET", FirstAndCounted, {"ZUNIONSTORE"})

GenericCommands1 ==
     Rows("GENERIC", FirstTwo, {"COPY"})
  @@ Rows("GENERIC", All, {"DEL", "EXISTS"})
  @@ Rows("GENERIC", First, {"DUMP", "EXPIRE", "EXPIREAT", "EXPIRETIME"})
  @@ Rows("GENERIC", NoKeys, {"KEYS"})

GenericCommands2 ==
     Rows("GENERIC", First, {"MOVE", "PERSIST", "PEXPIRE"})
  @@ Rows("GENERIC", Second, {"OBJECT-ENCODING", "OBJECT-FREQ",
         "OBJECT-IDLETIME", "OBJECT-REFCOUNT"})
  @@ Rows("GENERIC", NoKeys, {"OBJECT-HELP", "OBJECT"})

GenericCommands3 ==
     Rows("GENERIC", First, {"PEXPIREAT", "PEXPIRETIME", "PTTL", "RESTORE"})
  @@ Rows("GENERIC", NoKeys, {"RANDOMKEY", "SCAN"})
  @@ Rows("GENERIC", FirstTwo, {"RENAME", "RENAMENX"})

GenericCommands4 ==
     Rows("GENERIC", All, {"TOUCH", "UNLINK"})
  @@ Rows("GENERIC", First, {"TTL", "TYPE"})
  @@ Rows("GENERIC", NoKeys, {"WAIT", "WAITAOF"})

TransactionsCommands ==
     Rows("TRANSACTIONS", NoKeys, {"DISCARD", "EXEC", "MULTI", "UNWATCH"})
  @@ Rows("TRANSACTIONS", All, {"WATCH"})

ScriptingCommands1 ==
     Rows("SCRIPTING", CountedFrom2, {"EVAL", "EVAL_RO", "EVALSHA",
         "EVALSHA_RO", "FCALL", "FCALL_RO"})
  @@ Rows("SCRIPTING", NoKeys, {"FUNCTION-DELETE", "FUNCTION-DUMP",
         "FUNCTION-FLUSH", "FUNCTION-HELP", "FUNCTION-KILL", "FUNCTION-LIST",
         "FUNCTION-LOAD", "FUNCTION-RESTORE", "FUNCTION-STATS", "FUNCTION"})

ScriptingCommands2 ==
     Rows("SCRIPTING", NoKeys, {"SCRIPT-DEBUG", "SCRIPT-EXISTS", "SCRIPT-FLUSH",
         "SCRIPT-HELP", "SCRIPT-KILL", "SCRIPT-LOAD", "SCRIPT-SHOW", "SCRIPT"})

TairCommands ==
     Rows("TAIRHASH", First, {"EXHSET"})
  @@ Rows("TAIRSTRING", First, {"EXSET"})
  @@ Rows("TAIRZSET", First, {"EXZADD"})

GeoCommands1 ==
     Rows("GEO", First, {"GEOADD", "GEODIST", "GEOHASH", "GEOPOS",
         "GEORADIUS_RO"})
  @@ Rows("GEO", FirstAndStore(6), {"GEORADIUS"})

GeoCommands2 ==
     Rows("GEO", FirstAndStore(5), {"GEORADIUSBYMEMBER"})
  @@ Rows("GEO", First, {"GEORADIUSBYMEMBER_RO", "GEOSEARCH"})
  @@ Rows("GEO", FirstTwo, {"GEOSEARCHSTORE"})

HashCommands1 ==
     Rows("HASH", First, {"HDEL", "HEXISTS", "HEXPIRE", "HEXPIREAT",
         "HEXPIRETIME", "HGET", "HGETALL", "HGETDEL"})

HashCommands2 ==
     Rows("HASH", First, {"HGETEX", "HINCRBY", "HINCRBYFLOAT", "HKEYS", "HLEN",
         "HMGET", "HMSET", "HPERSIST"})

HashCommands3 ==
     Rows("HASH", First, {"HPEXPIRE", "HPEXPIREAT", "HPEXPIRETIME", "HPTTL",
         "HRANDFIELD", "HSCAN", "HSET", "HSETEX"})

HashCommands4 ==
     Rows("HASH", First, {"HSETNX", "HSTRLEN", "HTTL", "HVALS"})

HyperLogLogCommands ==
     Rows("HYPERLOGLOG", First, {"PFADD"})
  @@ Rows("HYPERLOGLOG", All, {"PFCOUNT"})
  @@ Rows("HYPERLOGLOG", Second, {"PFDEBUG"})
  @@ Rows("HYPERLOGLOG", FirstAndRest, {"PFMERGE"})
  @@ Rows("HYPERLOGLOG", NoKeys, {"PFSELFTEST"})

PubSubCommands ==
     Rows("PUBSUB", NoKeys, {"PSUBSCRIBE", "PUBLISH", "PUBSUB-CHANNELS",
         "PUBSUB-HELP", "PUBSUB-NUMPAT", "PUBSUB-NUMSUB",
         "PUBSUB-SHARDCHANNELS", "PUBSUB-SHARDNUMSUB", "PUBSUB", "PUNSUBSCRIBE",
         "SUBSCRIBE", "UNSUBSCRIBE"})
  @@ Rows("PUBSUB", First, {"SPUBLISH"})
  @@ Rows("PUBSUB", All, {"SSUBSCRIBE", "SUNSUBSCRIBE"})

SetCommands1 ==
     Rows("SET", First, {"SADD", "SCARD"})
  @@ Rows("SET", All, {"SDIFF", "SINTER"})
  @@ Rows("SET", FirstAndRest, {"SDIFFSTORE"})
  @@ Rows("SET", CountedFrom1, {"SINTERCARD"})

SetCommands2 ==
     Rows("SET", FirstAndRest, {"SINTERSTORE"})
  @@ Rows("SET", First, {"SISMEMBER", "SMEMBERS", "SMISMEMBER", "SPOP"})
  @@ Rows("SET", FirstTwo, {"SMOVE"})

SetCommands3 ==
     Rows("SET", First, {"SRANDMEMBER", "SREM", "SSCAN"})
  @@ Rows("SET", All, {"SUNION"})
  @@ Rows("SET", FirstAndRest, {"SUNIONSTORE"})

SentinelCommands ==
     Rows("SENTINEL", NoKeys, {"SENTINEL-CKQUORUM", "SENTINEL-CONFIG",
         "SENTINEL-DEBUG", "SENTINEL-FAILOVER", "SENTINEL-FLUSHCONFIG",
         "SENTINEL-GET-MASTER-ADDR-BY-NAME",
         "SENTINEL-GET-PRIMARY-ADDR-BY-NAME", "SENTINEL-HELP",
         "SENTINEL-INFO-CACHE", "SENTINEL-IS-MASTER-DOWN-BY-ADDR",
         "SENTINEL-IS-PRIMARY-DOWN-BY-ADDR", "SENTINEL-MASTER",
         "SENTINEL-MASTERS", "SENTINEL-MONITOR", "SENTINEL-MYID",
         "SENTINEL-PENDING-SCRIPTS", "SENTINEL-PRIMARIES", "SENTINEL-PRIMARY",
         "SENTINEL-REMOVE", "SENTINEL-REPLICAS", "SENTINEL-RESET",
         "SENTINEL-SENTINELS", "SENTINEL-SET", "SENTINEL-SIMULATE-FAILURE",
         "SENTINEL-SLAVES", "SENTINEL"})

StreamCommands1 ==
     Rows("STREAM", First, {"XACK", "XACKDEL", "XADD", "XAUTOCLAIM", "XCLAIM",
         "XDEL", "XDELEX"})
  @@ Rows("STREAM", Second, {"XGROUP-CREATE"})

StreamCommands2 ==
     Rows("STREAM", Second, {"XGROUP-CREATECONSUMER", "XGROUP-DELCONSUMER",
         "XGROUP-DESTROY", "XGROUP-SETID", "XINFO-CONSUMERS", "XINFO-GROUPS",
         "XINFO-STREAM"})
  @@ Rows("STREAM", NoKeys, {"XGROUP-HELP", "XGROUP", "XINFO-HELP", "XINFO"})

StreamCommands3 ==
     Rows("STREAM", First, {"XLEN", "XPENDING", "XRANGE", "XREVRANGE", "XSETID",
         "XTRIM"})
  @@ Rows("STREAM", Streams(1), {"XREAD"})
  @@ Rows("STREAM", Streams(4), {"XREADGROUP"})

BloomFilterCommands1 ==
     Rows("BLOOM FILTER", First, {"BF.ADD", "BF.CARD", "BF.EXISTS", "BF.INFO",
         "BF.INSERT", "BF.LOADCHUNK", "BF.MADD", "BF.MEXISTS"})

BloomFilterCommands2 ==
     Rows("BLOOM FILTER", First, {"BF.RESERVE", "BF.SCANDUMP"})

redisCommands ==
  ServerCommands1 @@ ServerCommands2 @@ ServerCommands3 @@ StringCommands1 @@
    StringCommands2 @@ StringCommands3 @@ StringCommands4 @@ ClusterCommands1 @@
    ClusterCommands2 @@ ConnectionCommands @@ BitmapCommands @@ ListCommands1 @@
    ListCommands2 @@ ListCommands3 @@ ListCommands4 @@ SortedSetCommands1 @@
    SortedSetCommands2 @@ SortedSetCommands3 @@ SortedSetCommands4 @@
    SortedSetCommands5 @@ GenericCommands1 @@ GenericCommands2 @@ GenericCommands3
    @@ GenericCommands4 @@ TransactionsCommands @@ ScriptingCommands1 @@
    ScriptingCommands2 @@ TairCommands @@ GeoCommands1 @@ GeoCommands2 @@
    HashCommands1 @@ HashCommands2 @@ HashCommands3 @@ HashCommands4 @@
    HyperLogLogCommands @@ PubSubCommands @@ SetCommands1 @@ SetCommands2 @@
    SetCommands3 @@ SentinelCommands @@ StreamCommands1 @@ StreamCommands2 @@
    StreamCommands3 @@ BloomFilterCommands1 @@ BloomFilterCommands2

=============================================================================
