---------------------------- MODULE MCTaskConfig ----------------------------
(***************************************************************************)
(* Instance of TaskConfig: three Redis servers and a sentinel, connections *)
(* to them with and without credentials, one task that two handlers edit,  *)
(* check and start while connections change under it.                      *)
(***************************************************************************)
EXTENDS TaskConfig, Integers, TLC

Server == [password |-> "", master |-> "", moved |-> "", cluster |-> FALSE,
           writable |-> TRUE, version |-> 60]
MCRedis ==
  "one" :> [Server EXCEPT !.password = "p1"] @@
  "two" :> Server @@
  "old" :> [Server EXCEPT !.version = 26] @@
  "sent" :> [Server EXCEPT !.master = "two"] @@
  "node" :> [Server EXCEPT !.cluster = TRUE, !.moved = "ro"] @@
  "ro"   :> [Server EXCEPT !.cluster = TRUE, !.writable = FALSE]

Plain == [f \in Fields |-> IF f \in Switches THEN FALSE ELSE ""]
ToOne == [Plain EXCEPT !["topology"] = "standalone", !["address"] = "one",
            !["password"] = "p1", !["tls"] = TRUE, !["cert"] = "crt", !["key"] = "pem"]
ToCluster == [Plain EXCEPT !["topology"] = "cluster", !["address"] = "node"]
ViaSentinel == [Plain EXCEPT !["topology"] = "sentinel", !["sentinelAddress"] = "sent",
            !["sentinelMaster"] = "m", !["sentinelTls"] = TRUE, !["sentinelCa"] = "ca2",
            !["tls"] = TRUE, !["ca"] = "ca1"]

MCConnInputs  == {ToOne}
MCConnPatches == {[address |-> "two", password |-> "", tls |-> FALSE]}

Filter == [allow |-> {"key"}, block |-> {"db"}, dbs |-> {1}, regex |-> TRUE]
Draft == [name |-> "t", mode |-> "sync", source |-> "c1", target |-> "c2",
          sync |-> NoReader, scan |-> NoReader, filter |-> Filter,
          behavior |-> "", qps |-> 0, bulkLen |-> 0, emptyDb |-> TRUE]
MCTaskInputs  == {Draft}
MCTaskPatches == {[mode |-> "scan", emptyDb |-> FALSE], [source |-> "c3"],
                  [filter |-> [Filter EXCEPT !.dbs = {-1}], bulkLen |-> 1024]}

(* A server that has been up for a while, with connections and a draft:     *)
(* either it still has requests to serve and every identifier is taken, or  *)
(* there is room for new rows and for restarts, and fewer requests.         *)
Sealed(spec) == [f \in Fields |-> IF f \notin SecretFields THEN spec[f]
                                  ELSE IF spec[f] = "" THEN NoText
                                  ELSE [key |-> "k1", text |-> spec[f]]]
Saved(spec) == [spec |-> Sealed(spec), tested |-> Nothing]
MCInit ==
  /\ conns = "c1" :> Saved(ToOne) @@ "c2" :> Saved(ViaSentinel) @@
             "c3" :> Saved(ToCluster)
  /\ tasks = "t1" :> [spec |-> NormalizeTask(Draft), state |-> "DRAFT", rev |-> 1,
                      precheck |-> Nothing]
  /\ runs = << >>
  /\ server = "up" /\ key = "k1"
  /\ req = [h \in Handlers |-> Idle]
  /\ \/ issued = Conns \cup Tasks /\ requests = 0 /\ starts = MaxStarts
     \/ issued = {"c1", "c2", "c3", "t1"} /\ requests = 2 /\ starts = 1

Symmetry == Permutations(Handlers)

MCSpec == MCInit /\ [][Next]_vars
=============================================================================
