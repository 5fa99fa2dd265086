---------------------------- MODULE MCScanReader ----------------------------
(* Instances of ScanReader for TLC: one key name in two databases. *)
EXTENDS ScanReader

Item(d) == [db |-> d, name |-> "k"]
BothExist == [i \in Items |-> i.db + 1]
OneChanges == {Item(1)}
AllModes  == {[ksn |-> TRUE, scan |-> TRUE], [ksn |-> TRUE, scan |-> FALSE],
              [ksn |-> FALSE, scan |-> TRUE]}

=============================================================================
