---------------------------- MODULE MCSyncReader ----------------------------
(* Instances of SyncReader for TLC. *)
EXTENDS SyncReader

SelectCmd(e, d) == [end |-> e, kind |-> "select", db |-> d]
PingCmd(e)      == [end |-> e, kind |-> "skip", db |-> 0]
SetCmd(e)       == [end |-> e, kind |-> "data", db |-> 0]

(* A command before the first SELECT, one longer than a file, and a change of database. *)
MixedStream == <<SetCmd(1), SelectCmd(2, 1), SetCmd(5), PingCmd(6), SetCmd(7)>>
TwoKeys     == <<0, 2>>

=============================================================================
