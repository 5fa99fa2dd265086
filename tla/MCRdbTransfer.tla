--------------------------- MODULE MCRdbTransfer ---------------------------
(* Instances of RdbTransfer for TLC: every snapshot up to a length over two bytes. *)
EXTENDS RdbTransfer

CONSTANT MaxPayload   \* bound: length of a snapshot

Bytes        == {1, 2}
RepeatMarker == <<1, 1, 2>>   \* begins like its own tail
TwoCommands  == <<2, 1>>

UpTo(k) == UNION {[1..m -> Bytes] : m \in 0..k}

AllPayloads == {p \in UpTo(MaxPayload) : MarkerOnlyAtEnd(p)}

=============================================================================
