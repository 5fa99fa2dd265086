---------------------------- MODULE RdbTransfer ----------------------------
(***************************************************************************)
(* receiveRDB: how the snapshot is cut out of the connection.  The source  *)
(* announces either the length of the RDB or a random marker that follows  *)
(* it (diskless).  Reads return any number of bytes, so the marker, or     *)
(* something that begins like it, may be spread over several of them.      *)
(***************************************************************************)
EXTENDS Integers, Sequences

CONSTANTS
  Byte,
  Marker,      \* the EOF marker; 40 bytes in the code
  BufSize,     \* length of buf; 32 MB in the code
  Payloads,    \* the RDBs the source may send
  Stream       \* what follows a snapshot of known length at once

(* The marker is random: it ends the transfer and occurs nowhere before. *)
MarkerOnlyAtEnd(p) ==
  \A i \in Len(Marker)..(Len(p) + Len(Marker) - 1) :
    \E j \in 1..Len(Marker) : (p \o Marker)[i - Len(Marker) + j] # Marker[j]

ASSUME TransferAssumption ==
  /\ Marker \in Seq(Byte) /\ Len(Marker) > 0
  /\ BufSize \in Nat /\ BufSize > Len(Marker)
  /\ Stream \in Seq(Byte)
  /\ \A p \in Payloads : p \in Seq(Byte) /\ MarkerOnlyAtEnd(p)

VARIABLES
  payload, diskless,   \* what this transfer is
  pos,                 \* bytes taken from the connection, after the header
  lastBytes,           \* the tail kept for the next round (diskless)
  remainder,           \* bytes still to come (length known)
  written,             \* the file, or what io.Discard has been given
  done

vars == <<payload, diskless, pos, lastBytes, remainder, written, done>>

(* The connection: after a marker the source waits for the first REPLCONF ACK. *)
Wire == IF diskless THEN payload \o Marker ELSE payload \o Stream

(* The header has been read: "$EOF:<marker>" or "$<length>". *)
Init ==
  /\ payload \in Payloads
  /\ diskless \in BOOLEAN
  /\ pos = 0 /\ lastBytes = <<>> /\ written = <<>> /\ done = FALSE
  /\ remainder = IF diskless THEN 0 ELSE Len(payload)

Prefix(s, n) == SubSeq(s, 1, n)
Suffix(s, n) == SubSeq(s, Len(s) - n + 1, Len(s))

(* Fault: nothing is carried over to the next round. *)
HeldNothing(buf) == 0

(* How many bytes stay behind for the next round. *)
Held(buf) == IF Len(buf) >= Len(Marker) THEN Len(Marker) ELSE Len(buf)

(* Fault: the first byte of the marker is not compared. *)
EndsLikeMarker(buf) ==
  Len(buf) >= Len(Marker) /\ Suffix(buf, Len(Marker) - 1) = Suffix(Marker, Len(Marker) - 1)

EndsWithMarker(buf) == Len(buf) >= Len(Marker) /\ Suffix(buf, Len(Marker)) = Marker

(* One round of receiveRDBWithDiskless, with n bytes read. *)
ReceiveDiskless(n) ==
  LET buf    == lastBytes \o SubSeq(Wire, pos + 1, pos + n)
      nwrite == Len(buf) - Held(buf)
  IN  /\ diskless /\ ~done
      /\ n <= BufSize - Len(lastBytes) /\ pos + n <= Len(Wire)
      /\ pos' = pos + n
      /\ written' = written \o Prefix(buf, nwrite)
      /\ \/ /\ EndsWithMarker(buf)
            /\ done' = TRUE
            /\ UNCHANGED lastBytes
         \/ /\ ~EndsWithMarker(buf)
            /\ lastBytes' = Suffix(buf, Held(buf))
            /\ UNCHANGED done
      /\ UNCHANGED <<payload, diskless, remainder>>

(* How much the next read may return. *)
ReadOnce == IF remainder < BufSize THEN remainder ELSE BufSize

(* One round of receiveRDBWithoutDiskless. *)
ReceiveLength(n) ==
  /\ ~diskless /\ ~done /\ remainder # 0
  /\ n <= ReadOnce /\ pos + n <= Len(Wire)
  /\ pos' = pos + n
  /\ written' = written \o SubSeq(Wire, pos + 1, pos + n)
  /\ remainder' = remainder - n
  /\ UNCHANGED <<payload, diskless, lastBytes, done>>

LengthDone ==
  /\ ~diskless /\ ~done /\ remainder = 0
  /\ done' = TRUE
  /\ UNCHANGED <<payload, diskless, pos, lastBytes, remainder, written>>

Receive == \E n \in 1..BufSize : ReceiveDiskless(n) \/ ReceiveLength(n)

Next == Receive \/ LengthDone

Spec == Init /\ [][Next]_vars

(* The source sends the whole snapshot and the goroutine reads it. *)
FairSpec == Spec /\ WF_vars(Next)

-----------------------------------------------------------------------------
(* Every variable stays within its type. *)
TypeOK ==
  /\ payload \in Payloads /\ diskless \in BOOLEAN /\ done \in BOOLEAN
  /\ pos \in 0..Len(Wire)
  /\ lastBytes \in Seq(Byte) /\ Len(lastBytes) <= Len(Marker)
  /\ written \in Seq(Byte)
  /\ remainder \in Nat

(***************************************************************************)
(* The file never holds anything but the beginning of the snapshot: no     *)
(* byte of the marker or of the stream behind it gets in, and none of the  *)
(* bytes carried over from one round to the next is lost or doubled.       *)
(***************************************************************************)
WrittenIsPrefix ==
  Len(written) <= Len(payload) /\ \A i \in 1..Len(written) : written[i] = payload[i]

(***************************************************************************)
(* When receiveRDB returns, the file is the snapshot and the next byte on  *)
(* the connection is the first of the stream.                              *)
(***************************************************************************)
DoneIsComplete ==
  done => /\ written = payload
          /\ pos = Len(payload) + (IF diskless THEN Len(Marker) ELSE 0)

(* The end of the snapshot is always found, wherever the reads cut the marker. *)
TransferEnds == <>done

=============================================================================
