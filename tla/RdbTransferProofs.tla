------------------------- MODULE RdbTransferProofs -------------------------
(***************************************************************************)
(* The snapshot is cut out of the connection exactly: for every snapshot,  *)
(* marker and buffer, and however the connection delivers its bytes.       *)
(***************************************************************************)
EXTENDS RdbTransfer, TLAPS

(* s holds the bytes of w behind position a, up to position b. *)
Slice(s, w, a, b) ==
  /\ s \in Seq(Byte)
  /\ Len(s) = b - a
  /\ \A i \in 1..(b - a) : s[i] = w[a + i]

(* Any part of a sequence is a slice of it. *)
LEMMA SliceOf ==
  ASSUME NEW w \in Seq(Byte), NEW a \in Nat, NEW b \in Nat, a <= b, b <= Len(w)
  PROVE  Slice(SubSeq(w, a + 1, b), w, a, b)
<1>1. \A i \in (a + 1)..b : i \in 1..Len(w) /\ w[i] \in Byte
  OBVIOUS
<1>2. /\ Len(SubSeq(w, a + 1, b)) = b - a
      /\ \A i \in 1..(b - a) : SubSeq(w, a + 1, b)[i] = w[a + i]
  OBVIOUS
<1>3. SubSeq(w, a + 1, b) \in Seq(Byte)
  BY <1>1
<1>4. QED
  BY <1>2, <1>3 DEF Slice

(* Concatenation adds lengths. *)
LEMMA Concat ==
  ASSUME NEW s \in Seq(Byte), NEW t \in Seq(Byte)
  PROVE  s \o t \in Seq(Byte) /\ Len(s \o t) = Len(s) + Len(t)
OBVIOUS

(* Neighbouring slices join to one. *)
LEMMA SliceJoin ==
  ASSUME NEW w, NEW s, NEW t, NEW a \in Nat, NEW b \in Nat, NEW c \in Nat, a <= b, b <= c,
         Slice(s, w, a, b), Slice(t, w, b, c)
  PROVE  Slice(s \o t, w, a, c)
<1>1. /\ s \in Seq(Byte) /\ Len(s) = b - a /\ t \in Seq(Byte) /\ Len(t) = c - b
      /\ \A i \in 1..(b - a) : s[i] = w[a + i]
      /\ \A i \in 1..(c - b) : t[i] = w[b + i]
  BY DEF Slice
<1>2. s \o t \in Seq(Byte) /\ Len(s \o t) = c - a
  <2>1. s \o t \in Seq(Byte) /\ Len(s \o t) = Len(s) + Len(t)
    BY <1>1, Concat, Zenon
  <2>2. (b - a) + (c - b) = c - a
    OBVIOUS
  <2>3. QED
    BY <1>1, <2>1, <2>2
<1>3. ASSUME NEW i \in 1..(c - a) PROVE (s \o t)[i] = w[a + i]
  <2>1. CASE i <= b - a
    BY <1>1, <2>1
  <2>2. CASE i > b - a
    <3>1. i - (b - a) \in 1..(c - b) /\ b + (i - (b - a)) = a + i
      BY <2>2
    <3>2. (s \o t)[i] = t[i - (b - a)]
      BY <1>1, <2>2
    <3>3. QED
      BY <1>1, <3>1, <3>2
  <2>3. i <= b - a \/ i > b - a
    OBVIOUS
  <2>4. QED
    BY <2>1, <2>2, <2>3, Zenon
<1>4. QED
  BY <1>2, <1>3 DEF Slice

(* The two parts of a slice are slices. *)
LEMMA SliceCut ==
  ASSUME NEW w, NEW s, NEW a \in Nat, NEW b \in Nat, NEW c \in Nat, a <= b, b <= c,
         Slice(s, w, a, c)
  PROVE  /\ Slice(SubSeq(s, 1, b - a), w, a, b)
         /\ Slice(SubSeq(s, b - a + 1, Len(s)), w, b, c)
<1>1. /\ s \in Seq(Byte) /\ Len(s) = c - a
      /\ \A i \in 1..(c - a) : s[i] = w[a + i]
  BY DEF Slice
<1>2. b - a \in Nat /\ b - a <= Len(s) /\ Len(s) \in Nat /\ Len(s) - (b - a) = c - b
  BY <1>1
<1>3. /\ SubSeq(s, 1, b - a) \in Seq(Byte) /\ Len(SubSeq(s, 1, b - a)) = b - a
      /\ \A i \in 1..(b - a) : SubSeq(s, 1, b - a)[i] = s[i]
  <2>1. Slice(SubSeq(s, 0 + 1, b - a), s, 0, b - a)
    BY <1>1, <1>2, SliceOf
  <2>2. 0 + 1 = 1 /\ (b - a) - 0 = b - a /\ \A i \in 1..(b - a) : 0 + i = i
    OBVIOUS
  <2>3. QED
    BY <2>1, <2>2 DEF Slice
<1>4. /\ SubSeq(s, b - a + 1, Len(s)) \in Seq(Byte)
      /\ Len(SubSeq(s, b - a + 1, Len(s))) = c - b
      /\ \A i \in 1..(c - b) : SubSeq(s, b - a + 1, Len(s))[i] = s[b - a + i]
  <2>1. Slice(SubSeq(s, b - a + 1, Len(s)), s, b - a, Len(s))
    BY <1>1, <1>2, SliceOf
  <2>2. QED
    BY <1>2, <2>1 DEF Slice
<1>5. ASSUME NEW i \in 1..(b - a) PROVE SubSeq(s, 1, b - a)[i] = w[a + i]
  <2>1. i \in 1..(c - a)
    OBVIOUS
  <2>2. QED
    BY <1>1, <1>3, <2>1
<1>6. ASSUME NEW i \in 1..(c - b) PROVE SubSeq(s, b - a + 1, Len(s))[i] = w[b + i]
  <2>1. b - a + i \in 1..(c - a) /\ a + (b - a + i) = b + i
    OBVIOUS
  <2>2. s[b - a + i] = w[b + i]
    BY <1>1, <2>1
  <2>3. QED
    BY <1>4, <2>2
<1>7. QED
  BY <1>3, <1>4, <1>5, <1>6 DEF Slice

-----------------------------------------------------------------------------
(* The constants, and what the source sends. *)
LEMMA Sizes ==
  ASSUME payload \in Payloads
  PROVE  /\ Marker \in Seq(Byte) /\ Len(Marker) \in Nat /\ Len(Marker) > 0
         /\ BufSize \in Nat /\ BufSize > Len(Marker)
         /\ Stream \in Seq(Byte) /\ Len(Stream) \in Nat
         /\ payload \in Seq(Byte) /\ Len(payload) \in Nat
         /\ MarkerOnlyAtEnd(payload)
BY TransferAssumption

LEMMA WireFacts ==
  ASSUME payload \in Payloads
  PROVE  /\ Wire \in Seq(Byte) /\ Len(Wire) \in Nat
         /\ \A i \in 1..Len(payload) : Wire[i] = payload[i]
         /\ diskless => Wire = payload \o Marker
         /\ diskless => Len(Wire) = Len(payload) + Len(Marker)
         /\ Len(payload) <= Len(Wire)
<1>1. CASE diskless
  <2>1. Wire = payload \o Marker
    BY <1>1 DEF Wire
  <2>2. QED
    BY <2>1, Sizes
<1>2. CASE ~diskless
  <2>1. Wire = payload \o Stream
    BY <1>2 DEF Wire
  <2>2. /\ Wire \in Seq(Byte) /\ Len(Wire) \in Nat
        /\ \A i \in 1..Len(payload) : Wire[i] = payload[i]
        /\ Len(payload) <= Len(Wire)
    BY <2>1, Sizes
  <2>3. QED
    BY <1>2, <2>2
<1>3. QED
  BY <1>1, <1>2

(***************************************************************************)
(* What was taken from the connection is what was written and, without a   *)
(* known length, the last bytes, as many as the marker has: those may be   *)
(* the marker and are the only ones that may.                              *)
(***************************************************************************)
Kept(p) == IF p >= Len(Marker) THEN p - Len(Marker) ELSE 0

MarkerInv ==
  /\ Slice(written, Wire, 0, Kept(pos))
  /\ Slice(lastBytes, Wire, Kept(pos), pos)

MarkerDone ==
  /\ Slice(written, Wire, 0, Len(payload))
  /\ pos = Len(Wire)

LengthInv ==
  /\ Slice(written, Wire, 0, pos)
  /\ pos <= Len(payload)
  /\ remainder = Len(payload) - pos
  /\ lastBytes = <<>>

IInv ==
  /\ TypeOK
  /\ diskless /\ ~done => MarkerInv
  /\ diskless /\ done => MarkerDone
  /\ ~diskless => LengthInv
  /\ ~diskless /\ done => pos = Len(payload)

LEMMA InvInit == Init => IInv
<1> SUFFICES ASSUME Init PROVE IInv
  OBVIOUS
<1>1. payload \in Payloads /\ diskless \in BOOLEAN /\ ~done /\ done \in BOOLEAN
  BY Zenon DEF Init
<1>2. /\ pos = 0 /\ lastBytes = <<>> /\ written = <<>>
      /\ (diskless => remainder = 0) /\ (~diskless => remainder = Len(payload))
  BY DEF Init
<1>3. /\ lastBytes \in Seq(Byte) /\ written \in Seq(Byte)
      /\ Len(lastBytes) = 0 /\ Len(written) = 0
  BY <1>2
<1>4. remainder \in Nat
  BY <1>1, <1>2, Sizes
<1>5. pos \in 0..Len(Wire) /\ Len(lastBytes) <= Len(Marker)
  BY <1>1, <1>2, <1>3, Sizes, WireFacts
<1>6. TypeOK
  BY <1>1, <1>3, <1>4, <1>5, Zenon DEF TypeOK
<1>7. Kept(pos) = 0
  BY <1>1, <1>2, Sizes DEF Kept
<1>8. Slice(written, Wire, 0, 0) /\ Slice(lastBytes, Wire, 0, 0)
  BY <1>3 DEF Slice
<1>9. MarkerInv
  BY <1>2, <1>7, <1>8 DEF MarkerInv
<1>10. ~diskless => LengthInv
  BY <1>1, <1>2, <1>8, Sizes DEF LengthInv
<1>11. QED
  BY <1>1, <1>6, <1>9, <1>10 DEF IInv

(***************************************************************************)
(* A round of the diskless loop.  buf is the end of what has been taken;   *)
(* if it ends with the marker, so does the connection.                     *)
(***************************************************************************)
LEMMA EndFound ==
  ASSUME payload \in Payloads, Wire = payload \o Marker, NEW top \in Nat, top <= Len(Wire),
         Len(Wire) = Len(payload) + Len(Marker), top >= Len(Marker),
         Slice(Marker, Wire, top - Len(Marker), top)
  PROVE  top = Len(Wire)
<1>n. Len(payload) \in Nat /\ Len(Marker) \in Nat
  BY Sizes
<1> SUFFICES ASSUME top <= Len(payload) + Len(Marker) - 1 PROVE FALSE
  BY <1>n
<1>1. top \in Len(Marker)..(Len(payload) + Len(Marker) - 1)
  BY Sizes
<1>2. PICK j \in 1..Len(Marker) : (payload \o Marker)[top - Len(Marker) + j] # Marker[j]
  BY <1>1, Sizes DEF MarkerOnlyAtEnd
<1>3. top - (top - Len(Marker)) = Len(Marker)
  BY Sizes
<1>4. Marker[j] = Wire[top - Len(Marker) + j]
  BY <1>2, <1>3 DEF Slice
<1>5. QED
  BY <1>2, <1>4

LEMMA DisklessStep ==
  ASSUME IInv, NEW n \in 1..BufSize, ReceiveDiskless(n)
  PROVE  IInv'
<1>1. /\ payload \in Payloads /\ diskless \in BOOLEAN /\ diskless /\ ~done /\ done \in BOOLEAN
      /\ remainder \in Nat /\ lastBytes \in Seq(Byte) /\ Len(lastBytes) <= Len(Marker)
      /\ MarkerInv
  BY DEF IInv, TypeOK, ReceiveDiskless
<1>2. /\ Marker \in Seq(Byte) /\ Len(Marker) \in Nat /\ Len(Marker) > 0 /\ n \in Nat
      /\ payload \in Seq(Byte) /\ Len(payload) \in Nat
      /\ Wire \in Seq(Byte) /\ Len(Wire) \in Nat /\ Wire = payload \o Marker
      /\ Len(Wire) = Len(payload) + Len(Marker) /\ pos \in Nat
      /\ pos + n \in Nat /\ pos <= pos + n /\ pos + n <= Len(Wire)
  BY <1>1, Sizes, WireFacts DEF IInv, TypeOK, ReceiveDiskless
<1>3. PICK buf : buf = lastBytes \o SubSeq(Wire, pos + 1, pos + n)
  OBVIOUS
<1>4. /\ pos' = pos + n /\ written' = written \o Prefix(buf, Len(buf) - Held(buf))
      /\ payload' = payload /\ diskless' = diskless /\ remainder' = remainder
  BY <1>3 DEF ReceiveDiskless
<1>5. \/ EndsWithMarker(buf) /\ done' = TRUE /\ lastBytes' = lastBytes
      \/ ~EndsWithMarker(buf) /\ lastBytes' = Suffix(buf, Held(buf)) /\ done' = done
  BY <1>3 DEF ReceiveDiskless
<1>6. Wire' = Wire
  BY <1>4 DEF Wire
<1>7. PICK top \in Nat : top = pos + n
  BY <1>2
<1>8. /\ Kept(pos) \in Nat /\ Kept(pos) <= pos /\ Kept(top) \in Nat /\ Kept(top) <= top
      /\ Kept(pos) <= Kept(top)
  BY <1>2, <1>7 DEF Kept
<1>9. Slice(buf, Wire, Kept(pos), top)
  <2>1. Slice(SubSeq(Wire, pos + 1, top), Wire, pos, top)
    BY <1>2, <1>7, SliceOf
  <2>2. QED
    BY <1>1, <1>2, <1>3, <1>7, <1>8, <2>1, SliceJoin DEF MarkerInv
<1>10. /\ Len(buf) = top - Kept(pos) /\ buf \in Seq(Byte)
       /\ Held(buf) = top - Kept(top)
       /\ Len(buf) - Held(buf) = Kept(top) - Kept(pos)
       /\ (Len(buf) >= Len(Marker)) <=> (top >= Len(Marker))
  <2>1. Len(buf) = top - Kept(pos) /\ buf \in Seq(Byte)
    BY <1>9 DEF Slice
  <2>2. (Len(buf) >= Len(Marker)) <=> (top >= Len(Marker))
    BY <1>2, <1>7, <2>1 DEF Kept
  <2>3. Held(buf) = top - Kept(top)
    <3>1. CASE top >= Len(Marker)
      <4>1. Held(buf) = Len(Marker) /\ Kept(top) = top - Len(Marker)
        BY <2>2, <3>1 DEF Kept, Held
      <4>2. QED
        BY <1>2, <4>1
    <3>2. CASE ~(top >= Len(Marker))
      <4>1. Held(buf) = Len(buf) /\ Kept(top) = 0
        BY <2>2, <3>2 DEF Kept, Held
      <4>2. Kept(pos) = 0
        BY <1>2, <1>7, <3>2 DEF Kept
      <4>3. QED
        BY <1>2, <2>1, <4>1, <4>2
    <3>3. QED
      BY <3>1, <3>2
  <2>4. QED
    BY <1>8, <2>1, <2>2, <2>3
<1>11. /\ Slice(Prefix(buf, Len(buf) - Held(buf)), Wire, Kept(pos), Kept(top))
       /\ Slice(Suffix(buf, Held(buf)), Wire, Kept(top), top)
  <2>1. /\ Slice(SubSeq(buf, 1, Kept(top) - Kept(pos)), Wire, Kept(pos), Kept(top))
        /\ Slice(SubSeq(buf, Kept(top) - Kept(pos) + 1, Len(buf)), Wire, Kept(top), top)
    BY <1>8, <1>9, SliceCut
  <2>2. Len(buf) - Held(buf) + 1 = Kept(top) - Kept(pos) + 1
    BY <1>10
  <2>3. QED
    BY <1>10, <2>1, <2>2 DEF Prefix, Suffix
<1>12. Slice(written', Wire, 0, Kept(top))
  BY <1>1, <1>4, <1>8, <1>11, SliceJoin DEF MarkerInv
<1>13. written' \in Seq(Byte)
  BY <1>12 DEF Slice
<1>14. pos' \in 0..Len(Wire) /\ pos' = top
  BY <1>2, <1>4, <1>7
<1>15. CASE EndsWithMarker(buf)
  <2>1. done' /\ done' \in BOOLEAN /\ lastBytes' = lastBytes
    BY <1>5, <1>15, Zenon
  <2>2. top >= Len(Marker) /\ Held(buf) = Len(Marker) /\ Suffix(buf, Len(Marker)) = Marker
    BY <1>10, <1>15 DEF EndsWithMarker, Held
  <2>3. Kept(top) = top - Len(Marker)
    BY <2>2 DEF Kept
  <2>4. Slice(Marker, Wire, top - Len(Marker), top)
    BY <1>11, <2>2, <2>3
  <2>5. top = Len(Wire)
    BY <1>1, <1>2, <1>7, <2>2, <2>4, EndFound
  <2>6. Kept(top) = Len(payload)
    BY <1>2, <2>3, <2>5
  <2>7. MarkerDone'
    BY <1>4, <1>6, <1>12, <1>14, <2>5, <2>6 DEF MarkerDone
  <2>8. TypeOK'
    BY <1>1, <1>4, <1>6, <1>13, <1>14, <2>1, Zenon DEF TypeOK
  <2>9. QED
    BY <1>1, <1>4, <2>1, <2>7, <2>8, Zenon DEF IInv
<1>16. CASE ~EndsWithMarker(buf)
  <2>1. done' = done /\ lastBytes' = Suffix(buf, Held(buf))
    BY <1>5, <1>16, Zenon
  <2>2. Slice(lastBytes', Wire, Kept(top), top)
    BY <1>11, <2>1
  <2>3. lastBytes' \in Seq(Byte) /\ Len(lastBytes') = top - Kept(top)
    BY <2>2 DEF Slice
  <2>4. Len(lastBytes') <= Len(Marker)
    BY <1>2, <2>3 DEF Kept
  <2>5. TypeOK'
    BY <1>1, <1>4, <1>6, <1>13, <1>14, <2>1, <2>3, <2>4, Zenon DEF TypeOK
  <2>6. Kept(pos)' = Kept(top)
    BY <1>14 DEF Kept
  <2>7. MarkerInv'
    BY <1>6, <1>12, <1>14, <2>2, <2>6 DEF MarkerInv
  <2>8. QED
    BY <1>1, <1>4, <2>1, <2>5, <2>7, Zenon DEF IInv
<1>17. QED
  BY <1>15, <1>16

(* A round with the length known: never past the end of the snapshot. *)
LEMMA LengthStep ==
  ASSUME IInv, NEW n \in 1..BufSize, ReceiveLength(n)
  PROVE  IInv'
<1>1. /\ payload \in Payloads /\ diskless \in BOOLEAN /\ ~diskless /\ ~done /\ done \in BOOLEAN
      /\ LengthInv
  BY DEF IInv, TypeOK, ReceiveLength
<1>2. /\ pos \in Nat /\ n \in Nat /\ n <= remainder /\ pos + n \in Nat /\ pos <= pos + n
      /\ pos + n <= Len(Wire) /\ remainder \in Nat
  BY <1>1, Sizes, WireFacts DEF IInv, TypeOK, ReceiveLength, ReadOnce
<1>3. /\ pos' = pos + n /\ written' = written \o SubSeq(Wire, pos + 1, pos + n)
      /\ remainder' = remainder - n
      /\ payload' = payload /\ diskless' = diskless /\ lastBytes' = lastBytes /\ done' = done
  BY DEF ReceiveLength
<1>4. /\ payload \in Seq(Byte) /\ Len(payload) \in Nat /\ Wire \in Seq(Byte) /\ Len(Wire) \in Nat
      /\ Len(Marker) \in Nat
  BY <1>1, Sizes, WireFacts
<1>5. Wire' = Wire
  BY <1>3 DEF Wire
<1>6. Slice(written', Wire, 0, pos')
  <2>1. Slice(SubSeq(Wire, pos + 1, pos + n), Wire, pos, pos + n)
    BY <1>2, <1>4, SliceOf
  <2>2. QED
    BY <1>1, <1>2, <1>3, <2>1, SliceJoin DEF LengthInv
<1>7. /\ pos' \in 0..Len(Wire) /\ remainder' \in Nat /\ pos' <= Len(payload)
      /\ remainder' = Len(payload) - pos'
  BY <1>1, <1>2, <1>3, <1>4 DEF LengthInv
<1>8. lastBytes' = <<>>
  BY <1>1, <1>3 DEF LengthInv
<1>9. TypeOK'
  <2>1. lastBytes' \in Seq(Byte) /\ Len(lastBytes') <= Len(Marker)
    BY <1>4, <1>8
  <2>2. written' \in Seq(Byte)
    BY <1>6 DEF Slice
  <2>3. QED
    BY <1>1, <1>3, <1>5, <1>7, <2>1, <2>2, Zenon DEF TypeOK
<1>10. LengthInv'
  BY <1>3, <1>5, <1>6, <1>7, <1>8 DEF LengthInv
<1>11. QED
  BY <1>1, <1>3, <1>9, <1>10, Zenon DEF IInv

LEMMA InvNext == IInv /\ [Next]_vars => IInv'
<1> SUFFICES ASSUME IInv, [Next]_vars PROVE IInv'
  OBVIOUS
<1>1. CASE LengthDone
  <2>1. /\ payload' = payload /\ diskless' = diskless /\ pos' = pos /\ lastBytes' = lastBytes
        /\ remainder' = remainder /\ written' = written /\ done'  /\ done' \in BOOLEAN
        /\ ~diskless /\ remainder = 0
    BY <1>1, Zenon DEF LengthDone
  <2>2. Wire' = Wire
    BY <2>1 DEF Wire
  <2>3. TypeOK'
    BY <2>1, <2>2, Zenon DEF IInv, TypeOK
  <2>4. LengthInv
    BY <2>1 DEF IInv
  <2>5. pos = Len(payload)
    <3>1. pos \in Nat /\ Len(payload) \in Nat
      BY Sizes, WireFacts DEF IInv, TypeOK
    <3>2. QED
      BY <2>1, <2>4, <3>1 DEF LengthInv
  <2>6. LengthInv'
    BY <2>1, <2>2, <2>4 DEF LengthInv
  <2>7. QED
    BY <2>1, <2>3, <2>5, <2>6, Zenon DEF IInv
<1>2. CASE UNCHANGED vars
  BY <1>2 DEF vars, IInv, TypeOK, MarkerInv, MarkerDone, LengthInv, Wire, Kept
<1>3. QED
  BY <1>1, <1>2, DisklessStep, LengthStep DEF Next, Receive

LEMMA Inv == Spec => []IInv
BY InvInit, InvNext, PTL DEF Spec

-----------------------------------------------------------------------------
(***************************************************************************)
(* Types: the read that ends a snapshot of known length never runs past    *)
(* it, and no more than the length of the marker is carried over.          *)
(***************************************************************************)
THEOREM TypeCorrect == Spec => []TypeOK
<1>1. IInv => TypeOK
  BY DEF IInv
<1>2. QED
  BY <1>1, Inv, PTL

(***************************************************************************)
(* What receiveRDB writes is always the beginning of the snapshot: for     *)
(* every marker, buffer size and cut into reads no byte of the marker or   *)
(* of the stream gets into the file.                                       *)
(***************************************************************************)
THEOREM NothingForeignIsWritten == Spec => []WrittenIsPrefix
<1>1. IInv => WrittenIsPrefix
  <2> SUFFICES ASSUME IInv PROVE WrittenIsPrefix
    OBVIOUS
  <2>1. /\ payload \in Payloads /\ pos \in 0..Len(Wire)
        /\ (diskless /\ ~done => MarkerInv) /\ (diskless /\ done => MarkerDone)
        /\ (~diskless => LengthInv)
    BY DEF IInv, TypeOK
  <2>2. \E m \in Nat : m <= Len(payload) /\ Slice(written, Wire, 0, m)
    <3>1. CASE diskless /\ ~done
      <4>1. Kept(pos) \in Nat /\ Kept(pos) <= Len(payload)
        BY <2>1, <3>1, Sizes, WireFacts DEF Kept
      <4>2. QED
        BY <2>1, <3>1, <4>1 DEF MarkerInv
    <3>2. CASE diskless /\ done
      BY <2>1, <3>2, Sizes DEF MarkerDone
    <3>3. CASE ~diskless
      BY <2>1, <3>3, WireFacts DEF LengthInv
    <3>4. QED
      BY <3>1, <3>2, <3>3
  <2>3. PICK m \in Nat : m <= Len(payload) /\ Slice(written, Wire, 0, m)
    BY <2>2
  <2>4. Len(written) = m /\ \A i \in 1..m : written[i] = Wire[i]
    BY <2>3 DEF Slice
  <2>5. \A i \in 1..m : i \in 1..Len(payload)
    BY <2>1, <2>3, Sizes
  <2>6. QED
    BY <2>1, <2>3, <2>4, <2>5, WireFacts DEF WrittenIsPrefix
<1>2. QED
  BY <1>1, Inv, PTL

(***************************************************************************)
(* When receiveRDB returns the file is the whole snapshot, and the next    *)
(* byte of the connection is the first of the stream.                      *)
(***************************************************************************)
THEOREM TransferIsExact == Spec => []DoneIsComplete
<1>1. IInv => DoneIsComplete
  <2> SUFFICES ASSUME IInv, done
               PROVE  /\ written = payload
                      /\ pos = Len(payload) + (IF diskless THEN Len(Marker) ELSE 0)
    BY DEF DoneIsComplete
  <2>1. /\ payload \in Payloads /\ (diskless => MarkerDone)
        /\ (~diskless => LengthInv /\ pos = Len(payload))
    BY DEF IInv, TypeOK
  <2>2. payload \in Seq(Byte) /\ Len(payload) \in Nat
    BY <2>1, Sizes
  <2>3. Slice(written, Wire, 0, Len(payload))
    BY <2>1 DEF MarkerDone, LengthInv
  <2>4. pos = Len(payload) + (IF diskless THEN Len(Marker) ELSE 0)
    BY <2>1, <2>2, WireFacts DEF MarkerDone
  <2>5. /\ written \in Seq(Byte) /\ Len(written) = Len(payload)
        /\ \A i \in 1..Len(payload) : written[i] = Wire[i]
    BY <2>2, <2>3 DEF Slice
  <2>6. \A i \in 1..Len(payload) : written[i] = payload[i]
    BY <2>1, <2>5, WireFacts
  <2>7. written = payload
    BY <2>2, <2>5, <2>6
  <2>8. QED
    BY <2>4, <2>7
<1>2. QED
  BY <1>1, Inv, PTL

=============================================================================
