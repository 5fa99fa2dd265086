---------------------------- MODULE ReaderProofs ----------------------------
(* Theorems about the readers of Pipeline. *)
EXTENDS Pipeline, SequenceTheorems, FiniteSetTheorems, WellFoundedInduction, TLAPS

-----------------------------------------------------------------------------
(* Sequences of sequences: FlattenSeq is a running concatenation. *)

(* Every nonempty set of natural numbers has a least element. *)
LEMMA Least == ASSUME NEW S \in SUBSET Nat, S # {} PROVE \E n \in S : \A m \in S : n <= m
<1> DEFINE R == {p \in Nat \X Nat : p[1] < p[2]}
<1>1. OpToRel(<, Nat) = R
  BY DEF OpToRel
<1>2. \E x \in S : \A y \in S : <<y, x>> \notin R
  BY <1>1, NatLessThanWellFounded, WFMin
<1>3. PICK x \in S : \A y \in S : <<y, x>> \notin R
  BY <1>2
<1>4. ASSUME NEW y \in S PROVE x <= y
  <2>1. <<y, x>> \in Nat \X Nat
    OBVIOUS
  <2>2. ~ (<<y, x>>[1] < <<y, x>>[2])
    BY <1>3, <2>1
  <2>3. QED
    BY <2>2
<1>5. QED
  BY <1>4

(* A set of natural numbers that holds the successor of each of its elements holds all
   from its first on. *)
LEMMA Upwards ==
  ASSUME NEW n \in Nat, NEW S, 0 \in S, \A k \in 0..(n - 1) : k \in S => k + 1 \in S
  PROVE  \A k \in 0..n : k \in S
<1> DEFINE B == {k \in 0..n : k \notin S}
<1>1. SUFFICES ASSUME B # {} PROVE FALSE
  OBVIOUS
<1>2. B \in SUBSET Nat
  OBVIOUS
<1>3. PICK b \in B : \A m \in B : b <= m
  <2> HIDE DEF B
  <2>1. QED
    BY <1>1, <1>2, Least
<1>4. b # 0 /\ b - 1 \in 0..(n - 1) /\ b - 1 \notin B
  BY <1>3
<1>5. b - 1 \in S
  BY <1>4
<1>6. (b - 1) + 1 \in S
  BY <1>4, <1>5
<1>7. (b - 1) + 1 = b
  BY <1>4, <1>3
<1>8. QED
  BY <1>3, <1>6, <1>7

(* The concatenations of the beginnings of ss. *)
Running(F, ss) == F[0] = <<>> /\ \A i \in 1..Len(ss) : F[i] = F[i - 1] \o ss[i]

LEMMA RunningExists ==
  ASSUME NEW S, NEW ss \in Seq(Seq(S))
  PROVE  \E F \in [0..Len(ss) -> Seq(S)] : Running(F, ss)
<1> DEFINE P(n) == \E F \in [0..n -> Seq(S)] :
                     F[0] = <<>> /\ \A i \in 1..n : F[i] = F[i - 1] \o ss[i]
           G == {n \in 0..Len(ss) : P(n)}
<1>1. Len(ss) \in Nat
  OBVIOUS
<1>2. 0 \in G
  <2>1. [i \in 0..0 |-> <<>>] \in [0..0 -> Seq(S)]
    OBVIOUS
  <2>2. [i \in 0..0 |-> <<>>][0] = <<>> /\ \A i \in 1..0 : FALSE
    OBVIOUS
  <2>3. P(0)
    BY <2>1, <2>2
  <2>4. 0 \in 0..Len(ss)
    BY <1>1
  <2> HIDE DEF P
  <2>5. QED
    BY <2>3, <2>4
<1>3. ASSUME NEW k \in 0..(Len(ss) - 1), k \in G PROVE k + 1 \in G
  <2>1. PICK F \in [0..k -> Seq(S)] : F[0] = <<>> /\ \A i \in 1..k : F[i] = F[i - 1] \o ss[i]
    BY <1>3
  <2> DEFINE H == [i \in 0..(k + 1) |-> IF i <= k THEN F[i] ELSE F[k] \o ss[k + 1]]
  <2>2. F[k] \in Seq(S) /\ ss[k + 1] \in Seq(S)
    BY <2>1, <1>1
  <2>3. F[k] \o ss[k + 1] \in Seq(S)
    BY <2>2
  <2>4. H \in [0..(k + 1) -> Seq(S)]
    BY <2>1, <2>3
  <2>5. H[0] = <<>>
    BY <2>1
  <2>6. ASSUME NEW i \in 1..(k + 1) PROVE H[i] = H[i - 1] \o ss[i]
    <3>0. i \in Nat /\ k \in Nat /\ i - 1 \in 0..k /\ i \in 0..(k + 1)
      BY <1>1
    <3>1. CASE i <= k
      <4>1. H[i] = F[i] /\ H[i - 1] = F[i - 1]
        BY <3>0, <3>1
      <4>2. i \in 1..k
        BY <3>0, <3>1
      <4>3. QED
        BY <2>1, <4>1, <4>2
    <3>2. CASE i = k + 1
      <4>1. H[i] = F[k] \o ss[k + 1] /\ H[i - 1] = F[k]
        BY <3>0, <3>2
      <4>2. QED
        BY <3>2, <4>1
    <3>3. i <= k \/ i = k + 1
      BY <3>0
    <3> HIDE DEF H
    <3>4. QED
      BY <3>1, <3>2, <3>3
  <2> HIDE DEF H
  <2>7. P(k + 1)
    BY <2>4, <2>5, <2>6
  <2>8. k + 1 \in 0..Len(ss)
    BY <1>1
  <2> HIDE DEF P
  <2>9. QED
    BY <2>7, <2>8
<1> HIDE DEF G
<1>4. \A k \in 0..Len(ss) : k \in G
  BY <1>1, <1>2, <1>3, Upwards
<1>5. Len(ss) \in G
  BY <1>1, <1>4
<1>6. QED
  BY <1>5 DEF G, Running

(* What FlattenSeq computes is the last of them. *)
LEMMA FlattenRunning ==
  ASSUME NEW S, NEW ss \in Seq(Seq(S)), NEW A \in [0..Len(ss) -> Seq(S)], Running(A, ss)
  PROVE  FlattenSeq(ss) = A[Len(ss)]
<1>1. CASE Len(ss) = 0
  <2>1. ss = <<>>
    BY <1>1
  <2>2. FlattenSeq(ss) = ss
    BY <1>1 DEF FlattenSeq
  <2>3. QED
    BY <1>1, <2>1, <2>2 DEF Running
<1>2. CASE Len(ss) # 0
  <2> DEFINE N == Len(ss)
             F(f) == [i \in 1..N |-> IF i = 1 THEN ss[i] ELSE f[i - 1] \o ss[i]]
             B == [i \in 1..N |-> A[i]]
             flat == CHOOSE f : f = F(f)
  <2>0. N \in Nat /\ N >= 1
    BY <1>2
  <2>1. B = F(B)
    <3>1. ASSUME NEW i \in 1..N PROVE B[i] = F(B)[i]
      <4>1. A[i] = A[i - 1] \o ss[i] /\ ss[i] \in Seq(S) /\ A[0] = <<>>
        BY DEF Running
      <4>2. B[i] = A[i] /\ F(B)[i] = IF i = 1 THEN ss[i] ELSE B[i - 1] \o ss[i]
        OBVIOUS
      <4>3. CASE i = 1
        <5>0. i - 1 = 0
          BY <4>3
        <5>1. A[1] = A[0] \o ss[1]
          BY <4>1, <4>3, <5>0
        <5>2. <<>> \o ss[1] = ss[1]
          BY <4>1, <4>3, ConcatEmptySeq
        <5>3. QED
          BY <4>1, <4>2, <4>3, <5>1, <5>2
      <4>4. CASE i # 1
        <5>1. B[i - 1] = A[i - 1]
          BY <4>4, <2>0
        <5>2. QED
          BY <4>1, <4>2, <4>4, <5>1
      <4>5. QED
        BY <4>3, <4>4
    <3>2. QED
      BY <3>1
  <2>2. flat = F(flat)
    <3> HIDE DEF F, B
    <3>1. \E f : f = F(f)
      BY <2>1
    <3>2. QED
      BY <3>1, Zenon
  <2>3. FlattenSeq(ss) = flat[N]
    BY <1>2 DEF FlattenSeq
  <2> HIDE DEF flat
  <2> DEFINE G == {k \in 0..N : k = 0 \/ flat[k] = A[k]}
  <2>4. 0 \in G
    BY <2>0
  <2>5. ASSUME NEW k \in 0..(N - 1), k \in G PROVE k + 1 \in G
    <3>1. k + 1 \in 1..N /\ (k + 1) - 1 = k
      BY <2>0
    <3>2. /\ flat[k + 1] = IF k + 1 = 1 THEN ss[k + 1] ELSE flat[k] \o ss[k + 1]
          /\ A[k + 1] = IF k + 1 = 1 THEN ss[k + 1] ELSE B[k] \o ss[k + 1]
      <4>1. flat[k + 1] = F(flat)[k + 1] /\ B[k + 1] = F(B)[k + 1]
        BY <2>1, <2>2
      <4>2. \A f : F(f)[k + 1] = IF k + 1 = 1 THEN ss[k + 1] ELSE f[(k + 1) - 1] \o ss[k + 1]
        BY <3>1
      <4>3. B[k + 1] = A[k + 1]
        BY <3>1
      <4> HIDE DEF F, B
      <4>4. QED
        BY <4>1, <4>2, <4>3, <3>1
    <3>3. CASE k = 0
      BY <3>1, <3>2, <3>3
    <3>4. CASE k # 0
      <4>1. flat[k] = A[k] /\ k \in 1..N
        BY <2>5, <3>4, <2>0
      <4>2. B[k] = A[k] /\ k + 1 # 1
        BY <3>4, <4>1
      <4>3. flat[k + 1] = A[k + 1]
        BY <3>2, <4>1, <4>2
      <4>4. QED
        BY <4>3, <3>1
    <3>5. QED
      BY <3>3, <3>4
  <2> HIDE DEF G
  <2>6. \A k \in 0..N : k \in G
    BY <2>0, <2>4, <2>5, Upwards
  <2>7. QED
    BY <2>0, <2>3, <2>6 DEF G
<1>3. QED
  BY <1>1, <1>2

LEMMA FlattenType ==
  ASSUME NEW S, NEW ss \in Seq(Seq(S)) PROVE FlattenSeq(ss) \in Seq(S)
<1>1. PICK F \in [0..Len(ss) -> Seq(S)] : Running(F, ss)
  BY RunningExists
<1>2. FlattenSeq(ss) = F[Len(ss)] /\ Len(ss) \in Nat
  BY <1>1, FlattenRunning
<1>3. QED
  BY <1>2

LEMMA FlattenEmpty == FlattenSeq(<<>>) = <<>>
BY DEF FlattenSeq

(* The concatenation of all but the last, and the last. *)
LEMMA FlattenAppend ==
  ASSUME NEW S, NEW ss \in Seq(Seq(S)), NEW x \in Seq(S)
  PROVE  FlattenSeq(Append(ss, x)) = FlattenSeq(ss) \o x
<1> DEFINE tt == Append(ss, x)
           n == Len(ss)
<1>1. tt \in Seq(Seq(S)) /\ Len(tt) = n + 1 /\ n \in Nat /\ tt[n + 1] = x
  OBVIOUS
<1>2. \A i \in 1..n : tt[i] = ss[i]
  OBVIOUS
<1> HIDE DEF tt
<1>3. PICK F \in [0..Len(tt) -> Seq(S)] : Running(F, tt)
  BY <1>1, RunningExists
<1> DEFINE G == [i \in 0..n |-> F[i]]
<1>4. G \in [0..n -> Seq(S)]
  BY <1>1, <1>3
<1>5. Running(G, ss)
  <2>1. G[0] = <<>>
    BY <1>3, <1>1 DEF Running
  <2>2. ASSUME NEW i \in 1..n PROVE G[i] = G[i - 1] \o ss[i]
    <3>1. G[i] = F[i] /\ G[i - 1] = F[i - 1] /\ i \in 1..Len(tt)
      BY <1>1
    <3>2. F[i] = F[i - 1] \o tt[i]
      BY <1>3, <3>1 DEF Running
    <3>3. QED
      BY <3>1, <3>2, <1>2
  <2> HIDE DEF G
  <2>3. QED
    BY <2>1, <2>2 DEF Running
<1>6. FlattenSeq(ss) = G[n]
  <2> HIDE DEF G
  <2>1. QED
    BY <1>4, <1>5, FlattenRunning
<1>7. FlattenSeq(tt) = F[n + 1]
  BY <1>1, <1>3, FlattenRunning
<1>8. F[n + 1] = F[n] \o x
  <2>1. n + 1 \in 1..Len(tt) /\ (n + 1) - 1 = n
    BY <1>1
  <2>2. F[n + 1] = F[(n + 1) - 1] \o tt[n + 1]
    BY <1>3, <2>1 DEF Running
  <2>3. QED
    BY <1>1, <2>1, <2>2
<1>9. G[n] = F[n]
  BY <1>1
<1>10. QED
  BY <1>6, <1>7, <1>8, <1>9 DEF tt

LEMMA FlattenConcat ==
  ASSUME NEW S, NEW ss \in Seq(Seq(S)), NEW tt \in Seq(Seq(S))
  PROVE  FlattenSeq(ss \o tt) = FlattenSeq(ss) \o FlattenSeq(tt)
<1> DEFINE pre(k) == SubSeq(tt, 1, k)
           G == {k \in 0..Len(tt) : FlattenSeq(ss \o pre(k)) = FlattenSeq(ss) \o FlattenSeq(pre(k))}
<1>1. Len(tt) \in Nat /\ FlattenSeq(ss) \in Seq(S)
  BY FlattenType
<1>2. 0 \in G
  <2>1. pre(0) = <<>> /\ ss \o pre(0) = ss
    BY ConcatEmptySeq
  <2>2. FlattenSeq(ss) \o <<>> = FlattenSeq(ss)
    BY <1>1, ConcatEmptySeq
  <2>3. 0 \in 0..Len(tt)
    BY <1>1
  <2> HIDE DEF pre
  <2>4. FlattenSeq(ss \o pre(0)) = FlattenSeq(ss) \o FlattenSeq(pre(0))
    BY <2>1, <2>2, FlattenEmpty
  <2>5. QED
    BY <2>3, <2>4
<1>3. ASSUME NEW k \in 0..(Len(tt) - 1), k \in G PROVE k + 1 \in G
  <2> DEFINE p == pre(k)
             x == tt[k + 1]
  <2>1. p \in Seq(Seq(S)) /\ x \in Seq(S) /\ k + 1 \in 0..Len(tt)
    BY <1>1
  <2>2. pre(k + 1) = Append(p, x)
    BY <1>1
  <2>3. ss \o pre(k + 1) = Append(ss \o p, x) /\ ss \o p \in Seq(Seq(S))
    BY <2>1, <2>2
  <2>4. FlattenSeq(ss \o p) = FlattenSeq(ss) \o FlattenSeq(p)
    BY <1>3
  <2> HIDE DEF p, x
  <2>5. FlattenSeq(Append(ss \o p, x)) = FlattenSeq(ss \o p) \o x
    BY <2>1, <2>3, FlattenAppend
  <2>6. FlattenSeq(Append(p, x)) = FlattenSeq(p) \o x /\ FlattenSeq(p) \in Seq(S)
    BY <2>1, FlattenAppend, FlattenType
  <2>7. (FlattenSeq(ss) \o FlattenSeq(p)) \o x = FlattenSeq(ss) \o (FlattenSeq(p) \o x)
    <3> DEFINE a == FlattenSeq(ss)
               b == FlattenSeq(p)
    <3>1. a \in Seq(S) /\ b \in Seq(S)
      BY <1>1, <2>6
    <3> HIDE DEF a, b
    <3>2. (a \o b) \o x = a \o (b \o x)
      BY <2>1, <3>1, ConcatAssociative
    <3>3. QED
      BY <3>2 DEF a, b
  <2> HIDE DEF pre
  <2>8. FlattenSeq(ss \o pre(k + 1)) = FlattenSeq(ss) \o FlattenSeq(pre(k + 1))
    BY <2>2, <2>3, <2>4, <2>5, <2>6, <2>7
  <2>9. QED
    BY <2>1, <2>8
<1>4. \A k \in 0..Len(tt) : k \in G
  <2> HIDE DEF G
  <2>1. QED
    BY <1>1, <1>2, <1>3, Upwards
<1>5. pre(Len(tt)) = tt
  BY <1>1
<1>6. Len(tt) \in G
  BY <1>1, <1>4
<1> HIDE DEF pre
<1>7. QED
  BY <1>5, <1>6

LEMMA FlattenOne == ASSUME NEW S, NEW x \in Seq(S) PROVE FlattenSeq(<<x>>) = x
<1>1. <<x>> = Append(<<>>, x) /\ <<>> \in Seq(Seq(S)) /\ <<>> \o x = x
  BY ConcatEmptySeq
<1>2. FlattenSeq(Append(<<>>, x)) = FlattenSeq(<<>>) \o x
  BY <1>1, FlattenAppend
<1>3. QED
  BY <1>1, <1>2, FlattenEmpty

-----------------------------------------------------------------------------
(* The elements of a sequence at a set of positions. *)

Parts(s, I) == [i \in DOMAIN s |-> IF i \in I THEN << s[i] >> ELSE <<>>]

LEMMA PartsType == ASSUME NEW S, NEW s \in Seq(S), NEW I PROVE Parts(s, I) \in Seq(Seq(S)) /\ Len(Parts(s, I)) = Len(s)
<1>1. DOMAIN s = 1..Len(s) /\ Len(s) \in Nat
  OBVIOUS
<1>2. \A i \in 1..Len(s) : Parts(s, I)[i] \in Seq(S)
  <2>1. ASSUME NEW i \in 1..Len(s) PROVE Parts(s, I)[i] \in Seq(S)
    <3>1. Parts(s, I)[i] = IF i \in I THEN << s[i] >> ELSE <<>>
      BY <1>1 DEF Parts
    <3>2. s[i] \in S
      BY <1>1
    <3>3. << s[i] >> \in Seq(S) /\ <<>> \in Seq(S)
      BY <3>2
    <3>4. QED
      BY <3>1, <3>3
  <2>2. QED
    BY <2>1
<1>3. Parts(s, I) = [i \in 1..Len(s) |-> Parts(s, I)[i]]
  BY <1>1 DEF Parts
<1>4. QED
  BY <1>1, <1>2, <1>3, IsASeq

LEMMA ChosenType == ASSUME NEW S, NEW s \in Seq(S), NEW I PROVE Chosen(s, I) \in Seq(S)
BY PartsType, FlattenType DEF Chosen, Parts

LEMMA ChosenEmpty == ASSUME NEW I PROVE Chosen(<<>>, I) = <<>>
<1>1. [i \in DOMAIN <<>> |-> IF i \in I THEN << <<>>[i] >> ELSE <<>>] = <<>>
  OBVIOUS
<1>2. QED
  BY <1>1, FlattenEmpty DEF Chosen

(* The n positions behind position d are the same in I as in J. *)
Same(I, J, n, d) == \A i \in 1..n : i \in I <=> d + i \in J

LEMMA ChosenConcat ==
  ASSUME NEW S, NEW s \in Seq(S), NEW t \in Seq(S), NEW I, NEW J, NEW K,
         Same(I, J, Len(s), 0), Same(K, J, Len(t), Len(s))
  PROVE  Chosen(s \o t, J) = Chosen(s, I) \o Chosen(t, K)
<1>0. /\ \A i \in 1..Len(s) : i \in I <=> i \in J
      /\ \A i \in 1..Len(t) : i \in K <=> Len(s) + i \in J
  BY DEF Same
<1>1. s \o t \in Seq(S) /\ Len(s \o t) = Len(s) + Len(t) /\ Len(s) \in Nat /\ Len(t) \in Nat
  OBVIOUS
<1>2. Parts(s \o t, J) = Parts(s, I) \o Parts(t, K)
  <2> DEFINE p == Parts(s, I)
             q == Parts(t, K)
             r == Parts(s \o t, J)
  <2>1. p \in Seq(Seq(S)) /\ q \in Seq(Seq(S)) /\ r \in Seq(Seq(S))
    BY <1>1, PartsType
  <2>2. Len(p) = Len(s) /\ Len(q) = Len(t) /\ Len(r) = Len(s) + Len(t)
    BY <1>1, PartsType
  <2>3. ASSUME NEW i \in 1..Len(r) PROVE r[i] = (p \o q)[i]
    <3>1. r[i] = IF i \in J THEN << (s \o t)[i] >> ELSE <<>>
      BY <1>1, <2>2 DEF Parts
    <3>2. CASE i <= Len(s)
      <4>1. p[i] = (IF i \in I THEN << s[i] >> ELSE <<>>) /\ (s \o t)[i] = s[i] /\ (i \in I <=> i \in J)
        BY <1>0, <1>1, <3>2 DEF Parts
      <4>2. (p \o q)[i] = p[i]
        <5> HIDE DEF p, q
        <5>1. QED
          BY <2>1, <2>2, <3>2, <1>1
      <4>3. QED
        BY <3>1, <4>1, <4>2
    <3>3. CASE i > Len(s)
      <4> DEFINE j == i - Len(s)
      <4>0. j \in 1..Len(t) /\ Len(s) + j = i
        BY <1>1, <2>2, <3>3
      <4>1. q[j] = (IF j \in K THEN << t[j] >> ELSE <<>>) /\ (s \o t)[i] = t[j]
        BY <1>1, <3>3, <4>0 DEF Parts
      <4>2. j \in K <=> i \in J
        BY <1>0, <4>0
      <4>3. (p \o q)[i] = q[j]
        <5> HIDE DEF p, q
        <5>1. i \in 1..(Len(p) + Len(q)) /\ ~(i <= Len(p)) /\ i - Len(p) = j
          BY <1>1, <2>2, <3>3, <4>0
        <5> HIDE DEF j
        <5>2. QED
          BY <2>1, <5>1, ConcatProperties
      <4> HIDE DEF j
      <4>4. QED
        BY <3>1, <4>1, <4>2, <4>3
    <3>4. QED
      BY <3>2, <3>3, <1>1, <2>2
  <2> HIDE DEF p, q, r
  <2>4. p \o q \in Seq(Seq(S)) /\ Len(p \o q) = Len(r)
    <3>1. Len(p \o q) = Len(p) + Len(q) /\ p \o q \in Seq(Seq(S))
      BY <2>1, ConcatProperties
    <3>2. QED
      BY <2>2, <3>1
  <2>5. r = p \o q
    BY <2>1, <2>3, <2>4, SeqEqual
  <2>6. QED
    BY <2>5 DEF p, q, r
<1>3. /\ Chosen(s \o t, J) = FlattenSeq(Parts(s \o t, J))
      /\ Chosen(s, I) = FlattenSeq(Parts(s, I)) /\ Chosen(t, K) = FlattenSeq(Parts(t, K))
  BY DEF Chosen, Parts
<1>4. Parts(s, I) \in Seq(Seq(S)) /\ Parts(t, K) \in Seq(Seq(S))
  BY PartsType
<1>5. FlattenSeq(Parts(s, I) \o Parts(t, K)) = FlattenSeq(Parts(s, I)) \o FlattenSeq(Parts(t, K))
  BY <1>4, FlattenConcat
<1>6. QED
  BY <1>2, <1>3, <1>5

LEMMA ChosenOne ==
  ASSUME NEW S, NEW x \in S, NEW I PROVE Chosen(<<x>>, I) = IF 1 \in I THEN <<x>> ELSE <<>>
<1> DEFINE y == IF 1 \in I THEN <<x>> ELSE <<>>
<1>1. [i \in DOMAIN <<x>> |-> IF i \in I THEN << <<x>>[i] >> ELSE <<>>] = << y >>
  OBVIOUS
<1>2. y \in Seq(S)
  OBVIOUS
<1>3. FlattenSeq(<<y>>) = y
  <2> HIDE DEF y
  <2>1. QED
    BY <1>2, FlattenOne
<1>4. QED
  BY <1>1, <1>3 DEF Chosen

-----------------------------------------------------------------------------
(* The readers' inductive invariant. *)

Kept == {e \in Entries : ExpiryKept(e)}
Chans == DOMAIN chs

(* Channels carry entries that say the truth about expiries. *)
ChanInv ==
  /\ chs \in [Chans -> Seq(Kept)] /\ sent \in [Chans -> Seq(Kept)] /\ feed \in [Chans -> Seq(Kept)]
  /\ open \in [Chans -> BOOLEAN] /\ DOMAIN pump = Chans
  /\ \E n \in Nat : Chans = 1..n

(* The milliseconds remembered behind the first k opcodes are those, at the time remembered
   with them, of an expiry no value has used yet, 0 when there is none. *)
Timely(at, ms, now) == ms = ExpireMs(at, now)
Carries(ops, k, ms, now) ==
  /\ \A j \in 1..k : ops[j].op = "expire" /\ Between(ops, j, k + 1) => Timely(ops[j].at, ms, now)
  /\ (\A j \in 1..k : ops[j].op = "expire" => ~Between(ops, j, k + 1)) => ms = 0
Place(ops, k, rest, ms, now) ==
  /\ Snapshot(ops) /\ k \in 0..Len(ops) /\ rest = SubSeq(ops, k + 1, Len(ops))
  /\ Carries(ops, k, ms, now)

RdbType == [pc : {"idle", "read", "send", "end", "closed"}, rest : Seq(Opcodes), db : Nat,
            expireMs : Nat, now : Nat, pending : Seq(Kept), nested : BOOLEAN]

RdbInv ==
  /\ rdb \in RdbType
  /\ \E ops, k : Place(ops, k, rdb.rest, rdb.expireMs, rdb.now)
  /\ rdbCh \in Seq(Kept)

ManifestType == [base : Seq(FileInfos), hist : Seq(FileInfos), incr : Seq(FileInfos)]
AofType == [pc : {"idle", "manifest", "single", "multi", "next", "forward", "read", "send",
                  "close", "closed"},
            lines : Seq(Lines), lineNum : Nat, am : ManifestType, single : BOOLEAN,
            todo : Seq(FileInfos), recs : Seq(AofRecords), at : Nat, e : Seq(Kept)]

AofGood(a) ==
  /\ a \in AofType
  /\ a.pc = "send" => a.e # <<>>
  /\ a.pc \in {"forward", "read", "send"} /\ ~a.single => a.todo # <<>>

AofInv == disk = cfg.disk /\ timestamp = cfg.timestamp /\ AofGood(aof)

(* Who reads, and that a channel is open as long as its reader may send. *)
OpenInv ==
  /\ cfg \in Configs
  /\ main \in [pc : {"create", "loop", "close", "wait"}, left : Int, pings : Nat]
  /\ main.pc = "create" => rdb = IdleRdb /\ aof = IdleAof /\ Chans = {}
  /\ main.pc # "create" /\ cfg.reader # "cluster" => Chans = {1}
  /\ cfg.reader # "rdb" => (rdb.pc = "idle" \/ rdb.nested)
  /\ cfg.reader = "rdb" => ~rdb.nested /\ (rdb.pc \in {"read", "send", "end"} => open[1])
  /\ cfg.reader = "aof" => (aof.pc \notin {"idle", "closed"} => open[1])
  /\ cfg.reader # "aof" => aof.pc = "idle" /\ ~rdb.nested

ReaderInv == ChanInv /\ RdbInv /\ AofInv /\ OpenInv

-----------------------------------------------------------------------------
(* The loader of snapshots. *)

(* One opcode on. *)
LEMMA NextPlace ==
  ASSUME NEW ops, NEW k, NEW rest, NEW ms, NEW now, Place(ops, k, rest, ms, now), rest # <<>>
  PROVE  /\ k + 1 \in 1..Len(ops) /\ k \in Nat /\ Head(rest) = ops[k + 1] /\ ops[k + 1] \in Opcodes
         /\ Tail(rest) = SubSeq(ops, (k + 1) + 1, Len(ops))
         /\ Tail(rest) \in Seq(Opcodes)
<1>1. ops \in Seq(Opcodes) /\ k \in 0..Len(ops) /\ rest = SubSeq(ops, k + 1, Len(ops)) /\ Len(ops) \in Nat
  BY DEF Place, Snapshot
<1>2. k + 1 \in 1..Len(ops)
  <2>1. SUFFICES ASSUME k + 1 > Len(ops) PROVE FALSE
    BY <1>1
  <2>2. SubSeq(ops, k + 1, Len(ops)) = <<>>
    BY <1>1, <2>1, SubSeqEmpty
  <2>3. QED
    BY <1>1, <2>2
<1>3. Head(rest) = ops[k + 1] /\ Tail(rest) = SubSeq(ops, (k + 1) + 1, Len(ops))
  BY <1>1, <1>2, HeadTailOfSubSeq
<1>4. SubSeq(ops, (k + 1) + 1, Len(ops)) \in Seq(Opcodes)
  BY <1>1, <1>2
<1>5. QED
  BY <1>1, <1>2, <1>3, <1>4

(* What is remembered when a value is read is its own expiry. *)
LEMMA OwnExpiry ==
  ASSUME NEW ops, NEW k \in Nat, NEW ms \in Nat, NEW now, Snapshot(ops), k + 1 \in 1..Len(ops),
         Carries(ops, k, ms, now), ops[k + 1].op = "value"
  PROVE  /\ ops[k + 1].at = None => ms = 0
         /\ ops[k + 1].at # None => Timely(ops[k + 1].at, ms, now)
<1>1. ops \in Seq(Opcodes) /\ DOMAIN ops = 1..Len(ops) /\ Len(ops) \in Nat /\ (k + 1) - 1 = k
  BY DEF Snapshot
<1>2. /\ \A j \in 1..k : ops[j].op = "expire" /\ Between(ops, j, k + 1) => ops[k + 1].at = ops[j].at
      /\ (\A j \in 1..k : ops[j].op = "expire" => ~Between(ops, j, k + 1)) => ops[k + 1].at = None
  BY <1>1 DEF Snapshot, ExpiriesInFront
<1>3. CASE \A j \in 1..k : ops[j].op = "expire" => ~Between(ops, j, k + 1)
  BY <1>2, <1>3 DEF Carries
<1>4. CASE \E j \in 1..k : ops[j].op = "expire" /\ Between(ops, j, k + 1)
  <2>1. PICK j \in 1..k : ops[j].op = "expire" /\ Between(ops, j, k + 1)
    BY <1>4
  <2>2. ops[j] \in Opcodes
    BY <1>1, <2>1
  <2>3. ops[j].at \in Nat
    BY <2>1, <2>2 DEF Opcodes
  <2>4. ops[k + 1].at = ops[j].at /\ Timely(ops[j].at, ms, now)
    BY <1>2, <2>1 DEF Carries
  <2>5. ops[k + 1].at # None
    BY <2>3, <2>4 DEF None
  <2>6. QED
    BY <2>4, <2>5
<1>5. QED
  BY <1>3, <1>4

LEMMA CarriesValue ==
  ASSUME NEW ops, NEW k \in Nat, ops[k + 1].op = "value" PROVE Carries(ops, k + 1, 0, 0)
<1>1. ASSUME NEW j \in 1..(k + 1), ops[j].op = "expire" PROVE ~Between(ops, j, (k + 1) + 1)
  <2>1. j # k + 1
    BY <1>1
  <2>2. k + 1 \in (j + 1)..(((k + 1) + 1) - 1)
    BY <2>1
  <2>3. QED
    BY <2>2 DEF Between
<1>2. QED
  BY <1>1 DEF Carries

LEMMA CarriesExpire ==
  ASSUME NEW ops, NEW k \in Nat, NEW ms, NEW now, ops[k + 1].op = "expire", Timely(ops[k + 1].at, ms, now)
  PROVE  Carries(ops, k + 1, ms, now)
<1>1. ASSUME NEW j \in 1..(k + 1), j # k + 1 PROVE ~Between(ops, j, (k + 1) + 1)
  <2>2. k + 1 \in (j + 1)..(((k + 1) + 1) - 1)
    BY <1>1
  <2>3. QED
    BY <2>2 DEF Between
<1>2. Between(ops, k + 1, (k + 1) + 1)
  BY DEF Between
<1>3. k + 1 \in 1..(k + 1)
  OBVIOUS
<1>4. QED
  BY <1>1, <1>2, <1>3 DEF Carries

LEMMA CarriesOther ==
  ASSUME NEW ops, NEW k \in Nat, NEW ms, NEW now, ops[k + 1].op \notin {"expire", "value"},
         Carries(ops, k, ms, now)
  PROVE  Carries(ops, k + 1, ms, now)
<1>1. ASSUME NEW j \in 1..k PROVE Between(ops, j, (k + 1) + 1) <=> Between(ops, j, k + 1)
  <2>1. (j + 1)..(((k + 1) + 1) - 1) = ((j + 1)..((k + 1) - 1)) \cup {k + 1}
    OBVIOUS
  <2>2. QED
    BY <2>1 DEF Between
<1>2. \A j \in 1..(k + 1) : j \in 1..k \/ j = k + 1
  OBVIOUS
<1>3. 1..k \subseteq 1..(k + 1)
  OBVIOUS
<1>4. QED
  BY <1>1, <1>2, <1>3 DEF Carries

(* The first place of a file. *)
LEMMA FirstPlace == ASSUME NEW ops, Snapshot(ops) PROVE ops \in Seq(Opcodes) /\ Place(ops, 0, ops, 0, 0)
<1>1. ops \in Seq(Opcodes) /\ Len(ops) \in Nat
  BY DEF Snapshot
<1>2. ops = SubSeq(ops, 0 + 1, Len(ops))
  BY <1>1
<1>3. Carries(ops, 0, 0, 0)
  BY DEF Carries
<1>4. QED
  BY <1>1, <1>2, <1>3 DEF Place

LEMMA Triple ==
  ASSUME NEW S, NEW x \in S, NEW y \in S, NEW z \in S PROVE <<x, y, z>> \in Seq(S) /\ <<x, y, z>>[1] = x
OBVIOUS

LEMMA Quadruple ==
  ASSUME NEW S, NEW w \in S, NEW x \in S, NEW y \in S, NEW z \in S PROVE <<w, x, y, z>> \in Seq(S)
OBVIOUS

LEMMA OriginIs ==
  ASSUME NEW key \in Words, NEW at \in Int, NEW now \in Nat
  PROVE  /\ Origin(key, at, now) \in Origins /\ ~Origin(key, at, now).last
         /\ Origin(key, at, now).key = key /\ Origin(key, at, now).at = at /\ Origin(key, at, now).now = now
BY DEF Origin, Origins

(* An entry that is not the last of a value only has to keep from inventing an expiry. *)
LEMMA KeptEntry ==
  ASSUME NEW db \in Nat, NEW argv \in Seq(Words), NEW ttl \in Nat, NEW of \in Origins,
         of.at = None => ttl = 0, ~of.last
  PROVE  Entry(db, argv, ttl, of) \in Kept
BY DEF Kept, Entry, Entries, ExpiryKept

(* A command that says nothing about expiries. *)
LEMMA CommandKept == ASSUME NEW argv \in Seq(Words) PROVE Entry(0, argv, 0, NoValue) \in Kept
<1>1. NoValue \in Origins /\ ~NoValue.last
  BY DEF NoValue, Origin, Origins, None
<1>2. QED
  BY <1>1, KeptEntry

(* The mark on an entry. *)
Marked(e) == [e EXCEPT !.of.last = TRUE]

LEMMA MarkedIs ==
  ASSUME NEW e \in Entries
  PROVE  /\ Marked(e) \in Entries /\ Marked(e).argv = e.argv /\ Marked(e).ttl = e.ttl
         /\ Marked(e).of.at = e.of.at /\ Marked(e).of.now = e.of.now /\ Marked(e).of.key = e.of.key
BY DEF Marked, Entries, Origins

LEMMA MarkIs ==
  ASSUME NEW s \in Seq(Kept), s # <<>>
  PROVE  /\ DOMAIN s = 1..Len(s) /\ Len(s) \in Nat /\ Len(s) \in 1..Len(s) /\ DOMAIN MarkLast(s) = DOMAIN s
         /\ MarkLast(s) = [i \in 1..Len(s) |-> IF i = Len(s) THEN Marked(s[i]) ELSE s[i]]
         /\ \A i \in DOMAIN s : MarkLast(s)[i] = s[i] \/ MarkLast(s)[i] = Marked(s[i])
<1>1. DOMAIN s = 1..Len(s) /\ Len(s) \in Nat /\ Len(s) \in 1..Len(s)
  OBVIOUS
<1>2. MarkLast(s) = [s EXCEPT ![Len(s)] = Marked(@)]
  BY DEF MarkLast, Marked
<1>3. MarkLast(s) = [i \in 1..Len(s) |-> IF i = Len(s) THEN Marked(s[i]) ELSE s[i]]
  BY <1>1, <1>2
<1>4. QED
  BY <1>1, <1>3

(* What the last entry of a volatile key has to say. *)
SaysExpiry(e) ==
  e.of.at # None /\ e.of.at # e.of.now =>
    /\ Len(e.argv) > 1 /\ e.argv[1] \in {"RESTORE", "PEXPIRE"} /\ e.argv[2] = e.of.key
    /\ e.ttl = IF e.of.at > e.of.now THEN e.of.at - e.of.now ELSE 1

LEMMA MarkKept ==
  ASSUME NEW s \in Seq(Kept), s # <<>> => SaysExpiry(s[Len(s)]) PROVE MarkLast(s) \in Seq(Kept)
<1>1. CASE s = <<>>
  BY <1>1 DEF MarkLast
<1>2. CASE s # <<>>
  <2>1. /\ Len(s) \in Nat /\ Len(s) \in 1..Len(s)
        /\ MarkLast(s) = [i \in 1..Len(s) |-> IF i = Len(s) THEN Marked(s[i]) ELSE s[i]]
    BY <1>2, MarkIs
  <2>2. \A i \in 1..Len(s) : s[i] \in Kept
    BY <2>1
  <2>3. Marked(s[Len(s)]) \in Kept
    <3> DEFINE e == s[Len(s)]
    <3>1. e \in Entries /\ (e.of.at = None => e.ttl = 0) /\ SaysExpiry(e)
      BY <1>2, <2>1, <2>2 DEF Kept, ExpiryKept
    <3> HIDE DEF e
    <3>2. /\ Marked(e) \in Entries /\ Marked(e).argv = e.argv /\ Marked(e).ttl = e.ttl
          /\ Marked(e).of.at = e.of.at /\ Marked(e).of.now = e.of.now /\ Marked(e).of.key = e.of.key
      BY <3>1, MarkedIs
    <3>3. Marked(e) \in Kept
      BY <3>1, <3>2 DEF Kept, ExpiryKept, SaysExpiry
    <3>4. QED
      BY <3>3 DEF e
  <2>4. \A i \in 1..Len(s) : (IF i = Len(s) THEN Marked(s[i]) ELSE s[i]) \in Kept
    BY <2>2, <2>3
  <2>5. QED
    BY <2>1, <2>4, IsASeq
<1>3. QED
  BY <1>1, <1>2

(* The time an entry has to name is the one the loader computed. *)
LEMMA LeftIs ==
  ASSUME NEW at \in Int, NEW now \in Nat, at # now
  PROVE  ExpireMs(at, now) = (IF at > now THEN at - now ELSE 1) /\ ExpireMs(at, now) # 0
BY DEF ExpireMs

LEMMA RestoreIs ==
  ASSUME NEW key \in Words
  PROVE  /\ Restore(key) \in Seq(Words) /\ Len(Restore(key)) > 1
         /\ Restore(key)[1] = "RESTORE" /\ Restore(key)[2] = key
<1> DEFINE a == <<"RESTORE", key, "ms", "dump">>
           b == IF Rewrite THEN <<"replace">> ELSE <<>>
<1>1. "RESTORE" \in Words /\ "ms" \in Words /\ "dump" \in Words
  BY RdbAssumption
<1>2. a \in Seq(Words)
  BY <1>1, Quadruple
<1>3. Len(a) = 4 /\ a[1] = "RESTORE" /\ a[2] = key
  OBVIOUS
<1>4. b \in Seq(Words)
  BY RdbAssumption
<1>5. Restore(key) = a \o b
  BY DEF Restore
<1> HIDE DEF a, b
<1>6. a \o b \in Seq(Words) /\ Len(a \o b) = Len(a) + Len(b) /\ Len(b) \in Nat
  BY <1>2, <1>4
<1>7. (a \o b)[1] = a[1] /\ (a \o b)[2] = a[2]
  <2>1. 1 \in 1..(Len(a) + Len(b)) /\ 2 \in 1..(Len(a) + Len(b)) /\ 1 <= Len(a) /\ 2 <= Len(a)
    BY <1>3, <1>6
  <2>2. QED
    BY <1>2, <1>4, <2>1, ConcatProperties
<1>8. Len(a \o b) > 1
  BY <1>3, <1>6
<1>9. QED
  BY <1>3, <1>5, <1>6, <1>7, <1>8

(* What a value becomes. *)
LEMMA ValueKept ==
  ASSUME RdbInv, NEW o \in Opcodes, o.op = "value",
         o.at = None => rdb.expireMs = 0, o.at # None => Timely(o.at, rdb.expireMs, rdb.now)
  PROVE  BigValue(o) \in Seq(Kept) /\ DumpedValue(o) \in Seq(Kept) /\ ValueEntries(o) \in Seq(Kept)
<1> DEFINE of == Origin(o.key, o.at, rdb.now)
<1>1. o.key \in Words /\ o.at \in Int /\ o.cmds \in Seq(Seq(Words)) /\ Len(o.cmds) \in Nat
  BY DEF Opcodes
<1>2. rdb.db \in Nat /\ rdb.expireMs \in Nat /\ rdb.now \in Nat
  BY DEF RdbInv, RdbType
<1>3. of \in Origins /\ ~of.last /\ of.key = o.key /\ of.at = o.at /\ of.now = rdb.now
  BY <1>1, <1>2, OriginIs
<1>4. o.at # None /\ o.at # rdb.now =>
        rdb.expireMs = (IF o.at > rdb.now THEN o.at - rdb.now ELSE 1) /\ rdb.expireMs # 0
  BY <1>1, <1>2, LeftIs DEF Timely
<1>5. BigValue(o) \in Seq(Kept) /\ (BigValue(o) # <<>> => SaysExpiry(BigValue(o)[Len(BigValue(o))]))
  <2> DEFINE n == Len(o.cmds)
             s == [i \in 1..n |-> Entry(rdb.db, o.cmds[i], 0, of)]
             argv == <<"PEXPIRE", o.key, "ms">>
             e == Entry(rdb.db, argv, rdb.expireMs, of)
  <2>1. BigValue(o) = s \o IF rdb.expireMs # 0 THEN << e >> ELSE <<>>
    BY DEF BigValue
  <2> HIDE DEF of
  <2>2. s \in Seq(Kept) /\ Len(s) = n
    <3>1. \A i \in 1..n : Entry(rdb.db, o.cmds[i], 0, of) \in Kept
      BY <1>1, <1>2, <1>3, KeptEntry
    <3> HIDE DEF n
    <3>2. QED
      BY <1>1, <3>1, IsASeq DEF n
  <2>3. \A i \in 1..n : s[i].of = of
    BY DEF Entry
  <2>4. argv \in Seq(Words) /\ Len(argv) > 1 /\ argv[1] \in {"RESTORE", "PEXPIRE"} /\ argv[2] = o.key
    <3>1. "PEXPIRE" \in Words /\ "ms" \in Words
      BY RdbAssumption
    <3>2. argv \in Seq(Words)
      BY <1>1, <3>1, Triple
    <3>3. QED
      BY <3>2
  <2>5. e \in Kept /\ e.argv = argv /\ e.of = of /\ e.ttl = rdb.expireMs
    <3> HIDE DEF argv
    <3>1. e \in Kept
      BY <1>2, <1>3, <2>4, KeptEntry
    <3>2. QED
      BY <3>1 DEF Entry
  <2> HIDE DEF s, argv, e
  <2>6. CASE rdb.expireMs # 0
    <3>1. BigValue(o) = s \o << e >> /\ << e >> \in Seq(Kept)
      BY <2>1, <2>5, <2>6
    <3>2. s \o << e >> \in Seq(Kept) /\ Len(s \o << e >>) = n + 1 /\ (s \o << e >>)[n + 1] = e
      <4>1. Append(s, e) \in Seq(Kept) /\ Len(Append(s, e)) = n + 1 /\ Append(s, e)[n + 1] = e
        BY <2>2, <2>5
      <4>2. Append(s, e) = s \o << e >>
        BY <2>2, <2>5
      <4>3. QED
        BY <4>1, <4>2
    <3>3. SaysExpiry(e)
      <4>1. e.of.at = o.at /\ e.of.now = rdb.now /\ e.of.key = o.key
        BY <1>3, <2>5
      <4>2. e.of.at # None /\ e.of.at # e.of.now => e.ttl = IF e.of.at > e.of.now THEN e.of.at - e.of.now ELSE 1
        BY <1>4, <2>5, <4>1
      <4>3. Len(e.argv) > 1 /\ e.argv[1] \in {"RESTORE", "PEXPIRE"} /\ e.argv[2] = e.of.key
        BY <2>4, <2>5, <4>1, Zenon
      <4>4. QED
        BY <4>2, <4>3 DEF SaysExpiry
    <3>4. QED
      BY <3>1, <3>2, <3>3
  <2>7. CASE rdb.expireMs = 0
    <3>1. BigValue(o) = s
      <4>1. BigValue(o) = s \o <<>>
        BY <2>1, <2>7
      <4>2. QED
        BY <2>2, <4>1, ConcatEmptySeq
    <3>2. o.at = None \/ o.at = rdb.now
      BY <1>4, <2>7
    <3>3. ASSUME s # <<>> PROVE SaysExpiry(s[Len(s)])
      <4>1. s[Len(s)].of = of
        BY <2>2, <2>3, <3>3
      <4>2. QED
        BY <1>3, <3>2, <4>1 DEF SaysExpiry
    <3>4. QED
      BY <2>2, <3>1, <3>3
  <2>8. QED
    BY <2>6, <2>7
<1>6. DumpedValue(o) \in Seq(Kept) /\ (DumpedValue(o) # <<>> => SaysExpiry(DumpedValue(o)[Len(DumpedValue(o))]))
  <2> DEFINE argv == Restore(o.key)
             pttl == IF rdb.expireMs > 0 THEN rdb.expireMs ELSE 0
             e == Entry(rdb.db, argv, pttl, of)
  <2>1. argv \in Seq(Words) /\ Len(argv) > 1 /\ argv[1] = "RESTORE" /\ argv[2] = o.key
    BY <1>1, RestoreIs
  <2>2. pttl = rdb.expireMs
    BY <1>2
  <2>3. DumpedValue(o) = << e >>
    BY DEF DumpedValue
  <2> HIDE DEF argv, pttl, of
  <2>4. e \in Kept /\ e.argv = argv /\ e.of = of /\ e.ttl = rdb.expireMs
    <3>1. e \in Kept
      BY <1>2, <1>3, <2>1, <2>2, KeptEntry
    <3>2. QED
      BY <2>2, <3>1 DEF Entry
  <2> HIDE DEF e
  <2>5. SaysExpiry(e)
    BY <1>3, <1>4, <2>1, <2>4 DEF SaysExpiry
  <2>6. QED
    BY <2>3, <2>4, <2>5
<1>7. QED
  BY <1>5, <1>6, MarkKept DEF ValueEntries

(* One round of the loader keeps its invariant. *)
LEMMA RdbReadKeeps ==
  ASSUME ReaderInv, RdbRead
  PROVE  RdbInv' /\ rdb'.nested = rdb.nested /\ rdb.pc = "read" /\ rdb'.pc \in {"read", "send", "end"}
<1>0. rdb \in RdbType /\ rdbCh \in Seq(Kept) /\ rdbCh' = rdbCh /\ rdb.pc = "read"
  BY DEF ReaderInv, RdbInv, RdbRead
<1>1. PICK ops, k : Place(ops, k, rdb.rest, rdb.expireMs, rdb.now)
  BY DEF ReaderInv, RdbInv
<1>2. CASE UNCHANGED rdb
  BY <1>0, <1>1, <1>2 DEF RdbInv, RdbType
<1>3. CASE ~Unreadable /\ ReadOp(Head(rdb.rest))
  <2> DEFINE o == ops[k + 1]
  <2>1. rdb.rest # <<>> /\ Head(rdb.rest).op \notin {"function", "unknown"}
    BY <1>3 DEF Unreadable
  <2>2. /\ k + 1 \in 1..Len(ops) /\ k \in Nat /\ Head(rdb.rest) = o /\ o \in Opcodes
        /\ Tail(rdb.rest) = SubSeq(ops, (k + 1) + 1, Len(ops)) /\ Tail(rdb.rest) \in Seq(Opcodes)
    BY <1>1, <2>1, NextPlace
  <2>3. Snapshot(ops) /\ Carries(ops, k, rdb.expireMs, rdb.now) /\ rdb.expireMs \in Nat
    BY <1>0, <1>1 DEF Place, RdbType
  <2>4. k + 1 \in 0..Len(ops)
    BY <2>2
  <2>5. o.op \in {"value", "expire", "select", "aux", "function2", "ignored", "eof"}
    BY <2>1, <2>2 DEF Opcodes
  <2>6. ASSUME NEW ms, NEW now, Carries(ops, k + 1, ms, now) PROVE Place(ops, k + 1, Tail(rdb.rest), ms, now)
    BY <2>2, <2>3, <2>4, <2>6 DEF Place
  <2>7. SUFFICES /\ rdb' \in RdbType /\ rdb'.nested = rdb.nested /\ rdb'.pc \in {"send", "end"}
                 /\ rdb'.rest = Tail(rdb.rest) /\ Carries(ops, k + 1, rdb'.expireMs, rdb'.now)
    BY <1>0, <2>6 DEF RdbInv
  <2>8. CASE o.op = "value"
    <3>1. ReadValue(o)
      BY <1>3, <2>2, <2>8 DEF ReadOp
    <3>2. /\ o.at = None => rdb.expireMs = 0
          /\ o.at # None => Timely(o.at, rdb.expireMs, rdb.now)
      BY <2>2, <2>3, <2>8, OwnExpiry
    <3>3. ValueEntries(o) \in Seq(Kept)
      <4> HIDE DEF o
      <4>1. RdbInv
        BY DEF ReaderInv
      <4>2. QED
        BY <2>2, <2>8, <3>2, <4>1, ValueKept
    <3>4. Carries(ops, k + 1, 0, 0)
      BY <2>2, <2>8, CarriesValue
    <3> HIDE DEF o
    <3>5. QED
      BY <1>0, <2>2, <3>1, <3>3, <3>4 DEF ReadValue, RdbType
  <2>9. CASE o.op = "expire"
    <3>1. ReadExpire(o)
      BY <1>3, <2>2, <2>9 DEF ReadOp
    <3>2. PICK now \in Times : rdb' = [rdb EXCEPT !.pc = "send", !.rest = Tail(@), !.expireMs = ExpireMs(o.at, now),
                                                !.now = now]
      BY <3>1 DEF ReadExpire
    <3>3. o.at \in Nat /\ now \in Nat
      BY <2>2, <2>9, RdbAssumption DEF Opcodes
    <3>4. ExpireMs(o.at, now) \in Nat /\ Timely(o.at, ExpireMs(o.at, now), now)
      BY <3>3 DEF ExpireMs, Timely
    <3>5. Carries(ops, k + 1, ExpireMs(o.at, now), now)
      BY <2>2, <2>9, <3>4, CarriesExpire
    <3> HIDE DEF o
    <3>6. QED
      BY <1>0, <2>2, <3>2, <3>3, <3>4, <3>5 DEF RdbType
  <2>10. CASE o.op \in {"select", "aux", "function2", "ignored", "eof"}
    <3>1. Carries(ops, k + 1, rdb.expireMs, rdb.now)
      BY <2>2, <2>3, <2>10, CarriesOther
    <3>2. Entry(0, <<"script", "load", "lua">>, 0, NoValue) \in Kept
      <4>1. "script" \in Words /\ "load" \in Words /\ "lua" \in Words
        BY RdbAssumption
      <4>2. <<"script", "load", "lua">> \in Seq(Words)
        BY <4>1, Triple
      <4>3. QED
        BY <4>2, CommandKept
    <3>3. Entry(0, <<"function", "load", "replace", "lib">>, 0, NoValue) \in Kept
      <4>1. "function" \in Words /\ "load" \in Words /\ "replace" \in Words /\ "lib" \in Words
        BY RdbAssumption
      <4>2. <<"function", "load", "replace", "lib">> \in Seq(Words)
        BY <4>1, Quadruple
      <4>3. QED
        BY <4>2, CommandKept
    <3>4. << Entry(0, <<"script", "load", "lua">>, 0, NoValue) >> \in Seq(Kept)
      BY <3>2
    <3>5. << Entry(0, <<"function", "load", "replace", "lib">>, 0, NoValue) >> \in Seq(Kept)
      BY <3>3
    <3>6. o.op = "select" => o.db \in Nat
      BY <2>2 DEF Opcodes
    <3> HIDE DEF o
    <3>7. CASE o.op = "select"
      BY <1>0, <1>3, <2>2, <3>1, <3>6, <3>7 DEF ReadOp, ReadSelect, RdbType
    <3>8. CASE o.op = "aux"
      <4> DEFINE p == IF o.key = "lua" THEN << Entry(0, <<"script", "load", "lua">>, 0, NoValue) >> ELSE <<>>
      <4>1. p \in Seq(Kept)
        BY <3>4
      <4>2. ReadAux(o)
        BY <1>3, <2>2, <3>8 DEF ReadOp
      <4>3. rdb' = [rdb EXCEPT !.pc = "send", !.rest = Tail(@), !.pending = p]
        BY <4>2 DEF ReadAux
      <4> HIDE DEF p
      <4>4. QED
        BY <1>0, <2>2, <3>1, <4>1, <4>3 DEF RdbType
    <3>9. CASE o.op = "function2"
      <4> DEFINE p == << Entry(0, <<"function", "load", "replace", "lib">>, 0, NoValue) >>
      <4>1. p \in Seq(Kept)
        BY <3>5
      <4>2. ReadFunction2(o)
        BY <1>3, <2>2, <3>9 DEF ReadOp
      <4>3. rdb' = [rdb EXCEPT !.pc = "send", !.rest = Tail(@), !.pending = p]
        BY <4>2 DEF ReadFunction2
      <4> HIDE DEF p
      <4>4. QED
        BY <1>0, <2>2, <3>1, <4>1, <4>3 DEF RdbType
    <3>10. CASE o.op = "ignored"
      BY <1>0, <1>3, <2>2, <3>1, <3>10 DEF ReadOp, ReadIgnored, RdbType
    <3>11. CASE o.op = "eof"
      BY <1>0, <1>3, <2>2, <3>1, <3>11 DEF ReadOp, ReadEof, RdbType
    <3>12. QED
      BY <2>10, <3>7, <3>8, <3>9, <3>10, <3>11
  <2>11. QED
    BY <2>5, <2>8, <2>9, <2>10
<1>4. QED
  BY <1>2, <1>3 DEF RdbRead

-----------------------------------------------------------------------------
(* What a step of a reader does to the channels. *)

Pushed(c, e) ==
  /\ chs' = [chs EXCEPT ![c] = Append(@, e)]
  /\ sent' = [sent EXCEPT ![c] = Append(@, e)]

(* One entry is put into one open channel, or none is. *)
Sends == (\E c \in Chans, e \in Kept : open[c] /\ Pushed(c, e)) \/ UNCHANGED <<chs, sent>>

LEMMA SendsChannels ==
  ASSUME ChanInv, Sends, UNCHANGED <<open, pump>>, feed' \in [Chans -> Seq(Kept)]
  PROVE  ChanInv' /\ Chans' = Chans
<1>1. CASE UNCHANGED <<chs, sent>>
  BY <1>1 DEF ChanInv, Chans
<1>2. ASSUME NEW c \in Chans, NEW e \in Kept, Pushed(c, e) PROVE ChanInv' /\ Chans' = Chans
  <2>1. chs \in [Chans -> Seq(Kept)] /\ sent \in [Chans -> Seq(Kept)]
    BY DEF ChanInv
  <2>2. Append(chs[c], e) \in Seq(Kept) /\ Append(sent[c], e) \in Seq(Kept)
    BY <2>1
  <2>3. chs' \in [Chans -> Seq(Kept)] /\ sent' \in [Chans -> Seq(Kept)]
    BY <1>2, <2>1, <2>2 DEF Pushed
  <2>4. Chans' = Chans
    BY <2>3 DEF Chans
  <2>5. QED
    BY <2>3, <2>4 DEF ChanInv
<1>3. QED
  BY <1>1, <1>2 DEF Sends

(* Closing a channel. *)
LEMMA ClosingChannels ==
  ASSUME ChanInv, NEW c \in Chans, open' = [open EXCEPT ![c] = FALSE], UNCHANGED <<chs, sent, feed, pump>>
  PROVE  ChanInv' /\ Chans' = Chans
<1>1. Chans' = Chans /\ open' \in [Chans -> BOOLEAN]
  BY DEF Chans, ChanInv
<1>2. QED
  BY <1>1 DEF ChanInv

(* Room is all that Push asks for. *)
LEMMA PushSends == ASSUME NEW c \in Chans, NEW e \in Kept, open[c], Push(c, e) PROVE Sends
BY DEF Push, Sends, Pushed

-----------------------------------------------------------------------------
(* rdb_reader. *)

LEMMA RdbRuns ==
  ASSUME ReaderInv, rdb.pc \in {"read", "send", "end"}
  PROVE  /\ main.pc # "create"
         /\ ~rdb.nested => cfg.reader = "rdb" /\ Chans = {1} /\ open[1]
         /\ rdb.nested => cfg.reader = "aof"
BY DEF ReaderInv, OpenInv, IdleRdb

(* A step of the loader that leaves its invariant intact leaves the others intact. *)
LEMMA RdbFrame ==
  ASSUME ReaderInv, rdb.pc \in {"read", "send", "end"}, RdbInv', rdb'.nested = rdb.nested,
         UNCHANGED <<cfg, main, pump, feed, aofVars>>,
         \/ Sends /\ UNCHANGED open
         \/ UNCHANGED <<chs, sent, open>>
         \/ UNCHANGED <<chs, sent>> /\ ~rdb.nested /\ rdb'.pc = "closed" /\ open' = [open EXCEPT ![1] = FALSE]
  PROVE  ReaderInv' /\ Chans' = Chans
<1>1. ChanInv /\ feed \in [Chans -> Seq(Kept)]
  BY DEF ReaderInv, ChanInv
<1>2. /\ main.pc # "create"
      /\ ~rdb.nested => cfg.reader = "rdb" /\ Chans = {1} /\ open[1]
      /\ rdb.nested => cfg.reader = "aof"
  BY RdbRuns
<1>3. ChanInv' /\ Chans' = Chans /\ (open' = open \/ (~rdb.nested /\ rdb'.pc = "closed"))
  <2>1. CASE (Sends /\ UNCHANGED open) \/ UNCHANGED <<chs, sent, open>>
    <3>1. Sends /\ UNCHANGED open
      BY <2>1 DEF Sends
    <3>2. QED
      BY <1>1, <3>1, SendsChannels
  <2>2. CASE UNCHANGED <<chs, sent>> /\ ~rdb.nested /\ rdb'.pc = "closed" /\ open' = [open EXCEPT ![1] = FALSE]
    BY <1>1, <1>2, <2>2, ClosingChannels
  <2>3. QED
    BY <2>1, <2>2
<1>4. AofInv'
  BY DEF ReaderInv, AofInv, aofVars
<1>5. OpenInv'
  BY <1>2, <1>3 DEF ReaderInv, OpenInv, aofVars
<1>6. QED
  BY <1>3, <1>4, <1>5 DEF ReaderInv

LEMMA RdbStepKeeps ==
  ASSUME ReaderInv, RdbStep, UNCHANGED <<aofVars, fw, pipeVars>>
  PROVE  ReaderInv' /\ Chans' = Chans /\ Sends /\ (\A c \in Chans : open'[c] => open[c])
<1>0. /\ rdb \in RdbType /\ rdbCh \in Seq(Kept) /\ UNCHANGED <<cfg, main, pump, feed, aofVars>>
      /\ open \in [Chans -> BOOLEAN]
  BY DEF ReaderInv, RdbInv, ChanInv, pipeVars
<1>1. CASE RdbRead
  <2>1. RdbInv' /\ rdb'.nested = rdb.nested /\ rdb.pc = "read"
    BY <1>1, RdbReadKeeps
  <2>2. UNCHANGED <<chs, sent, open>>
    BY <1>1 DEF RdbRead
  <2>3. QED
    BY <1>0, <2>1, <2>2, RdbFrame DEF Sends
<1>2. CASE RdbSend
  <2>1. rdb.pc = "send" /\ rdb.pending # <<>> /\ rdb' = [rdb EXCEPT !.pending = Tail(@)] /\ UNCHANGED open
    BY <1>2 DEF RdbSend
  <2>2. Head(rdb.pending) \in Kept /\ Tail(rdb.pending) \in Seq(Kept)
    BY <1>0, <2>1 DEF RdbType
  <2>3. rdb' \in RdbType /\ rdb'.nested = rdb.nested /\ rdb'.rest = rdb.rest /\ rdb'.expireMs = rdb.expireMs /\ rdb'.now = rdb.now
    BY <1>0, <2>1, <2>2 DEF RdbType
  <2>4. Sends /\ rdbCh' \in Seq(Kept)
    <3>1. CASE rdb.nested
      BY <1>0, <1>2, <2>2, <3>1 DEF RdbSend, Sends
    <3>2. CASE ~rdb.nested
      <4>1. 1 \in Chans /\ open[1]
        BY <2>1, <3>2, RdbRuns
      <4>2. Push(1, Head(rdb.pending)) /\ UNCHANGED rdbCh
        BY <1>2, <3>2 DEF RdbSend
      <4>3. QED
        BY <1>0, <2>2, <4>1, <4>2, PushSends
    <3>3. QED
      BY <3>1, <3>2
  <2>5. RdbInv'
    BY <2>3, <2>4 DEF ReaderInv, RdbInv
  <2>6. QED
    BY <1>0, <2>1, <2>3, <2>4, <2>5, RdbFrame
<1>3. CASE RdbCheck
  <2>1. /\ rdb.pc = "send" /\ UNCHANGED <<chs, sent, open, rdbCh>>
        /\ \E pc \in {"read", "end"} : rdb' = [rdb EXCEPT !.pc = pc]
    BY <1>3 DEF RdbCheck
  <2>2. rdb' \in RdbType /\ rdb'.nested = rdb.nested /\ rdb'.rest = rdb.rest /\ rdb'.expireMs = rdb.expireMs /\ rdb'.now = rdb.now
    BY <1>0, <2>1 DEF RdbType
  <2>3. RdbInv'
    BY <1>0, <2>1, <2>2 DEF ReaderInv, RdbInv
  <2>4. QED
    BY <1>0, <2>1, <2>2, <2>3, RdbFrame DEF Sends
<1>4. CASE RdbClose
  <2>1. rdb.pc = "end" /\ UNCHANGED <<chs, sent, rdbCh>> /\ rdb' = [rdb EXCEPT !.pc = "closed"]
    BY <1>4 DEF RdbClose
  <2>2. /\ rdb' \in RdbType /\ rdb'.nested = rdb.nested /\ rdb'.rest = rdb.rest
        /\ rdb'.expireMs = rdb.expireMs /\ rdb'.now = rdb.now /\ rdb'.pc = "closed"
    BY <1>0, <2>1 DEF RdbType
  <2>3. RdbInv'
    BY <1>0, <2>1, <2>2 DEF ReaderInv, RdbInv
  <2>4. open' = open \/ (~rdb.nested /\ open' = [open EXCEPT ![1] = FALSE])
    BY <1>4 DEF RdbClose
  <2>5. \A c \in Chans : open'[c] => open[c]
    BY <1>0, <2>4
  <2>6. QED
    BY <1>0, <2>1, <2>2, <2>3, <2>4, <2>5, RdbFrame DEF Sends
<1>5. QED
  BY <1>1, <1>2, <1>3, <1>4 DEF RdbStep

-----------------------------------------------------------------------------
(* aof_reader. *)

LEMMA AofRuns ==
  ASSUME ReaderInv, aof.pc \notin {"idle", "closed"}
  PROVE  cfg.reader = "aof" /\ main.pc # "create" /\ Chans = {1} /\ open[1]
BY DEF ReaderInv, OpenInv, IdleAof

(* The files are those of the configuration. *)
LEMMA DiskOK == ASSUME ReaderInv PROVE Disk(disk) /\ timestamp \in Nat
<1>1. cfg \in Configs /\ disk = cfg.disk /\ timestamp = cfg.timestamp
  BY DEF ReaderInv, OpenInv, AofInv
<1>2. QED
  BY <1>1, ConfigAssumption DEF ConfigOK

LEMMA AofFrame ==
  ASSUME ReaderInv, aof.pc \notin {"idle", "closed"}, AofGood(aof)', aof'.pc # "idle",
         UNCHANGED <<cfg, main, pump, feed, disk, timestamp>>,
         RdbInv', rdb'.nested \/ rdb'.pc = "idle",
         \/ Sends /\ UNCHANGED open
         \/ UNCHANGED <<chs, sent, open>>
         \/ UNCHANGED <<chs, sent>> /\ aof'.pc = "closed" /\ open' = [open EXCEPT ![1] = FALSE]
  PROVE  ReaderInv' /\ Chans' = Chans
<1>1. ChanInv /\ feed \in [Chans -> Seq(Kept)]
  BY DEF ReaderInv, ChanInv
<1>2. cfg.reader = "aof" /\ main.pc # "create" /\ Chans = {1} /\ open[1]
  BY AofRuns
<1>3. ChanInv' /\ Chans' = Chans /\ (open' = open \/ aof'.pc = "closed")
  <2>1. CASE (Sends /\ UNCHANGED open) \/ UNCHANGED <<chs, sent, open>>
    <3>1. Sends /\ UNCHANGED open
      BY <2>1 DEF Sends
    <3>2. QED
      BY <1>1, <3>1, SendsChannels
  <2>2. CASE UNCHANGED <<chs, sent>> /\ aof'.pc = "closed" /\ open' = [open EXCEPT ![1] = FALSE]
    BY <1>1, <1>2, <2>2, ClosingChannels
  <2>3. QED
    BY <2>1, <2>2
<1>4. AofInv'
  BY DEF ReaderInv, AofInv
<1>5. OpenInv'
  BY <1>2, <1>3 DEF ReaderInv, OpenInv
<1>6. QED
  BY <1>3, <1>4, <1>5 DEF ReaderInv

(* The loader is left alone. *)
LEMMA RdbUntouched ==
  ASSUME ReaderInv, aof.pc \notin {"idle", "closed"}, UNCHANGED rdbVars
  PROVE  RdbInv' /\ (rdb'.nested \/ rdb'.pc = "idle")
<1>1. cfg.reader = "aof"
  BY AofRuns
<1>2. QED
  BY <1>1 DEF ReaderInv, RdbInv, OpenInv, rdbVars

LEMMA EndFileGood ==
  ASSUME AofGood(aof), aof.pc \in {"forward", "read"}, NEW ret, EndFile(ret)
  PROVE  AofGood(aof)' /\ aof'.pc # "idle"
<1>1. CASE aof' = aof
  BY <1>1 DEF AofGood
<1>2. CASE ~aof.single /\ aof' = [aof EXCEPT !.pc = "next", !.todo = Tail(@)]
  <2>1. aof.todo # <<>> /\ aof.todo \in Seq(FileInfos)
    BY <1>2 DEF AofGood, AofType
  <2>2. Tail(aof.todo) \in Seq(FileInfos)
    BY <2>1
  <2>3. QED
    BY <1>2, <2>2 DEF AofGood, AofType
<1>3. CASE aof' = [aof EXCEPT !.pc = "close"]
  BY <1>3 DEF AofGood, AofType
<1>4. QED
  BY <1>1, <1>2, <1>3 DEF EndFile

(* What stands at the path, read as a manifest and as an AOF. *)
LEMMA PathLines == ASSUME Disk(disk) PROVE ManifestLines(disk.path) \in Seq(Lines)
<1>1. CASE disk.path.kind = "manifest"
  BY <1>1 DEF Disk, ManifestLines, AofFile, ManifestOK
<1>2. CASE AofFile(disk.path)
  <2> DEFINE f == disk.path
  <2>1. f.kind = "aof" /\ f.recs \in Seq(AofRecords) /\ Len(f.recs) \in Nat
    BY <1>2 DEF AofFile
  <2>2. \A i \in 1..Len(f.recs) : AsLine(f.recs[i]) \in Lines
    BY DEF AsLine, Lines
  <2>3. ManifestLines(f) = [i \in 1..Len(f.recs) |-> AsLine(f.recs[i])]
    BY <2>1 DEF ManifestLines
  <2> HIDE DEF f
  <2>4. ManifestLines(f) \in Seq(Lines)
    BY <2>1, <2>2, <2>3, IsASeq
  <2>5. QED
    BY <2>4 DEF f
<1>3. QED
  BY <1>1, <1>2 DEF Disk

LEMMA PathRecords == ASSUME Disk(disk) PROVE Records(disk.path) \in Seq(AofRecords)
<1>1. CASE AofFile(disk.path)
  BY <1>1 DEF Records, AofFile
<1>2. CASE disk.path.kind = "manifest" /\ disk.path.lines \in Seq(Lines)
  <2> DEFINE f == disk.path
  <2>1. f.kind = "manifest" /\ f.lines \in Seq(Lines) /\ Len(f.lines) \in Nat
    BY <1>2
  <2>2. \A i \in 1..Len(f.lines) : AsRecord(f.lines[i]) \in AofRecords
    BY DEF AsRecord, AofRecords
  <2>3. Records(f) = [i \in 1..Len(f.lines) |-> AsRecord(f.lines[i])]
    BY <2>1 DEF Records
  <2> HIDE DEF f
  <2>4. Records(f) \in Seq(AofRecords)
    BY <2>1, <2>2, <2>3, IsASeq
  <2>5. QED
    BY <2>4 DEF f
<1>3. QED
  BY <1>1, <1>2 DEF Disk, ManifestOK

LEMMA AddLineType ==
  ASSUME NEW am \in ManifestType, NEW l \in FileInfos PROVE AddLine(am, l) \in ManifestType
<1>1. /\ Append(am.base, l) \in Seq(FileInfos) /\ Append(am.hist, l) \in Seq(FileInfos)
      /\ Append(am.incr, l) \in Seq(FileInfos) /\ am.hist \in Seq(FileInfos)
  BY DEF ManifestType
<1>2. l.type \in {"b", "h", "i"}
  BY DEF FileInfos
<1>3. CASE l.type = "b"
  BY <1>1, <1>3 DEF AddLine, ManifestType
<1>4. CASE l.type = "h"
  BY <1>1, <1>4 DEF AddLine, ManifestType
<1>5. CASE l.type = "i"
  BY <1>1, <1>5 DEF AddLine, ManifestType
<1>6. QED
  BY <1>2, <1>3, <1>4, <1>5

LEMMA ManifestKeeps ==
  ASSUME ReaderInv, AofManifestLine PROVE AofGood(aof)' /\ aof'.pc # "idle"
<1> DEFINE l == Head(aof.lines)
           next == [aof EXCEPT !.lines = Tail(@), !.lineNum = @ + 1]
<1>1. aof \in AofType /\ aof.pc = "manifest" /\ aof.lines # <<>> /\ AofGood(aof)
  BY DEF ReaderInv, AofInv, AofGood, AofManifestLine
<1>2. l \in Lines /\ Tail(aof.lines) \in Seq(Lines) /\ aof.lineNum + 1 \in Nat /\ aof.am \in ManifestType
  BY <1>1 DEF AofType
<1>3. next \in AofType /\ next.pc = "manifest" /\ next.am = aof.am
  BY <1>1, <1>2 DEF AofType
<1>4. \/ aof' = next \/ aof' = [next EXCEPT !.pc = "single"] \/ aof' = aof
      \/ l.line = "info" /\ aof' = [next EXCEPT !.am = AddLine(@, l)]
  BY DEF AofManifestLine
<1> HIDE DEF next, l
<1>5. CASE aof' = next
  BY <1>3, <1>5 DEF AofGood
<1>6. CASE aof' = [next EXCEPT !.pc = "single"]
  BY <1>3, <1>6 DEF AofGood, AofType
<1>7. CASE aof' = aof
  BY <1>1, <1>7 DEF AofGood
<1>8. CASE l.line = "info" /\ aof' = [next EXCEPT !.am = AddLine(@, l)]
  <2>1. l \in FileInfos
    BY <1>2, <1>8 DEF Lines
  <2>2. AddLine(aof.am, l) \in ManifestType
    BY <1>2, <2>1, AddLineType
  <2>3. QED
    BY <1>3, <1>8, <2>2 DEF AofGood, AofType
<1>9. QED
  BY <1>4, <1>5, <1>6, <1>7, <1>8

LEMMA ReadKeeps ==
  ASSUME ReaderInv, AofRead PROVE AofGood(aof)' /\ aof'.pc # "idle"
<1> DEFINE r == Head(aof.recs)
<1>1. AofGood(aof) /\ aof \in AofType /\ aof.pc = "read" /\ aof.recs \in Seq(AofRecords)
  BY DEF ReaderInv, AofInv, AofGood, AofRead, AofType
<1>2. CASE EndFile("ok") \/ EndFile("truncated") \/ EndFile("failed")
  BY <1>1, <1>2, EndFileGood
<1>3. CASE aof' = aof
  BY <1>1, <1>3 DEF AofGood
<1>4. CASE aof.recs # <<>> /\ aof' = [aof EXCEPT !.recs = Tail(@)]
  <2>1. Tail(aof.recs) \in Seq(AofRecords)
    BY <1>1, <1>4
  <2>2. /\ aof' \in AofType /\ aof'.pc = aof.pc /\ aof'.single = aof.single
        /\ aof'.todo = aof.todo
    BY <1>1, <1>4, <2>1 DEF AofType
  <2>3. QED
    BY <1>1, <2>2 DEF AofGood
<1>5. CASE /\ aof.recs # <<>> /\ r.rec = "cmd"
           /\ aof' = [aof EXCEPT !.pc = "send", !.recs = Tail(@), !.e = << Entry(0, r.argv, 0, NoValue) >>]
  <2>1. r \in AofRecords /\ Tail(aof.recs) \in Seq(AofRecords)
    BY <1>1, <1>5
  <2>2. r.argv \in Seq(Words)
    BY <1>5, <2>1 DEF AofRecords
  <2> DEFINE s == << Entry(0, r.argv, 0, NoValue) >>
  <2>3. s \in Seq(Kept) /\ s # <<>>
    BY <2>2, CommandKept
  <2>4. aof' = [aof EXCEPT !.pc = "send", !.recs = Tail(@), !.e = s]
    BY <1>5
  <2> HIDE DEF s
  <2>5. QED
    BY <1>1, <2>1, <2>3, <2>4 DEF AofGood, AofType
<1>6. QED
  <2>1. CASE cancelled \/ aof.recs = <<>>
    BY <1>2, <2>1 DEF AofRead
  <2>2. CASE ~(cancelled \/ aof.recs = <<>>)
    <3>1. aof.recs # <<>>
      BY <2>2
    <3>2. \/ EndFile("truncated") \/ EndFile("failed") \/ aof' = aof
          \/ aof' = [aof EXCEPT !.recs = Tail(@)]
          \/ /\ r.rec = "cmd"
             /\ aof' = [aof EXCEPT !.pc = "send", !.recs = Tail(@), !.e = << Entry(0, r.argv, 0, NoValue) >>]
      <4> HIDE DEF EndFile, Entry
      <4>1. QED
        BY <2>2, Zenon DEF AofRead
    <3>3. QED
      BY <1>2, <1>3, <1>4, <1>5, <3>1, <3>2
  <2>3. QED
    BY <2>1, <2>2

LEMMA OpenKeeps ==
  ASSUME ReaderInv, AofOpen
  PROVE  AofGood(aof)' /\ aof'.pc # "idle" /\ RdbInv' /\ (rdb'.nested \/ rdb'.pc = "idle")
<1> DEFINE l == Head(aof.todo)
           f == disk.files[l.name]
<1>1. /\ AofGood(aof) /\ aof \in AofType /\ aof.pc = "next" /\ aof.todo # <<>>
      /\ aof.todo \in Seq(FileInfos)
  BY DEF ReaderInv, AofInv, AofGood, AofOpen, AofType
<1>2. CASE aof' = [aof EXCEPT !.todo = Tail(@)] /\ UNCHANGED rdbVars
  <2>1. Tail(aof.todo) \in Seq(FileInfos)
    BY <1>1
  <2>2. AofGood(aof)' /\ aof'.pc # "idle"
    BY <1>1, <1>2, <2>1 DEF AofGood, AofType
  <2>3. QED
    BY <1>1, <1>2, <2>2, RdbUntouched
<1>3. CASE ~Missing(l) /\ f.kind = "rdb" /\ aof' = [aof EXCEPT !.pc = "forward"] /\ rdb' = StartRdb(f.ops, TRUE) /\ UNCHANGED rdbCh
  <2>1. Snapshot(f.ops)
    BY <1>3, DiskOK DEF Disk, Missing, AofFile, RdbFile
  <2>2. f.ops \in Seq(Opcodes) /\ Place(f.ops, 0, f.ops, 0, 0)
    BY <2>1, FirstPlace
  <2>3. rdb' = [pc |-> "read", rest |-> f.ops, db |-> 0, expireMs |-> 0, now |-> 0, pending |-> <<>>, nested |-> TRUE]
    BY <1>3 DEF StartRdb, IdleRdb
  <2> HIDE DEF f
  <2>4. rdb' \in RdbType /\ rdb'.nested /\ rdb'.rest = f.ops /\ rdb'.expireMs = 0 /\ rdb'.now = 0
    BY <2>2, <2>3 DEF RdbType
  <2>5. RdbInv'
    BY <1>3, <2>2, <2>4 DEF ReaderInv, RdbInv
  <2>6. AofGood(aof)' /\ aof'.pc # "idle"
    BY <1>1, <1>3 DEF AofGood, AofType
  <2>7. QED
    BY <2>4, <2>5, <2>6
<1>4. CASE /\ ~Missing(l) /\ f.kind = "aof" /\ UNCHANGED rdbVars
           /\ aof' = [aof EXCEPT !.pc = "read", !.recs = f.recs, !.at = IF l.type = "b" THEN 0 ELSE timestamp]
  <2>1. f.recs \in Seq(AofRecords)
    BY <1>4, DiskOK DEF Disk, Missing, AofFile, RdbFile
  <2>2. (IF l.type = "b" THEN 0 ELSE timestamp) \in Nat
    BY DiskOK
  <2> HIDE DEF f, l
  <2>3. AofGood(aof)' /\ aof'.pc # "idle"
    BY <1>1, <1>4, <2>1, <2>2 DEF AofGood, AofType
  <2>4. QED
    BY <1>1, <1>4, <2>3, RdbUntouched
<1>5. QED
  BY <1>2, <1>3, <1>4 DEF AofOpen

LEMMA AofStepKeeps ==
  ASSUME ReaderInv, AofStep, UNCHANGED <<fw, pipeVars>>
  PROVE  ReaderInv' /\ Chans' = Chans /\ Sends /\ (\A c \in Chans : open'[c] => open[c])
<1>0. /\ AofGood(aof) /\ aof \in AofType /\ UNCHANGED <<cfg, main, pump, feed>>
      /\ open \in [Chans -> BOOLEAN] /\ rdb \in RdbType /\ rdbCh \in Seq(Kept)
  BY DEF ReaderInv, AofInv, AofGood, ChanInv, RdbInv, pipeVars
<1>1. UNCHANGED <<disk, timestamp>>
  BY DEF AofStep, AofManifestLine, AofManifestEnd, AofSingle, AofMulti, AofOpen, AofAllFiles,
         AofForward, AofForwardEnd, AofRead, AofSend, AofClose, KeepRest
<1>2. ASSUME aof.pc \notin {"idle", "closed"}, AofGood(aof)', aof'.pc # "idle", UNCHANGED <<chs, open, sent, rdbVars>>
      PROVE  ReaderInv' /\ Chans' = Chans /\ Sends /\ (\A c \in Chans : open'[c] => open[c])
  BY <1>0, <1>1, <1>2, RdbUntouched, AofFrame DEF Sends
<1>3. CASE AofManifestLine
  <2>1. aof.pc = "manifest" /\ UNCHANGED <<chs, open, sent, rdbVars>>
    BY <1>3 DEF AofManifestLine
  <2>2. QED
    BY <1>2, <1>3, <2>1, ManifestKeeps
<1>4. CASE AofManifestEnd
  <2>1. aof.pc = "manifest" /\ UNCHANGED <<chs, open, sent, rdbVars>>
    BY <1>4 DEF AofManifestEnd
  <2>2. AofGood(aof)' /\ aof'.pc # "idle"
    BY <1>0, <1>4 DEF AofManifestEnd, AofGood, AofType
  <2>3. QED
    BY <1>2, <2>1, <2>2
<1>5. CASE AofSingle
  <2>1. aof.pc = "single" /\ UNCHANGED <<chs, open, sent, rdbVars>>
    BY <1>5 DEF AofSingle
  <2>2. Records(disk.path) \in Seq(AofRecords) /\ timestamp \in Nat
    BY DiskOK, PathRecords
  <2>3. AofGood(aof)' /\ aof'.pc # "idle"
    BY <1>0, <1>5, <2>2 DEF AofSingle, AofGood, AofType
  <2>4. QED
    BY <1>2, <2>1, <2>3
<1>6. CASE AofMulti
  <2>1. aof.pc = "multi" /\ UNCHANGED <<chs, open, sent, rdbVars>>
    BY <1>6 DEF AofMulti
  <2>2. FilesInOrder(aof.am) \in Seq(FileInfos)
    <3>1. aof.am.base \in Seq(FileInfos) /\ aof.am.hist \in Seq(FileInfos) /\ aof.am.incr \in Seq(FileInfos)
      BY <1>0 DEF AofType, ManifestType
    <3>2. aof.am.base \o aof.am.incr \in Seq(FileInfos) /\ aof.am.hist \o aof.am.incr \in Seq(FileInfos)
      BY <3>1
    <3>3. QED
      BY <3>2 DEF FilesInOrder
  <2>3. \/ aof' = aof \/ aof' = [aof EXCEPT !.pc = "close"]
        \/ aof' = [aof EXCEPT !.pc = "next", !.todo = FilesInOrder(aof.am)]
    BY <1>6 DEF AofMulti
  <2>4. AofGood(aof)' /\ aof'.pc # "idle"
    BY <1>0, <2>1, <2>2, <2>3 DEF AofGood, AofType
  <2>5. QED
    BY <1>2, <2>1, <2>4
<1>7. CASE AofOpen
  <2>1. aof.pc = "next" /\ UNCHANGED <<chs, open, sent>>
    BY <1>7 DEF AofOpen
  <2>2. QED
    BY <1>0, <1>1, <1>7, <2>1, OpenKeeps, AofFrame DEF Sends
<1>8. CASE AofAllFiles
  <2>1. aof.pc = "next" /\ UNCHANGED <<chs, open, sent, rdbVars>>
    BY <1>8 DEF AofAllFiles
  <2>2. AofGood(aof)' /\ aof'.pc # "idle"
    BY <1>0, <1>8 DEF AofAllFiles, AofGood, AofType
  <2>3. QED
    BY <1>2, <2>1, <2>2
<1>9. CASE AofForward
  <2>1. /\ aof.pc = "forward" /\ UNCHANGED <<open, rdb, aof>> /\ rdbCh # <<>>
        /\ Push(1, Head(rdbCh)) /\ rdbCh' = Tail(rdbCh)
    BY <1>9 DEF AofForward
  <2>2. 1 \in Chans /\ open[1] /\ cfg.reader = "aof"
    BY <2>1, AofRuns
  <2>3. Head(rdbCh) \in Kept /\ Tail(rdbCh) \in Seq(Kept)
    BY <1>0, <2>1
  <2>4. Sends
    BY <2>1, <2>2, <2>3, PushSends
  <2>5. RdbInv' /\ (rdb'.nested \/ rdb'.pc = "idle")
    BY <2>1, <2>2, <2>3 DEF ReaderInv, RdbInv, OpenInv
  <2>6. AofGood(aof)' /\ aof'.pc # "idle"
    BY <1>0, <2>1 DEF AofGood
  <2>7. QED
    BY <1>0, <1>1, <2>1, <2>4, <2>5, <2>6, AofFrame
<1>10. CASE AofForwardEnd
  <2>1. aof.pc = "forward" /\ UNCHANGED <<chs, open, sent, rdbCh>> /\ EndFile("ok") /\ rdb' = IdleRdb
    BY <1>10 DEF AofForwardEnd
  <2>2. AofGood(aof)' /\ aof'.pc # "idle"
    BY <1>0, <2>1, EndFileGood
  <2>3. Snapshot(<<>>)
    BY DEF Snapshot, ExpiriesInFront, RewritesOK, EofLast
  <2>4. rdb' \in RdbType /\ rdb'.pc = "idle" /\ rdb'.rest = <<>> /\ rdb'.expireMs = 0 /\ rdb'.now = 0
    BY <2>1 DEF IdleRdb, RdbType
  <2>5. RdbInv'
    BY <1>0, <2>1, <2>3, <2>4, FirstPlace DEF RdbInv
  <2>6. QED
    BY <1>0, <1>1, <2>1, <2>2, <2>4, <2>5, AofFrame DEF Sends
<1>11. CASE AofRead
  <2>1. aof.pc = "read" /\ UNCHANGED <<chs, open, sent, rdbVars>>
    BY <1>11 DEF AofRead
  <2>2. QED
    BY <1>2, <1>11, <2>1, ReadKeeps
<1>12. CASE AofSend
  <2>1. /\ aof.pc = "send" /\ UNCHANGED <<open, rdbVars>> /\ Push(1, aof.e[1])
        /\ aof' = [aof EXCEPT !.pc = "read", !.e = <<>>]
    BY <1>12 DEF AofSend
  <2>2. 1 \in Chans /\ open[1]
    BY <2>1, AofRuns
  <2>3. aof.e[1] \in Kept
    BY <1>0, <2>1 DEF AofGood, AofType
  <2>4. Sends
    BY <2>1, <2>2, <2>3, PushSends
  <2>5. /\ aof' \in AofType /\ aof'.pc = "read" /\ aof'.single = aof.single
        /\ aof'.todo = aof.todo
    <3> DEFINE none == <<>>
    <3>1. none \in Seq(Kept) /\ aof' = [aof EXCEPT !.pc = "read", !.e = none]
      BY <2>1
    <3> HIDE DEF none
    <3>2. QED
      BY <1>0, <3>1 DEF AofType
  <2>6. AofGood(aof)' /\ aof'.pc # "idle"
    BY <1>0, <2>1, <2>5 DEF AofGood
  <2>7. QED
    BY <1>0, <1>1, <2>1, <2>4, <2>6, RdbUntouched, AofFrame
<1>13. CASE AofClose
  <2>1. /\ aof.pc = "close" /\ UNCHANGED <<chs, sent, rdbVars>> /\ open' = [open EXCEPT ![1] = FALSE]
        /\ aof' = [aof EXCEPT !.pc = "closed"]
    BY <1>13 DEF AofClose
  <2>2. AofGood(aof)' /\ aof'.pc = "closed"
    BY <1>0, <2>1 DEF AofGood, AofType
  <2>3. \A c \in Chans : open'[c] => open[c]
    BY <1>0, <2>1
  <2>4. QED
    BY <1>0, <1>1, <2>1, <2>2, <2>3, RdbUntouched, AofFrame DEF Sends
<1>14. QED
  BY <1>3, <1>4, <1>5, <1>6, <1>7, <1>8, <1>9, <1>10, <1>11, <1>12, <1>13 DEF AofStep

-----------------------------------------------------------------------------
(* The other steps. *)

LEMMA FeedKeeps ==
  ASSUME ReaderInv, NEW c \in Chans, FeedSend(c) \/ FeedClose(c)
  PROVE  ReaderInv' /\ Chans' = Chans /\ Sends /\ (\A d \in Chans : open'[d] => open[d])
<1>0. /\ ChanInv /\ cfg.reader = "cluster" /\ open[c] /\ UNCHANGED <<rdbVars, aofVars, cfg, main, pump>>
      /\ feed \in [Chans -> Seq(Kept)] /\ open \in [Chans -> BOOLEAN]
  BY DEF ReaderInv, ChanInv, FeedSend, FeedClose, Clustered
<1>1. ChanInv' /\ Chans' = Chans /\ Sends /\ (\A d \in Chans : open'[d] => open[d])
  <2>1. CASE FeedSend(c)
    <3>1. /\ feed[c] # <<>> /\ Push(c, Head(feed[c])) /\ feed' = [feed EXCEPT ![c] = Tail(@)]
          /\ UNCHANGED open
      BY <2>1 DEF FeedSend
    <3>2. Head(feed[c]) \in Kept /\ Tail(feed[c]) \in Seq(Kept)
      BY <1>0, <3>1
    <3>3. feed' \in [Chans -> Seq(Kept)]
      BY <1>0, <3>1, <3>2
    <3>4. Sends
      BY <1>0, <3>1, <3>2, PushSends
    <3>5. QED
      BY <1>0, <3>1, <3>3, <3>4, SendsChannels
  <2>2. CASE FeedClose(c)
    <3>1. open' = [open EXCEPT ![c] = FALSE] /\ UNCHANGED <<chs, sent, feed>>
      BY <2>2 DEF FeedClose
    <3>2. \A d \in Chans : open'[d] => open[d]
      BY <1>0, <3>1
    <3>3. QED
      BY <1>0, <3>1, <3>2, ClosingChannels DEF Sends
  <2>3. QED
    BY <2>1, <2>2
<1>2. RdbInv' /\ AofInv'
  BY <1>0 DEF ReaderInv, RdbInv, AofInv, rdbVars, aofVars
<1>3. OpenInv'
  BY <1>0, <1>1 DEF ReaderInv, OpenInv, rdbVars, aofVars
<1>4. QED
  BY <1>1, <1>2, <1>3 DEF ReaderInv

(* A step of a reader sends on an open channel at most, and opens none again. *)
LEMMA ReaderStepKeeps ==
  ASSUME ReaderInv, ReaderStep
  PROVE  /\ ReaderInv' /\ Chans' = Chans /\ Sends /\ (\A c \in Chans : open'[c] => open[c])
         /\ UNCHANGED <<cfg, main, pump, nodes, fw, status>> /\ proc' \in {proc, "panic"}
<1>1. CASE AofStep /\ UNCHANGED <<fw, pipeVars>>
  <2>1. proc' \in {proc, "panic"}
    BY <1>1 DEF AofStep, AofManifestLine, AofManifestEnd, AofSingle, AofMulti, AofOpen, AofAllFiles,
         AofForward, AofForwardEnd, AofRead, AofSend, AofClose, EndFile, Panic
  <2>2. QED
    BY <1>1, <2>1, AofStepKeeps DEF pipeVars
<1>2. CASE RdbStep /\ UNCHANGED <<aofVars, fw, pipeVars>>
  <2>1. proc' \in {proc, "panic"}
    BY <1>2 DEF RdbStep, RdbRead, RdbSend, RdbCheck, RdbClose, Panic
  <2>2. QED
    BY <1>2, <2>1, RdbStepKeeps DEF pipeVars
<1>3. ASSUME NEW c \in DOMAIN chs, FeedSend(c) \/ FeedClose(c)
      PROVE  /\ ReaderInv' /\ Chans' = Chans /\ Sends /\ (\A d \in Chans : open'[d] => open[d])
             /\ UNCHANGED <<cfg, main, pump, nodes, fw, status>> /\ proc' \in {proc, "panic"}
  <2>1. c \in Chans
    BY DEF Chans
  <2>2. UNCHANGED <<cfg, main, pump, nodes, fw, status, proc>>
    BY <1>3 DEF FeedSend, FeedClose
  <2>3. QED
    BY <1>3, <2>1, <2>2, FeedKeeps
<1>4. QED
  BY <1>1, <1>2, <1>3 DEF ReaderStep

(* An address that is read from is one of the lines. *)
LEMMA AddressOfLine ==
  ASSUME NEW T, NEW lines \in Seq(T), NEW prefer
  PROVE  /\ DOMAIN Addresses(lines, prefer) = 1..Len(Masters(lines)) /\ Len(Masters(lines)) \in Nat
         /\ Masters(lines) \in Seq(ToSet(lines))
         /\ \A i \in DOMAIN Addresses(lines, prefer) : \E l \in ToSet(lines) : Addresses(lines, prefer)[i] = l.addr
<1>1. lines \in Seq(ToSet(lines))
  <2>1. DOMAIN lines = 1..Len(lines) /\ Len(lines) \in Nat /\ \A i \in 1..Len(lines) : lines[i] \in ToSet(lines)
    BY DEF ToSet
  <2>2. lines = [i \in 1..Len(lines) |-> lines[i]]
    BY <2>1
  <2>3. QED
    BY <2>1, <2>2, IsASeq
<1>2. Masters(lines) \in Seq(ToSet(lines)) /\ \A id : Replicas(lines, id) \in Seq(ToSet(lines))
  BY <1>1, ChosenType DEF Masters, Replicas
<1>3. DOMAIN Masters(lines) = 1..Len(Masters(lines)) /\ Len(Masters(lines)) \in Nat
  BY <1>2
<1>4. DOMAIN Addresses(lines, prefer) = 1..Len(Masters(lines))
  BY <1>3 DEF Addresses
<1>5. ASSUME NEW i \in 1..Len(Masters(lines)) PROVE \E l \in ToSet(lines) : Addresses(lines, prefer)[i] = l.addr
  <2> DEFINE l == Masters(lines)[i]
             r == Replicas(lines, l.id)
  <2>1. Addresses(lines, prefer)[i] = IF prefer /\ r # <<>> THEN r[1].addr ELSE l.addr
    BY <1>3 DEF Addresses
  <2>2. l \in ToSet(lines)
    BY <1>2, <1>3
  <2>3. r \in Seq(ToSet(lines))
    BY <1>2
  <2>4. r # <<>> => r[1] \in ToSet(lines)
    <3> HIDE DEF r
    <3>1. QED
      BY <2>3
  <2>5. QED
    BY <2>1, <2>2, <2>4
<1>6. QED
  BY <1>2, <1>3, <1>4, <1>5

LEMMA CreateKeeps == ASSUME ReaderInv, Create PROVE ReaderInv'
<1>0. /\ main.pc = "create" /\ UNCHANGED <<rdbCh, disk, timestamp, cfg>> /\ cfg \in Configs
      /\ rdb = IdleRdb /\ aof = IdleAof /\ ChanInv /\ RdbInv /\ AofInv
      /\ main \in [pc : {"create", "loop", "close", "wait"}, left : Int, pings : Nat]
  BY DEF ReaderInv, OpenInv, Create
<1>1. CASE UNCHANGED <<chs, open, sent, rdb, aof, main, pump, feed>>
  BY <1>0, <1>1 DEF ReaderInv, ChanInv, RdbInv, AofInv, OpenInv, Chans
<1>2. CASE ~CreatePanics /\ ~UNCHANGED <<chs, open, sent, rdb, aof, main, pump, feed>>
  <2> DEFINE addrs == IF Clustered THEN Addresses(cfg.source, cfg.preferReplica) ELSE <<"file">>
  <2>1. /\ chs' = [c \in DOMAIN addrs |-> <<>>]
        /\ open' = [c \in DOMAIN addrs |-> TRUE]
        /\ sent' = [c \in DOMAIN addrs |-> <<>>]
        /\ pump' = [c \in DOMAIN addrs |-> IdlePump]
        /\ feed' = [c \in DOMAIN addrs |-> IF Clustered THEN cfg.data[addrs[c]] ELSE <<>>]
        /\ main' = [main EXCEPT !.pc = "loop", !.left = Len(addrs)]
        /\ rdb' = IF cfg.reader = "rdb" THEN StartRdb(cfg.ops, FALSE) ELSE rdb
        /\ aof' = IF cfg.reader = "aof" THEN StartAof(disk) ELSE aof
    BY <1>2, Zenon DEF Create
  <2>2. ConfigOK(cfg)
    BY <1>0, ConfigAssumption
  <2>3. \E n \in Nat : DOMAIN addrs = 1..n
    <3>1. CASE Clustered
      BY <2>2, <3>1, AddressOfLine DEF ConfigOK, LinesOK
    <3>2. CASE ~Clustered
      BY <3>2
    <3>3. QED
      BY <3>1, <3>2
  <2>4. ~Clustered => DOMAIN addrs = {1}
    OBVIOUS
  <2>5. \A c \in DOMAIN addrs : (IF Clustered THEN cfg.data[addrs[c]] ELSE <<>>) \in Seq(Kept)
    <3>1. ASSUME Clustered, NEW c \in DOMAIN addrs PROVE cfg.data[addrs[c]] \in Seq(Kept)
      <4>1. PICK l \in ToSet(cfg.source) : addrs[c] = l.addr
        BY <2>2, <3>1, AddressOfLine DEF ConfigOK, LinesOK
      <4>2. QED
        BY <2>2, <3>1, <4>1 DEF ConfigOK, Clustered, Kept
    <3>2. QED
      BY <3>1
  <2>6. Len(addrs) \in Int
    <3>1. CASE Clustered
      <4>1. Addresses(cfg.source, cfg.preferReplica) \in Seq({l.addr : l \in ToSet(cfg.source)})
        <5>1. cfg.source \in Seq(NodeLines(Words))
          BY <2>2 DEF ConfigOK, LinesOK
        <5> DEFINE a == Addresses(cfg.source, cfg.preferReplica)
        <5>2. /\ DOMAIN a = 1..Len(Masters(cfg.source)) /\ Len(Masters(cfg.source)) \in Nat
              /\ \A i \in DOMAIN a : \E l \in ToSet(cfg.source) : a[i] = l.addr
          BY <5>1, AddressOfLine
        <5>3. a = [i \in 1..Len(Masters(cfg.source)) |-> a[i]]
          BY <5>2 DEF Addresses
        <5> HIDE DEF a
        <5>4. QED
          BY <5>2, <5>3, IsASeq DEF a
      <4>2. Len(Addresses(cfg.source, cfg.preferReplica)) \in Nat
        BY <4>1
      <4>3. QED
        BY <3>1, <4>2
    <3>2. CASE ~Clustered
      BY <3>2
    <3>3. QED
      BY <3>1, <3>2
  <2> HIDE DEF addrs
  <2>7. ChanInv' /\ Chans' = DOMAIN addrs
    <3>1. Chans' = DOMAIN addrs
      BY <2>1 DEF Chans
    <3>2. /\ chs' \in [DOMAIN addrs -> Seq(Kept)] /\ sent' \in [DOMAIN addrs -> Seq(Kept)]
          /\ open' \in [DOMAIN addrs -> BOOLEAN] /\ DOMAIN pump' = DOMAIN addrs
      BY <2>1
    <3>3. feed' \in [DOMAIN addrs -> Seq(Kept)]
      BY <2>1, <2>5
    <3>4. QED
      BY <2>3, <3>1, <3>2, <3>3 DEF ChanInv
  <2>8. /\ RdbInv' /\ (cfg.reader # "rdb" => rdb' = rdb) /\ (cfg.reader = "rdb" => ~rdb'.nested)
    <3>1. CASE cfg.reader = "rdb"
      <4>1. Snapshot(cfg.ops)
        BY <2>2 DEF ConfigOK
      <4>2. cfg.ops \in Seq(Opcodes) /\ Place(cfg.ops, 0, cfg.ops, 0, 0)
        BY <4>1, FirstPlace
      <4>3. rdb' = [pc |-> "read", rest |-> cfg.ops, db |-> 0, expireMs |-> 0, now |-> 0, pending |-> <<>>, nested |-> FALSE]
        BY <2>1, <3>1 DEF StartRdb, IdleRdb
      <4>4. rdb' \in RdbType /\ ~rdb'.nested /\ rdb'.rest = cfg.ops /\ rdb'.expireMs = 0 /\ rdb'.now = 0
        BY <4>2, <4>3 DEF RdbType
      <4>5. QED
        BY <1>0, <3>1, <4>2, <4>4 DEF RdbInv
    <3>2. CASE cfg.reader # "rdb"
      BY <1>0, <2>1, <3>2 DEF RdbInv
    <3>3. QED
      BY <3>1, <3>2
  <2>9. AofInv' /\ (cfg.reader # "aof" => aof' = aof)
    <3>1. CASE cfg.reader = "aof"
      <4>1. ManifestLines(disk.path) \in Seq(Lines)
        BY DiskOK, PathLines
      <4>2. aof' = [IdleAof EXCEPT !.pc = "manifest", !.lines = ManifestLines(disk.path)]
        BY <2>1, <3>1 DEF StartAof
      <4>3. aof' \in AofType /\ aof'.pc = "manifest"
        BY <1>0, <4>1, <4>2 DEF AofType, AofInv, AofGood
      <4>4. QED
        BY <1>0, <3>1, <4>3 DEF AofInv, AofGood
    <3>2. CASE cfg.reader # "aof"
      BY <1>0, <2>1, <3>2 DEF AofInv
    <3>3. QED
      BY <3>1, <3>2
  <2>10. OpenInv'
    <3>1. main' \in [pc : {"create", "loop", "close", "wait"}, left : Int, pings : Nat] /\ main'.pc = "loop"
      BY <1>0, <2>1, <2>6
    <3>2. ~rdb.nested /\ rdb.pc = "idle" /\ aof.pc = "idle"
      BY <1>0 DEF IdleRdb, IdleAof
    <3>3. cfg.reader # "cluster" => Chans' = {1} /\ open'[1]
      BY <2>1, <2>4, <2>7 DEF Clustered
    <3>4. QED
      BY <1>0, <2>8, <2>9, <3>1, <3>2, <3>3 DEF OpenInv
  <2>11. QED
    BY <2>7, <2>8, <2>9, <2>10 DEF ReaderInv
<1>3. QED
  BY <1>1, <1>2 DEF Create

(* A pump takes from its channel. *)
LEMMA TakeKeeps == ASSUME ReaderInv, NEW c \in Chans, PumpTake(c) PROVE ReaderInv' /\ Chans' = Chans
<1>1. /\ chs[c] # <<>> /\ chs' = [chs EXCEPT ![c] = Tail(@)] /\ ChanInv
      /\ UNCHANGED <<open, sent, rdbVars, aofVars, feed, cfg, main>> /\ DOMAIN pump' = DOMAIN pump
  BY DEF PumpTake, ReaderInv
<1>2. Tail(chs[c]) \in Seq(Kept)
  BY <1>1 DEF ChanInv
<1>3. chs' \in [Chans -> Seq(Kept)]
  BY <1>1, <1>2 DEF ChanInv
<1>4. Chans' = Chans
  BY <1>3 DEF Chans
<1>5. ChanInv'
  BY <1>1, <1>3, <1>4 DEF ChanInv
<1>6. RdbInv' /\ AofInv' /\ OpenInv'
  BY <1>1, <1>4 DEF ReaderInv, RdbInv, AofInv, OpenInv, rdbVars, aofVars
<1>7. QED
  BY <1>4, <1>5, <1>6 DEF ReaderInv

(* Steps that leave the readers alone. *)
LEMMA OtherKeeps ==
  ASSUME ReaderInv, UNCHANGED <<ReaderVars, cfg>>, DOMAIN pump' = DOMAIN pump,
         main' \in [pc : {"create", "loop", "close", "wait"}, left : Int, pings : Nat],
         main'.pc = "create" <=> main.pc = "create"
  PROVE  ReaderInv' /\ Chans' = Chans
<1>1. Chans' = Chans
  BY DEF ReaderVars, Chans
<1>2. ChanInv' /\ RdbInv' /\ AofInv'
  BY <1>1 DEF ReaderInv, ChanInv, RdbInv, AofInv, ReaderVars, rdbVars, aofVars
<1>3. OpenInv'
  BY <1>1 DEF ReaderInv, OpenInv, ReaderVars, rdbVars, aofVars
<1>4. QED
  BY <1>1, <1>2, <1>3 DEF ReaderInv

LEMMA ReaderInit == Init => ReaderInv
<1>1. SUFFICES ASSUME Init PROVE ReaderInv
  OBVIOUS
<1>2. Chans = {} /\ ChanInv
  <2>1. Chans = {} /\ DOMAIN pump = {} /\ {} = 1..0
    BY <1>1 DEF Init, Chans
  <2>2. QED
    BY <1>1, <2>1 DEF Init, ChanInv
<1>3. RdbInv
  <2>1. Snapshot(<<>>)
    BY DEF Snapshot, ExpiriesInFront, RewritesOK, EofLast
  <2>2. rdb \in RdbType /\ rdb.rest = <<>> /\ rdb.expireMs = 0 /\ rdb.now = 0 /\ rdbCh \in Seq(Kept)
    BY <1>1 DEF Init, IdleRdb, RdbType
  <2>3. QED
    BY <2>1, <2>2, FirstPlace DEF RdbInv
<1>4. AofInv
  <2> DEFINE none == <<>>
  <2>1. aof = [pc |-> "idle", lines |-> none, lineNum |-> 0, am |-> NoManifest, single |-> FALSE,
               todo |-> none, recs |-> none, at |-> 0, e |-> none]
    BY <1>1 DEF Init, IdleAof
  <2>2. /\ none \in Seq(Lines) /\ none \in Seq(FileInfos) /\ none \in Seq(AofRecords) /\ none \in Seq(Kept)
        /\ NoManifest \in ManifestType
    BY DEF NoManifest, ManifestType
  <2> HIDE DEF none
  <2>3. aof \in AofType /\ aof.pc = "idle"
    BY <2>1, <2>2 DEF AofType
  <2>4. QED
    BY <1>1, <2>3 DEF Init, AofInv, AofGood
<1>5. OpenInv
  BY <1>1, <1>2 DEF Init, OpenInv, IdleRdb, IdleAof
<1>6. QED
  BY <1>2, <1>3, <1>4, <1>5 DEF ReaderInv

LEMMA ReaderNext == ReaderInv /\ [Next]_vars => ReaderInv'
<1>1. SUFFICES ASSUME ReaderInv, [Next]_vars PROVE ReaderInv'
  OBVIOUS
<1>0. main \in [pc : {"create", "loop", "close", "wait"}, left : Int, pings : Nat] /\ DOMAIN pump = Chans
  BY <1>1 DEF ReaderInv, OpenInv, ChanInv
<1>2. CASE ReaderStep
  BY <1>1, <1>2, ReaderStepKeeps
<1>3. CASE PumpStep
  <2>1. PICK c \in DOMAIN pump : PumpTake(c) \/ PumpParse(c) \/ PumpWrite(c) \/ PumpWritten(c) \/ PumpEnd(c)
    BY <1>3 DEF PumpStep
  <2>2. CASE PumpTake(c)
    BY <1>0, <1>1, <2>2, TakeKeeps
  <2>3. CASE PumpParse(c) \/ PumpWrite(c) \/ PumpWritten(c) \/ PumpEnd(c)
    <3>1. UNCHANGED <<ReaderVars, cfg>> /\ DOMAIN pump' = DOMAIN pump
      BY <2>3 DEF PumpParse, PumpWrite, PumpWritten, PumpEnd
    <3>2. \/ main' = main
          \/ main.pc = "loop" /\ \E n \in Int, pc \in {"close", "loop"} : main' = [main EXCEPT !.left = n, !.pc = pc]
      <4>1. CASE PumpEnd(c)
        <5> DEFINE pc == IF Left = 0 THEN "close" ELSE "loop"
        <5>1. main.pc = "loop" /\ main' = [main EXCEPT !.left = Left, !.pc = pc]
          BY <4>1 DEF PumpEnd
        <5>2. Left \in Int /\ pc \in {"close", "loop"}
          BY <1>0 DEF Left
        <5>3. QED
          BY <5>1, <5>2
      <4>2. QED
        BY <2>3, <4>1 DEF PumpParse, PumpWrite, PumpWritten
    <3>3. /\ main' \in [pc : {"create", "loop", "close", "wait"}, left : Int, pings : Nat]
          /\ main'.pc = "create" <=> main.pc = "create"
      BY <1>0, <3>2
    <3>4. QED
      BY <1>1, <3>1, <3>3, OtherKeeps
  <2>4. QED
    BY <2>1, <2>2, <2>3
<1>4. CASE Create
  BY <1>1, <1>4, CreateKeeps
<1>5. CASE StatusRun \/ MainPing \/ MainClose \/ MainExit \/ FileWriterStep \/ (\E int \in BOOLEAN : Signal(int))
  <2>1. UNCHANGED <<ReaderVars, cfg>> /\ DOMAIN pump' = DOMAIN pump
    BY <1>5 DEF StatusRun, MainPing, MainClose, MainExit, FileWriterStep, Signal, pipeVars
  <2>2. /\ main' \in [pc : {"create", "loop", "close", "wait"}, left : Int, pings : Nat]
        /\ main'.pc = "create" <=> main.pc = "create"
    BY <1>0, <1>5 DEF StatusRun, MainPing, MainClose, MainExit, FileWriterStep, Signal, pipeVars
  <2>3. QED
    BY <1>1, <2>1, <2>2, OtherKeeps
<1>6. CASE UNCHANGED vars
  BY <1>0, <1>1, <1>6, OtherKeeps DEF vars, ReaderVars, pipeVars
<1>7. QED
  BY <1>1, <1>2, <1>3, <1>4, <1>5, <1>6 DEF Next, MainStep, Ended

LEMMA ReaderAlways == Spec => []ReaderInv
BY ReaderInit, ReaderNext, PTL DEF Spec

(***************************************************************************)
(* rdb.Loader, rdb_reader and aof_reader never move an expiry to another   *)
(* key and never lose one: for every set of files and every clock, a key   *)
(* without an expiry gets none, and the last command of a volatile key,    *)
(* RESTORE or the PEXPIRE of an oversized value, gives that key exactly    *)
(* the time it has left, unless it expires in the millisecond its expiry   *)
(* is read.                                                                *)
(***************************************************************************)
THEOREM ExpiriesStay == Spec => []ExpiryStaysWithItsKey
<1>1. ReaderInv => ExpiryStaysWithItsKey
  <2>1. SUFFICES ASSUME ReaderInv, NEW c \in DOMAIN sent, NEW i \in DOMAIN sent[c] PROVE ExpiryKept(sent[c][i])
    BY DEF ExpiryStaysWithItsKey
  <2>2. c \in Chans /\ sent[c] \in Seq(Kept)
    BY <2>1 DEF ReaderInv, ChanInv
  <2>3. sent[c][i] \in Kept
    BY <2>1, <2>2
  <2>4. QED
    BY <2>3 DEF Kept
<1>2. QED
  BY <1>1, ReaderAlways, PTL

-----------------------------------------------------------------------------
(* What the files of a backup stand for, first element by first element. *)

Cmds == Seq(Words)

LEMMA FlattenHead ==
  ASSUME NEW S, NEW ss \in Seq(Seq(S)), NEW tt \in Seq(Seq(S)), Len(ss) = Len(tt) + 1,
         \A i \in 1..Len(tt) : tt[i] = ss[i + 1]
  PROVE  FlattenSeq(ss) = ss[1] \o FlattenSeq(tt)
<1> DEFINE x == ss[1]
<1>1. Len(tt) \in Nat /\ x \in Seq(S)
  OBVIOUS
<1>2. ss = <<x>> \o tt
  <2>1. <<x>> \in Seq(Seq(S)) /\ <<x>> \o tt \in Seq(Seq(S)) /\ Len(<<x>> \o tt) = Len(ss)
    BY <1>1
  <2>2. ASSUME NEW i \in 1..Len(ss) PROVE ss[i] = (<<x>> \o tt)[i]
    <3>1. CASE i = 1
      BY <1>1, <3>1
    <3>2. CASE i # 1
      <4>1. i - 1 \in 1..Len(tt) /\ (i - 1) + 1 = i
        BY <1>1, <3>2
      <4>2. (<<x>> \o tt)[i] = tt[i - 1]
        BY <1>1, <3>2
      <4>3. QED
        BY <4>1, <4>2
    <3>3. QED
      BY <3>1, <3>2
  <2>3. QED
    BY <2>1, <2>2, SeqEqual
<1>3. <<x>> \in Seq(Seq(S))
  BY <1>1
<1> HIDE DEF x
<1>4. FlattenSeq(<<x>> \o tt) = FlattenSeq(<<x>>) \o FlattenSeq(tt)
  BY <1>3, FlattenConcat
<1>5. FlattenSeq(<<x>>) = x
  BY <1>1, FlattenOne
<1>6. QED
  BY <1>2, <1>4, <1>5 DEF x

LEMMA FlattenNone ==
  ASSUME NEW S, NEW ss \in Seq(Seq(S)), \A i \in 1..Len(ss) : ss[i] = <<>>
  PROVE  FlattenSeq(ss) = <<>>
<1>1. PICK F \in [0..Len(ss) -> Seq(S)] : Running(F, ss)
  BY RunningExists
<1>2. Len(ss) \in Nat /\ F[0] = <<>> /\ \A i \in 1..Len(ss) : F[i] = F[i - 1] \o ss[i]
  <2>1. Len(ss) \in Nat
    OBVIOUS
  <2>2. F[0] = <<>> /\ \A i \in 1..Len(ss) : F[i] = F[i - 1] \o ss[i]
    BY <1>1, Zenon DEF Running
  <2>3. QED
    BY <2>1, <2>2, Zenon
<1> DEFINE G == {k \in 0..Len(ss) : F[k] = <<>>}
<1>3. 0 \in G
  BY <1>2
<1>4. ASSUME NEW k \in 0..(Len(ss) - 1), k \in G PROVE k + 1 \in G
  <2>1. k + 1 \in 1..Len(ss) /\ (k + 1) - 1 = k /\ k + 1 \in 0..Len(ss)
    BY <1>2
  <2>2. F[k + 1] = F[(k + 1) - 1] \o ss[k + 1]
    BY <1>2, <2>1
  <2>3. F[k + 1] = <<>> \o <<>>
    BY <1>4, <2>1, <2>2
  <2>4. QED
    BY <2>1, <2>3
<1> HIDE DEF G
<1>5. \A k \in 0..Len(ss) : k \in G
  BY <1>2, <1>3, <1>4, Upwards
<1>6. QED
  BY <1>1, <1>2, <1>5, FlattenRunning DEF G

LEMMA Uncons ==
  ASSUME NEW S, NEW s \in Seq(S), s # <<>>
  PROVE  /\ Head(s) \in S /\ Tail(s) \in Seq(S) /\ Len(s) = Len(Tail(s)) + 1 /\ Head(s) = s[1]
         /\ DOMAIN s = 1..Len(s) /\ DOMAIN Tail(s) = 1..Len(Tail(s)) /\ Len(Tail(s)) \in Nat
         /\ \A i \in 1..Len(Tail(s)) : Tail(s)[i] = s[i + 1] /\ i + 1 \in 1..Len(s)
OBVIOUS

(* The commands of entries. *)
OwnOf(e) == IF e.of.at # None /\ e.argv[1] = "PEXPIRE" THEN <<>> ELSE << e.argv >>
OwnParts(es) == [i \in DOMAIN es |-> OwnOf(es[i])]

LEMMA OwnPartsType ==
  ASSUME NEW es \in Seq(Kept) PROVE OwnParts(es) \in Seq(Seq(Cmds)) /\ Len(OwnParts(es)) = Len(es)
<1>1. DOMAIN es = 1..Len(es) /\ Len(es) \in Nat
  OBVIOUS
<1>2. ASSUME NEW i \in 1..Len(es) PROVE OwnOf(es[i]) \in Seq(Cmds)
  <2>1. es[i] \in Kept
    BY <1>1
  <2>2. es[i].argv \in Cmds
    BY <2>1 DEF Kept, Entries, Cmds
  <2>3. << es[i].argv >> \in Seq(Cmds) /\ <<>> \in Seq(Cmds)
    BY <2>2
  <2>4. QED
    BY <2>3 DEF OwnOf
<1>3. OwnParts(es) = [i \in 1..Len(es) |-> OwnOf(es[i])]
  BY <1>1 DEF OwnParts
<1>4. QED
  BY <1>1, <1>2, <1>3, IsASeq

LEMMA OwnIs == ASSUME NEW es PROVE OwnCommands(es) = FlattenSeq(OwnParts(es))
BY DEF OwnCommands, OwnParts, OwnOf

LEMMA OwnType == ASSUME NEW es \in Seq(Kept) PROVE OwnCommands(es) \in Seq(Cmds)
BY OwnIs, OwnPartsType, FlattenType

LEMMA OwnConcat ==
  ASSUME NEW s \in Seq(Kept), NEW t \in Seq(Kept)
  PROVE  OwnCommands(s \o t) = OwnCommands(s) \o OwnCommands(t)
<1> DEFINE p == OwnParts(s)
           q == OwnParts(t)
           r == OwnParts(s \o t)
<1>1. s \o t \in Seq(Kept) /\ Len(s \o t) = Len(s) + Len(t) /\ Len(s) \in Nat /\ Len(t) \in Nat
  OBVIOUS
<1>2. /\ p \in Seq(Seq(Cmds)) /\ q \in Seq(Seq(Cmds)) /\ r \in Seq(Seq(Cmds))
      /\ Len(p) = Len(s) /\ Len(q) = Len(t) /\ Len(r) = Len(s) + Len(t)
  BY <1>1, OwnPartsType
<1>3. /\ \A i \in 1..Len(s) : p[i] = OwnOf(s[i]) /\ r[i] = OwnOf(s[i])
      /\ \A i \in 1..Len(t) : q[i] = OwnOf(t[i]) /\ r[Len(s) + i] = OwnOf(t[i])
  <2>0. \A es : \A i \in DOMAIN es : OwnParts(es)[i] = OwnOf(es[i])
    BY DEF OwnParts
  <2>1. \A i \in 1..Len(s) : (s \o t)[i] = s[i] /\ i \in 1..Len(s \o t)
    BY <1>1
  <2>2. ASSUME NEW i \in 1..Len(t) PROVE (s \o t)[Len(s) + i] = t[i] /\ Len(s) + i \in 1..Len(s \o t)
    <3>1. Len(s) + i \in 1..(Len(s) + Len(t)) /\ ~(Len(s) + i <= Len(s)) /\ (Len(s) + i) - Len(s) = i
      BY <1>1
    <3>2. QED
      BY <1>1, <3>1, ConcatProperties
  <2>3. DOMAIN s = 1..Len(s) /\ DOMAIN t = 1..Len(t) /\ DOMAIN (s \o t) = 1..Len(s \o t)
    BY <1>1
  <2>4. \A i \in 1..Len(s) : p[i] = OwnOf(s[i]) /\ r[i] = OwnOf(s[i])
    BY <2>0, <2>1, <2>3
  <2>5. \A i \in 1..Len(t) : q[i] = OwnOf(t[i]) /\ r[Len(s) + i] = OwnOf(t[i])
    BY <2>0, <2>2, <2>3
  <2>6. QED
    BY <2>4, <2>5
<1> HIDE DEF p, q, r
<1>4. r = p \o q
  <2>1. p \o q \in Seq(Seq(Cmds)) /\ Len(p \o q) = Len(r)
    <3>1. p \o q \in Seq(Seq(Cmds)) /\ Len(p \o q) = Len(p) + Len(q)
      BY <1>2, ConcatProperties
    <3>2. QED
      BY <1>2, <3>1
  <2>2. ASSUME NEW i \in 1..Len(r) PROVE r[i] = (p \o q)[i]
    <3>1. CASE i <= Len(s)
      <4>1. i \in 1..Len(s) /\ (p \o q)[i] = p[i]
        BY <1>1, <1>2, <3>1
      <4>2. QED
        BY <1>3, <4>1
    <3>2. CASE i > Len(s)
      <4> DEFINE j == i - Len(s)
      <4>1. j \in 1..Len(t) /\ Len(s) + j = i /\ (p \o q)[i] = q[j]
        BY <1>1, <1>2, <3>2
      <4> HIDE DEF j
      <4>2. QED
        BY <1>3, <4>1
    <3>3. QED
      BY <1>1, <1>2, <3>1, <3>2
  <2>3. QED
    BY <1>2, <2>1, <2>2, SeqEqual
<1>5. FlattenSeq(p \o q) = FlattenSeq(p) \o FlattenSeq(q)
  BY <1>2, FlattenConcat
<1>6. QED
  BY <1>4, <1>5, OwnIs DEF p, q, r

LEMMA OwnEmpty == OwnCommands(<<>>) = <<>>
<1>1. OwnParts(<<>>) = <<>>
  BY DEF OwnParts
<1>2. QED
  BY <1>1, OwnIs, FlattenEmpty

LEMMA OwnOne ==
  ASSUME NEW e \in Kept, e.of.at = None \/ e.argv[1] # "PEXPIRE" PROVE OwnCommands(<<e>>) = << e.argv >>
<1>1. OwnParts(<<e>>) = << OwnOf(e) >>
  BY DEF OwnParts
<1>2. OwnOf(e) = << e.argv >> /\ e.argv \in Cmds
  BY DEF OwnOf, Kept, Entries, Cmds
<1>3. << e.argv >> \in Seq(Cmds)
  BY <1>2
<1>4. FlattenSeq(<< OwnOf(e) >>) = OwnOf(e)
  BY <1>2, <1>3, FlattenOne
<1>5. QED
  BY <1>1, <1>2, <1>4, OwnIs

(* The mark on the last entry of a value changes no command. *)
LEMMA OwnMarked == ASSUME NEW s \in Seq(Kept) PROVE OwnCommands(MarkLast(s)) = OwnCommands(s)
<1>1. CASE s = <<>>
  BY <1>1 DEF MarkLast
<1>2. CASE s # <<>>
  <2> DEFINE t == MarkLast(s)
  <2>1. /\ DOMAIN s = 1..Len(s) /\ DOMAIN t = DOMAIN s
        /\ \A i \in DOMAIN s : t[i] = s[i] \/ t[i] = Marked(s[i])
    BY <1>2, MarkIs
  <2> HIDE DEF t
  <2>2. ASSUME NEW i \in DOMAIN s PROVE OwnOf(t[i]) = OwnOf(s[i])
    <3>1. s[i] \in Entries
      BY <2>1 DEF Kept
    <3>2. Marked(s[i]).argv = s[i].argv /\ Marked(s[i]).of.at = s[i].of.at
      BY <3>1, MarkedIs
    <3>3. QED
      BY <2>1, <3>2 DEF OwnOf
  <2>3. OwnParts(t) = OwnParts(s)
    BY <2>1, <2>2 DEF OwnParts
  <2>4. QED
    BY <2>3, OwnIs DEF t
<1>3. QED
  BY <1>1, <1>2

(* The commands of an AOF. *)
CmdOf(r) == IF r.rec = "cmd" THEN << r.argv >> ELSE <<>>
CmdParts(recs) == [i \in DOMAIN recs |-> CmdOf(recs[i])]

LEMMA CmdOfType == ASSUME NEW r \in AofRecords PROVE CmdOf(r) \in Seq(Cmds)
<1>1. r.rec = "cmd" => r.argv \in Cmds
  BY DEF AofRecords, Cmds
<1>2. QED
  BY <1>1 DEF CmdOf

LEMMA CmdPartsType ==
  ASSUME NEW recs \in Seq(AofRecords)
  PROVE  /\ CmdParts(recs) \in Seq(Seq(Cmds)) /\ Len(CmdParts(recs)) = Len(recs)
         /\ \A i \in 1..Len(recs) : CmdParts(recs)[i] = CmdOf(recs[i])
<1>1. DOMAIN recs = 1..Len(recs) /\ Len(recs) \in Nat /\ \A i \in 1..Len(recs) : recs[i] \in AofRecords
  OBVIOUS
<1>2. \A i \in 1..Len(recs) : CmdOf(recs[i]) \in Seq(Cmds)
  BY <1>1, CmdOfType
<1>3. CmdParts(recs) = [i \in 1..Len(recs) |-> CmdOf(recs[i])]
  BY <1>1 DEF CmdParts
<1>4. CmdParts(recs) \in Seq(Seq(Cmds)) /\ Len(CmdParts(recs)) = Len(recs)
  BY <1>1, <1>2, <1>3, IsASeq
<1>5. QED
  BY <1>3, <1>4

LEMMA CommandsType == ASSUME NEW recs \in Seq(AofRecords) PROVE CommandsOf(recs) \in Seq(Cmds)
BY CmdPartsType, FlattenType DEF CommandsOf, CmdParts, CmdOf

LEMMA CommandsEmpty == CommandsOf(<<>>) = <<>>
<1>1. CmdParts(<<>>) = <<>>
  BY DEF CmdParts
<1>2. QED
  BY <1>1, FlattenEmpty DEF CommandsOf, CmdParts, CmdOf

LEMMA CommandsHead ==
  ASSUME NEW recs \in Seq(AofRecords), recs # <<>>
  PROVE  CommandsOf(recs) = CmdOf(Head(recs)) \o CommandsOf(Tail(recs))
<1> DEFINE t == Tail(recs)
           p == CmdParts(recs)
           q == CmdParts(t)
<1>1. /\ t \in Seq(AofRecords) /\ Len(recs) = Len(t) + 1 /\ Head(recs) = recs[1] /\ Len(t) \in Nat
      /\ \A i \in 1..Len(t) : t[i] = recs[i + 1] /\ i + 1 \in 1..Len(recs)
  BY Uncons
<1>2. CommandsOf(recs) = FlattenSeq(p) /\ CommandsOf(t) = FlattenSeq(q)
  BY DEF CommandsOf, CmdParts, CmdOf
<1> HIDE DEF t
<1>3. /\ p \in Seq(Seq(Cmds)) /\ q \in Seq(Seq(Cmds)) /\ Len(p) = Len(recs) /\ Len(q) = Len(t)
      /\ \A i \in 1..Len(recs) : p[i] = CmdOf(recs[i])
      /\ \A i \in 1..Len(t) : q[i] = CmdOf(t[i])
  BY <1>1, CmdPartsType
<1> HIDE DEF p, q
<1>4. Len(p) = Len(q) + 1 /\ \A i \in 1..Len(q) : q[i] = p[i + 1]
  BY <1>1, <1>3
<1>5. FlattenSeq(p) = p[1] \o FlattenSeq(q)
  BY <1>3, <1>4, FlattenHead
<1>6. p[1] = CmdOf(Head(recs))
  BY <1>1, <1>3
<1>7. QED
  BY <1>2, <1>5, <1>6 DEF t

(* The commands of a log, up to its end. *)
LogOf(recs, i) ==
  IF recs[i].rec = "cmd" /\ \A j \in 1..i : ~LogEnds(recs[j]) THEN << recs[i].argv >> ELSE <<>>
LogParts(recs) == [i \in DOMAIN recs |-> LogOf(recs, i)]

LEMMA LogPartsType ==
  ASSUME NEW recs \in Seq(AofRecords)
  PROVE  /\ LogParts(recs) \in Seq(Seq(Cmds)) /\ Len(LogParts(recs)) = Len(recs)
         /\ \A i \in 1..Len(recs) : LogParts(recs)[i] = LogOf(recs, i)
<1>1. DOMAIN recs = 1..Len(recs) /\ Len(recs) \in Nat
  OBVIOUS
<1>2. ASSUME NEW i \in 1..Len(recs) PROVE LogOf(recs, i) \in Seq(Cmds)
  <2>1. recs[i] \in AofRecords
    BY <1>1
  <2>2. recs[i].rec = "cmd" => recs[i].argv \in Cmds
    BY <2>1 DEF AofRecords, Cmds
  <2>3. QED
    BY <2>2 DEF LogOf
<1>3. LogParts(recs) = [i \in 1..Len(recs) |-> LogOf(recs, i)]
  BY <1>1 DEF LogParts
<1>4. LogParts(recs) \in Seq(Seq(Cmds)) /\ Len(LogParts(recs)) = Len(recs)
  BY <1>1, <1>2, <1>3, IsASeq
<1>5. QED
  BY <1>3, <1>4

LEMMA LogIs == ASSUME NEW recs PROVE LogCommands(recs) = FlattenSeq(LogParts(recs))
BY DEF LogCommands, LogParts, LogOf

LEMMA LogType == ASSUME NEW recs \in Seq(AofRecords) PROVE LogCommands(recs) \in Seq(Cmds)
BY LogIs, LogPartsType, FlattenType

LEMMA LogEmpty == LogCommands(<<>>) = <<>>
<1>1. LogParts(<<>>) = <<>>
  BY DEF LogParts
<1>2. QED
  BY <1>1, LogIs, FlattenEmpty

LEMMA LogStops ==
  ASSUME NEW recs \in Seq(AofRecords), recs # <<>>, LogEnds(Head(recs)) PROVE LogCommands(recs) = <<>>
<1>1. Head(recs) = recs[1] /\ Len(recs) \in Nat
  BY Uncons
<1>2. ASSUME NEW i \in 1..Len(recs) PROVE LogParts(recs)[i] = <<>>
  <2>1. 1 \in 1..i
    BY <1>1
  <2>2. LogOf(recs, i) = <<>>
    BY <1>1, <2>1 DEF LogOf
  <2>3. QED
    BY <2>2, LogPartsType
<1>3. QED
  BY <1>2, LogIs, LogPartsType, FlattenNone

LEMMA LogHead ==
  ASSUME NEW recs \in Seq(AofRecords), recs # <<>>, ~LogEnds(Head(recs))
  PROVE  LogCommands(recs) = CmdOf(Head(recs)) \o LogCommands(Tail(recs))
<1> DEFINE t == Tail(recs)
           p == LogParts(recs)
           q == LogParts(t)
<1>1. /\ t \in Seq(AofRecords) /\ Len(recs) = Len(t) + 1 /\ Head(recs) = recs[1] /\ Len(t) \in Nat
      /\ \A i \in 1..Len(t) : t[i] = recs[i + 1] /\ i + 1 \in 1..Len(recs)
  BY Uncons
<1>2. LogCommands(recs) = FlattenSeq(p) /\ LogCommands(t) = FlattenSeq(q)
  BY LogIs
<1> HIDE DEF t
<1>3. /\ p \in Seq(Seq(Cmds)) /\ q \in Seq(Seq(Cmds)) /\ Len(p) = Len(recs) /\ Len(q) = Len(t)
      /\ \A i \in 1..Len(recs) : p[i] = LogOf(recs, i)
      /\ \A i \in 1..Len(t) : q[i] = LogOf(t, i)
  BY <1>1, LogPartsType
<1>4. ASSUME NEW i \in 1..Len(t) PROVE LogOf(t, i) = LogOf(recs, i + 1)
  <2>1. (\A j \in 1..i : ~LogEnds(t[j])) <=> (\A j \in 1..(i + 1) : ~LogEnds(recs[j]))
    <3>1. \A j \in 1..i : j \in 1..Len(t) /\ j + 1 \in 1..(i + 1)
      BY <1>1
    <3>2. \A j \in 1..(i + 1) : j = 1 \/ (j - 1 \in 1..i /\ (j - 1) + 1 = j)
      OBVIOUS
    <3>3. \A j \in 1..i : t[j] = recs[j + 1]
      BY <1>1, <3>1
    <3>4. ~LogEnds(recs[1])
      BY <1>1
    <3>5. ASSUME \A j \in 1..i : ~LogEnds(t[j]), NEW j \in 1..(i + 1) PROVE ~LogEnds(recs[j])
      <4>1. CASE j = 1
        BY <3>4, <4>1
      <4>2. CASE j # 1
        <5>1. j - 1 \in 1..i /\ (j - 1) + 1 = j
          BY <3>2, <4>2
        <5>2. t[j - 1] = recs[(j - 1) + 1]
          BY <3>3, <5>1
        <5>3. QED
          BY <3>5, <5>1, <5>2
      <4>3. QED
        BY <4>1, <4>2
    <3>6. ASSUME \A j \in 1..(i + 1) : ~LogEnds(recs[j]), NEW j \in 1..i PROVE ~LogEnds(t[j])
      BY <3>1, <3>3, <3>6
    <3>7. QED
      BY <3>5, <3>6
  <2>2. t[i] = recs[i + 1]
    BY <1>1
  <2>3. QED
    BY <2>1, <2>2 DEF LogOf
<1> HIDE DEF p, q
<1>5. Len(p) = Len(q) + 1 /\ \A i \in 1..Len(q) : q[i] = p[i + 1]
  BY <1>1, <1>3, <1>4
<1>6. FlattenSeq(p) = p[1] \o FlattenSeq(q)
  BY <1>3, <1>5, FlattenHead
<1>7. p[1] = CmdOf(Head(recs))
  <2>1. p[1] = LogOf(recs, 1)
    BY <1>1, <1>3
  <2>2. \A j \in 1..1 : recs[j] = Head(recs)
    BY <1>1
  <2>3. QED
    BY <1>1, <2>1, <2>2 DEF LogOf, CmdOf
<1>8. QED
  BY <1>2, <1>6, <1>7 DEF t

(* The commands of a snapshot. *)
OpParts(ops) == [i \in DOMAIN ops |-> OpCommands(ops[i])]

LEMMA RestoreType == ASSUME NEW key \in Words PROVE Restore(key) \in Cmds
<1> DEFINE a == <<"RESTORE", key, "ms", "dump">>
           b == IF Rewrite THEN <<"replace">> ELSE <<>>
<1>1. "RESTORE" \in Words /\ "ms" \in Words /\ "dump" \in Words
  BY RdbAssumption
<1>2. a \in Seq(Words)
  BY <1>1, Quadruple
<1>3. b \in Seq(Words)
  BY RdbAssumption
<1> HIDE DEF a, b
<1>4. a \o b \in Seq(Words)
  BY <1>2, <1>3
<1>5. QED
  BY <1>4 DEF a, b, Restore, Cmds

LEMMA AddedTypes ==
  <<"script", "load", "lua">> \in Cmds /\ <<"function", "load", "replace", "lib">> \in Cmds
<1>1. "script" \in Words /\ "load" \in Words /\ "lua" \in Words
  BY RdbAssumption
<1>2. "function" \in Words /\ "replace" \in Words /\ "lib" \in Words
  BY RdbAssumption
<1>3. QED
  BY <1>1, <1>2, Triple, Quadruple DEF Cmds

LEMMA OpType == ASSUME NEW o \in Opcodes PROVE OpCommands(o) \in Seq(Cmds)
<1>1. CASE o.op = "value"
  <2>1. o.key \in Words /\ o.cmds \in Seq(Cmds)
    BY <1>1 DEF Opcodes, Cmds
  <2>2. << Restore(o.key) >> \in Seq(Cmds)
    BY <2>1, RestoreType
  <2>3. OpCommands(o) = IF o.big THEN o.cmds ELSE << Restore(o.key) >>
    BY <1>1 DEF OpCommands
  <2>4. QED
    BY <2>1, <2>2, <2>3
<1>2. CASE o.op # "value"
  <2> DEFINE a == <<"script", "load", "lua">>
             b == <<"function", "load", "replace", "lib">>
  <2>1. a \in Cmds /\ b \in Cmds
    BY AddedTypes
  <2> HIDE DEF a, b
  <2>2. << a >> \in Seq(Cmds) /\ << b >> \in Seq(Cmds) /\ <<>> \in Seq(Cmds)
    BY <2>1
  <2>3. OpCommands(o) = << a >> \/ OpCommands(o) = << b >> \/ OpCommands(o) = <<>>
    BY <1>2 DEF OpCommands, a, b
  <2>4. QED
    BY <2>2, <2>3
<1>3. QED
  BY <1>1, <1>2

LEMMA OpPartsType ==
  ASSUME NEW ops \in Seq(Opcodes)
  PROVE  /\ OpParts(ops) \in Seq(Seq(Cmds)) /\ Len(OpParts(ops)) = Len(ops)
         /\ \A i \in 1..Len(ops) : OpParts(ops)[i] = OpCommands(ops[i])
<1>1. DOMAIN ops = 1..Len(ops) /\ Len(ops) \in Nat /\ \A i \in 1..Len(ops) : ops[i] \in Opcodes
  OBVIOUS
<1>2. \A i \in 1..Len(ops) : OpCommands(ops[i]) \in Seq(Cmds)
  BY <1>1, OpType
<1>3. OpParts(ops) = [i \in 1..Len(ops) |-> OpCommands(ops[i])]
  BY <1>1 DEF OpParts
<1>4. OpParts(ops) \in Seq(Seq(Cmds)) /\ Len(OpParts(ops)) = Len(ops)
  BY <1>1, <1>2, <1>3, IsASeq
<1>5. QED
  BY <1>3, <1>4

LEMMA SnapshotIs == ASSUME NEW ops PROVE SnapshotCommands(ops) = FlattenSeq(OpParts(ops))
BY DEF SnapshotCommands, OpParts

LEMMA SnapshotType == ASSUME NEW ops \in Seq(Opcodes) PROVE SnapshotCommands(ops) \in Seq(Cmds)
BY SnapshotIs, OpPartsType, FlattenType

LEMMA SnapshotEmpty == SnapshotCommands(<<>>) = <<>>
<1>1. OpParts(<<>>) = <<>>
  BY DEF OpParts
<1>2. QED
  BY <1>1, SnapshotIs, FlattenEmpty

LEMMA SnapshotHead ==
  ASSUME NEW ops \in Seq(Opcodes), ops # <<>>
  PROVE  SnapshotCommands(ops) = OpCommands(Head(ops)) \o SnapshotCommands(Tail(ops))
<1> DEFINE t == Tail(ops)
           p == OpParts(ops)
           q == OpParts(t)
<1>1. /\ t \in Seq(Opcodes) /\ Len(ops) = Len(t) + 1 /\ Head(ops) = ops[1] /\ Len(t) \in Nat
      /\ \A i \in 1..Len(t) : t[i] = ops[i + 1] /\ i + 1 \in 1..Len(ops)
  BY Uncons
<1>2. SnapshotCommands(ops) = FlattenSeq(p) /\ SnapshotCommands(t) = FlattenSeq(q)
  BY SnapshotIs
<1> HIDE DEF t
<1>3. /\ p \in Seq(Seq(Cmds)) /\ q \in Seq(Seq(Cmds)) /\ Len(p) = Len(ops) /\ Len(q) = Len(t)
      /\ \A i \in 1..Len(ops) : p[i] = OpCommands(ops[i])
      /\ \A i \in 1..Len(t) : q[i] = OpCommands(t[i])
  BY <1>1, OpPartsType
<1> HIDE DEF p, q
<1>4. Len(p) = Len(q) + 1 /\ \A i \in 1..Len(q) : q[i] = p[i + 1]
  BY <1>1, <1>3
<1>5. FlattenSeq(p) = p[1] \o FlattenSeq(q)
  BY <1>3, <1>4, FlattenHead
<1>6. p[1] = OpCommands(Head(ops))
  BY <1>1, <1>3
<1>7. QED
  BY <1>2, <1>5, <1>6 DEF t

-----------------------------------------------------------------------------
(* The files of a listing, one by one. *)

(* A file that may stand in a listing: a base, or the AOF of a log. *)
FileOK(l) == l \in FileInfos /\ (IsLog(l) => AofFile(disk.files[l.name]))

BaseOf(l) == IF IsBase(l) THEN BaseCommands(l) ELSE <<>>
RecsOf(l) == IF IsLog(l) THEN disk.files[l.name].recs ELSE <<>>

LEMMA BaseOfType == ASSUME Disk(disk), NEW l PROVE BaseOf(l) \in Seq(Cmds)
<1>1. CASE ~IsBase(l)
  BY <1>1 DEF BaseOf
<1>2. CASE IsBase(l)
  <2> DEFINE f == disk.files[l.name]
  <2>1. AofFile(f) \/ RdbFile(f)
    BY <1>2 DEF IsBase, Missing, Disk
  <2>2. BaseOf(l) = IF f.kind = "rdb" THEN SnapshotCommands(f.ops) ELSE CommandsOf(f.recs)
    BY <1>2 DEF BaseOf, BaseCommands
  <2> HIDE DEF f
  <2>3. CASE RdbFile(f)
    <3>1. f.kind = "rdb" /\ f.ops \in Seq(Opcodes)
      BY <2>3 DEF RdbFile, Snapshot
    <3>2. QED
      BY <2>2, <3>1, SnapshotType
  <2>4. CASE AofFile(f)
    <3>1. f.kind # "rdb" /\ f.recs \in Seq(AofRecords)
      BY <2>4 DEF AofFile
    <3>2. QED
      BY <2>2, <3>1, CommandsType
  <2>5. QED
    BY <2>1, <2>3, <2>4
<1>3. QED
  BY <1>1, <1>2

LEMMA RecsOfType == ASSUME NEW l, FileOK(l) PROVE RecsOf(l) \in Seq(AofRecords)
BY DEF FileOK, RecsOf, AofFile

BaseParts(ls) == [i \in DOMAIN ls |-> BaseOf(ls[i])]
RecsParts(ls) == [i \in DOMAIN ls |-> RecsOf(ls[i])]
AllOK(ls) == ls \in Seq(FileInfos) /\ \A i \in DOMAIN ls : FileOK(ls[i])

LEMMA FilePartsType ==
  ASSUME Disk(disk), NEW ls, AllOK(ls)
  PROVE  /\ BaseParts(ls) \in Seq(Seq(Cmds)) /\ Len(BaseParts(ls)) = Len(ls)
         /\ \A i \in 1..Len(ls) : BaseParts(ls)[i] = BaseOf(ls[i])
         /\ RecsParts(ls) \in Seq(Seq(AofRecords)) /\ Len(RecsParts(ls)) = Len(ls)
         /\ \A i \in 1..Len(ls) : RecsParts(ls)[i] = RecsOf(ls[i])
<1>1. DOMAIN ls = 1..Len(ls) /\ Len(ls) \in Nat /\ \A i \in 1..Len(ls) : FileOK(ls[i])
  BY DEF AllOK
<1>2. \A i \in 1..Len(ls) : BaseOf(ls[i]) \in Seq(Cmds) /\ RecsOf(ls[i]) \in Seq(AofRecords)
  BY <1>1, BaseOfType, RecsOfType
<1>3. /\ BaseParts(ls) = [i \in 1..Len(ls) |-> BaseOf(ls[i])]
      /\ RecsParts(ls) = [i \in 1..Len(ls) |-> RecsOf(ls[i])]
  BY <1>1 DEF BaseParts, RecsParts
<1>4. BaseParts(ls) \in Seq(Seq(Cmds)) /\ Len(BaseParts(ls)) = Len(ls)
  BY <1>1, <1>2, <1>3, IsASeq
<1>5. RecsParts(ls) \in Seq(Seq(AofRecords)) /\ Len(RecsParts(ls)) = Len(ls)
  BY <1>1, <1>2, <1>3, IsASeq
<1>6. QED
  BY <1>3, <1>4, <1>5

LEMMA FilesAre == ASSUME NEW ls PROVE BasesOf(ls) = FlattenSeq(BaseParts(ls)) /\ LogsOf(ls) = FlattenSeq(RecsParts(ls))
BY DEF BasesOf, BaseParts, BaseOf, LogsOf, RecsParts, RecsOf

LEMMA FilesType ==
  ASSUME Disk(disk), NEW ls, AllOK(ls) PROVE BasesOf(ls) \in Seq(Cmds) /\ LogsOf(ls) \in Seq(AofRecords)
BY FilesAre, FilePartsType, FlattenType

LEMMA FilesHead ==
  ASSUME Disk(disk), NEW ls, AllOK(ls), ls # <<>>
  PROVE  /\ BasesOf(ls) = BaseOf(Head(ls)) \o BasesOf(Tail(ls))
         /\ LogsOf(ls) = RecsOf(Head(ls)) \o LogsOf(Tail(ls))
         /\ AllOK(Tail(ls)) /\ FileOK(Head(ls))
<1> DEFINE t == Tail(ls)
           p == BaseParts(ls)
           q == BaseParts(t)
           u == RecsParts(ls)
           v == RecsParts(t)
<1>1. /\ t \in Seq(FileInfos) /\ Len(ls) = Len(t) + 1 /\ Head(ls) = ls[1] /\ Len(t) \in Nat
      /\ \A i \in 1..Len(t) : t[i] = ls[i + 1] /\ i + 1 \in 1..Len(ls)
      /\ DOMAIN ls = 1..Len(ls) /\ DOMAIN t = 1..Len(t)
  BY Uncons DEF AllOK
<1>2. /\ BasesOf(ls) = FlattenSeq(p) /\ BasesOf(t) = FlattenSeq(q)
      /\ LogsOf(ls) = FlattenSeq(u) /\ LogsOf(t) = FlattenSeq(v)
  BY FilesAre
<1> HIDE DEF t
<1>3. AllOK(t) /\ FileOK(Head(ls))
  BY <1>1 DEF AllOK
<1>4. /\ p \in Seq(Seq(Cmds)) /\ q \in Seq(Seq(Cmds)) /\ Len(p) = Len(ls) /\ Len(q) = Len(t)
      /\ \A i \in 1..Len(ls) : p[i] = BaseOf(ls[i])
      /\ \A i \in 1..Len(t) : q[i] = BaseOf(t[i])
  BY <1>3, FilePartsType
<1>5. /\ u \in Seq(Seq(AofRecords)) /\ v \in Seq(Seq(AofRecords)) /\ Len(u) = Len(ls) /\ Len(v) = Len(t)
      /\ \A i \in 1..Len(ls) : u[i] = RecsOf(ls[i])
      /\ \A i \in 1..Len(t) : v[i] = RecsOf(t[i])
  BY <1>3, FilePartsType
<1> HIDE DEF p, q, u, v
<1>6. FlattenSeq(p) = p[1] \o FlattenSeq(q)
  <2>1. Len(p) = Len(q) + 1 /\ \A i \in 1..Len(q) : q[i] = p[i + 1]
    BY <1>1, <1>4
  <2>2. QED
    BY <1>4, <2>1, FlattenHead
<1>7. FlattenSeq(u) = u[1] \o FlattenSeq(v)
  <2>1. Len(u) = Len(v) + 1 /\ \A i \in 1..Len(v) : v[i] = u[i + 1]
    BY <1>1, <1>5
  <2>2. QED
    BY <1>5, <2>1, FlattenHead
<1>8. p[1] = BaseOf(Head(ls)) /\ u[1] = RecsOf(Head(ls))
  BY <1>1, <1>4, <1>5
<1>9. QED
  BY <1>2, <1>3, <1>6, <1>7, <1>8 DEF t

LEMMA FilesEmpty == BasesOf(<<>>) = <<>> /\ LogsOf(<<>>) = <<>>
<1>1. BaseParts(<<>>) = <<>> /\ RecsParts(<<>>) = <<>>
  BY DEF BaseParts, RecsParts
<1>2. QED
  BY <1>1, FilesAre, FlattenEmpty

(* No base, no log. *)
LEMMA FilesNone ==
  ASSUME Disk(disk), NEW ls, AllOK(ls)
  PROVE  /\ (\A i \in DOMAIN ls : BaseOf(ls[i]) = <<>>) => BasesOf(ls) = <<>>
         /\ (\A i \in DOMAIN ls : RecsOf(ls[i]) = <<>>) => LogsOf(ls) = <<>>
<1>1. DOMAIN ls = 1..Len(ls)
  BY DEF AllOK
<1>2. ASSUME \A i \in DOMAIN ls : BaseOf(ls[i]) = <<>> PROVE BasesOf(ls) = <<>>
  <2> DEFINE p == BaseParts(ls)
  <2>1. p \in Seq(Seq(Cmds)) /\ \A i \in 1..Len(p) : p[i] = <<>>
    BY <1>1, <1>2, FilePartsType
  <2>2. BasesOf(ls) = FlattenSeq(p)
    BY FilesAre
  <2> HIDE DEF p
  <2>3. QED
    BY <2>1, <2>2, FlattenNone
<1>3. ASSUME \A i \in DOMAIN ls : RecsOf(ls[i]) = <<>> PROVE LogsOf(ls) = <<>>
  <2> DEFINE p == RecsParts(ls)
  <2>1. p \in Seq(Seq(AofRecords)) /\ \A i \in 1..Len(p) : p[i] = <<>>
    BY <1>1, <1>3, FilePartsType
  <2>2. LogsOf(ls) = FlattenSeq(p)
    BY FilesAre
  <2> HIDE DEF p
  <2>3. QED
    BY <2>1, <2>2, FlattenNone
<1>4. QED
  BY <1>2, <1>3

-----------------------------------------------------------------------------
(* The lines of a manifest. *)

Wanted(l, t) == l.line = "info" /\ l.type = t /\ (t = "h" => ~l.baseRdb)
InfoOf(l, t) == IF Wanted(l, t) THEN << l >> ELSE <<>>
InfoParts(lines, t) == [i \in DOMAIN lines |-> InfoOf(lines[i], t)]

LEMMA InfosAre == ASSUME NEW lines, NEW t PROVE InfosOf(lines, t) = FlattenSeq(InfoParts(lines, t))
<1> DEFINE I == {i \in DOMAIN lines : lines[i].line = "info" /\ lines[i].type = t /\ (t = "h" => ~lines[i].baseRdb)}
<1>1. \A i \in DOMAIN lines : (IF i \in I THEN << lines[i] >> ELSE <<>>) = InfoOf(lines[i], t)
  BY DEF InfoOf, Wanted
<1>2. InfosOf(lines, t) = FlattenSeq([i \in DOMAIN lines |-> IF i \in I THEN << lines[i] >> ELSE <<>>])
  BY DEF InfosOf, Chosen
<1> HIDE DEF I
<1>3. [i \in DOMAIN lines |-> IF i \in I THEN << lines[i] >> ELSE <<>>] = InfoParts(lines, t)
  BY <1>1 DEF InfoParts
<1>4. QED
  BY <1>2, <1>3

LEMMA InfoPartsType ==
  ASSUME NEW lines \in Seq(Lines), NEW t, NEW S, \A i \in DOMAIN lines : Wanted(lines[i], t) => lines[i] \in S
  PROVE  /\ InfoParts(lines, t) \in Seq(Seq(S)) /\ Len(InfoParts(lines, t)) = Len(lines)
         /\ \A i \in 1..Len(lines) : InfoParts(lines, t)[i] = InfoOf(lines[i], t)
<1>1. DOMAIN lines = 1..Len(lines) /\ Len(lines) \in Nat
  OBVIOUS
<1>2. ASSUME NEW i \in 1..Len(lines) PROVE InfoOf(lines[i], t) \in Seq(S)
  <2>1. CASE Wanted(lines[i], t)
    <3>1. lines[i] \in S
      BY <1>1, <2>1
    <3>2. << lines[i] >> \in Seq(S)
      BY <3>1
    <3>3. QED
      BY <2>1, <3>2 DEF InfoOf
  <2>2. CASE ~Wanted(lines[i], t)
    BY <2>2 DEF InfoOf
  <2>3. QED
    BY <2>1, <2>2
<1>3. InfoParts(lines, t) = [i \in 1..Len(lines) |-> InfoOf(lines[i], t)]
  BY <1>1 DEF InfoParts
<1>4. InfoParts(lines, t) \in Seq(Seq(S)) /\ Len(InfoParts(lines, t)) = Len(lines)
  BY <1>1, <1>2, <1>3, IsASeq
<1>5. QED
  BY <1>3, <1>4

LEMMA InfosFrom ==
  ASSUME NEW lines \in Seq(Lines), NEW t, NEW S, \A i \in DOMAIN lines : Wanted(lines[i], t) => lines[i] \in S
  PROVE  InfosOf(lines, t) \in Seq(S)
<1> DEFINE p == InfoParts(lines, t)
<1>1. p \in Seq(Seq(S)) /\ InfosOf(lines, t) = FlattenSeq(p)
  BY InfoPartsType, InfosAre
<1> HIDE DEF p
<1>2. QED
  BY <1>1, FlattenType

(* A line that is wanted has a name. *)
LEMMA WantedInfo == ASSUME NEW l \in Lines, NEW t, Wanted(l, t) PROVE l \in FileInfos /\ l.type = t
BY DEF Wanted, Lines

LEMMA InfosType == ASSUME NEW lines \in Seq(Lines), NEW t PROVE InfosOf(lines, t) \in Seq(FileInfos)
<1>1. \A i \in DOMAIN lines : lines[i] \in Lines
  OBVIOUS
<1>2. \A i \in DOMAIN lines : Wanted(lines[i], t) => lines[i] \in FileInfos
  BY <1>1, WantedInfo
<1>3. QED
  BY <1>2, InfosFrom

LEMMA InfosNone ==
  ASSUME NEW lines \in Seq(Lines), NEW t, \A i \in DOMAIN lines : lines[i].line # "info"
  PROVE  InfosOf(lines, t) = <<>>
<1> DEFINE p == InfoParts(lines, t)
<1>1. DOMAIN lines = 1..Len(lines) /\ \A i \in 1..Len(lines) : InfoOf(lines[i], t) = <<>>
  BY DEF InfoOf, Wanted
<1>2. \A i \in DOMAIN lines : Wanted(lines[i], t) => lines[i] \in FileInfos
  BY DEF Wanted
<1>3. /\ p \in Seq(Seq(FileInfos)) /\ Len(p) = Len(lines)
      /\ \A i \in 1..Len(lines) : p[i] = InfoOf(lines[i], t)
  BY <1>2, InfoPartsType
<1>4. InfosOf(lines, t) = FlattenSeq(p)
  BY InfosAre
<1> HIDE DEF p
<1>5. \A i \in 1..Len(p) : p[i] = <<>>
  BY <1>1, <1>3
<1>6. QED
  BY <1>3, <1>4, <1>5, FlattenNone

LEMMA InfosHead ==
  ASSUME NEW lines \in Seq(Lines), NEW t, lines # <<>>
  PROVE  InfosOf(lines, t) = InfoOf(Head(lines), t) \o InfosOf(Tail(lines), t)
<1> DEFINE u == Tail(lines)
           p == InfoParts(lines, t)
           q == InfoParts(u, t)
<1>1. /\ u \in Seq(Lines) /\ Len(lines) = Len(u) + 1 /\ Head(lines) = lines[1] /\ Len(u) \in Nat
      /\ \A i \in 1..Len(u) : u[i] = lines[i + 1] /\ i + 1 \in 1..Len(lines)
  BY Uncons
<1>2. InfosOf(lines, t) = FlattenSeq(p) /\ InfosOf(u, t) = FlattenSeq(q)
  BY InfosAre
<1> HIDE DEF u
<1>3. /\ \A i \in DOMAIN lines : Wanted(lines[i], t) => lines[i] \in Lines
      /\ \A i \in DOMAIN u : Wanted(u[i], t) => u[i] \in Lines
  BY <1>1
<1>4. /\ p \in Seq(Seq(Lines)) /\ Len(p) = Len(lines)
      /\ \A i \in 1..Len(lines) : p[i] = InfoOf(lines[i], t)
  BY <1>3, InfoPartsType
<1>5. /\ q \in Seq(Seq(Lines)) /\ Len(q) = Len(u)
      /\ \A i \in 1..Len(u) : q[i] = InfoOf(u[i], t)
  BY <1>1, <1>3, InfoPartsType
<1> HIDE DEF p, q
<1>6. Len(p) = Len(q) + 1 /\ \A i \in 1..Len(q) : q[i] = p[i + 1]
  BY <1>1, <1>4, <1>5
<1>7. FlattenSeq(p) = p[1] \o FlattenSeq(q)
  BY <1>4, <1>5, <1>6, FlattenHead
<1>8. p[1] = InfoOf(Head(lines), t)
  BY <1>1, <1>4
<1>9. QED
  BY <1>2, <1>7, <1>8 DEF u

(* The files of a manifest: one kind after the other, each as a listing may have it. *)
LEMMA ListedOK ==
  ASSUME Disk(disk), disk.path.kind = "manifest", NEW t \in {"b", "h", "i"}
  PROVE  InfosOf(disk.path.lines, t) \in Seq({l \in FileInfos : l.type = t /\ FileOK(l)})
<1> DEFINE lines == disk.path.lines
<1>1. ManifestOK(lines, disk.files) /\ lines \in Seq(Lines)
  BY DEF Disk, AofFile, ManifestOK
<1> HIDE DEF lines
<1>2. ASSUME NEW i \in DOMAIN lines, Wanted(lines[i], t)
      PROVE  lines[i] \in {l \in FileInfos : l.type = t /\ FileOK(l)}
  <2>1. lines[i] \in Lines
    BY <1>1
  <2>2. lines[i] \in FileInfos /\ lines[i].type = t
    BY <1>2, <2>1, WantedInfo
  <2>3. IsLog(lines[i]) => AofFile(disk.files[lines[i].name])
    BY <1>1, <1>2 DEF IsLog, Missing, ManifestOK, Wanted
  <2>4. QED
    BY <2>2, <2>3 DEF FileOK
<1>3. InfosOf(lines, t) \in Seq({l \in FileInfos : l.type = t /\ FileOK(l)})
  BY <1>1, <1>2, InfosFrom
<1>4. QED
  BY <1>3 DEF lines

-----------------------------------------------------------------------------
(* aof_reader's inductive invariant: what was sent, what is made and what is still in the
   files make up the log. *)

(* The part of the log these files hold. *)
Ahead(ls) == BasesOf(ls) \o LogCommands(LogsOf(ls))

(* The file being read is the base. *)
InBase(a) == ~a.single /\ Head(a.todo).type = "b"

(* Entries that were made and not sent yet, and what the rest of the files will give. *)
Flight(a, r, ch) == IF a.pc = "forward" THEN ch \o r.pending ELSE a.e

Behind(a) == IF a.single THEN <<>> ELSE LogsOf(Tail(a.todo))

Coming(a, r) ==
  IF a.pc = "next" THEN Ahead(a.todo)
  ELSE IF a.pc = "forward" THEN SnapshotCommands(r.rest) \o Ahead(Tail(a.todo))
  ELSE IF InBase(a) THEN CommandsOf(a.recs) \o Ahead(Tail(a.todo))
  ELSE LogCommands(a.recs \o Behind(a))

OnTrack(s, a, r, ch) == OwnCommands(s \o Flight(a, r, ch)) \o Coming(a, r) = WholeLog

(* What was sent is a beginning of the log. *)
Begun(s) == \E z \in Seq(Cmds) : OwnCommands(s) \o z = WholeLog

(* A signal made the reader leave the base before its end: it sends nothing any more. *)
Lost(s, a, c) ==
  /\ c /\ a.pc \in {"next", "read"} /\ ~a.single /\ Begun(s)
  /\ \A i \in DOMAIN a.todo : a.todo[i].type # "b"

(* The files to come: the base is the first, the others are AOFs. *)
FilesOK(ls) ==
  /\ AllOK(ls)
  /\ \A i \in DOMAIN ls : ls[i].type = "b" => i = 1
  /\ OneLog => \A i, j \in DOMAIN ls : IsLog(ls[i]) /\ IsLog(ls[j]) => i = j

PathLinesAre(t) == InfosOf(ManifestLines(disk.path), t)

(* The lines read so far are in am. *)
ManifestAt(a) ==
  /\ a.am.base \o InfosOf(a.lines, "b") = PathLinesAre("b")
  /\ a.am.hist \o InfosOf(a.lines, "h") = PathLinesAre("h")
  /\ a.am.incr \o InfosOf(a.lines, "i") = PathLinesAre("i")
  /\ Len(a.am.base) <= 1
  /\ \A i \in DOMAIN a.lines : a.lines[i].line = "unended" => i = Len(a.lines)
  /\ \A i \in DOMAIN a.lines : \E j \in DOMAIN ManifestLines(disk.path) : a.lines[i] = ManifestLines(disk.path)[j]
  /\ a.lineNum = 0 => a.lines = ManifestLines(disk.path)

(* A manifest read as an AOF holds no command, and is not read to its end. *)
NoLog(recs) ==
  disk.path.kind = "manifest" =>
    /\ \A i \in DOMAIN recs : recs[i].rec \in {"note", "garbage"}
    /\ disk.path.lines = <<>> \/ \E i \in DOMAIN recs : recs[i].rec = "garbage"

(* The base's snapshot is read to its end, unless a signal came. *)
SnapshotAt(r, c) ==
  /\ r.pc # "idle" /\ (r.pc # "send" => r.pending = <<>>)
  /\ r.pc \in {"end", "closed"} /\ ~c => r.rest = <<>>

BackupAt(s, a, r, ch, c) ==
  /\ a.pc # "idle"
  /\ IF a.pc = "send" THEN Len(a.e) = 1 ELSE a.e = <<>>
  /\ a.pc # "forward" => ch = <<>> /\ r = IdleRdb
  /\ a.pc \in {"manifest", "single", "multi"} => s = <<>> /\ ~a.single
  /\ a.pc = "manifest" => ManifestAt(a)
  /\ a.pc = "multi" => /\ a.am.base = PathLinesAre("b") /\ a.am.hist = PathLinesAre("h")
                       /\ a.am.incr = PathLinesAre("i") /\ Len(a.am.base) <= 1
  /\ a.pc = "single" => NoLog(Records(disk.path))
  /\ a.pc = "next" => ~a.single
  /\ a.pc = "forward" => InBase(a) /\ SnapshotAt(r, c)
  /\ a.pc \in {"read", "send"} => a.at = IF InBase(a) THEN 0 ELSE timestamp
  /\ a.pc \in {"next", "forward", "read", "send"} /\ ~a.single =>
       disk.path.kind = "manifest" /\ FilesOK(a.todo) /\ (a.pc # "next" => ~Missing(Head(a.todo)))
  /\ a.pc \in {"read", "send"} /\ a.single /\ disk.path.kind = "manifest" =>
       a.pc = "read" /\ s = <<>> /\ NoLog(a.recs)
  /\ a.pc \in {"next", "forward", "read", "send"} /\ ~(a.single /\ disk.path.kind = "manifest") =>
       OnTrack(s, a, r, ch) \/ Lost(s, a, c)
  /\ a.pc \in {"close", "closed"} => Begun(s) /\ (~c /\ OneLog => OwnCommands(s) = WholeLog)

BackupInv ==
  /\ main.pc = "create" => rdbCh = <<>>
  /\ cfg.reader = "aof" /\ main.pc # "create" => BackupAt(sent[1], aof, rdb, rdbCh, cancelled)

-----------------------------------------------------------------------------
(* The files ahead. *)

LEMMA EmptyLeft == ASSUME NEW S, NEW x \in Seq(S) PROVE <<>> \o x = x /\ x \o <<>> = x
BY ConcatEmptySeq

LEMMA AheadType == ASSUME Disk(disk), NEW ls, AllOK(ls) PROVE Ahead(ls) \in Seq(Cmds)
<1> DEFINE b == BasesOf(ls)
           l == LogsOf(ls)
           c == LogCommands(l)
<1>1. b \in Seq(Cmds) /\ l \in Seq(AofRecords)
  BY FilesType
<1> HIDE DEF l, b
<1>2. c \in Seq(Cmds)
  BY <1>1, LogType
<1> HIDE DEF c
<1>3. b \o c \in Seq(Cmds)
  BY <1>1, <1>2
<1>4. QED
  BY <1>3 DEF Ahead, b, l, c

LEMMA TailOK ==
  ASSUME NEW ls, FilesOK(ls), ls # <<>>
  PROVE  FilesOK(Tail(ls)) /\ \A i \in DOMAIN Tail(ls) : Tail(ls)[i].type # "b"
<1> DEFINE t == Tail(ls)
<1>1. ls \in Seq(FileInfos) /\ \A i \in DOMAIN ls : FileOK(ls[i])
  BY DEF FilesOK, AllOK
<1>2. /\ t \in Seq(FileInfos) /\ DOMAIN ls = 1..Len(ls) /\ DOMAIN t = 1..Len(t) /\ Len(t) \in Nat
      /\ \A i \in 1..Len(t) : t[i] = ls[i + 1] /\ i + 1 \in 1..Len(ls)
  BY <1>1, Uncons
<1> HIDE DEF t
<1>3. \A i \in DOMAIN t : t[i].type # "b"
  <2>1. ASSUME NEW i \in 1..Len(t), t[i].type = "b" PROVE FALSE
    <3>1. ls[i + 1].type = "b" /\ i + 1 \in DOMAIN ls
      BY <1>2, <2>1
    <3>2. i + 1 = 1
      BY <3>1 DEF FilesOK
    <3>3. QED
      BY <1>2, <3>2
  <2>2. QED
    BY <1>2, <2>1
<1>4. AllOK(t)
  BY <1>1, <1>2 DEF AllOK
<1>5. ASSUME OneLog, NEW i \in DOMAIN t, NEW j \in DOMAIN t, IsLog(t[i]), IsLog(t[j]) PROVE i = j
  <2>1. i + 1 \in DOMAIN ls /\ j + 1 \in DOMAIN ls /\ t[i] = ls[i + 1] /\ t[j] = ls[j + 1]
    BY <1>2
  <2>2. i + 1 = j + 1
    BY <1>5, <2>1 DEF FilesOK
  <2>3. i \in Nat /\ j \in Nat
    BY <1>2
  <2>4. QED
    BY <2>2, <2>3
<1>6. FilesOK(t)
  BY <1>3, <1>4, <1>5 DEF FilesOK
<1>7. QED
  BY <1>3, <1>6 DEF t

(* Without a base only the logs are left. *)
LEMMA AheadLogs ==
  ASSUME Disk(disk), NEW ls, AllOK(ls), \A i \in DOMAIN ls : ls[i].type # "b"
  PROVE  BasesOf(ls) = <<>> /\ Ahead(ls) = LogCommands(LogsOf(ls))
<1>1. \A i \in DOMAIN ls : BaseOf(ls[i]) = <<>>
  BY DEF BaseOf, IsBase
<1>2. BasesOf(ls) = <<>>
  BY <1>1, FilesNone
<1>3. LogsOf(ls) \in Seq(AofRecords)
  BY FilesType
<1>4. LogCommands(LogsOf(ls)) \in Seq(Cmds)
  BY <1>3, LogType
<1>5. QED
  BY <1>2, <1>4, EmptyLeft DEF Ahead

LEMMA AheadHead ==
  ASSUME Disk(disk), NEW ls, FilesOK(ls), ls # <<>>
  PROVE  /\ IsBase(Head(ls)) => Ahead(ls) = BaseCommands(Head(ls)) \o Ahead(Tail(ls))
         /\ Missing(Head(ls)) => Ahead(ls) = Ahead(Tail(ls))
         /\ IsLog(Head(ls)) => Ahead(ls) = LogCommands(disk.files[Head(ls).name].recs \o LogsOf(Tail(ls)))
<1> DEFINE h == Head(ls)
           t == Tail(ls)
           b == BasesOf(t)
           l == LogsOf(t)
<1>0. AllOK(ls)
  BY DEF FilesOK
<1>1. /\ BasesOf(ls) = BaseOf(h) \o b /\ LogsOf(ls) = RecsOf(h) \o l
      /\ AllOK(t) /\ FileOK(h)
  BY <1>0, FilesHead
<1>2. b \in Seq(Cmds) /\ l \in Seq(AofRecords) /\ BaseOf(h) \in Seq(Cmds) /\ RecsOf(h) \in Seq(AofRecords)
  BY <1>1, FilesType, BaseOfType, RecsOfType
<1>3. Ahead(ls) = BasesOf(ls) \o LogCommands(LogsOf(ls)) /\ Ahead(t) = b \o LogCommands(l)
  BY DEF Ahead
<1>4. LogCommands(l) \in Seq(Cmds)
  <2> HIDE DEF l
  <2>1. QED
    BY <1>2, LogType
<1>5. ASSUME IsBase(h) PROVE Ahead(ls) = BaseCommands(h) \o Ahead(t)
  <2> DEFINE c == BaseCommands(h)
             z == LogCommands(l)
  <2>1. BaseOf(h) = c /\ RecsOf(h) = <<>>
    BY <1>5 DEF BaseOf, RecsOf, IsBase, IsLog
  <2>2. <<>> \o l = l
    <3> HIDE DEF l
    <3>1. QED
      BY <1>2, EmptyLeft
  <2>3. c \in Seq(Cmds)
    BY <1>2, <2>1
  <2>4. Ahead(ls) = (c \o b) \o z
    BY <1>1, <1>3, <2>1, <2>2
  <2>5. Ahead(t) = b \o z /\ z \in Seq(Cmds)
    BY <1>3, <1>4
  <2> HIDE DEF c, b, z
  <2>6. (c \o b) \o z = c \o (b \o z)
    BY <1>2, <2>3, <2>5, ConcatAssociative
  <2>7. QED
    BY <2>4, <2>5, <2>6 DEF c
<1>6. ASSUME Missing(h) PROVE Ahead(ls) = Ahead(t)
  <2>1. BaseOf(h) = <<>> /\ RecsOf(h) = <<>>
    BY <1>6 DEF BaseOf, RecsOf, IsBase, IsLog
  <2> HIDE DEF b, l
  <2>2. <<>> \o l = l /\ <<>> \o b = b
    BY <1>2, EmptyLeft
  <2>3. QED
    BY <1>1, <1>3, <2>1, <2>2
<1>7. ASSUME IsLog(h) PROVE Ahead(ls) = LogCommands(disk.files[h.name].recs \o l)
  <2>1. RecsOf(h) = disk.files[h.name].recs
    BY <1>7 DEF RecsOf
  <2>2. \A i \in DOMAIN ls : ls[i].type # "b"
    <3>1. ls \in Seq(FileInfos) /\ h = ls[1]
      BY <1>0, Uncons DEF AllOK
    <3>2. ls[1].type # "b"
      BY <1>7, <3>1 DEF IsLog
    <3>3. QED
      BY <3>2 DEF FilesOK
  <2>3. Ahead(ls) = LogCommands(LogsOf(ls))
    BY <1>0, <2>2, AheadLogs
  <2>4. QED
    BY <1>1, <2>1, <2>3
<1>8. QED
  BY <1>5, <1>6, <1>7

(* A listing is made of files as it may have them. *)
LEMMA JoinOK ==
  ASSUME NEW S, NEW T, NEW p \in Seq(S), NEW q \in Seq(T)
  PROVE  /\ p \o q \in Seq(S \cup T)
         /\ \A i \in DOMAIN (p \o q) : \/ i \in 1..Len(p) /\ (p \o q)[i] \in S
                                       \/ i > Len(p) /\ (p \o q)[i] \in T
<1>1. p \in Seq(S \cup T) /\ q \in Seq(S \cup T) /\ Len(p) \in Nat /\ Len(q) \in Nat
  OBVIOUS
<1>2. p \o q \in Seq(S \cup T) /\ Len(p \o q) = Len(p) + Len(q)
  BY <1>1, ConcatProperties
<1>3. ASSUME NEW i \in DOMAIN (p \o q)
      PROVE  \/ i \in 1..Len(p) /\ (p \o q)[i] \in S
             \/ i > Len(p) /\ (p \o q)[i] \in T
  <2>1. i \in 1..(Len(p) + Len(q))
    BY <1>2
  <2>2. CASE i <= Len(p)
    <3>1. i \in 1..Len(p) /\ (p \o q)[i] = p[i]
      BY <1>1, <2>1, <2>2, ConcatProperties
    <3>2. QED
      BY <3>1
  <2>3. CASE ~(i <= Len(p))
    <3>1. i - Len(p) \in 1..Len(q) /\ i > Len(p)
      BY <1>1, <2>1, <2>3
    <3>2. (p \o q)[i] = q[i - Len(p)]
      BY <1>1, <2>1, <2>3, ConcatProperties
    <3>3. QED
      BY <3>1, <3>2
  <2>4. QED
    BY <2>2, <2>3
<1>4. QED
  BY <1>2, <1>3

LEMMA ListingOK ==
  ASSUME Disk(disk), disk.path.kind = "manifest"
  PROVE  /\ AllOK(Listing)
         /\ Len(InfosOf(disk.path.lines, "b")) <= 1 => FilesOK(Listing)
<1> DEFINE B == InfosOf(disk.path.lines, "b")
           H == InfosOf(disk.path.lines, "h")
           I == InfosOf(disk.path.lines, "i")
           K(t) == {l \in FileInfos : l.type = t /\ FileOK(l)}
           p == IF B # <<>> THEN B ELSE H
           t == IF B # <<>> THEN "b" ELSE "h"
<1>1. B \in Seq(K("b")) /\ H \in Seq(K("h")) /\ I \in Seq(K("i"))
  BY ListedOK
<1>2. Listing = p \o I
  BY DEF Listing
<1>3. p \in Seq(K(t)) /\ (t = "b" => p = B)
  BY <1>1
<1>4. /\ p \o I \in Seq(K(t) \cup K("i"))
      /\ \A i \in DOMAIN (p \o I) : \/ i \in 1..Len(p) /\ (p \o I)[i] \in K(t)
                                    \/ i > Len(p) /\ (p \o I)[i] \in K("i")
  <2> HIDE DEF p, t, K, I
  <2>1. QED
    BY <1>1, <1>3, JoinOK
<1>5. \A x, l : l \in K(x) => l \in FileInfos /\ l.type = x /\ FileOK(l)
  OBVIOUS
<1> DEFINE ls == p \o I
<1>6. AllOK(ls)
  <2>1. \A i \in DOMAIN ls : ls[i] \in FileInfos /\ FileOK(ls[i])
    <3> HIDE DEF K, p, t, I
    <3>1. QED
      BY <1>4, <1>5
  <2>2. ls \in Seq(FileInfos)
    <3>1. K(t) \cup K("i") \subseteq FileInfos
      OBVIOUS
    <3> HIDE DEF K, p, t, I
    <3>2. QED
      BY <1>4, <3>1
  <2> HIDE DEF ls
  <2>3. QED
    BY <2>1, <2>2 DEF AllOK
<1>7. ASSUME Len(B) <= 1 PROVE FilesOK(ls)
  <2>1. ASSUME NEW i \in DOMAIN ls, ls[i].type = "b" PROVE i = 1
    <3>1. i \in 1..Len(p) /\ t = "b"
      <4>1. t \in {"b", "h"}
        OBVIOUS
      <4> HIDE DEF K, p, t, I
      <4>2. QED
        BY <1>4, <1>5, <2>1, <4>1
    <3>2. i \in 1..Len(B) /\ Len(B) \in Nat
      BY <1>1, <1>3, <3>1
    <3> HIDE DEF B
    <3>3. QED
      BY <1>7, <3>2
  <2>2. OneLog => \A i, j \in DOMAIN ls : IsLog(ls[i]) /\ IsLog(ls[j]) => i = j
    <3>1. ls = Listing
      BY <1>2
    <3> HIDE DEF ls
    <3>2. QED
      BY <3>1 DEF OneLog
  <2> HIDE DEF ls
  <2>3. QED
    BY <1>6, <2>1, <2>2 DEF FilesOK
<1>8. ls = Listing
  BY <1>2
<1> HIDE DEF ls
<1>9. QED
  BY <1>6, <1>7, <1>8

LEMMA WholeIs ==
  ASSUME Disk(disk)
  PROVE  /\ WholeLog \in Seq(Cmds)
         /\ disk.path.kind = "aof" => WholeLog = LogCommands(disk.path.recs)
         /\ disk.path.kind = "manifest" => WholeLog = Ahead(Listing)
<1>1. CASE AofFile(disk.path)
  <2>1. disk.path.recs \in Seq(AofRecords) /\ disk.path.kind = "aof"
    BY <1>1 DEF AofFile
  <2>2. LogCommands(disk.path.recs) \in Seq(Cmds)
    BY <2>1, LogType
  <2>3. QED
    BY <2>1, <2>2 DEF WholeLog
<1>2. CASE disk.path.kind = "manifest"
  <2>1. Ahead(Listing) \in Seq(Cmds)
    BY <1>2, ListingOK, AheadType
  <2>2. WholeLog = Ahead(Listing)
    BY <1>2 DEF WholeLog, Ahead
  <2>3. QED
    BY <1>2, <2>1, <2>2
<1>3. QED
  BY <1>1, <1>2 DEF Disk

(* The files do not change. *)
LEMMA SameFiles ==
  ASSUME UNCHANGED <<disk, timestamp>>, NEW s, NEW a, NEW r, NEW ch, NEW c
  PROVE  BackupAt(s, a, r, ch, c)' <=> BackupAt(s, a, r, ch, c)
<1>1. ASSUME NEW ls PROVE BasesOf(ls)' = BasesOf(ls) /\ LogsOf(ls)' = LogsOf(ls)
  BY DEF BasesOf, LogsOf, IsLog, IsBase, Missing, BaseCommands
<1>2. ASSUME NEW recs PROVE LogCommands(recs)' = LogCommands(recs)
  BY DEF LogCommands, LogEnds
<1>3. ASSUME NEW ls PROVE Ahead(ls)' = Ahead(ls)
  BY DEF Ahead, LogCommands, LogEnds, BasesOf, LogsOf, IsLog, IsBase, Missing, BaseCommands
<1>4. WholeLog' = WholeLog
  BY DEF WholeLog, Listing, LogCommands, LogEnds, BasesOf, LogsOf, IsLog, IsBase, Missing, BaseCommands
<1>5. OneLog' <=> OneLog
  BY DEF OneLog, Listing, IsLog, Missing
<1>6. ASSUME NEW ls PROVE FilesOK(ls)' <=> FilesOK(ls)
  BY <1>5 DEF FilesOK, AllOK, FileOK, IsLog, Missing
<1>7. ASSUME NEW b PROVE ManifestAt(b)' <=> ManifestAt(b)
  BY DEF ManifestAt, PathLinesAre, ManifestLines
<1>8. OnTrack(s, a, r, ch)' <=> OnTrack(s, a, r, ch)
  BY <1>1, <1>2, <1>3, <1>4 DEF OnTrack, Coming, Behind, InBase, Flight
<1>9. Begun(s)' <=> Begun(s)
  BY <1>4 DEF Begun
<1>10. Lost(s, a, c)' <=> Lost(s, a, c)
  BY <1>9 DEF Lost
<1>11. ASSUME NEW recs PROVE NoLog(recs)' <=> NoLog(recs)
  BY DEF NoLog
<1>12. (\A t : PathLinesAre(t)' = PathLinesAre(t)) /\ NoLog(Records(disk.path))' = NoLog(Records(disk.path))
  BY DEF PathLinesAre, NoLog
<1>13. QED
  BY <1>4, <1>5, <1>6, <1>7, <1>8, <1>9, <1>10, <1>11, <1>12 DEF BackupAt, Missing

(* The types of what the invariant speaks of. *)
Typed(s, a, r, ch) ==
  /\ Disk(disk) /\ timestamp \in Nat
  /\ s \in Seq(Kept) /\ AofGood(a) /\ r \in RdbType /\ ch \in Seq(Kept)

LEMMA TypedParts ==
  ASSUME NEW s, NEW a, NEW r, NEW ch, Typed(s, a, r, ch)
  PROVE  /\ a \in AofType /\ a.todo \in Seq(FileInfos) /\ a.recs \in Seq(AofRecords) /\ a.e \in Seq(Kept)
         /\ a.lines \in Seq(Lines) /\ a.lineNum \in Nat /\ a.at \in Nat /\ a.am \in ManifestType
         /\ r.pending \in Seq(Kept) /\ r.rest \in Seq(Opcodes)
BY DEF Typed, AofGood, AofType, RdbType

LEMMA ComingType ==
  ASSUME NEW s, NEW a, NEW r, NEW ch, NEW c, Typed(s, a, r, ch), BackupAt(s, a, r, ch, c),
         a.pc \in {"next", "forward", "read", "send"}
  PROVE  Coming(a, r) \in Seq(Cmds) /\ Flight(a, r, ch) \in Seq(Kept) /\ (a.pc # "next" => Behind(a) \in Seq(AofRecords))
<1>1. /\ a.todo \in Seq(FileInfos) /\ a.recs \in Seq(AofRecords) /\ a.e \in Seq(Kept) /\ Disk(disk)
      /\ r.pending \in Seq(Kept) /\ r.rest \in Seq(Opcodes) /\ ch \in Seq(Kept)
      /\ a.pc # "next" /\ ~a.single => a.todo # <<>>
  BY TypedParts DEF Typed, AofGood
<1>2. Flight(a, r, ch) \in Seq(Kept)
  <2>1. ch \o r.pending \in Seq(Kept)
    BY <1>1
  <2>2. QED
    BY <1>1, <2>1 DEF Flight
<1>3. ~a.single => AllOK(a.todo) /\ FilesOK(a.todo)
  BY DEF BackupAt, FilesOK
<1>4. ASSUME a.pc # "next", ~a.single
      PROVE  AllOK(Tail(a.todo)) /\ Ahead(Tail(a.todo)) \in Seq(Cmds) /\ LogsOf(Tail(a.todo)) \in Seq(AofRecords)
  <2>1. AllOK(Tail(a.todo))
    BY <1>1, <1>3, <1>4, TailOK DEF FilesOK
  <2>2. QED
    BY <1>1, <2>1, AheadType, FilesType
<1>5. a.pc # "next" => Behind(a) \in Seq(AofRecords)
  BY <1>4 DEF Behind
<1>6. CASE a.pc = "next"
  <2>1. ~a.single
    BY <1>6 DEF BackupAt
  <2>2. Ahead(a.todo) \in Seq(Cmds)
    BY <1>1, <1>3, <2>1, AheadType
  <2>3. QED
    BY <1>2, <1>6, <2>2 DEF Coming
<1>7. CASE a.pc = "forward"
  <2> DEFINE x == SnapshotCommands(r.rest)
             y == Ahead(Tail(a.todo))
  <2>1. ~a.single
    BY <1>7 DEF BackupAt, InBase
  <2>2. x \in Seq(Cmds) /\ y \in Seq(Cmds)
    BY <1>1, <1>4, <1>7, <2>1, SnapshotType
  <2>3. Coming(a, r) = x \o y
    BY <1>7 DEF Coming
  <2> HIDE DEF x, y
  <2>4. QED
    BY <1>2, <1>5, <2>2, <2>3
<1>8. CASE a.pc \in {"read", "send"} /\ InBase(a)
  <2> DEFINE x == CommandsOf(a.recs)
             y == Ahead(Tail(a.todo))
  <2>1. ~a.single
    BY <1>8 DEF InBase
  <2>2. x \in Seq(Cmds) /\ y \in Seq(Cmds)
    BY <1>1, <1>4, <1>8, <2>1, CommandsType
  <2>3. Coming(a, r) = x \o y
    BY <1>8 DEF Coming
  <2> HIDE DEF x, y
  <2>4. QED
    BY <1>2, <1>5, <2>2, <2>3
<1>9. CASE a.pc \in {"read", "send"} /\ ~InBase(a)
  <2> DEFINE x == a.recs \o Behind(a)
  <2>1. x \in Seq(AofRecords)
    BY <1>1, <1>5, <1>9
  <2>2. Coming(a, r) = LogCommands(x)
    BY <1>9 DEF Coming
  <2> HIDE DEF x
  <2>3. QED
    BY <1>2, <1>5, <2>1, <2>2, LogType
<1>10. QED
  BY <1>6, <1>7, <1>8, <1>9

(* On track, what was sent is a beginning of the log. *)
LEMMA TrackBegun ==
  ASSUME NEW s, NEW a, NEW r, NEW ch, NEW c, Typed(s, a, r, ch), BackupAt(s, a, r, ch, c),
         a.pc \in {"next", "forward", "read", "send"}, OnTrack(s, a, r, ch)
  PROVE  Begun(s)
<1> DEFINE f == Flight(a, r, ch)
           z == Coming(a, r)
           x == OwnCommands(s)
           y == OwnCommands(f)
<1>1. f \in Seq(Kept) /\ z \in Seq(Cmds) /\ s \in Seq(Kept)
  BY ComingType DEF Typed
<1>2. OwnCommands(s \o f) \o z = WholeLog
  BY DEF OnTrack
<1> HIDE DEF f, z
<1>3. OwnCommands(s \o f) = x \o y /\ x \in Seq(Cmds) /\ y \in Seq(Cmds)
  BY <1>1, OwnConcat, OwnType
<1> HIDE DEF x, y
<1>4. (x \o y) \o z = x \o (y \o z) /\ y \o z \in Seq(Cmds)
  BY <1>1, <1>3, ConcatAssociative
<1>5. x \o (y \o z) = WholeLog
  BY <1>2, <1>3, <1>4
<1>6. QED
  BY <1>4, <1>5 DEF Begun, x

(* Nothing sent is a beginning of everything. *)
LEMMA NothingBegun == ASSUME Disk(disk) PROVE Begun(<<>>)
<1>1. WholeLog \in Seq(Cmds) /\ OwnCommands(<<>>) = <<>>
  BY WholeIs, OwnEmpty
<1>2. OwnCommands(<<>>) \o WholeLog = WholeLog
  BY <1>1, EmptyLeft
<1>3. QED
  BY <1>1, <1>2 DEF Begun

(* Between two entries nothing is in flight. *)
LEMMA TrackNow ==
  ASSUME NEW s \in Seq(Kept), NEW a, NEW r, NEW ch, a.pc # "forward", a.e = <<>>
  PROVE  OnTrack(s, a, r, ch) <=> OwnCommands(s) \o Coming(a, r) = WholeLog
<1>1. s \o Flight(a, r, ch) = s
  BY EmptyLeft DEF Flight
<1>2. QED
  BY <1>1 DEF OnTrack

LEMMA BegunNow ==
  ASSUME NEW s, NEW a, NEW r, NEW ch, NEW c, Typed(s, a, r, ch), BackupAt(s, a, r, ch, c),
         a.pc \in {"next", "forward", "read", "send"}
  PROVE  Begun(s)
<1>1. CASE a.single /\ disk.path.kind = "manifest"
  <2>1. a.pc \in {"read", "send"}
    BY <1>1 DEF BackupAt, InBase
  <2>2. s = <<>>
    BY <1>1, <2>1 DEF BackupAt
  <2>3. QED
    BY <2>2, NothingBegun DEF Typed
<1>2. CASE ~(a.single /\ disk.path.kind = "manifest")
  <2>1. OnTrack(s, a, r, ch) \/ Lost(s, a, c)
    BY <1>2 DEF BackupAt
  <2>2. QED
    BY <2>1, TrackBegun DEF Lost
<1>3. QED
  BY <1>1, <1>2

(* On with the next file. *)
LEMMA GoingOn ==
  ASSUME NEW s, NEW a, NEW c, a.pc = "next", a.e = <<>>, ~a.single, disk.path.kind = "manifest", FilesOK(a.todo),
         OnTrack(s, a, IdleRdb, <<>>) \/ Lost(s, a, c)
  PROVE  BackupAt(s, a, IdleRdb, <<>>, c)
BY DEF BackupAt
-----------------------------------------------------------------------------
(* Its steps, one by one. *)

LEMMA CloseAt ==
  ASSUME NEW s, NEW a, NEW r, NEW ch, NEW c, Typed(s, a, r, ch), BackupAt(s, a, r, ch, c),
         a.pc = "close", NEW b, b = [a EXCEPT !.pc = "closed"]
  PROVE  BackupAt(s, b, r, ch, c)
<1>1. b.pc = "closed" /\ b.e = a.e
  BY TypedParts DEF AofType
<1>2. a.e = <<>> /\ ch = <<>> /\ r = IdleRdb /\ Begun(s) /\ (~c /\ OneLog => OwnCommands(s) = WholeLog)
  BY DEF BackupAt
<1>3. QED
  BY <1>1, <1>2 DEF BackupAt

(* Nothing is left of the files. *)
LEMMA NoneAhead == Ahead(<<>>) = <<>>
<1>1. Ahead(<<>>) = <<>> \o <<>>
  BY FilesEmpty, LogEmpty DEF Ahead
<1>2. QED
  BY <1>1

LEMMA AllFilesAt ==
  ASSUME NEW s, NEW a, NEW r, NEW ch, NEW c, Typed(s, a, r, ch), BackupAt(s, a, r, ch, c),
         a.pc = "next", a.todo = <<>>, NEW b, b = [a EXCEPT !.pc = "close"]
  PROVE  BackupAt(s, b, r, ch, c)
<1>1. b.pc = "close" /\ b.e = a.e /\ s \in Seq(Kept)
  BY TypedParts DEF AofType, Typed
<1>2. a.e = <<>> /\ ch = <<>> /\ r = IdleRdb /\ ~a.single
  BY DEF BackupAt
<1>3. Begun(s)
  BY BegunNow
<1>4. OnTrack(s, a, r, ch) \/ Lost(s, a, c)
  BY <1>2 DEF BackupAt
<1>5. ASSUME ~c PROVE OwnCommands(s) = WholeLog
  <2>1. OnTrack(s, a, r, ch)
    BY <1>4, <1>5 DEF Lost
  <2>2. OwnCommands(s) \o Coming(a, r) = WholeLog
    BY <1>1, <1>2, <2>1, TrackNow
  <2>3. Coming(a, r) = <<>>
    BY NoneAhead DEF Coming
  <2>4. OwnCommands(s) \in Seq(Cmds)
    BY <1>1, OwnType
  <2>5. QED
    BY <2>2, <2>3, <2>4, EmptyLeft
<1>6. QED
  BY <1>1, <1>2, <1>3, <1>5 DEF BackupAt

(* A file is opened. *)
LEMMA OpenAt ==
  ASSUME NEW s, NEW a, NEW r, NEW ch, NEW c, Typed(s, a, r, ch), BackupAt(s, a, r, ch, c),
         a.pc = "next", a.todo # <<>>, NEW b, NEW q,
         \/ Missing(Head(a.todo)) /\ b = [a EXCEPT !.todo = Tail(@)] /\ q = r
         \/ /\ ~Missing(Head(a.todo)) /\ disk.files[Head(a.todo).name].kind = "rdb"
            /\ b = [a EXCEPT !.pc = "forward"] /\ q = StartRdb(disk.files[Head(a.todo).name].ops, TRUE)
         \/ /\ ~Missing(Head(a.todo)) /\ disk.files[Head(a.todo).name].kind = "aof"
            /\ b = [a EXCEPT !.pc = "read", !.recs = disk.files[Head(a.todo).name].recs,
                             !.at = IF Head(a.todo).type = "b" THEN 0 ELSE timestamp] /\ q = r
  PROVE  BackupAt(s, b, q, ch, c)
<1> DEFINE l == Head(a.todo)
           f == disk.files[l.name]
<1>1. /\ a \in AofType /\ a.todo \in Seq(FileInfos) /\ s \in Seq(Kept) /\ Disk(disk) /\ timestamp \in Nat
      /\ OwnCommands(s) \in Seq(Cmds)
  BY TypedParts, OwnType DEF Typed
<1>2. /\ a.e = <<>> /\ ch = <<>> /\ r = IdleRdb /\ ~a.single /\ FilesOK(a.todo) /\ disk.path.kind = "manifest"
      /\ OnTrack(s, a, r, ch) \/ Lost(s, a, c)
  BY DEF BackupAt
<1>3. /\ FilesOK(Tail(a.todo)) /\ \A i \in DOMAIN Tail(a.todo) : Tail(a.todo)[i].type # "b"
  BY <1>2, TailOK
<1>4. OnTrack(s, a, r, ch) <=> OwnCommands(s) \o Ahead(a.todo) = WholeLog
  BY <1>1, <1>2, TrackNow DEF Coming
<1>5. FileOK(l) /\ l = a.todo[1] /\ 1 \in DOMAIN a.todo /\ l \in FileInfos
  BY <1>1, <1>2, Uncons DEF FilesOK, AllOK
<1>6. CASE Missing(l) /\ b = [a EXCEPT !.todo = Tail(@)] /\ q = r
  <2>1. b.pc = "next" /\ b.e = <<>> /\ ~b.single /\ b.todo = Tail(a.todo)
    BY <1>1, <1>2, <1>6 DEF AofType
  <2>2. ASSUME OnTrack(s, a, r, ch) PROVE OnTrack(s, b, IdleRdb, <<>>)
    <3>1. Ahead(a.todo) = Ahead(b.todo)
      BY <1>1, <1>2, <1>6, <2>1, AheadHead
    <3>2. OwnCommands(s) \o Coming(b, IdleRdb) = WholeLog
      BY <1>4, <2>1, <2>2, <3>1 DEF Coming
    <3>3. QED
      BY <1>1, <2>1, <3>2, TrackNow
  <2>3. Lost(s, a, c) => Lost(s, b, c)
    BY <1>3, <2>1 DEF Lost
  <2>4. QED
    BY <1>2, <1>3, <1>6, <2>1, <2>2, <2>3, GoingOn
<1>7. CASE ~Missing(l) /\ f.kind = "rdb" /\ b = [a EXCEPT !.pc = "forward"] /\ q = StartRdb(f.ops, TRUE)
  <2>1. b.pc = "forward" /\ b.e = <<>> /\ ~b.single /\ b.todo = a.todo
    BY <1>1, <1>2, <1>7 DEF AofType
  <2>2. l.type = "b"
    BY <1>5, <1>7 DEF FileOK, IsLog, AofFile
  <2>3. ~Lost(s, a, c)
    BY <1>5, <2>2 DEF Lost
  <2>4. q.pc = "read" /\ q.pending = <<>> /\ q.rest = f.ops
    BY <1>7 DEF StartRdb, IdleRdb
  <2>5. IsBase(l)
    BY <1>7, <2>2 DEF IsBase
  <2>6. Ahead(a.todo) = BaseCommands(l) \o Ahead(Tail(a.todo))
    BY <1>1, <1>2, <2>5, AheadHead
  <2>7. Coming(b, q) = Ahead(a.todo)
    BY <1>7, <2>1, <2>4, <2>6 DEF Coming, BaseCommands
  <2>8. s \o Flight(b, q, ch) = s
    <3>1. Flight(b, q, ch) = <<>> \o <<>>
      BY <1>2, <2>1, <2>4 DEF Flight
    <3>2. QED
      BY <1>1, <3>1, EmptyLeft
  <2>9. OnTrack(s, b, q, ch)
    BY <1>2, <1>4, <2>3, <2>7, <2>8 DEF OnTrack
  <2>10. InBase(b) /\ SnapshotAt(q, c) /\ ~Missing(Head(b.todo))
    BY <1>7, <2>1, <2>2, <2>4 DEF InBase, SnapshotAt
  <2>11. QED
    BY <1>2, <2>1, <2>9, <2>10 DEF BackupAt
<1>8. CASE /\ ~Missing(l) /\ f.kind = "aof" /\ q = r
           /\ b = [a EXCEPT !.pc = "read", !.recs = f.recs, !.at = IF l.type = "b" THEN 0 ELSE timestamp]
  <2>1. b.pc = "read" /\ b.e = <<>> /\ ~b.single /\ b.todo = a.todo /\ b.recs = f.recs
    BY <1>1, <1>2, <1>8 DEF AofType
  <2>2. b.at = IF l.type = "b" THEN 0 ELSE timestamp
    BY <1>1, <1>8 DEF AofType
  <2>3. InBase(b) <=> l.type = "b"
    BY <2>1 DEF InBase
  <2>4. ASSUME OnTrack(s, a, r, ch) PROVE OnTrack(s, b, q, ch)
    <3>1. Coming(b, q) = Ahead(a.todo)
      <4>1. CASE l.type = "b"
        <5>1. Ahead(a.todo) = BaseCommands(l) \o Ahead(Tail(a.todo))
          BY <1>1, <1>2, <1>8, <4>1, AheadHead DEF IsBase
        <5>2. BaseCommands(l) = CommandsOf(f.recs)
          BY <1>8 DEF BaseCommands
        <5>3. QED
          BY <2>1, <2>3, <4>1, <5>1, <5>2 DEF Coming
      <4>2. CASE l.type # "b"
        <5>1. Ahead(a.todo) = LogCommands(f.recs \o LogsOf(Tail(a.todo)))
          BY <1>1, <1>2, <1>8, <4>2, AheadHead DEF IsLog
        <5>2. QED
          BY <2>1, <2>3, <4>2, <5>1 DEF Coming, Behind
      <4>3. QED
        BY <4>1, <4>2
    <3>2. QED
      BY <1>1, <1>4, <2>1, <2>4, <3>1, TrackNow
  <2>5. Lost(s, a, c) => Lost(s, b, c)
    BY <2>1 DEF Lost
  <2>6. ~Missing(Head(b.todo))
    BY <1>8, <2>1
  <2>7. OnTrack(s, b, q, ch) \/ Lost(s, b, c)
    BY <1>2, <2>4, <2>5
  <2>8. q = IdleRdb /\ FilesOK(b.todo)
    BY <1>2, <1>8, <2>1
  <2>9. QED
    BY <1>2, <2>1, <2>2, <2>3, <2>6, <2>7, <2>8 DEF BackupAt
<1>9. QED
  BY <1>6, <1>7, <1>8
(* The file at the path is taken for an AOF. *)
LEMMA SingleAt ==
  ASSUME NEW s, NEW a, NEW r, NEW ch, NEW c, Typed(s, a, r, ch), BackupAt(s, a, r, ch, c),
         a.pc = "single", NEW b,
         b = [a EXCEPT !.pc = "read", !.single = TRUE, !.at = timestamp, !.recs = Records(disk.path)]
  PROVE  BackupAt(s, b, r, ch, c)
<1>1. a \in AofType /\ Disk(disk)
  BY TypedParts DEF Typed
<1>2. /\ a.e = <<>> /\ ch = <<>> /\ r = IdleRdb /\ s = <<>> /\ NoLog(Records(disk.path))
  BY DEF BackupAt
<1>3. b.pc = "read" /\ b.e = <<>> /\ b.single /\ b.at = timestamp /\ b.recs = Records(disk.path)
  BY <1>1, <1>2 DEF AofType
<1>4. ASSUME disk.path.kind # "manifest" PROVE OnTrack(s, b, r, ch)
  <2>1. disk.path.kind = "aof" /\ disk.path.recs \in Seq(AofRecords)
    BY <1>1, <1>4 DEF Disk, AofFile
  <2>2. b.recs = disk.path.recs /\ WholeLog = LogCommands(disk.path.recs) /\ WholeLog \in Seq(Cmds)
    BY <1>1, <1>3, <2>1, WholeIs DEF Records
  <2>3. Coming(b, r) = LogCommands(b.recs \o <<>>)
    BY <1>3 DEF Coming, Behind, InBase
  <2>4. b.recs \o <<>> = b.recs
    BY <2>1, <2>2, EmptyLeft
  <2>5. <<>> \o WholeLog = WholeLog
    BY <2>2, EmptyLeft
  <2>6. OwnCommands(s) \o Coming(b, r) = WholeLog
    BY <1>2, <2>2, <2>3, <2>4, <2>5, OwnEmpty
  <2>7. s \in Seq(Kept)
    BY DEF Typed
  <2>8. QED
    BY <1>3, <2>6, <2>7, TrackNow
<1>5. ~InBase(b)
  BY <1>3 DEF InBase
<1>6. NoLog(b.recs)
  BY <1>2, <1>3
<1>7. QED
  BY <1>2, <1>3, <1>4, <1>5, <1>6 DEF BackupAt

(* An AOF looks like no manifest. *)
LEMMA NoInfos == ASSUME Disk(disk), disk.path.kind # "manifest", NEW t PROVE PathLinesAre(t) = <<>>
<1> DEFINE lines == ManifestLines(disk.path)
<1>1. lines \in Seq(Lines)
  BY PathLines
<1>2. \A i \in DOMAIN lines : lines[i].line # "info"
  BY DEF ManifestLines, AsLine
<1> HIDE DEF lines
<1>3. InfosOf(lines, t) = <<>>
  BY <1>1, <1>2, InfosNone
<1>4. QED
  BY <1>3 DEF PathLinesAre, lines

(* Empty files stand for nothing. *)
LEMMA EmptyFile ==
  ASSUME Disk(disk), NEW l, ~Missing(l), Size(disk.files[l.name]) = 0
  PROVE  BaseOf(l) = <<>> /\ (FileOK(l) => RecsOf(l) = <<>>)
<1> DEFINE f == disk.files[l.name]
<1>1. AofFile(f) \/ RdbFile(f)
  BY DEF Disk, Missing
<1>2. /\ BaseOf(l) = IF IsBase(l) THEN IF f.kind = "rdb" THEN SnapshotCommands(f.ops) ELSE CommandsOf(f.recs) ELSE <<>>
      /\ RecsOf(l) = IF IsLog(l) THEN f.recs ELSE <<>>
      /\ Size(f) = 0
  BY DEF BaseOf, BaseCommands, RecsOf
<1>3. FileOK(l) /\ IsLog(l) => AofFile(f)
  BY DEF FileOK
<1> HIDE DEF f
<1>4. f.kind = "rdb" => f.ops = <<>>
  BY <1>1, <1>2 DEF RdbFile, AofFile, Snapshot, Size
<1>5. f.kind # "rdb" => f.recs = <<>>
  BY <1>1, <1>2 DEF RdbFile, AofFile, Size
<1>6. AofFile(f) => f.recs = <<>>
  BY <1>5 DEF AofFile
<1>7. BaseOf(l) = <<>>
  BY <1>2, <1>4, <1>5, SnapshotEmpty, CommandsEmpty
<1>8. FileOK(l) => RecsOf(l) = <<>>
  BY <1>2, <1>3, <1>6
<1>9. QED
  BY <1>2, <1>7, <1>8 DEF f

LEMMA NothingAhead ==
  ASSUME Disk(disk), NEW ls, AllOK(ls), \A i \in DOMAIN ls : Missing(ls[i]) \/ Size(disk.files[ls[i].name]) = 0
  PROVE  Ahead(ls) = <<>>
<1>1. ASSUME NEW i \in DOMAIN ls PROVE BaseOf(ls[i]) = <<>> /\ RecsOf(ls[i]) = <<>>
  <2>1. FileOK(ls[i])
    BY DEF AllOK
  <2>2. CASE Missing(ls[i])
    BY <2>2 DEF BaseOf, RecsOf, IsBase, IsLog
  <2>3. CASE ~Missing(ls[i])
    BY <2>1, <2>3, EmptyFile
  <2>4. QED
    BY <2>2, <2>3
<1>2. BasesOf(ls) = <<>> /\ LogsOf(ls) = <<>>
  BY <1>1, FilesNone
<1>3. QED
  BY <1>2, LogEmpty DEF Ahead
(* All base and incremental files are there and empty: so is the log. *)
LEMMA AllEmpty ==
  ASSUME Disk(disk), disk.path.kind = "manifest", OneLog,
         NEW base, NEW hist, NEW incr,
         base = InfosOf(disk.path.lines, "b"), hist = InfosOf(disk.path.lines, "h"),
         incr = InfosOf(disk.path.lines, "i"), base \o incr # <<>>,
         \A i \in DOMAIN (base \o incr) :
           ~Missing((base \o incr)[i]) /\ Size(disk.files[(base \o incr)[i].name]) = 0
  PROVE  WholeLog = <<>>
<1> DEFINE K(t) == {l \in FileInfos : l.type = t /\ FileOK(l)}
<1>1. base \in Seq(FileInfos) /\ hist \in Seq(K("h")) /\ incr \in Seq(K("i"))
  <2>1. base \in Seq(K("b")) /\ hist \in Seq(K("h")) /\ incr \in Seq(K("i"))
    BY ListedOK
  <2>2. K("b") \subseteq FileInfos
    OBVIOUS
  <2> HIDE DEF K
  <2>3. QED
    BY <2>1, <2>2
<1>2. Listing = IF base # <<>> THEN base \o incr ELSE hist \o incr
  BY DEF Listing
<1>3. AllOK(Listing) /\ WholeLog = Ahead(Listing)
  BY ListingOK, WholeIs
<1>4. CASE base # <<>>
  BY <1>2, <1>3, <1>4, NothingAhead
<1>5. CASE base = <<>>
  <2> DEFINE n == Len(hist)
  <2>1. \A l \in K("i") : l \in FileInfos /\ l.type = "i"
    OBVIOUS
  <2>2. \A l \in K("h") : l \in FileInfos /\ l.type = "h"
    OBVIOUS
  <2> HIDE DEF K
  <2>3. /\ base \o incr = incr /\ Listing = hist \o incr /\ n \in Nat /\ Len(incr) \in Nat /\ incr # <<>>
        /\ DOMAIN incr = 1..Len(incr)
    BY <1>1, <1>2, <1>5, EmptyLeft
  <2>4. \A i \in DOMAIN incr : ~Missing(incr[i]) /\ Size(disk.files[incr[i].name]) = 0
    BY <2>3
  <2>5. /\ Len(hist \o incr) = n + Len(incr) /\ DOMAIN (hist \o incr) = 1..(n + Len(incr))
        /\ \A i \in 1..n : (hist \o incr)[i] = hist[i]
        /\ \A i \in 1..Len(incr) : (hist \o incr)[n + i] = incr[i]
    BY <1>1, <2>3
  <2> DEFINE ls == Listing
  <2>6. /\ DOMAIN ls = 1..(n + Len(incr)) /\ \A i \in 1..n : ls[i] = hist[i]
        /\ \A i \in 1..Len(incr) : ls[n + i] = incr[i]
    BY <2>3, <2>5
  <2>7. \A i, j \in DOMAIN ls : IsLog(ls[i]) /\ IsLog(ls[j]) => i = j
    BY DEF OneLog
  <2> HIDE DEF ls
  <2>8. n + 1 \in DOMAIN ls /\ IsLog(ls[n + 1])
    <3>1. 1 \in 1..Len(incr) /\ incr[1] \in K("i")
      BY <1>1, <2>3
    <3>2. ls[n + 1] = incr[1] /\ n + 1 \in 1..(n + Len(incr))
      BY <2>3, <2>6, <3>1
    <3>3. QED
      BY <2>1, <2>3, <2>4, <2>6, <3>1, <3>2 DEF IsLog
  <2>9. ASSUME NEW i \in DOMAIN ls PROVE Missing(ls[i]) \/ Size(disk.files[ls[i].name]) = 0
    <3>1. CASE i \in 1..n
      <4>1. ls[i] = hist[i] /\ hist[i] \in K("h") /\ i # n + 1
        BY <1>1, <2>3, <2>6, <3>1
      <4>2. ~IsLog(ls[i])
        BY <2>7, <2>8, <4>1
      <4>3. QED
        BY <2>2, <4>1, <4>2 DEF IsLog
    <3>2. CASE i \notin 1..n
      <4>1. i - n \in 1..Len(incr) /\ n + (i - n) = i
        BY <2>3, <2>6, <3>2
      <4>2. ls[i] = incr[i - n]
        BY <2>6, <4>1
      <4>3. QED
        BY <2>3, <2>4, <4>1, <4>2
    <3>3. QED
      BY <3>1, <3>2
  <2>10. AllOK(ls) /\ WholeLog = Ahead(ls)
    BY <1>3 DEF ls
  <2>11. QED
    BY <2>9, <2>10, NothingAhead
<1>6. QED
  BY <1>4, <1>5

(* The files are counted. *)
MultiStep(a, files, b) ==
  /\ a.pc = "multi" /\ files = BaseAndIncr(a.am) /\ files # <<>> /\ \A i \in DOMAIN files : ~Missing(files[i])
  /\ \/ /\ \A i \in DOMAIN files : Size(disk.files[files[i].name]) = 0
        /\ b = [a EXCEPT !.pc = "close"]
     \/ b = [a EXCEPT !.pc = "next", !.todo = FilesInOrder(a.am)]

LEMMA MultiAt ==
  ASSUME NEW s, NEW a, NEW r, NEW ch, NEW c, Typed(s, a, r, ch), BackupAt(s, a, r, ch, c), NEW files, NEW b,
         MultiStep(a, files, b)
  PROVE  BackupAt(s, b, r, ch, c)
<1> USE DEF MultiStep
<1>1. a \in AofType /\ Disk(disk) /\ a.am \in ManifestType /\ s \in Seq(Kept)
  BY TypedParts DEF Typed
<1>2. /\ a.e = <<>> /\ ch = <<>> /\ r = IdleRdb /\ s = <<>> /\ ~a.single
      /\ a.am.base = PathLinesAre("b") /\ a.am.hist = PathLinesAre("h")
      /\ a.am.incr = PathLinesAre("i") /\ Len(a.am.base) <= 1
  BY DEF BackupAt
<1>3. disk.path.kind = "manifest"
  <2>1. SUFFICES ASSUME disk.path.kind # "manifest" PROVE FALSE
    OBVIOUS
  <2>2. a.am.base = <<>> /\ a.am.incr = <<>>
    BY <1>1, <1>2, <2>1, NoInfos
  <2>3. files = <<>>
    BY <2>2 DEF BaseAndIncr
  <2>4. QED
    BY <2>3
<1>4. /\ a.am.base = InfosOf(disk.path.lines, "b") /\ a.am.hist = InfosOf(disk.path.lines, "h")
      /\ a.am.incr = InfosOf(disk.path.lines, "i")
  BY <1>2, <1>3 DEF PathLinesAre, ManifestLines
<1>5. Begun(s) /\ OwnCommands(s) = <<>>
  BY <1>1, <1>2, NothingBegun, OwnEmpty
<1>6. CASE (\A i \in DOMAIN files : Size(disk.files[files[i].name]) = 0) /\ b = [a EXCEPT !.pc = "close"]
  <2>1. b.pc = "close" /\ b.e = <<>>
    BY <1>1, <1>2, <1>6 DEF AofType
  <2>2. ASSUME OneLog PROVE WholeLog = <<>>
    <3> DEFINE base == a.am.base
               hist == a.am.hist
               incr == a.am.incr
    <3>1. base \o incr = files
      BY DEF BaseAndIncr
    <3>2. /\ base = InfosOf(disk.path.lines, "b") /\ hist = InfosOf(disk.path.lines, "h")
          /\ incr = InfosOf(disk.path.lines, "i")
      BY <1>4
    <3> HIDE DEF base, hist, incr
    <3>3. /\ base \o incr # <<>>
          /\ \A i \in DOMAIN (base \o incr) :
               ~Missing((base \o incr)[i]) /\ Size(disk.files[(base \o incr)[i].name]) = 0
      BY <1>6, <3>1
    <3>4. QED
      BY <1>1, <1>3, <2>2, <3>2, <3>3, AllEmpty
  <2>3. QED
    BY <1>2, <1>5, <2>1, <2>2 DEF BackupAt
<1>7. CASE b = [a EXCEPT !.pc = "next", !.todo = FilesInOrder(a.am)]
  <2>1. b.pc = "next" /\ b.e = <<>> /\ ~b.single /\ b.todo = FilesInOrder(a.am)
    BY <1>1, <1>2, <1>7 DEF AofType
  <2>2. b.todo = Listing
    BY <1>4, <2>1 DEF FilesInOrder, Listing
  <2>3. FilesOK(Listing) /\ WholeLog = Ahead(Listing) /\ WholeLog \in Seq(Cmds)
    BY <1>1, <1>2, <1>3, <1>4, ListingOK, WholeIs
  <2>4. OwnCommands(s) \o Coming(b, IdleRdb) = WholeLog
    <3>1. Coming(b, IdleRdb) = WholeLog
      BY <2>1, <2>2, <2>3 DEF Coming
    <3>2. QED
      BY <1>5, <2>3, <3>1, EmptyLeft
  <2>5. OnTrack(s, b, IdleRdb, <<>>)
    BY <1>1, <2>1, <2>4, TrackNow
  <2>6. QED
    BY <1>2, <1>3, <2>1, <2>2, <2>3, <2>5, GoingOn
<1>8. QED
  BY <1>6, <1>7
(* A manifest in which a line is no comment holds no log. *)
LEMMA NotAnAof ==
  ASSUME Disk(disk),
         disk.path.kind = "manifest" =>
           disk.path.lines = <<>> \/ \E j \in DOMAIN disk.path.lines : disk.path.lines[j].line # "comment"
  PROVE  NoLog(Records(disk.path))
<1>1. SUFFICES ASSUME disk.path.kind = "manifest" PROVE NoLog(Records(disk.path))
  BY DEF NoLog
<1> DEFINE lines == disk.path.lines
           recs == Records(disk.path)
<1>2. lines \in Seq(Lines)
  BY <1>1 DEF Disk, AofFile, ManifestOK
<1>3. recs = [i \in 1..Len(lines) |-> AsRecord(lines[i])]
  BY <1>1 DEF Records
<1>4. lines = <<>> \/ \E j \in DOMAIN lines : lines[j].line # "comment"
  BY <1>1
<1> HIDE DEF lines, recs
<1>5. DOMAIN recs = DOMAIN lines /\ \A i \in DOMAIN lines : recs[i] = AsRecord(lines[i])
  BY <1>2, <1>3
<1>6. \A i \in DOMAIN recs : recs[i].rec \in {"note", "garbage"} /\ (lines[i].line # "comment" => recs[i].rec = "garbage")
  BY <1>5 DEF AsRecord
<1>7. lines = <<>> \/ \E i \in DOMAIN recs : recs[i].rec = "garbage"
  BY <1>4, <1>5, <1>6
<1>8. QED
  BY <1>6, <1>7 DEF NoLog, lines, recs

(* A line with a file is added to its kind. *)
LEMMA AddedFiles ==
  ASSUME NEW am \in ManifestType, NEW l \in FileInfos
  PROVE  /\ AddLine(am, l).base = am.base \o InfoOf(l, "b")
         /\ AddLine(am, l).hist = am.hist \o InfoOf(l, "h")
         /\ AddLine(am, l).incr = am.incr \o InfoOf(l, "i")
<1>1. l.type \in {"b", "h", "i"} /\ l.line = "info" /\ l.baseRdb \in BOOLEAN
  BY DEF FileInfos
<1>2. am.base \in Seq(FileInfos) /\ am.hist \in Seq(FileInfos) /\ am.incr \in Seq(FileInfos)
  BY DEF ManifestType
<1>3. /\ am.base \o <<>> = am.base /\ am.hist \o <<>> = am.hist /\ am.incr \o <<>> = am.incr
      /\ am.base \o <<l>> = Append(am.base, l) /\ am.hist \o <<l>> = Append(am.hist, l)
      /\ am.incr \o <<l>> = Append(am.incr, l)
  BY <1>2
<1>4. CASE l.type = "b"
  <2>1. InfoOf(l, "b") = <<l>> /\ InfoOf(l, "h") = <<>> /\ InfoOf(l, "i") = <<>>
    BY <1>1, <1>4 DEF InfoOf, Wanted
  <2>2. AddLine(am, l) = [am EXCEPT !.base = Append(am.base, l)]
    BY <1>4 DEF AddLine
  <2>3. QED
    BY <1>3, <2>1, <2>2 DEF ManifestType
<1>5. CASE l.type = "h"
  <2>1. InfoOf(l, "b") = <<>> /\ InfoOf(l, "h") = (IF l.baseRdb THEN <<>> ELSE <<l>>) /\ InfoOf(l, "i") = <<>>
    BY <1>1, <1>5 DEF InfoOf, Wanted
  <2>2. AddLine(am, l) = [am EXCEPT !.hist = IF l.baseRdb THEN am.hist ELSE Append(am.hist, l)]
    BY <1>5 DEF AddLine
  <2>3. QED
    BY <1>3, <2>1, <2>2 DEF ManifestType
<1>6. CASE l.type = "i"
  <2>1. InfoOf(l, "b") = <<>> /\ InfoOf(l, "h") = <<>> /\ InfoOf(l, "i") = <<l>>
    BY <1>1, <1>6 DEF InfoOf, Wanted
  <2>2. AddLine(am, l) = [am EXCEPT !.incr = Append(am.incr, l)]
    BY <1>6 DEF AddLine
  <2>3. QED
    BY <1>3, <2>1, <2>2 DEF ManifestType
<1>7. QED
  BY <1>1, <1>4, <1>5, <1>6

(* The next line of a manifest, with what it adds. *)
LEMMA LineRead ==
  ASSUME NEW lines \in Seq(Lines), lines # <<>>, NEW t, NEW x \in Seq(FileInfos), NEW y, y = x \o InfoOf(Head(lines), t)
  PROVE  y \o InfosOf(Tail(lines), t) = x \o InfosOf(lines, t)
<1> DEFINE u == InfoOf(Head(lines), t)
           v == InfosOf(Tail(lines), t)
<1>1. Head(lines) \in Lines /\ Tail(lines) \in Seq(Lines)
  OBVIOUS
<1>2. u \in Seq(FileInfos)
  <2>1. CASE Wanted(Head(lines), t)
    <3>1. Head(lines) \in FileInfos
      BY <1>1, <2>1, WantedInfo
    <3>2. QED
      BY <2>1, <3>1 DEF InfoOf
  <2>2. CASE ~Wanted(Head(lines), t)
    BY <2>2 DEF InfoOf
  <2>3. QED
    BY <2>1, <2>2
<1>3. v \in Seq(FileInfos)
  BY <1>1, InfosType
<1>4. InfosOf(lines, t) = u \o v
  BY InfosHead
<1> HIDE DEF u, v
<1>5. (x \o u) \o v = x \o (u \o v)
  BY <1>2, <1>3, ConcatAssociative
<1>6. QED
  BY <1>4, <1>5 DEF u, v

LEMMA LineAdded ==
  ASSUME NEW a, NEW b, ManifestAt(a), a.am \in ManifestType, a.lines \in Seq(Lines), a.lines # <<>>,
         Len(b.am.base) <= 1, b.am.base = a.am.base \o InfoOf(Head(a.lines), "b"),
         b.am.hist = a.am.hist \o InfoOf(Head(a.lines), "h"), b.am.incr = a.am.incr \o InfoOf(Head(a.lines), "i"),
         b.lines = Tail(a.lines), b.lineNum # 0,
         \A i \in DOMAIN b.lines : b.lines[i].line = "unended" => i = Len(b.lines),
         \A i \in DOMAIN b.lines : \E j \in DOMAIN ManifestLines(disk.path) : b.lines[i] = ManifestLines(disk.path)[j]
  PROVE  ManifestAt(b)
<1>1. a.am.base \in Seq(FileInfos) /\ a.am.hist \in Seq(FileInfos) /\ a.am.incr \in Seq(FileInfos)
  BY DEF ManifestType
<1>2. b.am.base \o InfosOf(Tail(a.lines), "b") = a.am.base \o InfosOf(a.lines, "b")
  BY <1>1, LineRead
<1>3. b.am.hist \o InfosOf(Tail(a.lines), "h") = a.am.hist \o InfosOf(a.lines, "h")
  BY <1>1, LineRead
<1>4. b.am.incr \o InfosOf(Tail(a.lines), "i") = a.am.incr \o InfosOf(a.lines, "i")
  BY <1>1, LineRead
<1>5. QED
  BY <1>2, <1>3, <1>4 DEF ManifestAt

LineStep(a, l, n, b) ==
  /\ a.pc = "manifest" /\ a.lines # <<>> /\ l = Head(a.lines)
  /\ n = [a EXCEPT !.lines = Tail(@), !.lineNum = @ + 1]
  /\ \/ l.line = "comment" /\ b = n
     \/ l.line \in {"blank", "short"} /\ b = [n EXCEPT !.pc = "single"]
     \/ l.line = "info" /\ (l.type = "b" => a.am.base = <<>>) /\ b = [n EXCEPT !.am = AddLine(@, l)]

LEMMA LineAt ==
  ASSUME NEW s, NEW a, NEW r, NEW ch, NEW c, Typed(s, a, r, ch), BackupAt(s, a, r, ch, c), NEW l, NEW n, NEW b,
         LineStep(a, l, n, b)
  PROVE  BackupAt(s, b, r, ch, c)
<1> USE DEF LineStep
<1>1. a \in AofType /\ Disk(disk) /\ a.am \in ManifestType /\ a.lines \in Seq(Lines) /\ a.lineNum \in Nat
  BY TypedParts DEF Typed
<1>2. /\ a.e = <<>> /\ ch = <<>> /\ r = IdleRdb /\ s = <<>> /\ ~a.single /\ ManifestAt(a)
  BY DEF BackupAt
<1>3. /\ n \in AofType /\ n.pc = "manifest" /\ n.e = <<>> /\ ~n.single /\ n.am = a.am
      /\ n.lines = Tail(a.lines) /\ n.lineNum = a.lineNum + 1
  <2>1. Tail(a.lines) \in Seq(Lines) /\ a.lineNum + 1 \in Nat
    BY <1>1
  <2>2. QED
    BY <1>1, <1>2, <2>1 DEF AofType
<1>4. /\ l \in Lines /\ l = a.lines[1] /\ 1 \in DOMAIN a.lines /\ Tail(a.lines) \in Seq(Lines)
      /\ Len(a.lines) = Len(Tail(a.lines)) + 1 /\ Len(Tail(a.lines)) \in Nat
      /\ DOMAIN a.lines = 1..Len(a.lines) /\ DOMAIN Tail(a.lines) = 1..Len(Tail(a.lines))
      /\ \A i \in 1..Len(Tail(a.lines)) : Tail(a.lines)[i] = a.lines[i + 1] /\ i + 1 \in 1..Len(a.lines)
  BY <1>1, Uncons
<1>5. /\ \A i \in DOMAIN n.lines : n.lines[i].line = "unended" => i = Len(n.lines)
      /\ \A i \in DOMAIN n.lines : \E j \in DOMAIN ManifestLines(disk.path) : n.lines[i] = ManifestLines(disk.path)[j]
      /\ n.lineNum # 0
  <2> DEFINE u == Tail(a.lines)
             p == ManifestLines(disk.path)
  <2>1. /\ \A i \in DOMAIN a.lines : a.lines[i].line = "unended" => i = Len(a.lines)
        /\ \A i \in DOMAIN a.lines : \E j \in DOMAIN p : a.lines[i] = p[j]
    BY <1>2 DEF ManifestAt
  <2> HIDE DEF u, p
  <2>2. ASSUME NEW i \in DOMAIN u
        PROVE  (u[i].line = "unended" => i = Len(u)) /\ \E j \in DOMAIN p : u[i] = p[j]
    <3>1. i \in 1..Len(u) /\ u[i] = a.lines[i + 1] /\ i + 1 \in DOMAIN a.lines
      BY <1>4, <2>2 DEF u
    <3>2. u[i].line = "unended" => i + 1 = Len(u) + 1
      BY <1>4, <2>1, <3>1 DEF u
    <3>3. Len(u) \in Nat /\ i \in Nat
      BY <1>4, <3>1 DEF u
    <3>4. u[i].line = "unended" => i = Len(u)
      BY <3>2, <3>3
    <3>5. QED
      BY <2>1, <3>1, <3>4
  <2>3. QED
    BY <1>1, <1>3, <2>2 DEF u, p
<1>6. /\ a.am.base \in Seq(FileInfos) /\ a.am.hist \in Seq(FileInfos) /\ a.am.incr \in Seq(FileInfos)
  BY <1>1 DEF ManifestType
<1>7. ASSUME Len(b.am.base) <= 1, b.am.base = a.am.base \o InfoOf(l, "b"),
             b.am.hist = a.am.hist \o InfoOf(l, "h"), b.am.incr = a.am.incr \o InfoOf(l, "i"),
             b.pc = "manifest", b.e = <<>>, ~b.single, b.lines = n.lines, b.lineNum = n.lineNum
      PROVE  BackupAt(s, b, r, ch, c)
  <2>1. /\ b.lines = Tail(a.lines) /\ b.lineNum # 0
        /\ \A i \in DOMAIN b.lines : b.lines[i].line = "unended" => i = Len(b.lines)
        /\ \A i \in DOMAIN b.lines : \E j \in DOMAIN ManifestLines(disk.path) : b.lines[i] = ManifestLines(disk.path)[j]
    BY <1>3, <1>5, <1>7
  <2>2. ManifestAt(b)
    BY <1>1, <1>2, <1>7, <2>1, LineAdded
  <2>3. QED
    BY <1>2, <1>7, <2>2 DEF BackupAt
<1>8. CASE l.line = "comment" /\ b = n
  <2>1. InfoOf(l, "b") = <<>> /\ InfoOf(l, "h") = <<>> /\ InfoOf(l, "i") = <<>>
    BY <1>8 DEF InfoOf, Wanted
  <2>2. a.am.base \o <<>> = a.am.base /\ a.am.hist \o <<>> = a.am.hist /\ a.am.incr \o <<>> = a.am.incr
    BY <1>6, EmptyLeft
  <2>3. Len(a.am.base) <= 1
    BY <1>2 DEF ManifestAt
  <2>4. QED
    BY <1>3, <1>7, <1>8, <2>1, <2>2, <2>3
<1>9. CASE l.line \in {"blank", "short"} /\ b = [n EXCEPT !.pc = "single"]
  <2>1. b.pc = "single" /\ b.e = <<>> /\ ~b.single
    BY <1>3, <1>9 DEF AofType
  <2>2. \E j \in DOMAIN ManifestLines(disk.path) : l = ManifestLines(disk.path)[j]
    BY <1>2, <1>4 DEF ManifestAt
  <2>3. disk.path.kind = "manifest" => \E j \in DOMAIN disk.path.lines : disk.path.lines[j].line # "comment"
    BY <1>9, <2>2 DEF ManifestLines
  <2>4. NoLog(Records(disk.path))
    BY <1>1, <2>3, NotAnAof
  <2>5. QED
    BY <1>2, <2>1, <2>4 DEF BackupAt
<1>10. CASE l.line = "info" /\ (l.type = "b" => a.am.base = <<>>) /\ b = [n EXCEPT !.am = AddLine(@, l)]
  <2> DEFINE am == AddLine(a.am, l)
  <2>1. l \in FileInfos
    BY <1>4, <1>10 DEF Lines
  <2>2. /\ am.base = a.am.base \o InfoOf(l, "b") /\ am.hist = a.am.hist \o InfoOf(l, "h")
        /\ am.incr = a.am.incr \o InfoOf(l, "i")
    BY <1>1, <2>1, AddedFiles
  <2>3. Len(am.base) <= 1
    <3>1. CASE l.type = "b"
      <4>1. am.base = <<>> \o <<l>>
        BY <1>10, <2>2, <3>1 DEF InfoOf, Wanted
      <4>2. <<>> \o <<l>> = <<l>>
        OBVIOUS
      <4>3. am.base = <<l>> /\ Len(<<l>>) = 1
        BY <4>1, <4>2
      <4> HIDE DEF am
      <4>4. QED
        BY <4>3
    <3>2. CASE l.type # "b"
      <4>1. am.base = a.am.base \o <<>>
        BY <2>2, <3>2 DEF InfoOf, Wanted
      <4>2. am.base = a.am.base
        BY <1>6, <4>1, EmptyLeft
      <4>3. QED
        BY <1>2, <4>2 DEF ManifestAt
    <3>3. QED
      BY <3>1, <3>2
  <2>4. b = [n EXCEPT !.am = am]
    BY <1>3, <1>10
  <2> HIDE DEF am
  <2>5. /\ b.pc = "manifest" /\ b.e = <<>> /\ ~b.single /\ b.am = am /\ b.lines = n.lines
        /\ b.lineNum = n.lineNum
    BY <1>3, <2>4 DEF AofType
  <2>6. QED
    BY <1>7, <2>2, <2>3, <2>5
<1>11. QED
  BY <1>8, <1>9, <1>10
(* The end of the manifest. *)
LEMMA EndAt ==
  ASSUME NEW s, NEW a, NEW r, NEW ch, NEW c, Typed(s, a, r, ch), BackupAt(s, a, r, ch, c),
         a.pc = "manifest", a.lines # <<>> => Head(a.lines).line = "unended",
         NEW b, b = [a EXCEPT !.pc = IF a.lineNum = 0 THEN "single" ELSE "multi"]
  PROVE  BackupAt(s, b, r, ch, c)
<1>1. a \in AofType /\ Disk(disk) /\ a.am \in ManifestType /\ a.lines \in Seq(Lines) /\ a.lineNum \in Nat
  BY TypedParts DEF Typed
<1>2. /\ a.e = <<>> /\ ch = <<>> /\ r = IdleRdb /\ s = <<>> /\ ~a.single /\ ManifestAt(a)
  BY DEF BackupAt
<1>3. b.pc = (IF a.lineNum = 0 THEN "single" ELSE "multi") /\ b.e = <<>> /\ ~b.single /\ b.am = a.am
  BY <1>1, <1>2 DEF AofType
<1>4. ASSUME NEW i \in DOMAIN a.lines PROVE a.lines[i].line # "info"
  <2>1. a.lines # <<>> /\ DOMAIN a.lines = 1..Len(a.lines) /\ Len(a.lines) \in Nat
    BY <1>1, <1>4
  <2>2. a.lines[1].line = "unended" /\ 1 \in DOMAIN a.lines
    BY <1>1, <2>1, Uncons
  <2>3. 1 = Len(a.lines)
    BY <1>2, <2>2 DEF ManifestAt
  <2>4. i \in 1..1
    BY <1>4, <2>1, <2>3
  <2>5. QED
    BY <2>2, <2>4
<1>5. CASE a.lineNum = 0
  <2>1. a.lines = ManifestLines(disk.path)
    BY <1>2, <1>5 DEF ManifestAt
  <2>2. ASSUME disk.path.kind = "manifest", disk.path.lines # <<>>
        PROVE  \E j \in DOMAIN disk.path.lines : disk.path.lines[j].line # "comment"
    <3>1. a.lines = disk.path.lines
      BY <2>1, <2>2 DEF ManifestLines
    <3>2. a.lines[1].line = "unended" /\ 1 \in DOMAIN a.lines
      BY <1>1, <2>2, <3>1, Uncons
    <3>3. QED
      BY <3>1, <3>2
  <2>3. disk.path.kind = "manifest" =>
          disk.path.lines = <<>> \/ \E j \in DOMAIN disk.path.lines : disk.path.lines[j].line # "comment"
    BY <2>2
  <2>4. NoLog(Records(disk.path))
    BY <1>1, <2>3, NotAnAof
  <2>5. QED
    BY <1>2, <1>3, <1>5, <2>4 DEF BackupAt
<1>6. CASE a.lineNum # 0
  <2>1. InfosOf(a.lines, "b") = <<>> /\ InfosOf(a.lines, "h") = <<>> /\ InfosOf(a.lines, "i") = <<>>
    BY <1>1, <1>4, InfosNone
  <2>2. a.am.base \in Seq(FileInfos) /\ a.am.hist \in Seq(FileInfos) /\ a.am.incr \in Seq(FileInfos)
    BY <1>1 DEF ManifestType
  <2>3. a.am.base \o <<>> = a.am.base /\ a.am.hist \o <<>> = a.am.hist /\ a.am.incr \o <<>> = a.am.incr
    BY <2>2, EmptyLeft
  <2>4. /\ a.am.base = PathLinesAre("b") /\ a.am.hist = PathLinesAre("h")
        /\ a.am.incr = PathLinesAre("i") /\ Len(a.am.base) <= 1
    BY <1>2, <2>1, <2>3 DEF ManifestAt
  <2>5. QED
    BY <1>2, <1>3, <1>6, <2>4 DEF BackupAt
<1>7. QED
  BY <1>5, <1>6

(* StartRead. *)
LEMMA StartAt == ASSUME Disk(disk), NEW c PROVE BackupAt(<<>>, StartAof(disk), IdleRdb, <<>>, c)
<1> DEFINE a == StartAof(disk)
           p == ManifestLines(disk.path)
<1>1. /\ a.pc = "manifest" /\ a.e = <<>> /\ ~a.single /\ a.lines = p
      /\ a.am.base = <<>> /\ a.am.hist = <<>> /\ a.am.incr = <<>>
  BY DEF StartAof, IdleAof, NoManifest
<1>2. p \in Seq(Lines)
  BY PathLines
<1>3. ASSUME NEW i \in DOMAIN p, p[i].line = "unended" PROVE i = Len(p)
  <2>1. CASE disk.path.kind = "manifest"
    BY <1>3, <2>1 DEF Disk, AofFile, ManifestOK, ManifestLines
  <2>2. CASE disk.path.kind # "manifest"
    <3>1. p = [k \in 1..Len(disk.path.recs) |-> AsLine(disk.path.recs[k])]
      BY <2>2 DEF ManifestLines
    <3>2. p[i].line # "unended"
      BY <1>3, <3>1 DEF AsLine
    <3>3. QED
      BY <1>3, <3>2
  <2>3. QED
    BY <2>1, <2>2
<1>4. ASSUME NEW t PROVE <<>> \o InfosOf(p, t) = PathLinesAre(t)
  <2>1. InfosOf(p, t) \in Seq(FileInfos)
    BY <1>2, InfosType
  <2>2. QED
    BY <2>1, EmptyLeft DEF PathLinesAre
<1> HIDE DEF a
<1>5. ManifestAt(a)
  BY <1>1, <1>3, <1>4 DEF ManifestAt
<1>6. BackupAt(<<>>, a, IdleRdb, <<>>, c)
  BY <1>1, <1>5 DEF BackupAt
<1>7. QED
  BY <1>6 DEF a

(* An entry of the base's snapshot is forwarded. *)
LEMMA ForwardAt ==
  ASSUME NEW s, NEW a, NEW r, NEW ch, NEW c, Typed(s, a, r, ch), BackupAt(s, a, r, ch, c),
         a.pc = "forward", ch # <<>>
  PROVE  BackupAt(Append(s, Head(ch)), a, r, Tail(ch), c)
<1> DEFINE e == Head(ch)
           t == Tail(ch)
           p == r.pending
<1>1. s \in Seq(Kept) /\ ch \in Seq(Kept) /\ p \in Seq(Kept) /\ e \in Kept /\ t \in Seq(Kept)
  BY TypedParts DEF Typed
<1>2. OnTrack(s, a, r, ch)
  BY DEF BackupAt, InBase, Lost
<1>3. ch = <<e>> \o t
  BY <1>1
<1> HIDE DEF e, t, p
<1>4. s \o (ch \o p) = Append(s, e) \o (t \o p)
  <2>1. <<e>> \in Seq(Kept) /\ t \o p \in Seq(Kept) /\ Append(s, e) = s \o <<e>>
    BY <1>1
  <2>2. (<<e>> \o t) \o p = <<e>> \o (t \o p)
    BY <1>1, <2>1, ConcatAssociative
  <2>3. s \o (<<e>> \o (t \o p)) = (s \o <<e>>) \o (t \o p)
    BY <1>1, <2>1, ConcatAssociative
  <2>4. QED
    BY <1>3, <2>1, <2>2, <2>3
<1>5. Flight(a, r, ch) = ch \o p /\ Flight(a, r, t) = t \o p
  BY DEF Flight, p
<1>6. OnTrack(Append(s, e), a, r, t)
  BY <1>2, <1>4, <1>5 DEF OnTrack
<1>7. BackupAt(Append(s, e), a, r, t, c)
  BY <1>6 DEF BackupAt
<1>8. QED
  BY <1>7 DEF e, t

(* The base's snapshot was forwarded. *)
LEMMA ForwardEndAt ==
  ASSUME NEW s, NEW a, NEW r, NEW ch, NEW c, Typed(s, a, r, ch), BackupAt(s, a, r, ch, c),
         a.pc = "forward", ch = <<>>, r.pc = "closed", NEW b, b = [a EXCEPT !.pc = "next", !.todo = Tail(@)]
  PROVE  BackupAt(s, b, IdleRdb, ch, c)
<1>1. a \in AofType /\ s \in Seq(Kept) /\ Disk(disk) /\ a.todo # <<>> /\ a.todo \in Seq(FileInfos)
  BY TypedParts DEF Typed, AofGood, BackupAt, InBase
<1>2. /\ a.e = <<>> /\ ~a.single /\ FilesOK(a.todo) /\ disk.path.kind = "manifest"
      /\ OnTrack(s, a, r, ch) /\ r.pending = <<>> /\ (~c => r.rest = <<>>)
  BY DEF BackupAt, InBase, Lost, SnapshotAt
<1>3. /\ FilesOK(Tail(a.todo)) /\ \A i \in DOMAIN Tail(a.todo) : Tail(a.todo)[i].type # "b"
  BY <1>1, <1>2, TailOK
<1>4. b.pc = "next" /\ b.e = <<>> /\ ~b.single /\ b.todo = Tail(a.todo)
  BY <1>1, <1>2 DEF AofType
<1>5. ASSUME ~c PROVE OnTrack(s, b, IdleRdb, <<>>)
  <2>1. Ahead(Tail(a.todo)) \in Seq(Cmds)
    BY <1>1, <1>3, AheadType DEF FilesOK
  <2>2. Coming(a, r) = <<>> \o Ahead(Tail(a.todo))
    BY <1>2, <1>5, SnapshotEmpty DEF Coming
  <2>3. Coming(a, r) = Coming(b, IdleRdb)
    BY <1>4, <2>1, <2>2, EmptyLeft DEF Coming
  <2>4. Flight(a, r, ch) = <<>> \o <<>>
    BY <1>2 DEF Flight
  <2>5. s \o Flight(a, r, ch) = s
    BY <1>1, <2>4, EmptyLeft
  <2>6. OwnCommands(s) \o Coming(b, IdleRdb) = WholeLog
    BY <1>2, <2>3, <2>5 DEF OnTrack
  <2>7. QED
    BY <1>1, <1>4, <2>6, TrackNow
<1>6. ASSUME c PROVE Lost(s, b, c)
  <2>1. Begun(s)
    BY BegunNow
  <2>2. QED
    BY <1>3, <1>4, <1>6, <2>1 DEF Lost
<1>7. OnTrack(s, b, IdleRdb, <<>>) \/ Lost(s, b, c)
  BY <1>5, <1>6
<1>8. QED
  BY <1>2, <1>3, <1>4, <1>7, GoingOn
-----------------------------------------------------------------------------
(* The records of an AOF, one by one. *)

LEMMA JoinHead ==
  ASSUME NEW S, NEW x \in Seq(S), NEW y \in Seq(S), x # <<>>
  PROVE  /\ x \o y \in Seq(S) /\ x \o y # <<>> /\ Head(x \o y) = Head(x) /\ Tail(x \o y) = Tail(x) \o y
         /\ Tail(x) \in Seq(S)
<1> DEFINE h == Head(x)
           t == Tail(x)
<1>1. h \in S /\ t \in Seq(S) /\ <<h>> \in Seq(S) /\ x = <<h>> \o t
  OBVIOUS
<1> HIDE DEF h, t
<1>2. (<<h>> \o t) \o y = <<h>> \o (t \o y) /\ t \o y \in Seq(S)
  BY <1>1, ConcatAssociative
<1> DEFINE z == t \o y
<1>3. z \in Seq(S) /\ x \o y = <<h>> \o z
  BY <1>1, <1>2
<1> HIDE DEF z
<1>4. <<h>> \o z \in Seq(S) /\ <<h>> \o z # <<>> /\ Head(<<h>> \o z) = h /\ Tail(<<h>> \o z) = z
  BY <1>1, <1>3
<1>5. QED
  BY <1>1, <1>3, <1>4 DEF h, t, z

(* Behind the file of a log there is no other, if there is only one. *)
LEMMA LastLog ==
  ASSUME Disk(disk), NEW ls, FilesOK(ls), ls # <<>>, IsLog(Head(ls)), OneLog
  PROVE  LogsOf(Tail(ls)) = <<>>
<1> DEFINE t == Tail(ls)
<1>1. ls \in Seq(FileInfos)
  BY DEF FilesOK, AllOK
<1>2. /\ DOMAIN ls = 1..Len(ls) /\ DOMAIN t = 1..Len(t) /\ Len(t) \in Nat /\ ls[1] = Head(ls)
      /\ 1 \in DOMAIN ls /\ \A i \in 1..Len(t) : t[i] = ls[i + 1] /\ i + 1 \in 1..Len(ls)
  BY <1>1, Uncons
<1>3. AllOK(t)
  BY TailOK DEF FilesOK
<1> HIDE DEF t
<1>4. ASSUME NEW i \in DOMAIN t PROVE RecsOf(t[i]) = <<>>
  <2>1. t[i] = ls[i + 1] /\ i + 1 \in DOMAIN ls /\ i + 1 # 1
    BY <1>2, <1>4
  <2>2. ~IsLog(t[i])
    BY <1>2, <2>1 DEF FilesOK
  <2>3. QED
    BY <2>2 DEF RecsOf
<1>5. LogsOf(t) = <<>>
  BY <1>3, <1>4, FilesNone
<1>6. QED
  BY <1>5 DEF t

(* What a file's reader knows of where it is. *)
LEMMA ReadingAt ==
  ASSUME NEW s, NEW a, NEW r, NEW ch, NEW c, Typed(s, a, r, ch), BackupAt(s, a, r, ch, c), a.pc = "read"
  PROVE  /\ a \in AofType /\ Disk(disk) /\ s \in Seq(Kept) /\ OwnCommands(s) \in Seq(Cmds) /\ Begun(s)
         /\ a.recs \in Seq(AofRecords) /\ Behind(a) \in Seq(AofRecords) /\ timestamp \in Nat
         /\ a.e = <<>> /\ ch = <<>> /\ r = IdleRdb
         /\ a.at = IF InBase(a) THEN 0 ELSE timestamp
         /\ ~a.single => /\ disk.path.kind = "manifest" /\ FilesOK(a.todo) /\ ~Missing(Head(a.todo))
                         /\ a.todo # <<>> /\ a.todo \in Seq(FileInfos)
                         /\ FilesOK(Tail(a.todo)) /\ Ahead(Tail(a.todo)) \in Seq(Cmds)
                         /\ \A i \in DOMAIN Tail(a.todo) : Tail(a.todo)[i].type # "b"
         /\ a.single /\ disk.path.kind = "manifest" => s = <<>> /\ NoLog(a.recs)
         /\ ~(a.single /\ disk.path.kind = "manifest") =>
              Lost(s, a, c) \/ OwnCommands(s) \o Coming(a, r) = WholeLog
<1>1. /\ a \in AofType /\ Disk(disk) /\ s \in Seq(Kept) /\ timestamp \in Nat /\ a.recs \in Seq(AofRecords)
      /\ a.todo \in Seq(FileInfos) /\ (~a.single => a.todo # <<>>)
  BY TypedParts DEF Typed, AofGood
<1>2. /\ OwnCommands(s) \in Seq(Cmds) /\ Begun(s) /\ Behind(a) \in Seq(AofRecords)
  BY <1>1, OwnType, BegunNow, ComingType
<1>3. /\ a.e = <<>> /\ ch = <<>> /\ r = IdleRdb /\ a.at = IF InBase(a) THEN 0 ELSE timestamp
      /\ ~a.single => disk.path.kind = "manifest" /\ FilesOK(a.todo) /\ ~Missing(Head(a.todo))
      /\ a.single /\ disk.path.kind = "manifest" => s = <<>> /\ NoLog(a.recs)
      /\ ~(a.single /\ disk.path.kind = "manifest") => Lost(s, a, c) \/ OnTrack(s, a, r, ch)
  BY DEF BackupAt
<1>4. OnTrack(s, a, r, ch) <=> OwnCommands(s) \o Coming(a, r) = WholeLog
  BY <1>1, <1>3, TrackNow
<1>5. ASSUME ~a.single
      PROVE  FilesOK(Tail(a.todo)) /\ Ahead(Tail(a.todo)) \in Seq(Cmds) /\ \A i \in DOMAIN Tail(a.todo) : Tail(a.todo)[i].type # "b"
  BY <1>1, <1>3, <1>5, TailOK, AheadType DEF FilesOK
<1>6. QED
  BY <1>1, <1>2, <1>3, <1>4, <1>5

(* A signal, or the end of the file. *)
LEMMA ReadEndAt ==
  ASSUME NEW s, NEW a, NEW r, NEW ch, NEW c, Typed(s, a, r, ch), BackupAt(s, a, r, ch, c), a.pc = "read",
         c \/ a.recs = <<>>, NEW b,
         b = IF InBase(a) THEN [a EXCEPT !.pc = "next", !.todo = Tail(@)] ELSE [a EXCEPT !.pc = "close"]
  PROVE  BackupAt(s, b, r, ch, c)
<1>1. /\ a \in AofType /\ Disk(disk) /\ s \in Seq(Kept) /\ OwnCommands(s) \in Seq(Cmds) /\ Begun(s)
      /\ a.e = <<>> /\ ch = <<>> /\ r = IdleRdb
      /\ ~a.single => /\ disk.path.kind = "manifest" /\ FilesOK(a.todo) /\ ~Missing(Head(a.todo))
                      /\ a.todo # <<>> /\ FilesOK(Tail(a.todo)) /\ Ahead(Tail(a.todo)) \in Seq(Cmds)
                      /\ \A i \in DOMAIN Tail(a.todo) : Tail(a.todo)[i].type # "b"
      /\ a.single /\ disk.path.kind = "manifest" => s = <<>> /\ NoLog(a.recs)
      /\ ~(a.single /\ disk.path.kind = "manifest") =>
           Lost(s, a, c) \/ OwnCommands(s) \o Coming(a, r) = WholeLog
  BY ReadingAt
<1>2. CASE InBase(a)
  <2>1. ~a.single
    BY <1>2 DEF InBase
  <2>2. b.pc = "next" /\ b.e = <<>> /\ ~b.single /\ b.todo = Tail(a.todo)
    BY <1>1, <1>2, <2>1 DEF AofType
  <2>3. c => Lost(s, b, c)
    BY <1>1, <2>1, <2>2 DEF Lost
  <2>4. ASSUME ~c PROVE OnTrack(s, b, IdleRdb, <<>>)
    <3>1. OwnCommands(s) \o Coming(a, r) = WholeLog
      BY <1>1, <2>1, <2>4 DEF Lost
    <3>2. Coming(a, r) = <<>> \o Ahead(Tail(a.todo))
      BY <1>2, <2>4, CommandsEmpty DEF Coming
    <3>3. Coming(a, r) = Coming(b, IdleRdb)
      BY <1>1, <2>1, <2>2, <3>2, EmptyLeft DEF Coming
    <3>4. QED
      BY <1>1, <2>2, <3>1, <3>3, TrackNow
  <2>5. OnTrack(s, b, IdleRdb, <<>>) \/ Lost(s, b, c)
    BY <2>3, <2>4
  <2>6. QED
    BY <1>1, <2>1, <2>2, <2>5, GoingOn
<1>3. CASE ~InBase(a)
  <2>1. b.pc = "close" /\ b.e = <<>>
    BY <1>1, <1>3 DEF AofType
  <2>2. ASSUME ~c, OneLog PROVE OwnCommands(s) = WholeLog
    <3>1. a.recs = <<>>
      BY <2>2
    <3>2. CASE a.single /\ disk.path.kind = "manifest"
      <4>1. disk.path.lines = <<>>
        BY <1>1, <3>1, <3>2 DEF NoLog
      <4>2. <<>> \in Seq(Lines) /\ DOMAIN <<>> = {}
        OBVIOUS
      <4>3. \A t : InfosOf(<<>>, t) = <<>>
        BY <4>2, InfosNone
      <4>4. Listing = <<>>
        BY <4>1, <4>3 DEF Listing
      <4>5. WholeLog = <<>>
        BY <1>1, <3>2, <4>4, WholeIs, NoneAhead
      <4>6. QED
        BY <1>1, <3>2, <4>5, OwnEmpty
    <3>3. CASE ~(a.single /\ disk.path.kind = "manifest")
      <4>1. OwnCommands(s) \o Coming(a, r) = WholeLog
        BY <1>1, <2>2, <3>3 DEF Lost
      <4>2. Behind(a) = <<>>
        <5>1. CASE a.single
          BY <5>1 DEF Behind
        <5>2. CASE ~a.single
          <6>1. IsLog(Head(a.todo))
            BY <1>1, <1>3, <5>2 DEF IsLog, InBase
          <6>2. QED
            BY <1>1, <2>2, <5>2, <6>1, LastLog DEF Behind
        <5>3. QED
          BY <5>1, <5>2
      <4>3. Coming(a, r) = LogCommands(<<>> \o <<>>)
        BY <1>3, <3>1, <4>2 DEF Coming
      <4>4. Coming(a, r) = <<>>
        BY <4>3, LogEmpty
      <4>5. QED
        BY <1>1, <4>1, <4>4, EmptyLeft
    <3>4. QED
      BY <3>2, <3>3
  <2>3. QED
    BY <1>1, <2>1, <2>2 DEF BackupAt
<1>4. QED
  BY <1>2, <1>3
(* Truncates, of the reader a. *)
Late(a, x) == a.at # 0 /\ x.rec = "ts" /\ x.at > a.at

(* A log that ends early: behind the timestamp, or in a command cut short. *)
LEMMA ReadStopAt ==
  ASSUME NEW s, NEW a, NEW r, NEW ch, NEW c, Typed(s, a, r, ch), BackupAt(s, a, r, ch, c), a.pc = "read",
         ~c, a.recs # <<>>, ~InBase(a),
         Late(a, Head(a.recs)) \/ Head(a.recs).rec = "cut",
         NEW b, b = [a EXCEPT !.pc = "close"]
  PROVE  BackupAt(s, b, r, ch, c)
<1>1. /\ a \in AofType /\ s \in Seq(Kept) /\ OwnCommands(s) \in Seq(Cmds) /\ Begun(s)
      /\ a.recs \in Seq(AofRecords) /\ Behind(a) \in Seq(AofRecords)
      /\ a.e = <<>> /\ ch = <<>> /\ r = IdleRdb /\ a.at = timestamp
      /\ a.single /\ disk.path.kind = "manifest" => NoLog(a.recs)
      /\ ~(a.single /\ disk.path.kind = "manifest") =>
           Lost(s, a, c) \/ OwnCommands(s) \o Coming(a, r) = WholeLog
  BY ReadingAt
<1>2. b.pc = "close" /\ b.e = <<>>
  BY <1>1 DEF AofType
<1>3. ~(a.single /\ disk.path.kind = "manifest")
  <2>1. SUFFICES ASSUME a.single /\ disk.path.kind = "manifest" PROVE FALSE
    OBVIOUS
  <2>2. Head(a.recs) = a.recs[1] /\ 1 \in DOMAIN a.recs
    BY <1>1, Uncons
  <2>3. Head(a.recs).rec \in {"note", "garbage"}
    BY <1>1, <2>1, <2>2 DEF NoLog
  <2>4. QED
    BY <2>3 DEF Late
<1>4. OwnCommands(s) \o Coming(a, r) = WholeLog
  BY <1>1, <1>3 DEF Lost
<1>5. Coming(a, r) = <<>>
  <2> DEFINE x == a.recs \o Behind(a)
  <2>1. x \in Seq(AofRecords) /\ x # <<>> /\ Head(x) = Head(a.recs)
    BY <1>1, JoinHead
  <2>2. Coming(a, r) = LogCommands(x)
    BY DEF Coming
  <2> HIDE DEF x
  <2>3. LogEnds(Head(x))
    BY <1>1, <2>1 DEF LogEnds, Late
  <2>4. QED
    BY <2>1, <2>2, <2>3, LogStops
<1>6. OwnCommands(s) = WholeLog
  BY <1>1, <1>4, <1>5, EmptyLeft
<1>7. QED
  BY <1>1, <1>2, <1>6 DEF BackupAt

(* One record on. *)
Onward(a, b) ==
  /\ a.pc = "read" /\ a.recs # <<>> /\ Head(a.recs).rec \in {"ts", "note", "cmd"} /\ ~Late(a, Head(a.recs))
  /\ b.pc \in {"read", "send"} /\ b.recs = Tail(a.recs) /\ b.todo = a.todo /\ b.single = a.single

LEMMA NextRecord ==
  ASSUME NEW s, NEW a, NEW r, NEW ch, NEW c, Typed(s, a, r, ch), BackupAt(s, a, r, ch, c), NEW b, Onward(a, b)
  PROVE  Coming(a, r) = CmdOf(Head(a.recs)) \o Coming(b, r) /\ Coming(b, r) \in Seq(Cmds)
<1>0. /\ a.pc = "read" /\ a.recs # <<>> /\ Head(a.recs).rec \in {"ts", "note", "cmd"} /\ ~Late(a, Head(a.recs))
      /\ b.pc \in {"read", "send"} /\ b.recs = Tail(a.recs) /\ b.todo = a.todo /\ b.single = a.single
  BY DEF Onward
<1>1. /\ a.recs \in Seq(AofRecords) /\ Behind(a) \in Seq(AofRecords)
      /\ a.at = (IF InBase(a) THEN 0 ELSE timestamp)
      /\ ~a.single => Ahead(Tail(a.todo)) \in Seq(Cmds)
  BY <1>0, ReadingAt
<1>2. InBase(b) = InBase(a) /\ Behind(b) = Behind(a)
  BY <1>0 DEF InBase, Behind
<1>3. Head(a.recs) \in AofRecords /\ Tail(a.recs) \in Seq(AofRecords)
  BY <1>0, <1>1
<1>4. CmdOf(Head(a.recs)) \in Seq(Cmds)
  BY <1>3, CmdOfType
<1>5. CASE InBase(a)
  <2> DEFINE x == CmdOf(Head(a.recs))
             y == CommandsOf(Tail(a.recs))
             z == Ahead(Tail(a.todo))
  <2>1. /\ Coming(a, r) = CommandsOf(a.recs) \o z /\ Coming(b, r) = y \o z
    BY <1>0, <1>2, <1>5 DEF Coming
  <2>2. CommandsOf(a.recs) = x \o y
    BY <1>0, <1>1, CommandsHead
  <2>3. x \in Seq(Cmds) /\ y \in Seq(Cmds) /\ z \in Seq(Cmds)
    BY <1>1, <1>3, <1>4, <1>5, CommandsType DEF InBase
  <2> HIDE DEF x, y, z
  <2>4. (x \o y) \o z = x \o (y \o z) /\ y \o z \in Seq(Cmds)
    BY <2>3, ConcatAssociative
  <2>5. QED
    BY <2>1, <2>2, <2>4 DEF x
<1>6. CASE ~InBase(a)
  <2> DEFINE x == a.recs \o Behind(a)
  <2>1. /\ x \in Seq(AofRecords) /\ x # <<>> /\ Head(x) = Head(a.recs)
        /\ Tail(x) = Tail(a.recs) \o Behind(a)
    <3> DEFINE u == a.recs
               v == Behind(a)
    <3>1. u \in Seq(AofRecords) /\ v \in Seq(AofRecords) /\ u # <<>>
      BY <1>0, <1>1
    <3> HIDE DEF u, v
    <3>2. /\ u \o v \in Seq(AofRecords) /\ u \o v # <<>> /\ Head(u \o v) = Head(u)
          /\ Tail(u \o v) = Tail(u) \o v
      BY <3>1, JoinHead
    <3>3. QED
      BY <3>2 DEF u, v
  <2>2. Coming(a, r) = LogCommands(x) /\ Coming(b, r) = LogCommands(Tail(a.recs) \o Behind(a))
    BY <1>0, <1>2, <1>6 DEF Coming
  <2> HIDE DEF x
  <2>3. ~LogEnds(Head(x))
    BY <1>0, <1>1, <1>6, <2>1 DEF LogEnds, Late
  <2>4. LogCommands(x) = CmdOf(Head(x)) \o LogCommands(Tail(x))
    BY <2>1, <2>3, LogHead
  <2>5. LogCommands(Tail(x)) \in Seq(Cmds)
    <3>1. Tail(x) \in Seq(AofRecords)
      BY <2>1
    <3>2. QED
      BY <3>1, LogType
  <2>6. QED
    BY <2>1, <2>2, <2>4, <2>5
<1>7. QED
  BY <1>5, <1>6

(* An annotation is passed over. *)
LEMMA ReadSkipAt ==
  ASSUME NEW s, NEW a, NEW r, NEW ch, NEW c, Typed(s, a, r, ch), BackupAt(s, a, r, ch, c), a.pc = "read",
         a.recs # <<>>, Head(a.recs).rec \in {"ts", "note"},
         ~Late(a, Head(a.recs)),
         NEW b, b.pc = "read", b.e = a.e, b.recs = Tail(a.recs), b.todo = a.todo, b.single = a.single, b.at = a.at
  PROVE  BackupAt(s, b, r, ch, c)
<1>1. /\ a \in AofType /\ Disk(disk) /\ s \in Seq(Kept) /\ OwnCommands(s) \in Seq(Cmds) /\ Begun(s)
      /\ a.recs \in Seq(AofRecords) /\ a.e = <<>> /\ ch = <<>> /\ r = IdleRdb
      /\ a.at = (IF InBase(a) THEN 0 ELSE timestamp)
      /\ ~a.single => disk.path.kind = "manifest" /\ FilesOK(a.todo) /\ ~Missing(Head(a.todo))
      /\ a.single /\ disk.path.kind = "manifest" => s = <<>> /\ NoLog(a.recs)
      /\ ~(a.single /\ disk.path.kind = "manifest") =>
           Lost(s, a, c) \/ OwnCommands(s) \o Coming(a, r) = WholeLog
  BY ReadingAt
<1>2. /\ b.pc = "read" /\ b.e = <<>> /\ b.recs = Tail(a.recs) /\ b.todo = a.todo /\ b.single = a.single
      /\ b.at = a.at
  BY <1>1 DEF AofType
<1>3. InBase(b) = InBase(a)
  BY <1>2 DEF InBase
<1>4. ASSUME OwnCommands(s) \o Coming(a, r) = WholeLog PROVE OnTrack(s, b, r, ch)
  <2>1. Onward(a, b)
    BY <1>2 DEF Onward
  <2>2. CmdOf(Head(a.recs)) = <<>>
    BY DEF CmdOf
  <2>3. Coming(a, r) = CmdOf(Head(a.recs)) \o Coming(b, r) /\ Coming(b, r) \in Seq(Cmds)
    BY <2>1, NextRecord
  <2>4. Coming(a, r) = Coming(b, r)
    BY <2>2, <2>3, EmptyLeft
  <2>5. QED
    BY <1>1, <1>2, <1>4, <2>4, TrackNow
<1>5. Lost(s, a, c) => Lost(s, b, c)
  BY <1>2 DEF Lost
<1>6. ~(b.single /\ disk.path.kind = "manifest") => OnTrack(s, b, r, ch) \/ Lost(s, b, c)
  BY <1>1, <1>2, <1>4, <1>5
<1>7. ASSUME a.single, disk.path.kind = "manifest" PROVE NoLog(b.recs)
  <2> DEFINE u == a.recs
             v == Tail(u)
  <2>1. /\ \A i \in DOMAIN u : u[i].rec \in {"note", "garbage"}
        /\ disk.path.lines = <<>> \/ \E i \in DOMAIN u : u[i].rec = "garbage"
    BY <1>1, <1>7 DEF NoLog
  <2>2. /\ DOMAIN u = 1..Len(u) /\ DOMAIN v = 1..Len(v) /\ Len(v) \in Nat /\ u[1].rec \in {"ts", "note"}
        /\ Len(u) = Len(v) + 1 /\ \A i \in 1..Len(v) : v[i] = u[i + 1] /\ i + 1 \in 1..Len(u)
    BY <1>1, Uncons
  <2> HIDE DEF u, v
  <2>3. \A i \in DOMAIN v : v[i].rec \in {"note", "garbage"}
    BY <2>1, <2>2
  <2>4. ASSUME NEW i \in DOMAIN u, u[i].rec = "garbage" PROVE \E j \in DOMAIN v : v[j].rec = "garbage"
    <3>1. i # 1 /\ i \in 1..(Len(v) + 1)
      BY <2>2, <2>4
    <3>2. i - 1 \in 1..Len(v) /\ (i - 1) + 1 = i
      BY <2>2, <3>1
    <3>3. v[i - 1] = u[i]
      BY <2>2, <3>2
    <3>4. QED
      BY <2>2, <2>4, <3>2, <3>3
  <2>5. NoLog(v)
    BY <2>1, <2>3, <2>4 DEF NoLog
  <2>6. QED
    BY <1>2, <2>5 DEF u, v
<1>8. QED
  BY <1>1, <1>2, <1>3, <1>6, <1>7 DEF BackupAt

(* A command is ready to be sent. *)
LEMMA ReadCmdAt ==
  ASSUME NEW s, NEW a, NEW r, NEW ch, NEW c, Typed(s, a, r, ch), BackupAt(s, a, r, ch, c), a.pc = "read",
         ~c, a.recs # <<>>, Head(a.recs).rec = "cmd",
         NEW b, b.pc = "send", b.e = << Entry(0, Head(a.recs).argv, 0, NoValue) >>,
         b.recs = Tail(a.recs), b.todo = a.todo, b.single = a.single, b.at = a.at
  PROVE  BackupAt(s, b, r, ch, c)
<1> DEFINE argv == Head(a.recs).argv
           e == Entry(0, argv, 0, NoValue)
           x == OwnCommands(s)
           y == Coming(b, r)
<1>1. /\ a \in AofType /\ Disk(disk) /\ s \in Seq(Kept) /\ x \in Seq(Cmds)
      /\ a.recs \in Seq(AofRecords) /\ a.e = <<>> /\ ch = <<>> /\ r = IdleRdb
      /\ a.at = (IF InBase(a) THEN 0 ELSE timestamp)
      /\ ~a.single => disk.path.kind = "manifest" /\ FilesOK(a.todo) /\ ~Missing(Head(a.todo))
      /\ a.single /\ disk.path.kind = "manifest" => NoLog(a.recs)
      /\ ~(a.single /\ disk.path.kind = "manifest") => Lost(s, a, c) \/ x \o Coming(a, r) = WholeLog
  BY ReadingAt
<1>2. Head(a.recs) \in AofRecords /\ Head(a.recs) = a.recs[1] /\ 1 \in DOMAIN a.recs
  BY <1>1, Uncons
<1>3. ~(a.single /\ disk.path.kind = "manifest")
  <2>1. SUFFICES ASSUME a.single /\ disk.path.kind = "manifest" PROVE FALSE
    OBVIOUS
  <2>2. Head(a.recs).rec \in {"note", "garbage"}
    BY <1>1, <1>2, <2>1 DEF NoLog
  <2>3. QED
    BY <2>2
<1>4. x \o Coming(a, r) = WholeLog
  BY <1>1, <1>3 DEF Lost
<1>5. argv \in Cmds
  BY <1>2 DEF AofRecords, Cmds
<1>6. e \in Kept /\ e.argv = argv /\ e.of.at = None
  <2>1. argv \in Seq(Words)
    BY <1>5 DEF Cmds
  <2> HIDE DEF argv
  <2>2. e \in Kept
    BY <2>1, CommandKept
  <2>3. QED
    BY <2>2 DEF Entry, NoValue, Origin
<1>7. Onward(a, b)
  BY DEF Onward, Late
<1>8. Coming(a, r) = << argv >> \o y /\ y \in Seq(Cmds)
  <2>1. CmdOf(Head(a.recs)) = << argv >>
    BY DEF CmdOf
  <2>2. Coming(a, r) = CmdOf(Head(a.recs)) \o Coming(b, r) /\ Coming(b, r) \in Seq(Cmds)
    <3> HIDE DEF e, argv, x, y
    <3>1. QED
      BY <1>7, NextRecord, Zenon
  <2>3. QED
    BY <2>1, <2>2, Zenon
<1>9. Flight(b, r, ch) = << e >>
  BY DEF Flight
<1> HIDE DEF e, argv
<1>10. OwnCommands(s \o << e >>) = x \o << argv >>
  <2>1. OwnCommands(<< e >>) = << argv >>
    BY <1>6, OwnOne
  <2>2. << e >> \in Seq(Kept)
    BY <1>6
  <2>3. QED
    BY <1>1, <2>1, <2>2, OwnConcat
<1> HIDE DEF x, y
<1>11. (x \o << argv >>) \o y = x \o (<< argv >> \o y)
  <2>1. << argv >> \in Seq(Cmds)
    BY <1>5
  <2>2. QED
    BY <1>1, <1>8, <2>1, ConcatAssociative
<1>12. OnTrack(s, b, r, ch)
  <2>1. (x \o << argv >>) \o y = WholeLog
    BY <1>4, <1>8, <1>11
  <2>2. QED
    BY <1>9, <1>10, <2>1 DEF OnTrack, y
<1>13. InBase(b) = InBase(a)
  BY DEF InBase
<1>14. Len(b.e) = 1
  OBVIOUS
<1>15. QED
  BY <1>1, <1>3, <1>12, <1>13, <1>14 DEF BackupAt

(* It is sent. *)
LEMMA SendAt ==
  ASSUME NEW s, NEW a, NEW r, NEW ch, NEW c, Typed(s, a, r, ch), BackupAt(s, a, r, ch, c), a.pc = "send",
         NEW b, b.pc = "read", b.e = <<>>, b.recs = a.recs, b.todo = a.todo, b.single = a.single, b.at = a.at
  PROVE  BackupAt(Append(s, a.e[1]), b, r, ch, c)
<1> DEFINE e == a.e[1]
           t == Append(s, e)
<1>1. /\ Disk(disk) /\ s \in Seq(Kept) /\ a.e \in Seq(Kept)
  BY TypedParts DEF Typed
<1>2. /\ Len(a.e) = 1 /\ ch = <<>> /\ r = IdleRdb /\ a.at = (IF InBase(a) THEN 0 ELSE timestamp)
      /\ ~a.single => disk.path.kind = "manifest" /\ FilesOK(a.todo) /\ ~Missing(Head(a.todo))
      /\ ~(a.single /\ disk.path.kind = "manifest") /\ OnTrack(s, a, r, ch)
  BY DEF BackupAt, Lost
<1>3. a.e = <<e>> /\ e \in Kept
  BY <1>1, <1>2
<1> HIDE DEF e
<1>4. t \in Seq(Kept) /\ s \o <<e>> = t
  BY <1>1, <1>3
<1> HIDE DEF t
<1>5. InBase(b) = InBase(a) /\ Behind(b) = Behind(a)
  BY DEF InBase, Behind
<1>6. Coming(b, r) = Coming(a, r)
  BY <1>5 DEF Coming
<1>7. OwnCommands(t) \o Coming(b, r) = WholeLog
  BY <1>2, <1>3, <1>4, <1>6 DEF OnTrack, Flight
<1>8. OnTrack(t, b, r, ch)
  BY <1>4, <1>7, TrackNow
<1>9. BackupAt(t, b, r, ch, c)
  BY <1>2, <1>5, <1>8 DEF BackupAt
<1>10. QED
  BY <1>9 DEF t, e
-----------------------------------------------------------------------------
(* The opcodes of the base's snapshot, one by one. *)

LEMMA FlattenSingles ==
  ASSUME NEW S, NEW x \in Seq(S), NEW ss \in Seq(Seq(S)), Len(ss) = Len(x), \A i \in 1..Len(x) : ss[i] = << x[i] >>
  PROVE  FlattenSeq(ss) = x
<1>1. PICK F \in [0..Len(ss) -> Seq(S)] : Running(F, ss)
  BY RunningExists
<1>2. Len(x) \in Nat /\ F[0] = <<>> /\ \A i \in 1..Len(x) : F[i] = F[i - 1] \o << x[i] >>
  <2>1. F[0] = <<>> /\ \A i \in 1..Len(ss) : F[i] = F[i - 1] \o ss[i]
    BY <1>1, Zenon DEF Running
  <2>2. Len(x) \in Nat
    OBVIOUS
  <2>3. ASSUME NEW i \in 1..Len(x) PROVE F[i] = F[i - 1] \o << x[i] >>
    <3>1. F[i] = F[i - 1] \o ss[i] /\ ss[i] = << x[i] >>
      BY <2>1
    <3>2. QED
      BY <3>1, Zenon
  <2>4. QED
    BY <2>1, <2>2, <2>3, Zenon
<1> DEFINE G == {k \in 0..Len(x) : F[k] = SubSeq(x, 1, k)}
<1>3. 0 \in G
  BY <1>2
<1>4. ASSUME NEW k \in 0..(Len(x) - 1), k \in G PROVE k + 1 \in G
  <2>1. k + 1 \in 1..Len(x) /\ (k + 1) - 1 = k /\ k + 1 \in 0..Len(x)
    BY <1>2
  <2>2. F[k + 1] = SubSeq(x, 1, k) \o << x[k + 1] >>
    BY <1>2, <1>4, <2>1
  <2>3. SubSeq(x, 1, k + 1) = SubSeq(x, 1, k) \o << x[k + 1] >>
    <3> DEFINE u == SubSeq(x, 1, k + 1)
               v == SubSeq(x, 1, k)
               w == v \o << x[k + 1] >>
    <3>1. x[k + 1] \in S /\ u \in Seq(S) /\ v \in Seq(S) /\ Len(u) = k + 1 /\ Len(v) = k
      BY <1>2, <2>1
    <3>2. \A i \in 1..(k + 1) : u[i] = x[i]
      BY <1>2, <2>1
    <3>3. \A i \in 1..k : v[i] = x[i]
      BY <1>2, <2>1
    <3> HIDE DEF u, v
    <3>0. w = Append(v, x[k + 1])
      BY <3>1
    <3> HIDE DEF w
    <3>4. w \in Seq(S) /\ Len(w) = k + 1 /\ w[k + 1] = x[k + 1] /\ \A i \in 1..k : w[i] = v[i]
      <4> DEFINE y == x[k + 1]
                 m == k + 1
      <4>1. y \in S /\ w = Append(v, y) /\ v \in Seq(S) /\ m = Len(v) + 1 /\ k = Len(v)
        BY <3>0, <3>1
      <4> HIDE DEF y, m
      <4>2. w \in Seq(S) /\ Len(w) = m /\ w[m] = y /\ \A i \in 1..k : w[i] = v[i]
        BY <4>1, AppendProperties
      <4>3. QED
        BY <4>2 DEF y, m
    <3>5. ASSUME NEW i \in 1..(k + 1) PROVE u[i] = w[i]
      <4>1. u[i] = x[i]
        BY <3>2
      <4>2. CASE i = k + 1
        BY <3>4, <4>1, <4>2
      <4>3. CASE i # k + 1
        <5>1. i \in 1..k
          BY <2>1, <4>3
        <5>2. QED
          BY <3>3, <3>4, <4>1, <5>1
      <4>4. QED
        BY <4>2, <4>3
    <3>6. u = w
      BY <3>1, <3>4, <3>5, SeqEqual
    <3>7. QED
      BY <3>6 DEF u, v, w
  <2>4. QED
    BY <2>1, <2>2, <2>3
<1> HIDE DEF G
<1>5. \A k \in 0..Len(x) : k \in G
  BY <1>2, <1>3, <1>4, Upwards
<1>6. Len(x) \in 0..Len(x) /\ SubSeq(x, 1, Len(x)) = x
  BY <1>2
<1>7. F[Len(x)] = x
  BY <1>5, <1>6 DEF G
<1>8. QED
  BY <1>1, <1>7, FlattenRunning

(* The commands of a big value are its own; the expiry behind them is none of them. *)
LEMMA BigOwn ==
  ASSUME RdbInv, NEW o \in Opcodes, o.op = "value",
         \A j \in DOMAIN o.cmds : o.cmds[j][1] \notin {"RESTORE", "PEXPIRE"}, o.at = None => rdb.expireMs = 0
  PROVE  OwnCommands(BigValue(o)) = o.cmds
<1> DEFINE n == Len(o.cmds)
           of == Origin(o.key, o.at, rdb.now)
           x == [i \in 1..n |-> Entry(rdb.db, o.cmds[i], 0, of)]
           argv == <<"PEXPIRE", o.key, "ms">>
           e == Entry(rdb.db, argv, rdb.expireMs, of)
           y == IF rdb.expireMs # 0 THEN << e >> ELSE <<>>
<1>1. /\ o.cmds \in Seq(Cmds) /\ n \in Nat /\ DOMAIN o.cmds = 1..n /\ o.key \in Words /\ o.at \in Int
      /\ rdb.db \in Nat /\ rdb.expireMs \in Nat /\ rdb.now \in Nat
  BY DEF Opcodes, Cmds, RdbInv, RdbType
<1>2. BigValue(o) = x \o y
  BY DEF BigValue
<1>0. of \in Origins /\ of.at = o.at /\ ~of.last
  BY <1>1, OriginIs
<1> HIDE DEF of
<1>3. ASSUME NEW i \in 1..n PROVE x[i] \in Kept /\ OwnOf(x[i]) = << o.cmds[i] >>
  <2>1. o.cmds[i] \in Seq(Words) /\ o.cmds[i][1] # "PEXPIRE"
    BY <1>1 DEF Cmds
  <2>2. Entry(rdb.db, o.cmds[i], 0, of) \in Kept
    BY <1>0, <1>1, <2>1, KeptEntry
  <2>3. x[i] = Entry(rdb.db, o.cmds[i], 0, of)
    OBVIOUS
  <2>4. x[i].argv = o.cmds[i]
    BY <2>3 DEF Entry
  <2> HIDE DEF x
  <2>5. QED
    BY <2>1, <2>2, <2>3, <2>4 DEF OwnOf
<1>4. x \in Seq(Kept) /\ Len(x) = n
  <2>1. \A i \in 1..n : Entry(rdb.db, o.cmds[i], 0, of) \in Kept
    BY <1>3
  <2> HIDE DEF n
  <2>2. QED
    BY <1>1, <2>1, IsASeq
<1>5. OwnCommands(x) = o.cmds
  <2> DEFINE p == OwnParts(x)
             w == o.cmds
  <2>1. p \in Seq(Seq(Cmds)) /\ Len(p) = n
    BY <1>4, OwnPartsType
  <2>2. ASSUME NEW i \in 1..n PROVE p[i] = << w[i] >>
    <3>1. DOMAIN x = 1..n
      OBVIOUS
    <3>2. p[i] = OwnOf(x[i])
      <4> HIDE DEF x
      <4>1. QED
        BY <3>1 DEF OwnParts
    <3>3. QED
      BY <1>3, <3>2
  <2>3. w \in Seq(Cmds) /\ Len(p) = Len(w) /\ \A i \in 1..Len(w) : p[i] = << w[i] >>
    BY <1>1, <2>1, <2>2
  <2> HIDE DEF p, w
  <2>4. FlattenSeq(p) = w
    BY <2>1, <2>3, FlattenSingles
  <2>5. QED
    BY <2>4, OwnIs DEF p, w
<1>6. y \in Seq(Kept) /\ OwnCommands(y) = <<>>
  <2>1. CASE rdb.expireMs = 0
    BY <2>1, OwnEmpty
  <2>2. CASE rdb.expireMs # 0
    <3>1. argv \in Seq(Words) /\ argv[1] = "PEXPIRE" /\ o.at # None
      <4>1. "PEXPIRE" \in Words /\ "ms" \in Words
        BY RdbAssumption
      <4>2. QED
        BY <1>1, <2>2, <4>1, Triple
    <3> HIDE DEF argv
    <3>3. e \in Kept
      BY <1>0, <1>1, <3>1, KeptEntry
    <3>4. e.argv = argv /\ e.of.at = o.at
      BY <1>0 DEF Entry
    <3> HIDE DEF e
    <3>5. OwnOf(e) = <<>> /\ y = << e >>
      BY <2>2, <3>1, <3>4 DEF OwnOf
    <3>6. OwnParts(<< e >>) = << <<>> >>
      BY <3>5 DEF OwnParts
    <3>7. << <<>> >> \in Seq(Seq(Cmds)) /\ \A i \in 1..Len(<< <<>> >>) : << <<>> >>[i] = <<>>
      OBVIOUS
    <3>8. FlattenSeq(<< <<>> >>) = <<>>
      BY <3>7, FlattenNone
    <3>9. OwnCommands(<< e >>) = <<>>
      BY <3>6, <3>8, OwnIs
    <3>10. << e >> \in Seq(Kept)
      BY <3>3
    <3>11. QED
      BY <3>5, <3>9, <3>10
  <2>3. QED
    BY <2>1, <2>2
<1> HIDE DEF x, y
<1>7. OwnCommands(x \o y) = OwnCommands(x) \o OwnCommands(y)
  BY <1>4, <1>6, OwnConcat
<1>8. QED
  BY <1>1, <1>2, <1>5, <1>6, <1>7, EmptyLeft

LEMMA DumpedOwn ==
  ASSUME NEW o \in Opcodes, o.op = "value", DumpedValue(o) \in Seq(Kept)
  PROVE  OwnCommands(DumpedValue(o)) = << Restore(o.key) >>
<1> DEFINE ttl == IF rdb.expireMs > 0 THEN rdb.expireMs ELSE 0
           argv == Restore(o.key)
           e == Entry(rdb.db, argv, ttl, Origin(o.key, o.at, rdb.now))
<1>1. DumpedValue(o) = << e >>
  BY DEF DumpedValue
<1>2. argv[1] # "PEXPIRE"
  <2> DEFINE u == <<"RESTORE", o.key, "ms", "dump">>
             v == IF Rewrite THEN <<"replace">> ELSE <<>>
  <2>1. "RESTORE" \in Words /\ "ms" \in Words /\ "dump" \in Words /\ o.key \in Words
    BY RdbAssumption DEF Opcodes
  <2>2. u \in Seq(Words)
    BY <2>1, Quadruple
  <2>3. Len(u) = 4 /\ u[1] = "RESTORE"
    OBVIOUS
  <2>4. v \in Seq(Words)
    BY RdbAssumption
  <2> HIDE DEF u, v
  <2>5. (u \o v)[1] = u[1]
    <3>1. Len(u) \in Nat /\ Len(v) \in Nat
      BY <2>2, <2>4
    <3>2. 1 \in 1..(Len(u) + Len(v)) /\ 1 <= Len(u)
      BY <2>3, <3>1
    <3>3. QED
      BY <2>2, <2>4, <3>2, ConcatProperties
  <2>6. (u \o v)[1] # "PEXPIRE"
    BY <2>3, <2>5
  <2>7. QED
    BY <2>6 DEF u, v, Restore
<1>3. e \in Kept
  <2> HIDE DEF e
  <2>1. QED
    BY <1>1
<1>4. e.argv = argv
  BY DEF Entry
<1> HIDE DEF e, argv
<1>5. OwnCommands(<< e >>) = << argv >>
  BY <1>2, <1>3, <1>4, OwnOne
<1>6. QED
  BY <1>1, <1>5 DEF argv

(* What a round of the loader takes from the file is what it has to send. *)
LEMMA RoundOwn ==
  ASSUME ReaderInv, RdbRead, rdb' # rdb, rdb.pending = <<>>
  PROVE  /\ rdb.pc = "read" /\ rdb.rest # <<>> /\ rdb'.rest = Tail(rdb.rest)
         /\ rdb'.pc = "send" \/ (rdb'.pc = "end" /\ rdb'.pending = <<>> /\ Tail(rdb.rest) = <<>>)
         /\ rdb'.pending \in Seq(Kept) /\ OwnCommands(rdb'.pending) = OpCommands(Head(rdb.rest))
<1>0. rdb \in RdbType /\ rdb.pc = "read"
  BY DEF ReaderInv, RdbInv, RdbRead
<1>1. PICK ops, k : Place(ops, k, rdb.rest, rdb.expireMs, rdb.now)
  BY DEF ReaderInv, RdbInv
<1>2. ~Unreadable /\ ReadOp(Head(rdb.rest))
  BY Zenon DEF RdbRead
<1> DEFINE o == ops[k + 1]
<1>3. rdb.rest # <<>> /\ Head(rdb.rest).op \notin {"function", "unknown"}
  BY <1>2 DEF Unreadable
<1>4. /\ k + 1 \in 1..Len(ops) /\ k \in Nat /\ Head(rdb.rest) = o /\ o \in Opcodes
      /\ Tail(rdb.rest) = SubSeq(ops, (k + 1) + 1, Len(ops)) /\ Tail(rdb.rest) \in Seq(Opcodes)
  BY <1>1, <1>3, NextPlace
<1>5. Snapshot(ops) /\ Carries(ops, k, rdb.expireMs, rdb.now) /\ rdb.expireMs \in Nat
  BY <1>0, <1>1 DEF Place, RdbType
<1>6. rdb' \in RdbType
  BY RdbReadKeeps DEF RdbInv
<1>7. rdb'.pending \in Seq(Kept)
  BY <1>6 DEF RdbType
<1>8. SUFFICES /\ rdb'.rest = Tail(rdb.rest)
               /\ rdb'.pc = "send" \/ (rdb'.pc = "end" /\ rdb'.pending = <<>> /\ Tail(rdb.rest) = <<>>)
               /\ OwnCommands(rdb'.pending) = OpCommands(o)
  BY <1>0, <1>3, <1>4, <1>7
<1>9. o.op \in {"value", "expire", "select", "aux", "function2", "ignored", "eof"}
  BY <1>3, <1>4 DEF Opcodes
<1>10. CASE o.op = "value"
  <2>1. ReadValue(o)
    BY <1>2, <1>4, <1>10 DEF ReadOp
  <2>2. /\ o.at = None => rdb.expireMs = 0
        /\ o.at # None => Timely(o.at, rdb.expireMs, rdb.now)
    BY <1>4, <1>5, <1>10, OwnExpiry
  <2>3. \A j \in DOMAIN o.cmds : o.cmds[j] # <<>> /\ o.cmds[j][1] \notin {"RESTORE", "PEXPIRE"}
    BY <1>4, <1>5, <1>10 DEF Snapshot, RewritesOK
  <2>4. RdbInv /\ o \in Opcodes
    BY <1>4 DEF ReaderInv
  <2> HIDE DEF o
  <2>5. rdb'.pc = "send" /\ rdb'.rest = Tail(rdb.rest) /\ rdb'.pending = ValueEntries(o)
    BY <1>0, <2>1 DEF ReadValue, RdbType
  <2>6. OpCommands(o) = IF o.big THEN o.cmds ELSE << Restore(o.key) >>
    BY <1>10 DEF OpCommands
  <2>7. OwnCommands(BigValue(o)) = o.cmds
    BY <1>10, <2>2, <2>3, <2>4, BigOwn
  <2>8. BigValue(o) \in Seq(Kept) /\ DumpedValue(o) \in Seq(Kept)
    BY <1>10, <2>2, <2>4, ValueKept
  <2>9. OwnCommands(DumpedValue(o)) = << Restore(o.key) >>
    BY <1>10, <2>4, <2>8, DumpedOwn
  <2>10. OwnCommands(ValueEntries(o)) = OwnCommands(IF o.big THEN BigValue(o) ELSE DumpedValue(o))
    BY <2>8, OwnMarked DEF ValueEntries
  <2>11. QED
    BY <2>5, <2>6, <2>7, <2>9, <2>10
<1>11. CASE o.op = "aux"
  <2> DEFINE argv == <<"script", "load", "lua">>
             e == Entry(0, argv, 0, NoValue)
             p == IF o.key = "lua" THEN << e >> ELSE <<>>
  <2>1. ReadAux(o)
    BY <1>2, <1>4, <1>11 DEF ReadOp
  <2>2. rdb' = [rdb EXCEPT !.pc = "send", !.rest = Tail(@), !.pending = p]
    BY <2>1 DEF ReadAux
  <2>3. OpCommands(o) = IF o.key = "lua" THEN << argv >> ELSE <<>>
    BY <1>11 DEF OpCommands
  <2>4. argv \in Seq(Words)
    BY AddedTypes DEF Cmds
  <2> HIDE DEF argv, o
  <2>5. e \in Kept /\ e.argv = argv /\ e.of.at = None
    <3>1. e \in Kept
      BY <2>4, CommandKept
    <3>2. QED
      BY <3>1 DEF Entry, NoValue, Origin
  <2> HIDE DEF e
  <2>6. OwnCommands(<< e >>) = << argv >>
    BY <2>5, OwnOne
  <2>7. OwnCommands(p) = OpCommands(o)
    BY <2>3, <2>6, OwnEmpty
  <2> HIDE DEF p
  <2>8. rdb'.pc = "send" /\ rdb'.rest = Tail(rdb.rest) /\ rdb'.pending = p
    BY <1>0, <2>2 DEF RdbType
  <2>9. QED
    BY <2>7, <2>8
<1>12. CASE o.op = "function2"
  <2> DEFINE argv == <<"function", "load", "replace", "lib">>
             e == Entry(0, argv, 0, NoValue)
  <2>1. ReadFunction2(o)
    BY <1>2, <1>4, <1>12 DEF ReadOp
  <2>2. rdb' = [rdb EXCEPT !.pc = "send", !.rest = Tail(@), !.pending = << e >>]
    BY <2>1 DEF ReadFunction2
  <2>3. OpCommands(o) = << argv >>
    BY <1>12 DEF OpCommands
  <2>4. argv \in Seq(Words)
    BY AddedTypes DEF Cmds
  <2> HIDE DEF argv, o
  <2>5. e \in Kept /\ e.argv = argv /\ e.of.at = None
    <3>1. e \in Kept
      BY <2>4, CommandKept
    <3>2. QED
      BY <3>1 DEF Entry, NoValue, Origin
  <2> HIDE DEF e
  <2>6. OwnCommands(<< e >>) = << argv >>
    BY <2>5, OwnOne
  <2>7. rdb'.pc = "send" /\ rdb'.rest = Tail(rdb.rest) /\ rdb'.pending = << e >>
    BY <1>0, <2>2 DEF RdbType
  <2>8. QED
    BY <2>3, <2>6, <2>7
<1>13. CASE o.op \in {"expire", "select", "ignored", "eof"}
  <2>1. OpCommands(o) = <<>>
    BY <1>13 DEF OpCommands
  <2>2. rdb'.rest = Tail(rdb.rest) /\ rdb'.pending = rdb.pending /\ (IF o.op = "eof" THEN rdb'.pc = "end" ELSE rdb'.pc = "send")
    <3> HIDE DEF o
    <3>1. CASE o.op = "expire"
      BY <1>0, <1>2, <1>4, <3>1 DEF ReadOp, ReadExpire, RdbType
    <3>2. CASE o.op = "select"
      BY <1>0, <1>2, <1>4, <3>2 DEF ReadOp, ReadSelect, RdbType
    <3>3. CASE o.op = "ignored"
      BY <1>0, <1>2, <1>4, <3>3 DEF ReadOp, ReadIgnored, RdbType
    <3>4. CASE o.op = "eof"
      BY <1>0, <1>2, <1>4, <3>4 DEF ReadOp, ReadEof, RdbType
    <3>5. QED
      BY <1>13, <3>1, <3>2, <3>3, <3>4
  <2>3. ASSUME o.op = "eof" PROVE Tail(rdb.rest) = <<>>
    <3>1. ops \in Seq(Opcodes) /\ DOMAIN ops = 1..Len(ops) /\ Len(ops) \in Nat
      BY <1>5 DEF Snapshot
    <3>2. k + 1 = Len(ops)
      BY <1>4, <1>5, <2>3, <3>1 DEF Snapshot, EofLast
    <3>3. SubSeq(ops, (k + 1) + 1, Len(ops)) = <<>>
      BY <1>4, <3>1, <3>2, SubSeqEmpty
    <3>4. QED
      BY <1>4, <3>3
  <2>4. QED
    BY <1>13, <2>1, <2>2, <2>3, OwnEmpty
<1>14. QED
  BY <1>9, <1>10, <1>11, <1>12, <1>13

LEMMA RoundAt ==
  ASSUME NEW s, NEW a, NEW r, NEW ch, NEW c, Typed(s, a, r, ch), BackupAt(s, a, r, ch, c), a.pc = "forward",
         r.pc = "read", r.rest # <<>>, NEW q, q.rest = Tail(r.rest),
         q.pc = "send" \/ (q.pc = "end" /\ q.pending = <<>> /\ Tail(r.rest) = <<>>),
         q.pending \in Seq(Kept), OwnCommands(q.pending) = OpCommands(Head(r.rest))
  PROVE  BackupAt(s, a, q, ch, c)
<1> DEFINE p == OwnCommands(q.pending)
           t == SnapshotCommands(Tail(r.rest))
           m == Ahead(Tail(a.todo))
           u == OwnCommands(s \o ch)
<1>1. s \in Seq(Kept) /\ ch \in Seq(Kept) /\ r.rest \in Seq(Opcodes) /\ Disk(disk)
  BY TypedParts DEF Typed
<1>2. r.pending = <<>> /\ OnTrack(s, a, r, ch) /\ ~a.single /\ FilesOK(a.todo)
  BY DEF BackupAt, InBase, Lost, SnapshotAt
<1>3. a.todo # <<>>
  BY <1>2 DEF Typed, AofGood
<1>4. m \in Seq(Cmds)
  <2>1. FilesOK(Tail(a.todo))
    BY <1>2, <1>3, TailOK
  <2>2. QED
    BY <1>1, <2>1, AheadType DEF FilesOK
<1>5. Tail(r.rest) \in Seq(Opcodes)
  BY <1>1
<1>6. t \in Seq(Cmds) /\ p \in Seq(Cmds)
  BY <1>5, SnapshotType, OwnType
<1>7. s \o ch \in Seq(Kept)
  BY <1>1
<1>8. u \in Seq(Cmds)
  BY <1>7, OwnType
<1>9. Coming(a, r) = (p \o t) \o m /\ Coming(a, q) = t \o m
  <2>1. SnapshotCommands(r.rest) = p \o t
    BY <1>1, SnapshotHead
  <2>2. QED
    BY <2>1 DEF Coming
<1>10. s \o Flight(a, r, ch) = s \o ch
  <2>1. ch \o <<>> = ch
    BY <1>1
  <2>2. QED
    BY <1>2, <2>1 DEF Flight
<1>11. OwnCommands(s \o Flight(a, q, ch)) = u \o p
  <2> DEFINE z == q.pending
             v == s \o ch
  <2>1. z \in Seq(Kept) /\ v \in Seq(Kept)
    BY <1>7
  <2>2. s \o (ch \o z) = v \o z
    <3> HIDE DEF z
    <3>1. QED
      BY <1>1, <2>1, ConcatAssociative
  <2>3. OwnCommands(v \o z) = OwnCommands(v) \o OwnCommands(z)
    <3> HIDE DEF z, v
    <3>1. QED
      BY <2>1, OwnConcat
  <2>4. QED
    BY <2>2, <2>3 DEF Flight
<1>12. u \o ((p \o t) \o m) = WholeLog
  BY <1>2, <1>9, <1>10 DEF OnTrack
<1>13. OnTrack(s, a, q, ch) <=> (u \o p) \o (t \o m) = WholeLog
  BY <1>9, <1>11 DEF OnTrack
<1> HIDE DEF p, t, m, u
<1>14. (u \o p) \o (t \o m) = u \o ((p \o t) \o m)
  <2>1. t \o m \in Seq(Cmds)
    BY <1>4, <1>6
  <2>2. (u \o p) \o (t \o m) = u \o (p \o (t \o m))
    BY <1>6, <1>8, <2>1, ConcatAssociative
  <2>3. p \o (t \o m) = (p \o t) \o m
    BY <1>4, <1>6, ConcatAssociative
  <2>4. QED
    BY <2>2, <2>3
<1>15. OnTrack(s, a, q, ch)
  BY <1>12, <1>13, <1>14
<1>16. SnapshotAt(q, c)
  BY DEF SnapshotAt
<1>17. QED
  BY <1>15, <1>16 DEF BackupAt

(* What was made from an opcode goes to the nested channel. *)
LEMMA PendingAt ==
  ASSUME NEW s, NEW a, NEW r, NEW ch, NEW c, Typed(s, a, r, ch), BackupAt(s, a, r, ch, c), a.pc = "forward",
         r.pc = "send", r.pending # <<>>, NEW q, q.rest = r.rest, q.pc = "send", q.pending = Tail(r.pending)
  PROVE  BackupAt(s, a, q, Append(ch, Head(r.pending)), c)
<1> DEFINE e == Head(r.pending)
           t == Tail(r.pending)
           d == Append(ch, e)
           p == r.pending
<1>1. ch \in Seq(Kept) /\ p \in Seq(Kept) /\ e \in Kept /\ t \in Seq(Kept) /\ p = << e >> \o t
  BY TypedParts DEF Typed
<1>2. OnTrack(s, a, r, ch)
  BY DEF BackupAt, InBase, Lost
<1> HIDE DEF e, t, p
<1>3. d \o t = ch \o p
  <2>1. << e >> \in Seq(Kept) /\ d = ch \o << e >>
    BY <1>1
  <2>2. (ch \o << e >>) \o t = ch \o (<< e >> \o t)
    BY <1>1, <2>1, ConcatAssociative
  <2>3. QED
    BY <1>1, <2>1, <2>2
<1>4. Flight(a, q, d) = Flight(a, r, ch) /\ Coming(a, q) = Coming(a, r)
  BY <1>3 DEF Flight, Coming, t, p
<1> HIDE DEF d
<1>5. OnTrack(s, a, q, d) /\ SnapshotAt(q, c)
  BY <1>2, <1>4 DEF OnTrack, SnapshotAt
<1>6. BackupAt(s, a, q, d, c)
  BY <1>5 DEF BackupAt
<1>7. QED
  BY <1>6 DEF d, e

(* The loader goes on, stops on a signal, or closes its channel. *)
LEMMA RoundEndAt ==
  ASSUME NEW s, NEW a, NEW r, NEW ch, NEW c, Typed(s, a, r, ch), BackupAt(s, a, r, ch, c), a.pc = "forward",
         r.pending = <<>>, NEW q, q.rest = r.rest, q.pending = <<>>,
         \/ r.pc = "send" /\ (q.pc = "read" \/ (c /\ q.pc = "end"))
         \/ r.pc = "end" /\ q.pc = "closed"
  PROVE  BackupAt(s, a, q, ch, c)
<1>1. OnTrack(s, a, r, ch) /\ SnapshotAt(r, c)
  BY DEF BackupAt, InBase, Lost
<1>2. Flight(a, q, ch) = Flight(a, r, ch) /\ Coming(a, q) = Coming(a, r)
  BY DEF Flight, Coming
<1>3. OnTrack(s, a, q, ch) /\ SnapshotAt(q, c)
  BY <1>1, <1>2 DEF OnTrack, SnapshotAt
<1>4. QED
  BY <1>3 DEF BackupAt
-----------------------------------------------------------------------------
(* The steps of the readers keep the invariant. *)

Moved == BackupAt(sent'[1], aof', rdb', rdbCh', cancelled)

LEMMA NowTyped ==
  ASSUME ReaderInv, cfg.reader = "aof", main.pc # "create" PROVE Typed(sent[1], aof, rdb, rdbCh) /\ 1 \in DOMAIN sent
<1>1. Chans = {1} /\ sent \in [Chans -> Seq(Kept)]
  BY DEF ReaderInv, OpenInv, ChanInv
<1>2. Disk(disk) /\ timestamp \in Nat
  BY DiskOK
<1>3. QED
  BY <1>1, <1>2 DEF ReaderInv, AofInv, RdbInv, Typed

LEMMA ManifestMoves ==
  ASSUME Typed(sent[1], aof, rdb, rdbCh), BackupAt(sent[1], aof, rdb, rdbCh, cancelled), AofManifestLine
  PROVE  Moved
<1> DEFINE l == Head(aof.lines)
           n == [aof EXCEPT !.lines = Tail(@), !.lineNum = @ + 1]
<1>1. aof.pc = "manifest" /\ aof.lines # <<>> /\ UNCHANGED <<sent, rdb, rdbCh>>
  BY DEF AofManifestLine, rdbVars
<1>2. \/ l.line = "comment" /\ aof' = n
      \/ l.line \in {"blank", "short"} /\ aof' = [n EXCEPT !.pc = "single"]
      \/ UNCHANGED aof
      \/ l.line = "info" /\ ~BadLine(l) /\ aof' = [n EXCEPT !.am = AddLine(@, l)]
  BY Zenon DEF AofManifestLine
<1>3. l.line = "info" /\ ~BadLine(l) => (l.type = "b" => aof.am.base = <<>>)
  BY DEF BadLine
<1>4. CASE UNCHANGED aof
  BY <1>1, <1>4 DEF Moved
<1>5. CASE ~UNCHANGED aof
  <2>1. \/ l.line = "comment" /\ aof' = n
        \/ l.line \in {"blank", "short"} /\ aof' = [n EXCEPT !.pc = "single"]
        \/ l.line = "info" /\ (l.type = "b" => aof.am.base = <<>>) /\ aof' = [n EXCEPT !.am = AddLine(@, l)]
    BY <1>2, <1>3, <1>5, Zenon
  <2>2. l = Head(aof.lines) /\ n = [aof EXCEPT !.lines = Tail(@), !.lineNum = @ + 1]
    OBVIOUS
  <2> HIDE DEF l, n
  <2>3. LineStep(aof, l, n, aof')
    BY <1>1, <2>1, <2>2, Zenon DEF LineStep
  <2>4. BackupAt(sent[1], aof', rdb, rdbCh, cancelled)
    BY <2>3, LineAt
  <2>5. QED
    BY <1>1, <2>4 DEF Moved
<1>6. QED
  BY <1>4, <1>5

LEMMA MultiMoves ==
  ASSUME Typed(sent[1], aof, rdb, rdbCh), BackupAt(sent[1], aof, rdb, rdbCh, cancelled), AofMulti
  PROVE  Moved
<1> DEFINE files == BaseAndIncr(aof.am)
           bad == files = <<>> \/ \E i \in DOMAIN files : Missing(files[i])
           empty == ~bad /\ \A i \in DOMAIN files : Size(disk.files[files[i].name]) = 0
<1>1. aof.pc = "multi" /\ UNCHANGED <<sent, rdb, rdbCh>>
  BY DEF AofMulti, rdbVars
<1>2. \/ UNCHANGED aof
      \/ empty /\ aof' = [aof EXCEPT !.pc = "close"]
      \/ ~bad /\ aof' = [aof EXCEPT !.pc = "next", !.todo = FilesInOrder(aof.am)]
  BY Zenon DEF AofMulti
<1>3. CASE UNCHANGED aof
  BY <1>1, <1>3 DEF Moved
<1>4. CASE ~UNCHANGED aof
  <2>1. /\ files = BaseAndIncr(aof.am) /\ files # <<>> /\ \A i \in DOMAIN files : ~Missing(files[i])
        /\ \/ /\ \A i \in DOMAIN files : Size(disk.files[files[i].name]) = 0
              /\ aof' = [aof EXCEPT !.pc = "close"]
           \/ aof' = [aof EXCEPT !.pc = "next", !.todo = FilesInOrder(aof.am)]
    BY <1>2, <1>4, Zenon
  <2> HIDE DEF files
  <2>2. MultiStep(aof, files, aof')
    BY <1>1, <2>1, Zenon DEF MultiStep
  <2>3. BackupAt(sent[1], aof', rdb, rdbCh, cancelled)
    BY <2>2, MultiAt
  <2>4. QED
    BY <1>1, <2>3 DEF Moved
<1>5. QED
  BY <1>3, <1>4

LEMMA OpenMoves ==
  ASSUME Typed(sent[1], aof, rdb, rdbCh), BackupAt(sent[1], aof, rdb, rdbCh, cancelled), AofOpen
  PROVE  Moved
<1>1. aof.pc = "next" /\ aof.todo # <<>> /\ UNCHANGED <<sent, rdbCh>>
  BY DEF AofOpen, rdbVars
<1>2. \/ Missing(Head(aof.todo)) /\ aof' = [aof EXCEPT !.todo = Tail(@)] /\ rdb' = rdb
      \/ /\ ~Missing(Head(aof.todo)) /\ disk.files[Head(aof.todo).name].kind = "rdb"
         /\ aof' = [aof EXCEPT !.pc = "forward"] /\ rdb' = StartRdb(disk.files[Head(aof.todo).name].ops, TRUE)
      \/ /\ ~Missing(Head(aof.todo)) /\ disk.files[Head(aof.todo).name].kind = "aof"
         /\ aof' = [aof EXCEPT !.pc = "read", !.recs = disk.files[Head(aof.todo).name].recs,
                               !.at = IF Head(aof.todo).type = "b" THEN 0 ELSE timestamp] /\ rdb' = rdb
  BY Zenon DEF AofOpen, rdbVars
<1>3. BackupAt(sent[1], aof', rdb', rdbCh, cancelled)
  BY <1>1, <1>2, OpenAt
<1>4. QED
  BY <1>1, <1>3 DEF Moved

LEMMA ForwardMoves ==
  ASSUME Typed(sent[1], aof, rdb, rdbCh), BackupAt(sent[1], aof, rdb, rdbCh, cancelled), 1 \in DOMAIN sent,
         AofForward \/ AofForwardEnd
  PROVE  Moved
<1>1. CASE AofForward
  <2>1. /\ aof.pc = "forward" /\ rdbCh # <<>> /\ rdbCh' = Tail(rdbCh) /\ UNCHANGED <<rdb, aof>>
        /\ sent' = [sent EXCEPT ![1] = Append(@, Head(rdbCh))]
    BY <1>1 DEF AofForward, Push
  <2>2. BackupAt(Append(sent[1], Head(rdbCh)), aof, rdb, Tail(rdbCh), cancelled)
    BY <2>1, ForwardAt
  <2>3. sent'[1] = Append(sent[1], Head(rdbCh))
    BY <2>1
  <2>4. QED
    BY <2>1, <2>2, <2>3 DEF Moved
<1>2. CASE AofForwardEnd
  <2>1. /\ aof.pc = "forward" /\ rdbCh = <<>> /\ rdb.pc = "closed" /\ EndFile("ok") /\ rdb' = IdleRdb
        /\ UNCHANGED <<sent, rdbCh>>
    BY <1>2 DEF AofForwardEnd
  <2>2. InBase(aof)
    BY <2>1 DEF BackupAt
  <2>3. aof' = [aof EXCEPT !.pc = "next", !.todo = Tail(@)]
    BY <2>1, <2>2 DEF EndFile, InBase
  <2>4. BackupAt(sent[1], aof', IdleRdb, rdbCh, cancelled)
    BY <2>1, <2>3, ForwardEndAt
  <2>5. QED
    BY <2>1, <2>4 DEF Moved
<1>3. QED
  BY <1>1, <1>2

LEMMA ReadMoves ==
  ASSUME Typed(sent[1], aof, rdb, rdbCh), BackupAt(sent[1], aof, rdb, rdbCh, cancelled), AofRead
  PROVE  Moved
<1> DEFINE h == Head(aof.recs)
<1>1. aof.pc = "read" /\ UNCHANGED <<sent, rdb, rdbCh>> /\ aof \in AofType
  BY DEF AofRead, rdbVars, Typed, AofGood
<1>2. SUFFICES BackupAt(sent[1], aof', rdb, rdbCh, cancelled)
  BY <1>1 DEF Moved
<1>3. CASE UNCHANGED aof
  BY <1>3
<1>4. CASE ~UNCHANGED aof /\ (cancelled \/ aof.recs = <<>>)
  <2>1. EndFile("ok")
    BY <1>4, Zenon DEF AofRead
  <2>2. aof' = IF InBase(aof) THEN [aof EXCEPT !.pc = "next", !.todo = Tail(@)] ELSE [aof EXCEPT !.pc = "close"]
    BY <2>1 DEF EndFile, InBase
  <2>3. QED
    BY <1>1, <1>4, <2>2, ReadEndAt
<1>5. CASE ~UNCHANGED aof /\ ~(cancelled \/ aof.recs = <<>>)
  <2>1. \/ ~Panics(h) /\ Truncates(h) /\ EndFile("truncated")
        \/ h.rec = "cut" /\ EndFile("failed")
        \/ h.rec \in {"ts", "note"} /\ ~Panics(h) /\ ~Truncates(h) /\ aof' = [aof EXCEPT !.recs = Tail(@)]
        \/ h.rec = "cmd" /\ aof' = [aof EXCEPT !.pc = "send", !.recs = Tail(@), !.e = << Entry(0, h.argv, 0, NoValue) >>]
    BY <1>5, Zenon DEF AofRead
  <2>2. Truncates(h) <=> Late(aof, h)
    BY DEF Truncates, Late
  <2>3. aof.at = IF InBase(aof) THEN 0 ELSE timestamp
    BY <1>1 DEF BackupAt
  <2> HIDE DEF h
  <2>4. CASE Truncates(h) /\ EndFile("truncated")
    <3>1. ~InBase(aof)
      BY <2>3, <2>4 DEF Truncates
    <3>2. aof' = [aof EXCEPT !.pc = "close"]
      BY <2>4, <3>1 DEF EndFile, InBase
    <3>3. Late(aof, Head(aof.recs)) /\ aof.recs # <<>> /\ ~cancelled
      BY <1>5, <2>2, <2>4 DEF h
    <3>4. QED
      BY <1>1, <3>1, <3>2, <3>3, ReadStopAt
  <2>5. CASE h.rec = "cut" /\ EndFile("failed")
    <3>1. ~InBase(aof)
      BY <1>5, <2>5 DEF EndFile, InBase
    <3>2. aof' = [aof EXCEPT !.pc = "close"]
      BY <2>5, <3>1 DEF EndFile, InBase
    <3>3. Head(aof.recs).rec = "cut" /\ aof.recs # <<>> /\ ~cancelled
      BY <1>5, <2>5 DEF h
    <3>4. QED
      BY <1>1, <3>1, <3>2, <3>3, ReadStopAt
  <2>6. CASE h.rec \in {"ts", "note"} /\ ~Truncates(h) /\ aof' = [aof EXCEPT !.recs = Tail(@)]
    <3>1. /\ aof'.pc = "read" /\ aof'.e = aof.e /\ aof'.recs = Tail(aof.recs) /\ aof'.todo = aof.todo
          /\ aof'.single = aof.single /\ aof'.at = aof.at
      BY <1>1, <2>6 DEF AofType
    <3>2. Head(aof.recs).rec \in {"ts", "note"} /\ ~Late(aof, Head(aof.recs)) /\ aof.recs # <<>>
      BY <1>5, <2>2, <2>6 DEF h
    <3>3. PICK b : b = aof'
      OBVIOUS
    <3>4. BackupAt(sent[1], b, rdb, rdbCh, cancelled)
      BY <1>1, <3>1, <3>2, <3>3, ReadSkipAt
    <3>5. QED
      BY <3>3, <3>4
  <2>7. CASE h.rec = "cmd" /\ aof' = [aof EXCEPT !.pc = "send", !.recs = Tail(@), !.e = << Entry(0, h.argv, 0, NoValue) >>]
    <3> DEFINE e == << Entry(0, h.argv, 0, NoValue) >>
    <3>1. /\ aof'.pc = "send" /\ aof'.e = e /\ aof'.recs = Tail(aof.recs) /\ aof'.todo = aof.todo
          /\ aof'.single = aof.single /\ aof'.at = aof.at
      BY <1>1, <2>7 DEF AofType
    <3>2. Head(aof.recs).rec = "cmd" /\ aof.recs # <<>> /\ e = << Entry(0, Head(aof.recs).argv, 0, NoValue) >> /\ ~cancelled
      BY <1>5, <2>7 DEF h
    <3> HIDE DEF e
    <3>3. PICK b : b = aof'
      OBVIOUS
    <3>4. BackupAt(sent[1], b, rdb, rdbCh, cancelled)
      BY <1>1, <3>1, <3>2, <3>3, ReadCmdAt
    <3>5. QED
      BY <3>3, <3>4
  <2>8. QED
    BY <2>1, <2>4, <2>5, <2>6, <2>7
<1>6. QED
  BY <1>3, <1>4, <1>5

LEMMA AofMoves ==
  ASSUME ReaderInv, BackupInv, AofStep PROVE Moved /\ UNCHANGED <<disk, timestamp, cancelled>>
<1>0. UNCHANGED <<disk, timestamp, cancelled>>
  BY Zenon DEF AofStep, AofManifestLine, AofManifestEnd, AofSingle, AofMulti, AofOpen, AofAllFiles, AofForward,
    AofForwardEnd, AofRead, AofSend, AofClose, KeepRest
<1>1. aof.pc \notin {"idle", "closed"}
  BY DEF AofStep, AofManifestLine, AofManifestEnd, AofSingle, AofMulti, AofOpen, AofAllFiles, AofForward,
    AofForwardEnd, AofRead, AofSend, AofClose
<1>2. cfg.reader = "aof" /\ main.pc # "create"
  BY <1>1, AofRuns
<1>3. Typed(sent[1], aof, rdb, rdbCh) /\ BackupAt(sent[1], aof, rdb, rdbCh, cancelled) /\ 1 \in DOMAIN sent
  BY <1>2, NowTyped DEF BackupInv
<1>4. CASE AofManifestLine
  BY <1>0, <1>3, <1>4, ManifestMoves
<1>5. CASE AofManifestEnd
  <2>1. /\ aof.pc = "manifest" /\ (aof.lines # <<>> => Head(aof.lines).line = "unended")
        /\ aof' = [aof EXCEPT !.pc = IF aof.lineNum = 0 THEN "single" ELSE "multi"]
        /\ UNCHANGED <<sent, rdb, rdbCh>>
    BY <1>5 DEF AofManifestEnd, rdbVars
  <2>2. BackupAt(sent[1], aof', rdb, rdbCh, cancelled)
    BY <1>3, <2>1, EndAt
  <2>3. QED
    BY <1>0, <2>1, <2>2 DEF Moved
<1>6. CASE AofSingle
  <2>1. /\ aof.pc = "single" /\ UNCHANGED <<sent, rdb, rdbCh>>
        /\ aof' = [aof EXCEPT !.pc = "read", !.single = TRUE, !.at = timestamp, !.recs = Records(disk.path)]
    BY <1>6 DEF AofSingle, rdbVars
  <2>2. BackupAt(sent[1], aof', rdb, rdbCh, cancelled)
    BY <1>3, <2>1, SingleAt
  <2>3. QED
    BY <1>0, <2>1, <2>2 DEF Moved
<1>7. CASE AofMulti
  BY <1>0, <1>3, <1>7, MultiMoves
<1>8. CASE AofOpen
  BY <1>0, <1>3, <1>8, OpenMoves
<1>9. CASE AofAllFiles
  <2>1. aof.pc = "next" /\ aof.todo = <<>> /\ aof' = [aof EXCEPT !.pc = "close"] /\ UNCHANGED <<sent, rdb, rdbCh>>
    BY <1>9 DEF AofAllFiles, rdbVars
  <2>2. BackupAt(sent[1], aof', rdb, rdbCh, cancelled)
    BY <1>3, <2>1, AllFilesAt
  <2>3. QED
    BY <1>0, <2>1, <2>2 DEF Moved
<1>10. CASE AofForward \/ AofForwardEnd
  BY <1>0, <1>3, <1>10, ForwardMoves
<1>11. CASE AofRead
  BY <1>0, <1>3, <1>11, ReadMoves
<1>12. CASE AofSend
  <2>1. /\ aof.pc = "send" /\ sent' = [sent EXCEPT ![1] = Append(@, aof.e[1])] /\ aof \in AofType
        /\ aof' = [aof EXCEPT !.pc = "read", !.e = <<>>] /\ UNCHANGED <<rdb, rdbCh>>
    BY <1>3, <1>12 DEF AofSend, Push, rdbVars, Typed, AofGood
  <2>2. /\ aof'.pc = "read" /\ aof'.e = <<>> /\ aof'.recs = aof.recs /\ aof'.todo = aof.todo
        /\ aof'.single = aof.single /\ aof'.at = aof.at
    BY <2>1 DEF AofType
  <2>3. PICK b : b = aof'
    OBVIOUS
  <2>4. BackupAt(Append(sent[1], aof.e[1]), b, rdb, rdbCh, cancelled)
    BY <1>3, <2>1, <2>2, <2>3, SendAt
  <2>5. sent'[1] = Append(sent[1], aof.e[1])
    BY <1>3, <2>1
  <2>6. QED
    BY <1>0, <2>1, <2>3, <2>4, <2>5 DEF Moved
<1>13. CASE AofClose
  <2>1. aof.pc = "close" /\ aof' = [aof EXCEPT !.pc = "closed"] /\ UNCHANGED <<sent, rdb, rdbCh>>
    BY <1>13 DEF AofClose, rdbVars
  <2>2. BackupAt(sent[1], aof', rdb, rdbCh, cancelled)
    BY <1>3, <2>1, CloseAt
  <2>3. QED
    BY <1>0, <2>1, <2>2 DEF Moved
<1>14. QED
  BY <1>0, <1>4, <1>5, <1>6, <1>7, <1>8, <1>9, <1>10, <1>11, <1>12, <1>13 DEF AofStep
LEMMA RdbMoves ==
  ASSUME ReaderInv, BackupInv, RdbStep, UNCHANGED aofVars, cfg.reader = "aof"
  PROVE  Moved /\ UNCHANGED <<disk, timestamp, cancelled>>
<1>0. rdb.pc \in {"read", "send", "end"} /\ UNCHANGED <<disk, timestamp, aof, cancelled>>
  BY DEF RdbStep, RdbRead, RdbSend, RdbCheck, RdbClose, aofVars
<1>1. main.pc # "create" /\ rdb.nested
  BY <1>0, RdbRuns DEF ReaderInv, RdbInv, RdbType
<1>2. Typed(sent[1], aof, rdb, rdbCh) /\ BackupAt(sent[1], aof, rdb, rdbCh, cancelled) /\ rdb \in RdbType
  BY <1>1, NowTyped DEF BackupInv, Typed
<1>3. aof.pc = "forward" /\ SnapshotAt(rdb, cancelled)
  <2>1. rdb # IdleRdb
    BY <1>0 DEF IdleRdb
  <2>2. QED
    BY <1>2, <2>1 DEF BackupAt
<1>4. CASE RdbRead
  <2>1. rdb.pc = "read" /\ rdb.pending = <<>> /\ UNCHANGED <<sent, rdbCh>>
    BY <1>3, <1>4 DEF RdbRead, SnapshotAt
  <2>2. CASE UNCHANGED rdb
    BY <1>0, <1>2, <2>1, <2>2 DEF Moved
  <2>3. CASE ~UNCHANGED rdb
    <3>1. /\ rdb.rest # <<>> /\ rdb'.rest = Tail(rdb.rest)
          /\ rdb'.pc = "send" \/ (rdb'.pc = "end" /\ rdb'.pending = <<>> /\ Tail(rdb.rest) = <<>>)
          /\ rdb'.pending \in Seq(Kept) /\ OwnCommands(rdb'.pending) = OpCommands(Head(rdb.rest))
      BY <1>4, <2>1, <2>3, RoundOwn
    <3>2. PICK q : q = rdb'
      OBVIOUS
    <3>3. BackupAt(sent[1], aof, q, rdbCh, cancelled)
      BY <1>2, <1>3, <2>1, <3>1, <3>2, RoundAt
    <3>4. QED
      BY <1>0, <2>1, <3>2, <3>3 DEF Moved
  <2>4. QED
    BY <2>2, <2>3
<1>5. CASE RdbSend
  <2>1. /\ rdb.pc = "send" /\ rdb.pending # <<>> /\ rdbCh' = Append(rdbCh, Head(rdb.pending)) /\ UNCHANGED sent
        /\ rdb' = [rdb EXCEPT !.pending = Tail(@)]
    BY <1>1, <1>5 DEF RdbSend
  <2>2. rdb'.rest = rdb.rest /\ rdb'.pc = "send" /\ rdb'.pending = Tail(rdb.pending)
    BY <1>2, <2>1 DEF RdbType
  <2>3. PICK q : q = rdb'
    OBVIOUS
  <2>4. BackupAt(sent[1], aof, q, Append(rdbCh, Head(rdb.pending)), cancelled)
    BY <1>2, <1>3, <2>1, <2>2, <2>3, PendingAt
  <2>5. QED
    BY <1>0, <2>1, <2>3, <2>4 DEF Moved
<1>6. CASE RdbCheck \/ RdbClose
  <2>1. /\ rdb.pending = <<>> /\ UNCHANGED <<sent, rdbCh>>
        /\ \/ rdb.pc = "send" /\ rdb' = [rdb EXCEPT !.pc = "read"]
           \/ rdb.pc = "send" /\ cancelled /\ rdb' = [rdb EXCEPT !.pc = "end"]
           \/ rdb.pc = "end" /\ rdb' = [rdb EXCEPT !.pc = "closed"]
    BY <1>3, <1>6 DEF RdbCheck, RdbClose, SnapshotAt
  <2>2. /\ rdb'.rest = rdb.rest /\ rdb'.pending = <<>>
        /\ \/ rdb.pc = "send" /\ (rdb'.pc = "read" \/ (cancelled /\ rdb'.pc = "end"))
           \/ rdb.pc = "end" /\ rdb'.pc = "closed"
    BY <1>2, <2>1 DEF RdbType
  <2>3. PICK q : q = rdb'
    OBVIOUS
  <2>4. BackupAt(sent[1], aof, q, rdbCh, cancelled)
    BY <1>2, <1>3, <2>1, <2>2, <2>3, RoundEndAt
  <2>5. QED
    BY <1>0, <2>1, <2>3, <2>4 DEF Moved
<1>7. QED
  BY <1>0, <1>4, <1>5, <1>6 DEF RdbStep

(* A signal: what a reader that was told to stop has to do is less. *)
LEMMA SignalAt ==
  ASSUME NEW s, NEW a, NEW r, NEW ch, NEW c, BackupAt(s, a, r, ch, c) PROVE BackupAt(s, a, r, ch, TRUE)
<1>1. Lost(s, a, c) => Lost(s, a, TRUE)
  BY DEF Lost
<1>2. SnapshotAt(r, c) => SnapshotAt(r, TRUE)
  BY DEF SnapshotAt
<1>3. QED
  BY <1>1, <1>2 DEF BackupAt

(* The invariant at the end of a step. *)
LEMMA BackupKept ==
  ASSUME UNCHANGED <<disk, timestamp>>, NEW s, NEW a, NEW r, NEW ch, NEW c, BackupAt(s, a, r, ch, c),
         s = sent'[1], a = aof', r = rdb', ch = rdbCh', c = cancelled', main'.pc # "create"
  PROVE  BackupInv'
<1>1. BackupAt(s, a, r, ch, c)'
  BY SameFiles
<1>2. QED
  BY <1>1 DEF BackupInv

LEMMA BackupReads ==
  ASSUME ReaderInv, BackupInv, ReaderStep PROVE BackupInv'
<1>1. CASE AofStep /\ UNCHANGED <<fw, pipeVars>>
  <2>1. aof.pc \notin {"idle", "closed"}
    BY <1>1 DEF AofStep, AofManifestLine, AofManifestEnd, AofSingle, AofMulti, AofOpen, AofAllFiles, AofForward,
      AofForwardEnd, AofRead, AofSend, AofClose
  <2>2. main.pc # "create" /\ main' = main
    BY <1>1, <2>1, AofRuns DEF pipeVars
  <2>3. Moved /\ UNCHANGED <<disk, timestamp, cancelled>>
    BY <1>1, AofMoves
  <2>4. PICK s, a, r, ch, c : s = sent'[1] /\ a = aof' /\ r = rdb' /\ ch = rdbCh' /\ c = cancelled'
    OBVIOUS
  <2>5. BackupAt(s, a, r, ch, c)
    BY <2>3, <2>4 DEF Moved
  <2>6. QED
    BY <2>2, <2>3, <2>4, <2>5, BackupKept
<1>2. CASE RdbStep /\ UNCHANGED <<aofVars, fw, pipeVars>>
  <2>1. rdb.pc \in {"read", "send", "end"}
    BY <1>2 DEF RdbStep, RdbRead, RdbSend, RdbCheck, RdbClose
  <2>2. main.pc # "create" /\ UNCHANGED <<main, cfg>>
    BY <1>2, <2>1, RdbRuns DEF pipeVars
  <2>3. CASE cfg.reader # "aof"
    BY <2>2, <2>3 DEF BackupInv
  <2>4. CASE cfg.reader = "aof"
    <3>1. Moved /\ UNCHANGED <<disk, timestamp, cancelled>>
      BY <1>2, <2>4, RdbMoves
    <3>2. PICK s, a, r, ch, c : s = sent'[1] /\ a = aof' /\ r = rdb' /\ ch = rdbCh' /\ c = cancelled'
      OBVIOUS
    <3>3. BackupAt(s, a, r, ch, c)
      BY <3>1, <3>2 DEF Moved
    <3>4. QED
      BY <2>2, <3>1, <3>2, <3>3, BackupKept
  <2>5. QED
    BY <2>3, <2>4
<1>3. ASSUME NEW c \in DOMAIN chs, FeedSend(c) \/ FeedClose(c) PROVE BackupInv'
  <2>1. cfg.reader = "cluster" /\ UNCHANGED <<cfg, main, rdbCh>>
    BY <1>3 DEF FeedSend, FeedClose, Clustered, rdbVars
  <2>2. QED
    BY <2>1 DEF BackupInv
<1>4. QED
  BY <1>1, <1>2, <1>3 DEF ReaderStep

LEMMA BackupCreated == ASSUME ReaderInv, BackupInv, Create PROVE BackupInv'
<1>0. main.pc = "create" /\ rdb = IdleRdb /\ rdbCh = <<>> /\ UNCHANGED <<disk, timestamp, cancelled, cfg, rdbCh>>
  BY DEF Create, BackupInv, ReaderInv, OpenInv
<1>1. CASE cfg.reader # "aof" \/ main' = main
  BY <1>0, <1>1 DEF BackupInv
<1>2. CASE cfg.reader = "aof" /\ main' # main
  <2>1. /\ sent' = [c \in DOMAIN <<"file">> |-> <<>>] /\ rdb' = rdb /\ aof' = StartAof(disk)
        /\ main' = [main EXCEPT !.pc = "loop", !.left = Len(<<"file">>)]
    BY <1>2 DEF Create, Clustered
  <2>2. sent'[1] = <<>> /\ main'.pc # "create"
    BY <2>1 DEF ReaderInv, OpenInv
  <2>3. PICK s, a, r, ch, c : s = sent'[1] /\ a = aof' /\ r = rdb' /\ ch = rdbCh' /\ c = cancelled'
    OBVIOUS
  <2>4. BackupAt(<<>>, StartAof(disk), IdleRdb, <<>>, c)
    BY DiskOK, StartAt
  <2>5. BackupAt(s, a, r, ch, c)
    BY <1>0, <2>1, <2>2, <2>3, <2>4
  <2>6. QED
    BY <1>0, <2>2, <2>3, <2>5, BackupKept
<1>3. QED
  BY <1>1, <1>2

LEMMA BackupElse ==
  ASSUME ReaderInv, BackupInv, UNCHANGED <<sent, rdbVars, aofVars, cfg>>, cancelled' = cancelled \/ cancelled' = TRUE,
         main'.pc = "create" <=> main.pc = "create"
  PROVE  BackupInv'
<1>1. CASE cfg.reader # "aof" \/ main.pc = "create"
  BY <1>1 DEF BackupInv, rdbVars
<1>2. CASE cfg.reader = "aof" /\ main.pc # "create"
  <2>1. PICK s, a, r, ch, c : s = sent'[1] /\ a = aof' /\ r = rdb' /\ ch = rdbCh' /\ c = cancelled'
    OBVIOUS
  <2>2. UNCHANGED <<disk, timestamp>> /\ s = sent[1] /\ a = aof /\ r = rdb /\ ch = rdbCh
    BY <2>1 DEF rdbVars, aofVars
  <2>3. BackupAt(s, a, r, ch, cancelled)
    BY <1>2, <2>2 DEF BackupInv
  <2>4. BackupAt(s, a, r, ch, c)
    BY <2>1, <2>3, SignalAt
  <2>5. QED
    BY <1>2, <2>1, <2>2, <2>4, BackupKept
<1>3. QED
  BY <1>1, <1>2

LEMMA BackupInit == Init => BackupInv
BY DEF Init, BackupInv

LEMMA BackupNext == ReaderInv /\ BackupInv /\ [Next]_vars => BackupInv'
<1>1. SUFFICES ASSUME ReaderInv, BackupInv, [Next]_vars PROVE BackupInv'
  OBVIOUS
<1>0. main \in [pc : {"create", "loop", "close", "wait"}, left : Int, pings : Nat]
  BY <1>1 DEF ReaderInv, OpenInv
<1>2. CASE ReaderStep
  BY <1>1, <1>2, BackupReads
<1>3. CASE PumpStep
  <2>1. PICK c \in DOMAIN pump : PumpTake(c) \/ PumpParse(c) \/ PumpWrite(c) \/ PumpWritten(c) \/ PumpEnd(c)
    BY <1>3 DEF PumpStep
  <2>2. UNCHANGED <<sent, rdbVars, aofVars, cfg, cancelled>>
    BY <2>1 DEF PumpTake, PumpParse, PumpWrite, PumpWritten, PumpEnd, ReaderVars
  <2>3. main'.pc = "create" <=> main.pc = "create"
    BY <1>0, <2>1 DEF PumpTake, PumpParse, PumpWrite, PumpWritten, PumpEnd
  <2>4. QED
    BY <1>1, <2>2, <2>3, BackupElse
<1>4. CASE Create
  BY <1>1, <1>4, BackupCreated
<1>5. CASE StatusRun \/ MainPing \/ MainClose \/ MainExit \/ FileWriterStep \/ (\E int \in BOOLEAN : Signal(int))
  <2>1. UNCHANGED <<sent, rdbVars, aofVars, cfg>>
    BY <1>5 DEF StatusRun, MainPing, MainClose, MainExit, FileWriterStep, Signal, pipeVars, ReaderVars
  <2>2. main'.pc = "create" <=> main.pc = "create"
    BY <1>0, <1>5 DEF StatusRun, MainPing, MainClose, MainExit, FileWriterStep, Signal, pipeVars
  <2>3. cancelled' = cancelled \/ cancelled' = TRUE
    BY <1>5 DEF StatusRun, MainPing, MainClose, MainExit, FileWriterStep, Signal
  <2>4. QED
    BY <1>1, <2>1, <2>2, <2>3, BackupElse
<1>6. CASE UNCHANGED vars
  BY <1>1, <1>6, BackupElse DEF vars, ReaderVars, pipeVars
<1>7. QED
  BY <1>1, <1>2, <1>3, <1>4, <1>5, <1>6 DEF Next, MainStep, Ended

LEMMA BackupAlways == Spec => []BackupInv
BY BackupInit, BackupNext, ReaderAlways, PTL DEF Spec

(***************************************************************************)
(* aof_reader sends the backup: in every configuration, whatever the       *)
(* manifest lists, whenever a signal comes and however the goroutines of   *)
(* AOF reader, nested RDB reader and main interleave, what was put into    *)
(* the channel is a beginning of the commands the files hold up to the     *)
(* timestamp, and when the channel is closed without a signal and at most  *)
(* one file stands behind the base, it is all of them.                     *)
(***************************************************************************)
THEOREM BackupsAreSent == Spec => []BackupIsSent
<1>1. ASSUME NEW s \in Seq(Kept), Disk(disk), Begun(s) PROVE IsPrefix(OwnCommands(s), WholeLog)
  <2> DEFINE x == OwnCommands(s)
             y == WholeLog
  <2>1. PICK z \in Seq(Cmds) : x \o z = y
    BY <1>1 DEF Begun
  <2>2. x \in Seq(Cmds)
    BY OwnType
  <2> HIDE DEF x, y
  <2>3. y \in Seq(Cmds) /\ Len(x) <= Len(y) /\ Len(x) \in Nat /\ \A i \in 1..Len(x) : y[i] = x[i]
    <3>1. Len(x) \in Nat /\ Len(z) \in Nat /\ Len(x \o z) = Len(x) + Len(z) /\ x \o z \in Seq(Cmds)
      BY <2>2
    <3>2. ASSUME NEW i \in 1..Len(x) PROVE (x \o z)[i] = x[i]
      <4>1. i \in 1..(Len(x) + Len(z)) /\ i <= Len(x)
        BY <3>1
      <4>2. QED
        BY <2>2, <4>1, ConcatProperties
    <3>3. QED
      BY <2>1, <3>1, <3>2
  <2>4. SubSeq(x, 1, Len(x)) = x /\ SubSeq(y, 1, Len(x)) = x
    <3> DEFINE w == SubSeq(y, 1, Len(x))
    <3>1. w \in Seq(Cmds) /\ Len(w) = Len(x) /\ \A i \in 1..Len(x) : w[i] = x[i]
      BY <2>3
    <3> HIDE DEF w
    <3>2. w = x
      BY <2>2, <3>1, SeqEqual
    <3>3. QED
      BY <2>2, <3>2 DEF w
  <2>5. QED
    BY <2>3, <2>4 DEF IsPrefix, x, y
<1>2. ReaderInv /\ BackupInv => BackupIsSent
  <2>1. SUFFICES ASSUME ReaderInv, BackupInv, cfg.reader = "aof", chs # <<>>
                 PROVE  /\ IsPrefix(OwnCommands(sent[1]), WholeLog)
                        /\ ~open[1] /\ ~cancelled /\ OneLog => OwnCommands(sent[1]) = WholeLog
    BY DEF BackupIsSent, FromBackup, SentCommands
  <2>2. main.pc # "create"
    <3>1. SUFFICES ASSUME Chans = {} PROVE FALSE
      BY <2>1 DEF ReaderInv, OpenInv
    <3>2. chs \in [{} -> Seq(Kept)]
      BY <2>1, <3>1 DEF ReaderInv, ChanInv
    <3>3. chs = <<>>
      BY <3>2
    <3>4. QED
      BY <2>1, <3>3
  <2>3. /\ Typed(sent[1], aof, rdb, rdbCh) /\ BackupAt(sent[1], aof, rdb, rdbCh, cancelled)
        /\ sent[1] \in Seq(Kept) /\ Disk(disk) /\ aof.pc # "idle" /\ aof \in AofType
    BY <2>1, <2>2, NowTyped DEF BackupInv, Typed, BackupAt, AofGood
  <2>4. Begun(sent[1])
    <3>1. CASE aof.pc \in {"manifest", "single", "multi"}
      BY <2>3, <3>1, NothingBegun DEF BackupAt
    <3>2. CASE aof.pc \in {"next", "forward", "read", "send"}
      BY <2>3, <3>2, BegunNow
    <3>3. CASE aof.pc \in {"close", "closed"}
      BY <2>3, <3>3 DEF BackupAt
    <3>4. QED
      BY <2>3, <3>1, <3>2, <3>3 DEF AofType
  <2>5. ASSUME ~open[1], ~cancelled, OneLog PROVE OwnCommands(sent[1]) = WholeLog
    <3>1. aof.pc = "closed"
      BY <2>1, <2>3, <2>5 DEF ReaderInv, OpenInv
    <3>2. QED
      BY <2>3, <2>5, <3>1 DEF BackupAt
  <2>6. QED
    BY <1>1, <2>3, <2>4, <2>5
<1>3. QED
  BY <1>2, ReaderAlways, BackupAlways, PTL

=============================================================================
