--------------------------- MODULE PipelineProofs ---------------------------
(* Theorems about what arrives: Pipeline delivers what Delivery promises. *)
EXTENDS ReaderProofs

-----------------------------------------------------------------------------
(* filter.go does what its documentation says. *)

LEMMA SpellingOK ==
  ASSUME NEW key \in DOMAIN Spelling
  PROVE  /\ Spelling[key] \in Seq(ToSet(Spelling[key])) /\ Len(Spelling[key]) \in Nat
         /\ DOMAIN Spelling[key] = 1..Len(Spelling[key])
         /\ \A i \in 1..(Len(Spelling[key]) + 1), j \in 0..Len(Spelling[key]) : Crc16(SubSeq(Spelling[key], i, j)) \in Nat
<1> DEFINE s == Spelling[key]
           S == ToSet(s)
<1>1. s \in Seq(S) /\ \A i \in 1..(Len(s) + 1), j \in 0..Len(s) : Crc16(SubSeq(s, i, j)) \in Nat
  BY CommandsAssumption
<1> HIDE DEF S, s
<1>2. Len(s) \in Nat /\ DOMAIN s = 1..Len(s)
  BY <1>1
<1>3. QED
  BY <1>1, <1>2 DEF s, S

LEMMA PrefixIsBeginning ==
  ASSUME NEW S, NEW T, NEW p \in Seq(S), NEW s \in Seq(T)
  PROVE  IsPrefix(p, s) <=> Len(p) <= Len(s) /\ SubSeq(s, 1, Len(p)) = p
<1>1. SubSeq(p, 1, Len(p)) = p
  OBVIOUS
<1>2. QED
  BY <1>1 DEF IsPrefix

LEMMA ReverseOK ==
  ASSUME NEW S, NEW p \in Seq(S)
  PROVE  /\ Reverse(p) \in Seq(S) /\ Len(Reverse(p)) = Len(p)
         /\ \A i \in 1..Len(p) : Reverse(p)[i] = p[(Len(p) - i) + 1]
<1>1. Len(p) \in Nat /\ \A i \in 1..Len(p) : p[(Len(p) - i) + 1] \in S
  <2>1. ASSUME NEW i \in 1..Len(p) PROVE p[(Len(p) - i) + 1] \in S
    <3>1. (Len(p) - i) + 1 \in 1..Len(p)
      OBVIOUS
    <3>2. QED
      BY <3>1
  <2>2. QED
    BY <2>1
<1>2. Reverse(p) = [i \in 1..Len(p) |-> p[(Len(p) - i) + 1]]
  BY DEF Reverse
<1>3. [i \in 1..Len(p) |-> p[(Len(p) - i) + 1]] \in Seq(S)
  BY <1>1, IsASeq
<1>4. QED
  BY <1>1, <1>2, <1>3

(* A suffix is what is left from some place on. *)
LEMMA SuffixIsEnd ==
  ASSUME NEW S, NEW T, NEW p \in Seq(S), NEW s \in Seq(T)
  PROVE  IsSuffix(p, s) <=> \E i \in 1..(Len(s) + 1) : SubSeq(s, i, Len(s)) = p
<1> DEFINE rp == Reverse(p)
           rs == Reverse(s)
<1>0. Len(p) \in Nat /\ Len(s) \in Nat
  OBVIOUS
<1>1. /\ rp \in Seq(S) /\ Len(rp) = Len(p) /\ \A i \in 1..Len(p) : rp[i] = p[(Len(p) - i) + 1]
      /\ rs \in Seq(T) /\ Len(rs) = Len(s) /\ \A i \in 1..Len(s) : rs[i] = s[(Len(s) - i) + 1]
  BY ReverseOK
<1>2. IsSuffix(p, s) <=> Len(rp) <= Len(rs) /\ SubSeq(rs, 1, Len(rp)) = rp
  <2>1. IsSuffix(p, s) <=> IsPrefix(rp, rs)
    BY DEF IsSuffix
  <2> HIDE DEF rp, rs
  <2>2. QED
    BY <1>1, <2>1, PrefixIsBeginning
<1> HIDE DEF rp, rs
<1>3. ASSUME Len(p) <= Len(s), SubSeq(rs, 1, Len(p)) = rp
      PROVE  \E i \in 1..(Len(s) + 1) : SubSeq(s, i, Len(s)) = p
  <2> DEFINE i == (Len(s) - Len(p)) + 1
             t == SubSeq(s, i, Len(s))
  <2>1. i \in 1..(Len(s) + 1)
    BY <1>0, <1>3
  <2>2. t \in Seq(T) /\ Len(t) = Len(p)
    BY <1>0, <1>3
  <2>3. ASSUME NEW k \in 1..Len(p) PROVE t[k] = p[k]
    <3>1. t[k] = s[(i + k) - 1]
      BY <1>0, <1>3
    <3> DEFINE j == (Len(p) - k) + 1
    <3>2. j \in 1..Len(p) /\ (Len(p) - j) + 1 = k /\ (Len(s) - j) + 1 = (i + k) - 1 /\ j \in 1..Len(s)
      BY <1>0, <1>3
    <3>3. SubSeq(rs, 1, Len(p))[j] = rs[j]
      BY <1>0, <1>1, <1>3, <3>2
    <3>4. rs[j] = rp[j]
      BY <1>3, <3>3
    <3> HIDE DEF j, i, t
    <3>5. rs[j] = s[(Len(s) - j) + 1] /\ rp[j] = p[(Len(p) - j) + 1]
      BY <1>1, <3>2
    <3>6. QED
      BY <3>1, <3>2, <3>4, <3>5
  <2> HIDE DEF t
  <2>4. t = p
    BY <2>2, <2>3, SeqEqual
  <2>5. QED
    BY <2>1, <2>4 DEF t
<1>4. ASSUME NEW i \in 1..(Len(s) + 1), SubSeq(s, i, Len(s)) = p
      PROVE  Len(p) <= Len(s) /\ SubSeq(rs, 1, Len(p)) = rp
  <2>1. Len(p) = (Len(s) - i) + 1
    BY <1>0, <1>4
  <2>2. Len(p) <= Len(s)
    BY <1>0, <2>1
  <2> DEFINE t == SubSeq(rs, 1, Len(p))
  <2>3. t \in Seq(T) /\ Len(t) = Len(p)
    BY <1>0, <1>1, <2>2
  <2>4. ASSUME NEW k \in 1..Len(p) PROVE t[k] = rp[k]
    <3>1. t[k] = rs[k]
      BY <1>0, <1>1, <2>2
    <3> DEFINE j == (Len(p) - k) + 1
    <3>2. j \in 1..Len(p) /\ (Len(s) - k) + 1 = (i + j) - 1 /\ k \in 1..Len(s)
      BY <1>0, <2>1, <2>2
    <3>3. SubSeq(s, i, Len(s))[j] = s[(i + j) - 1]
      BY <1>0, <2>1, <3>2
    <3>4. p[j] = s[(i + j) - 1]
      BY <1>4, <3>3
    <3> HIDE DEF t
    <3>5. QED
      BY <1>1, <3>1, <3>2, <3>4
  <2> HIDE DEF t
  <2>5. t = rp
    BY <1>1, <2>3, <2>4, SeqEqual
  <2>6. QED
    BY <2>2, <2>5 DEF t
<1>5. QED
  BY <1>1, <1>2, <1>3, <1>4

(* A list of keys, prefixes, suffixes and expressions. *)
LEMMA ListedMatches ==
  ASSUME NEW list, NEW key \in DOMAIN Spelling, \A p \in list.prefix \cup list.suffix : p \in Seq(Words)
  PROVE  Matches(list, key) <=> Listed(list, key) \/ list.any
<1> DEFINE s == Spelling[key]
           S == ToSet(s)
<1>1. s \in Seq(S)
  BY SpellingOK
<1> HIDE DEF S, s
<1>2. ASSUME NEW p \in list.prefix PROVE IsPrefix(p, s) <=> Len(p) <= Len(s) /\ SubSeq(s, 1, Len(p)) = p
  BY <1>1, PrefixIsBeginning
<1>3. ASSUME NEW p \in list.suffix
      PROVE  IsSuffix(p, s) <=> \E i \in 1..(Len(s) + 1) : SubSeq(s, i, Len(s)) = p
  BY <1>1, SuffixIsEnd
<1>4. Matches(list, key) <=>
        \/ key \in list.keys \/ key \in list.regex \/ list.any
        \/ \E p \in list.prefix : Len(p) <= Len(s) /\ SubSeq(s, 1, Len(p)) = p
        \/ \E p \in list.suffix : \E i \in 1..(Len(s) + 1) : SubSeq(s, i, Len(s)) = p
  BY DEF Matches, s
<1>5. Listed(list, key) <=>
        \/ key \in list.keys \/ key \in list.regex
        \/ \E p \in list.prefix : IsPrefix(p, s)
        \/ \E p \in list.suffix : IsSuffix(p, s)
  BY DEF Listed, StartsWith, EndsWith, s
<1>6. QED
  BY <1>2, <1>3, <1>4, <1>5

(* Filter lets pass what the documentation lets pass. *)
LEMMA FilterAsDocumented ==
  ASSUME NEW r, RulesOK(r), NEW e, KeysAgree(e.argv), ~ParsePanics(e.argv)
  PROVE  Filter(r, e) <=> DocPasses(r, e)
<1> DEFINE keys == Keys(e.argv)
<1>1. keys = RedisKeys(e.argv) /\ keys \subseteq DOMAIN Spelling
  BY DEF KeysAgree
<1>2. ~r.block.any /\ \A p \in (r.allow.prefix \cup r.allow.suffix) \cup (r.block.prefix \cup r.block.suffix) : p \in Seq(Words)
  BY DEF RulesOK
<1>3. ASSUME NEW k \in keys
      PROVE  /\ Matches(r.block, k) <=> Listed(r.block, k)
             /\ Matches(r.allow, k) <=> Listed(r.allow, k) \/ r.allow.any
  BY <1>1, <1>2, ListedMatches
<1>4. ASSUME NEW k \in keys, Unset(r.block) PROVE ~Listed(r.block, k)
  BY <1>4 DEF Unset, Listed
<1>5. (\A k \in keys : KeyPasses(r, k)) <=>
        /\ ~ \E k \in keys : Matches(r.block, k)
        /\ ~Unset(r.allow) => \A k \in keys : Matches(r.allow, k)
  BY <1>3, <1>4 DEF KeyPasses, BlockKeyFilter, AllowKeyFilter
<1>6. QED
  BY <1>1, <1>5 DEF Filter, DocPasses, Permitted

-----------------------------------------------------------------------------
(* crc16 of the part of a key Redis hashes. *)

LEMMA MinIs == ASSUME NEW S \in SUBSET Nat, S # {} PROVE Min(S) \in S /\ \A y \in S : Min(S) <= y
<1>1. \E x \in S : \A y \in S : x <= y
  BY Least
<1>2. QED
  BY <1>1 DEF Min

(* The first "{" of s and the first "}" behind it. *)
FirstTag(s, i, j) ==
  /\ i < j /\ s[i] = LeftBrace /\ s[j] = RightBrace
  /\ \A k \in 1..(i - 1) : s[k] # LeftBrace
  /\ \A k \in (i + 1)..(j - 1) : s[k] # RightBrace

LEMMA BracesDiffer == LeftBrace # RightBrace
BY Zenon DEF LeftBrace, RightBrace

LEMMA OneTag ==
  ASSUME NEW s, NEW n \in Nat, NEW i \in 1..n, NEW j \in 1..n, NEW o \in 1..n, NEW c \in 1..n,
         FirstTag(s, i, j), FirstTag(s, o, c)
  PROVE  o = i /\ c = j
<1>1. ~(o < i) /\ ~(i < o)
  BY DEF FirstTag
<1>2. o = i
  BY <1>1
<1>3. ~(c < j) /\ ~(j < c)
  BY <1>2 DEF FirstTag
<1>4. QED
  BY <1>2, <1>3

Closing(s) == {k \in DOMAIN s : s[k] = RightBrace}
Opening(s) == {i \in DOMAIN s : s[i] = LeftBrace /\ \E k \in Closing(s) : k >= i}

LEMMA FirstTagExists ==
  ASSUME NEW s, NEW n \in Nat, DOMAIN s = 1..n, Opening(s) # {},
         NEW o, o = Min(Opening(s)), NEW c, c = Min({k \in Closing(s) : k >= o})
  PROVE  o \in 1..n /\ c \in 1..n /\ FirstTag(s, o, c)
<1> DEFINE behind == {k \in Closing(s) : k >= o}
<1>1. Opening(s) \in SUBSET Nat
  BY DEF Opening
<1>2. o \in Opening(s) /\ \A y \in Opening(s) : o <= y
  BY <1>1, MinIs
<1>3. behind \in SUBSET Nat /\ behind # {}
  BY <1>2 DEF Opening, Closing
<1>4. c \in behind /\ \A y \in behind : c <= y
  <2> HIDE DEF behind
  <2>1. c = Min(behind)
    BY DEF behind
  <2>2. QED
    BY <1>3, <2>1, MinIs
<1>5. o \in 1..n /\ c \in 1..n /\ s[o] = LeftBrace /\ s[c] = RightBrace /\ o <= c
  BY <1>2, <1>4 DEF Opening, Closing
<1>6. o # c
  BY <1>5, BracesDiffer
<1>7. ASSUME NEW k \in 1..(o - 1), s[k] = LeftBrace PROVE FALSE
  <2>1. k \in 1..n /\ k < o /\ c >= k /\ c \in Closing(s)
    BY <1>4, <1>5
  <2>2. k \in Opening(s)
    BY <1>7, <2>1 DEF Opening
  <2>3. QED
    BY <1>2, <1>5, <2>1, <2>2
<1>8. ASSUME NEW k \in (o + 1)..(c - 1), s[k] = RightBrace PROVE FALSE
  <2>1. k \in 1..n /\ k >= o /\ k < c
    BY <1>5
  <2>2. k \in behind
    BY <1>8, <2>1 DEF Closing
  <2>3. QED
    BY <1>4, <1>5, <2>1, <2>2
<1>9. QED
  BY <1>5, <1>6, <1>7, <1>8 DEF FirstTag

(* What is hashed of a sequence of characters, by the code and by Redis. *)
TagOf(s) ==
  LET o == Min(Opening(s))
  IN  IF Opening(s) = {} THEN <<>> ELSE SubSeq(s, o + 1, Min({k \in Closing(s) : k >= o}) - 1)
Pairs(s) == {q \in (DOMAIN s) \X (DOMAIN s) : q[1] + 1 < q[2] /\ FirstTag(s, q[1], q[2])}
Hashed(s) == IF TagOf(s) = <<>> THEN s ELSE TagOf(s)

LEMMA SameTag ==
  ASSUME NEW S, NEW s \in Seq(S), NEW p, Pairs(s) # {} => p \in Pairs(s)
  PROVE  /\ Hashed(s) = IF Pairs(s) = {} THEN s ELSE SubSeq(s, p[1] + 1, p[2] - 1)
         /\ \E i \in 1..(Len(s) + 1), j \in 0..Len(s) : Hashed(s) = SubSeq(s, i, j)
<1> DEFINE o == Min(Opening(s))
           c == Min({k \in Closing(s) : k >= o})
           tag == TagOf(s)
           pairs == Pairs(s)
<1> USE DEF TagOf, Pairs
<1>0. DOMAIN s = 1..Len(s) /\ Len(s) \in Nat
  OBVIOUS
<1>1. Opening(s) # {} => o \in 1..Len(s) /\ c \in 1..Len(s) /\ FirstTag(s, o, c)
  BY <1>0, FirstTagExists
<1>2. CASE pairs = {}
  <2>1. tag = <<>>
    <3>1. CASE Opening(s) # {}
      <4>1. <<o, c>> \in (DOMAIN s) \X (DOMAIN s) /\ o < c /\ o \in Nat /\ c \in Nat
        BY <1>0, <1>1, <3>1 DEF FirstTag
      <4>2. ~(o + 1 < c)
        <5> DEFINE q == <<o, c>>
        <5>1. q[1] = o /\ q[2] = c /\ q \in (DOMAIN s) \X (DOMAIN s) /\ q \notin pairs
          BY <1>2, <4>1
        <5> HIDE DEF q
        <5>2. QED
          BY <1>1, <3>1, <5>1
      <4>3. c - 1 < o + 1
        BY <4>1, <4>2
      <4>4. SubSeq(s, o + 1, c - 1) = <<>>
        <5>1. o + 1 \in Int /\ c - 1 \in Int /\ o + 1 > c - 1
          BY <4>1, <4>3
        <5>2. QED
          BY <5>1, SubSeqEmpty
      <4>5. QED
        BY <3>1, <4>4
    <3>2. QED
      BY <3>1
  <2>2. s = SubSeq(s, 1, Len(s)) /\ 1 \in 1..(Len(s) + 1) /\ Len(s) \in 0..Len(s)
    BY <1>0
  <2>3. Hashed(s) = s
    BY <2>1 DEF Hashed
  <2>4. QED
    BY <1>2, <2>2, <2>3
<1>3. CASE pairs # {}
  <2> DEFINE i == p[1]
             j == p[2]
  <2>1. i \in 1..Len(s) /\ j \in 1..Len(s) /\ i + 1 < j /\ FirstTag(s, i, j)
    BY <1>0, <1>3
  <2> HIDE DEF i, j
  <2>2. Opening(s) # {}
    <3>1. i \in Opening(s)
      BY <1>0, <2>1 DEF Opening, Closing, FirstTag
    <3>2. QED
      BY <3>1
  <2>3. o = i /\ c = j
    BY <1>0, <1>1, <2>1, <2>2, OneTag
  <2>4. tag = SubSeq(s, i + 1, j - 1)
    BY <2>2, <2>3
  <2>5. Len(SubSeq(s, i + 1, j - 1)) = ((j - 1) - (i + 1)) + 1
    BY <1>0, <2>1
  <2>6. tag # <<>>
    <3> HIDE DEF tag
    <3>1. Len(tag) > 0
      BY <1>0, <2>1, <2>4, <2>5
    <3>2. QED
      BY <3>1
  <2>7. i + 1 \in 1..(Len(s) + 1) /\ j - 1 \in 0..Len(s)
    BY <1>0, <2>1
  <2>8. Hashed(s) = SubSeq(s, i + 1, j - 1)
    <3> HIDE DEF TagOf
    <3>1. QED
      BY <2>4, <2>6 DEF Hashed
  <2>9. (IF pairs = {} THEN s ELSE SubSeq(s, p[1] + 1, p[2] - 1)) = SubSeq(s, i + 1, j - 1)
    BY <1>3 DEF i, j
  <2>10. \E k \in 1..(Len(s) + 1), l \in 0..Len(s) : Hashed(s) = SubSeq(s, k, l)
    BY <2>7, <2>8
  <2>11. QED
    BY <2>8, <2>9, <2>10
<1>4. QED
  BY <1>2, <1>3

LEMMA HashAsInRedis ==
  ASSUME NEW key \in DOMAIN Spelling PROVE KeyHash(key) = RedisSlot(key) /\ RedisSlot(key) \in AllSlots
<1> DEFINE s == Spelling[key]
           pairs == Pairs(s)
           p == CHOOSE q \in pairs : TRUE
           x == Hashed(s)
           y == IF pairs = {} THEN s ELSE SubSeq(s, p[1] + 1, p[2] - 1)
<1>1. /\ s \in Seq(ToSet(s))
      /\ \A i \in 1..(Len(s) + 1), j \in 0..Len(s) : Crc16(SubSeq(s, i, j)) \in Nat
  BY SpellingOK
<1>2. KeyHash(key) = Crc16(x) % SlotCount
  BY DEF KeyHash, HashTag, Opening, Closing, Hashed, TagOf
<1>3. RedisSlot(key) = Crc16(y) % SlotCount
  <2> DEFINE tagged(i, j) == /\ i + 1 < j /\ s[i] = LeftBrace /\ s[j] = RightBrace
                             /\ \A k \in 1..(i - 1) : s[k] # LeftBrace
                             /\ \A k \in (i + 1)..(j - 1) : s[k] # RightBrace
             all == {q \in (DOMAIN s) \X (DOMAIN s) : tagged(q[1], q[2])}
  <2>1. DOMAIN s = 1..Len(s) /\ Len(s) \in Nat
    BY SpellingOK
  <2>2. \A i, j \in DOMAIN s : tagged(i, j) <=> i + 1 < j /\ FirstTag(s, i, j)
    <3> HIDE DEF s
    <3>1. QED
      BY <2>1 DEF FirstTag
  <2>3. all = pairs
    <3> HIDE DEF s, tagged
    <3>1. QED
      BY <2>2 DEF Pairs
  <2>4. RedisSlot(key) = Crc16(IF all = {} THEN s ELSE LET q == CHOOSE q \in all : TRUE IN SubSeq(s, q[1] + 1, q[2] - 1)) % SlotCount
    BY DEF RedisSlot
  <2> HIDE DEF all, pairs, s
  <2>5. QED
    BY <2>3, <2>4
<1>4. pairs # {} => p \in pairs
  <2> HIDE DEF pairs
  <2>1. QED
    OBVIOUS
<1>5. x = y /\ \E i \in 1..(Len(s) + 1), j \in 0..Len(s) : x = SubSeq(s, i, j)
  <2> HIDE DEF s, p
  <2>1. QED
    BY <1>1, <1>4, SameTag
<1> HIDE DEF x, y, s
<1>6. Crc16(x) \in Nat
  BY <1>1, <1>5
<1>7. QED
  BY <1>2, <1>3, <1>5, <1>6, CommandsAssumption DEF AllSlots

-----------------------------------------------------------------------------
(* Which elements are chosen: those at the positions, each once. *)

Picks(f, C, s, k, I) ==
  /\ f \in [1..Len(C) -> Nat]
  /\ \A j \in 1..Len(C) : f[j] \in 1..k /\ f[j] \in I /\ C[j] = s[f[j]]
  /\ \A i \in 1..k : i \in I => \E j \in 1..Len(C) : f[j] = i
  /\ \A i, j \in 1..Len(C) : f[i] = f[j] => i = j

LEMMA PicksMore ==
  ASSUME NEW S, NEW s \in Seq(S), NEW k \in 0..(Len(s) - 1), NEW I, NEW C \in Seq(S), NEW f, Picks(f, C, s, k, I)
  PROVE  \E g : Picks(g, IF k + 1 \in I THEN C \o << s[k + 1] >> ELSE C, s, k + 1, I)
<1>0. Len(s) \in Nat /\ k \in Nat /\ Len(C) \in Nat /\ k + 1 \in 1..Len(s) /\ s[k + 1] \in S
  OBVIOUS
<1>1. CASE k + 1 \notin I
  <2>1. \A i \in 1..(k + 1) : i \in 1..k \/ i = k + 1
    BY <1>0
  <2>2. 1..k \subseteq 1..(k + 1)
    BY <1>0
  <2>3. Picks(f, C, s, k + 1, I)
    BY <1>1, <2>1, <2>2 DEF Picks
  <2>4. QED
    BY <1>1, <2>3
<1>2. CASE k + 1 \in I
  <2> DEFINE m == Len(C)
             E == C \o << s[k + 1] >>
             g == [j \in 1..(m + 1) |-> IF j = m + 1 THEN k + 1 ELSE f[j]]
  <2>1. Len(E) = m + 1 /\ E[m + 1] = s[k + 1] /\ \A j \in 1..m : E[j] = C[j]
    BY <1>0
  <2>2. /\ g[m + 1] = k + 1 /\ \A j \in 1..m : g[j] = f[j]
        /\ \A j \in 1..(m + 1) : j \in 1..m \/ j = m + 1
    BY <1>0
  <2>3. \A j \in 1..m : f[j] \in 1..k /\ f[j] \in Nat
    BY DEF Picks
  <2>4. g \in [1..(m + 1) -> Nat]
    BY <1>0, <2>3
  <2> HIDE DEF E, g
  <2>5. \A j \in 1..(m + 1) : g[j] \in 1..(k + 1) /\ g[j] \in I /\ E[j] = s[g[j]]
    <3>1. ASSUME NEW j \in 1..m PROVE g[j] \in 1..(k + 1) /\ g[j] \in I /\ E[j] = s[g[j]]
      BY <1>0, <2>1, <2>2, <2>3 DEF Picks
    <3>2. g[m + 1] \in 1..(k + 1) /\ g[m + 1] \in I /\ E[m + 1] = s[g[m + 1]]
      BY <1>0, <1>2, <2>1, <2>2
    <3>3. QED
      BY <2>2, <3>1, <3>2
  <2>6. ASSUME NEW i \in 1..(k + 1), i \in I PROVE \E j \in 1..(m + 1) : g[j] = i
    <3>1. CASE i = k + 1
      <4>1. m + 1 \in 1..(m + 1)
        BY <1>0
      <4>2. QED
        BY <2>2, <3>1, <4>1
    <3>2. CASE i \in 1..k
      <4>1. PICK j \in 1..m : f[j] = i
        BY <2>6, <3>2 DEF Picks
      <4>2. j \in 1..(m + 1) /\ g[j] = i
        BY <1>0, <2>2, <4>1
      <4>3. QED
        BY <4>2
    <3>3. QED
      BY <1>0, <3>1, <3>2
  <2>7. ASSUME NEW i \in 1..(m + 1), NEW j \in 1..(m + 1), g[i] = g[j] PROVE i = j
    <3>1. CASE i \in 1..m /\ j \in 1..m
      BY <2>2, <2>7, <3>1 DEF Picks
    <3>2. CASE i = m + 1 /\ j \in 1..m
      BY <1>0, <2>2, <2>3, <2>7, <3>2
    <3>3. CASE i \in 1..m /\ j = m + 1
      BY <1>0, <2>2, <2>3, <2>7, <3>3
    <3>4. QED
      BY <2>2, <3>1, <3>2, <3>3
  <2>8. Picks(g, E, s, k + 1, I)
    BY <2>1, <2>4, <2>5, <2>6, <2>7 DEF Picks
  <2>9. QED
    BY <1>2, <2>8 DEF E
<1>3. QED
  BY <1>1, <1>2

LEMMA ChosenPicks ==
  ASSUME NEW S, NEW s \in Seq(S), NEW I PROVE \E f : Picks(f, Chosen(s, I), s, Len(s), I)
<1> DEFINE pre(k) == SubSeq(s, 1, k)
           C(k) == Chosen(pre(k), I)
           G == {k \in 0..Len(s) : \E f : Picks(f, C(k), s, k, I)}
<1>0. Len(s) \in Nat
  OBVIOUS
<1>1. 0 \in G
  <2>1. pre(0) = <<>>
    OBVIOUS
  <2>2. C(0) = <<>>
    BY <2>1, ChosenEmpty
  <2>3. Picks(<<>>, <<>>, s, 0, I)
    BY DEF Picks
  <2> HIDE DEF C
  <2>4. QED
    BY <1>0, <2>2, <2>3
<1>2. ASSUME NEW k \in 0..(Len(s) - 1), k \in G PROVE k + 1 \in G
  <2>1. pre(k) \in Seq(S) /\ k + 1 \in 1..Len(s) /\ s[k + 1] \in S /\ k + 1 \in 0..Len(s) /\ Len(pre(k)) = k
    BY <1>0
  <2>2. pre(k + 1) = pre(k) \o << s[k + 1] >> /\ << s[k + 1] >> \in Seq(S) /\ Len(<< s[k + 1] >>) = 1
    BY <1>0, <2>1
  <2> DEFINE K == IF k + 1 \in I THEN {1} ELSE {}
             x == s[k + 1]
  <2>3. Chosen(pre(k) \o <<x>>, I) = Chosen(pre(k), I) \o Chosen(<<x>>, K)
    <3>1. Same(I, I, Len(pre(k)), 0)
      BY <2>1 DEF Same
    <3>2. Same(K, I, Len(<<x>>), Len(pre(k)))
      BY <2>1, <2>2 DEF Same
    <3> DEFINE p == pre(k)
               t == <<x>>
    <3>3. p \in Seq(S) /\ t \in Seq(S) /\ Same(I, I, Len(p), 0) /\ Same(K, I, Len(t), Len(p))
      BY <2>1, <2>2, <3>1, <3>2
    <3> HIDE DEF p, t, K
    <3>4. Chosen(p \o t, I) = Chosen(p, I) \o Chosen(t, K)
      BY <3>3, ChosenConcat
    <3>5. QED
      BY <3>4 DEF p, t
  <2>4. Chosen(<<x>>, K) = IF k + 1 \in I THEN <<x>> ELSE <<>>
    <3>1. Chosen(<<x>>, K) = IF 1 \in K THEN <<x>> ELSE <<>>
      <4> HIDE DEF x, K
      <4>1. x \in S
        BY <2>1 DEF x
      <4>2. QED
        BY <4>1, ChosenOne
    <3>2. QED
      BY <3>1
  <2>5. C(k) \in Seq(S)
    <3> HIDE DEF pre
    <3>1. QED
      BY <2>1, ChosenType
  <2>6. C(k + 1) = IF k + 1 \in I THEN C(k) \o <<x>> ELSE C(k)
    <3> DEFINE c == Chosen(pre(k), I)
    <3>1. c \in Seq(S) /\ C(k) = c
      BY <2>5
    <3>2. C(k + 1) = c \o Chosen(<<x>>, K)
      BY <2>2, <2>3
    <3> HIDE DEF c, C, x, K
    <3>3. c \o <<>> = c
      BY <3>1, ConcatEmptySeq
    <3>4. QED
      BY <2>4, <3>1, <3>2, <3>3
  <2>7. PICK f : Picks(f, C(k), s, k, I)
    BY <1>2
  <2> HIDE DEF C
  <2>8. \E g : Picks(g, IF k + 1 \in I THEN C(k) \o <<x>> ELSE C(k), s, k + 1, I)
    BY <2>5, <2>7, PicksMore
  <2>9. QED
    BY <2>1, <2>6, <2>8
<1>3. \A k \in 0..Len(s) : k \in G
  <2> HIDE DEF G
  <2>1. QED
    BY <1>0, <1>1, <1>2, Upwards
<1>4. pre(Len(s)) = s
  BY <1>0
<1>5. \E f : Picks(f, C(Len(s)), s, Len(s), I)
  <2> HIDE DEF C
  <2>1. Len(s) \in 0..Len(s)
    BY <1>0
  <2>2. QED
    BY <1>3, <2>1
<1> HIDE DEF pre
<1>6. QED
  BY <1>4, <1>5

-----------------------------------------------------------------------------
(* The nodes of the target. *)

LEMMA MastersAre ==
  ASSUME NEW lines, LinesOK(lines)
  PROVE  /\ DOMAIN Masters(lines) = 1..Len(Masters(lines)) /\ Len(Masters(lines)) \in Nat
         /\ \A i \in DOMAIN Masters(lines) :
              LET m == Masters(lines)[i] IN m \in ToSet(lines) /\ m.master /\ m.words # <<>>
         /\ \A l \in ToSet(lines) : l.master /\ l.words # <<>> => \E i \in DOMAIN Masters(lines) : Masters(lines)[i] = l
         /\ \A i, j \in DOMAIN Masters(lines) : Masters(lines)[i].addr = Masters(lines)[j].addr => i = j
<1> DEFINE I == {i \in DOMAIN lines : lines[i].master /\ lines[i].words # <<>>}
           M == Chosen(lines, I)
<1>1. /\ lines \in Seq(NodeLines(Words)) /\ DOMAIN lines = 1..Len(lines)
      /\ \A i, j \in DOMAIN lines : lines[i].addr = lines[j].addr => i = j
  BY DEF LinesOK
<1>2. M \in Seq(NodeLines(Words)) /\ \E f : Picks(f, M, lines, Len(lines), I)
  <2> HIDE DEF I
  <2>1. QED
    BY <1>1, ChosenType, ChosenPicks
<1>3. PICK f : Picks(f, M, lines, Len(lines), I)
  BY <1>2
<1>4. Masters(lines) = M
  BY DEF Masters
<1> HIDE DEF M
<1>5. DOMAIN M = 1..Len(M) /\ Len(M) \in Nat
  BY <1>2
<1>6. \A i \in 1..Len(M) : f[i] \in 1..Len(lines) /\ f[i] \in I /\ M[i] = lines[f[i]]
  BY <1>3 DEF Picks
<1>7. \A i \in 1..Len(M) : M[i] \in ToSet(lines) /\ M[i].master /\ M[i].words # <<>>
  BY <1>1, <1>6 DEF ToSet
<1>8. ASSUME NEW l \in ToSet(lines), l.master, l.words # <<>> PROVE \E i \in 1..Len(M) : M[i] = l
  <2>1. PICK k \in 1..Len(lines) : l = lines[k]
    BY <1>1 DEF ToSet
  <2>2. k \in I
    BY <1>1, <1>8, <2>1
  <2>3. PICK i \in 1..Len(M) : f[i] = k
    <3> HIDE DEF I
    <3>1. QED
      BY <1>3, <2>2 DEF Picks
  <2>4. QED
    BY <1>6, <2>1, <2>3
<1>9. ASSUME NEW i \in 1..Len(M), NEW j \in 1..Len(M), M[i].addr = M[j].addr PROVE i = j
  <2>1. f[i] = f[j]
    BY <1>1, <1>6, <1>9
  <2>2. QED
    BY <1>3, <2>1 DEF Picks
<1>10. QED
  BY <1>4, <1>5, <1>7, <1>8, <1>9

(* The set of the one element it has. *)
LEMMA OneElement ==
  ASSUME NEW S, IsFiniteSet(S), Cardinality(S) = 1 PROVE \E x : S = {x}
BY FS_Singleton

LEMMA NoWordsNoSlots == ASSUME NEW l, l.words = <<>> PROVE NodeSlots(l) = {}
<1>1. SlotWords(<<>>) = <<>>
  BY DEF SlotWords
<1>2. SlotList(l) = <<>>
  <2> DEFINE ws == SlotWords(l.words)
  <2>1. ws = <<>>
    BY <1>1
  <2>2. SlotList(l) = FlattenSeq([i \in DOMAIN ws |-> [j \in 1..(ws[i].to - ws[i].from + 1) |-> ws[i].from + j - 1]])
    BY DEF SlotList
  <2> HIDE DEF ws
  <2>3. [i \in DOMAIN ws |-> [j \in 1..(ws[i].to - ws[i].from + 1) |-> ws[i].from + j - 1]] = <<>>
    BY <2>1
  <2>4. QED
    BY <2>2, <2>3, FlattenEmpty
<1>3. QED
  BY <1>2 DEF NodeSlots, ToSet

(* The router sends a slot to the one node that holds it. *)
LEMMA RouterFindsHolder ==
  ASSUME NEW lines, LinesOK(lines), NEW s \in AllSlots, Cardinality(Occupied(lines, s)) = 1
  PROVE  /\ Holders(lines, s) = {Router(lines, AllSlots)[s]}
         /\ Router(lines, AllSlots)[s] \in {l.addr : l \in ToSet(lines)}
<1> DEFINE M == Masters(lines)
<1>1. /\ DOMAIN M = 1..Len(M) /\ Len(M) \in Nat
      /\ \A i \in DOMAIN M : M[i] \in ToSet(lines) /\ M[i].master /\ M[i].words # <<>>
      /\ \A l \in ToSet(lines) : l.master /\ l.words # <<>> => \E i \in DOMAIN M : M[i] = l
  BY MastersAre
<1>2. Occupied(lines, s) = {i \in DOMAIN M : s \in NodeSlots(M[i])}
  BY DEF Occupied
<1> HIDE DEF M
<1>3. IsFiniteSet(Occupied(lines, s))
  <2>1. IsFiniteSet(1..Len(M)) /\ Occupied(lines, s) \subseteq 1..Len(M)
    BY <1>1, <1>2, FS_Interval
  <2>2. QED
    BY <2>1, FS_Subset
<1>4. PICK i : Occupied(lines, s) = {i}
  BY <1>3, OneElement
<1>5. i \in DOMAIN M /\ s \in NodeSlots(M[i])
  BY <1>2, <1>4
<1>6. Router(lines, AllSlots)[s] = M[i].addr
  <2>1. (CHOOSE j \in Occupied(lines, s) : TRUE) = i
    BY <1>4
  <2>2. Router(lines, AllSlots)[s] = M[CHOOSE j \in Occupied(lines, s) : TRUE].addr
    BY DEF Router, M
  <2>3. QED
    BY <2>1, <2>2
<1>7. ASSUME NEW l \in ToSet(lines), l.master, s \in NodeSlots(l) PROVE l = M[i]
  <2>1. l.words # <<>>
    BY <1>7, NoWordsNoSlots
  <2>2. PICK j \in DOMAIN M : M[j] = l
    BY <1>1, <1>7, <2>1
  <2>3. j \in Occupied(lines, s)
    BY <1>2, <1>7, <2>2
  <2>4. QED
    BY <1>4, <2>2, <2>3
<1>8. Holders(lines, s) = {M[i].addr}
  BY <1>1, <1>5, <1>7 DEF Holders
<1>9. QED
  BY <1>1, <1>5, <1>6, <1>8

(* Slots come from keys at finitely many places. *)
LEMMA SlotsFinite ==
  ASSUME NEW argv \in Seq(Words), ~ParsePanics(argv) PROVE IsFiniteSet(Slots(argv))
<1> DEFINE I == KeyIndexes(argv)
           f == [i \in I |-> KeyHash(argv[i])]
<1>1. I \subseteq 1..Len(argv) /\ Len(argv) \in Nat
  BY DEF ParsePanics
<1>2. IsFiniteSet(I)
  <2>1. IsFiniteSet(1..Len(argv))
    BY <1>1, FS_Interval
  <2>2. QED
    BY <1>1, <2>1, FS_Subset
<1>3. Slots(argv) = {KeyHash(argv[i]) : i \in I}
  BY DEF Slots, Keys
<1> HIDE DEF I
<1>4. f \in Surjection(I, Slots(argv))
  BY <1>3 DEF Surjection
<1> HIDE DEF f
<1>5. QED
  BY <1>2, <1>4, FS_Surjection

(* The sinks of a configuration. *)
SinksOf(c) == IF c.sink = "cluster" THEN {l.addr : l \in ToSet(c.target)} ELSE {"file"}

LEMMA SinksAre ==
  ASSUME cfg \in Configs
  PROVE  /\ ConfigOK(cfg) /\ SinksOf(cfg) \subseteq AllSinks /\ "file" \in AllSinks
         /\ ToCluster => "file" \notin SinksOf(cfg) /\ SinksOf(cfg) = {l.addr : l \in ToSet(cfg.target)}
         /\ ~ToCluster => SinksOf(cfg) = {"file"} /\ cfg.sink = "file"
         /\ "file" \notin {l.addr : l \in ToSet(cfg.target)} /\ {l.addr : l \in ToSet(cfg.target)} \subseteq AllSinks
<1>1. ConfigOK(cfg)
  BY ConfigAssumption
<1>2. cfg.sink \in {"cluster", "file"} /\ "file" \notin {l.addr : l \in ToSet(cfg.target)}
  BY <1>1 DEF ConfigOK
<1>3. {l.addr : l \in ToSet(cfg.target)} \subseteq AllSinks /\ "file" \in AllSinks
  BY DEF AllSinks
<1>4. QED
  BY <1>1, <1>2, <1>3 DEF SinksOf, ToCluster

LEMMA WritersAre ==
  ASSUME cfg \in Configs, ToCluster
  PROVE  /\ Writers \in Seq(SinksOf(cfg)) /\ DOMAIN Writers = DOMAIN Masters(cfg.target)
         /\ \A i \in DOMAIN Writers : Writers[i] = Masters(cfg.target)[i].addr
         /\ \A n : n \in ToSet(Writers) <=> n \in Members(cfg.target)
         /\ \A i, j \in DOMAIN Writers : Writers[i] = Writers[j] => i = j
<1> DEFINE lines == cfg.target
           M == Masters(lines)
<1>1. LinesOK(lines) /\ SinksOf(cfg) = {l.addr : l \in ToSet(lines)}
  BY SinksAre DEF ConfigOK
<1>2. /\ DOMAIN M = 1..Len(M) /\ Len(M) \in Nat
      /\ \A i \in DOMAIN M : M[i] \in ToSet(lines) /\ M[i].master /\ M[i].words # <<>>
      /\ \A l \in ToSet(lines) : l.master /\ l.words # <<>> => \E i \in DOMAIN M : M[i] = l
      /\ \A i, j \in DOMAIN M : M[i].addr = M[j].addr => i = j
  BY <1>1, MastersAre
<1>3. Writers = [i \in DOMAIN M |-> M[i].addr]
  BY DEF Writers, Addresses
<1> HIDE DEF M
<1>4. Writers \in Seq(SinksOf(cfg))
  <2>1. \A i \in 1..Len(M) : M[i].addr \in SinksOf(cfg)
    BY <1>1, <1>2
  <2>2. Writers = [i \in 1..Len(M) |-> M[i].addr]
    BY <1>2, <1>3
  <2>3. QED
    BY <1>2, <2>1, <2>2, IsASeq
<1>5. ASSUME NEW n PROVE n \in ToSet(Writers) <=> n \in Members(lines)
  <2>1. ASSUME n \in ToSet(Writers) PROVE n \in Members(lines)
    <3>1. PICK i \in DOMAIN M : n = M[i].addr
      BY <1>3, <2>1 DEF ToSet
    <3>2. QED
      BY <1>2, <3>1 DEF Members
  <2>2. ASSUME n \in Members(lines) PROVE n \in ToSet(Writers)
    <3>1. PICK l \in ToSet(lines) : l.master /\ l.words # <<>> /\ n = l.addr
      BY <2>2 DEF Members
    <3>2. PICK i \in DOMAIN M : M[i] = l
      BY <1>2, <3>1
    <3>3. i \in DOMAIN Writers /\ Writers[i] = n
      BY <1>3, <3>1, <3>2
    <3>4. QED
      BY <3>3 DEF ToSet
  <2>3. QED
    BY <2>1, <2>2
<1>6. QED
  BY <1>2, <1>3, <1>4, <1>5 DEF M

(* Write finds the writers that the slots of the keys, by Redis, call for. *)
LEMMA DestsAre ==
  ASSUME cfg \in Configs, ~CreatePanics, NEW argv \in Seq(Words),
         KeysAgree(argv), ~ParsePanics(argv), ~CrossSlot(argv)
  PROVE  /\ Dests(argv) \in Seq(SinksOf(cfg))
         /\ \A n : n \in ToSet(Dests(argv)) <=> GoesTo(cfg, argv, n)
         /\ \A i, j \in DOMAIN Dests(argv) : Dests(argv)[i] = Dests(argv)[j] => i = j
<1>0. Keys(argv) = RedisKeys(argv) /\ Keys(argv) \subseteq DOMAIN Spelling
  BY DEF KeysAgree
<1>1. CASE ~ToCluster
  <2>1. SinksOf(cfg) = {"file"} /\ cfg.sink = "file"
    BY <1>1, SinksAre
  <2>2. Dests(argv) = <<"file">>
    BY <1>1 DEF Dests
  <2>3. ToSet(<<"file">>) = {"file"} /\ <<"file">> \in Seq({"file"})
    BY DEF ToSet
  <2>4. \A n : GoesTo(cfg, argv, n) <=> n = "file"
    BY <2>1 DEF GoesTo
  <2>5. QED
    BY <2>1, <2>2, <2>3, <2>4
<1>2. CASE ToCluster /\ Slots(argv) = {}
  <2>1. RedisKeys(argv) = {}
    BY <1>0, <1>2 DEF Slots
  <2>2. \A n : GoesTo(cfg, argv, n) <=> n \in Members(cfg.target)
    BY <1>2, <2>1 DEF GoesTo, ToCluster
  <2>3. Dests(argv) = Writers
    BY <1>2 DEF Dests
  <2>4. QED
    BY <1>2, <2>2, <2>3, WritersAre
<1>3. CASE ToCluster /\ Slots(argv) # {}
  <2>1. IsFiniteSet(Slots(argv)) /\ ~(Cardinality(Slots(argv)) > 1)
    BY <1>3, SlotsFinite DEF CrossSlot
  <2>2. PICK s : Slots(argv) = {s}
    <3>1. Cardinality(Slots(argv)) \in Nat /\ Cardinality(Slots(argv)) # 0
      BY <1>3, <2>1, FS_CardinalityType, FS_EmptySet
    <3>2. Cardinality(Slots(argv)) = 1
      BY <2>1, <3>1
    <3>3. QED
      BY <2>1, <3>2, OneElement
  <2>3. RedisKeys(argv) # {} /\ \A k \in RedisKeys(argv) : RedisSlot(k) = s /\ s \in AllSlots
    <3>1. ASSUME NEW k \in RedisKeys(argv) PROVE RedisSlot(k) = s /\ s \in AllSlots
      <4>1. KeyHash(k) \in Slots(argv) /\ k \in DOMAIN Spelling
        BY <1>0 DEF Slots
      <4>2. KeyHash(k) = RedisSlot(k) /\ RedisSlot(k) \in AllSlots
        BY <4>1, HashAsInRedis
      <4>3. QED
        BY <2>2, <4>1, <4>2
    <3>2. RedisKeys(argv) # {}
      BY <1>0, <1>3 DEF Slots
    <3>3. QED
      BY <3>1, <3>2
  <2>4. s \in AllSlots
    BY <2>3
  <2> DEFINE h == Router(cfg.target, AllSlots)[s]
  <2>5. Cardinality(Occupied(cfg.target, s)) = 1
    BY <1>3, <2>4 DEF CreatePanics
  <2>6. LinesOK(cfg.target) /\ SinksOf(cfg) = {l.addr : l \in ToSet(cfg.target)}
    BY <1>3, SinksAre DEF ConfigOK
  <2>7. Holders(cfg.target, s) = {h} /\ h \in SinksOf(cfg)
    BY <2>4, <2>5, <2>6, RouterFindsHolder
  <2>8. \A n : GoesTo(cfg, argv, n) <=> n = h
    <3> HIDE DEF h
    <3>1. \A n : GoesTo(cfg, argv, n) <=> \A k \in RedisKeys(argv) : n \in Holders(cfg.target, RedisSlot(k))
      BY <1>3, <2>3 DEF GoesTo, ToCluster
    <3>2. QED
      BY <2>3, <2>7, <3>1
  <2>9. Dests(argv) = <<h>>
    <3>1. (CHOOSE t \in Slots(argv) : TRUE) = s
      BY <2>2
    <3>2. QED
      BY <1>3, <3>1 DEF Dests
  <2> HIDE DEF h
  <2>10. <<h>> \in Seq(SinksOf(cfg)) /\ ToSet(<<h>>) = {h}
    BY <2>7 DEF ToSet
  <2>11. QED
    BY <2>8, <2>9, <2>10
<1>4. QED
  BY <1>1, <1>2, <1>3

-----------------------------------------------------------------------------
(* What is promised, piece by piece. *)

Agreed == {e \in Entries : KeysAgree(e.argv)}

(* The entries whose keys, and the keys of what the function makes of them, are as in Redis. *)
Fine(conf) == {e \in Kept : /\ KeysAgree(e.argv) /\ RunFunction(conf, e) \in Seq(Entries)
                            /\ \A x \in ToSet(RunFunction(conf, e)) : KeysAgree(x.argv)}

LEMMA RoutedType == ASSUME NEW conf, NEW s \in Seq(Entries), NEW n PROVE Routed(conf, s, n) \in Seq(Entries)
BY ChosenType DEF Routed

LEMMA RoutedEmpty == ASSUME NEW conf, NEW n PROVE Routed(conf, <<>>, n) = <<>>
BY ChosenEmpty DEF Routed

(* The first entry and the others. *)
LEMMA RoutedFirst ==
  ASSUME NEW conf, NEW s \in Seq(Entries), s # <<>>, NEW n
  PROVE  Routed(conf, s, n) =
           (IF GoesTo(conf, Head(s).argv, n) THEN << Head(s) >> ELSE <<>>) \o Routed(conf, Tail(s), n)
<1> DEFINE h == Head(s)
           t == Tail(s)
           a == <<h>>
           J == {i \in DOMAIN s : GoesTo(conf, s[i].argv, n)}
           I == {i \in DOMAIN a : GoesTo(conf, a[i].argv, n)}
           K == {i \in DOMAIN t : GoesTo(conf, t[i].argv, n)}
<1>1. h \in Entries /\ t \in Seq(Entries) /\ a \in Seq(Entries) /\ s = a \o t /\ Len(a) = 1 /\ a[1] = h
  OBVIOUS
<1>2. Len(s) = 1 + Len(t) /\ Len(t) \in Nat /\ s[1] = h /\ \A i \in 1..Len(t) : s[1 + i] = t[i]
  OBVIOUS
<1>3. DOMAIN s = 1..(1 + Len(t)) /\ DOMAIN t = 1..Len(t) /\ DOMAIN a = {1}
  BY <1>1, <1>2
<1>4. Same(I, J, Len(a), 0)
  <2>1. 1 \in I <=> 0 + 1 \in J
    BY <1>1, <1>2, <1>3
  <2> HIDE DEF I, J, a
  <2>2. \A i \in 1..Len(a) : i = 1
    BY <1>1
  <2>3. QED
    BY <2>1, <2>2 DEF Same
<1>5. Same(K, J, Len(t), Len(a))
  <2>1. ASSUME NEW i \in 1..Len(t) PROVE i \in K <=> 1 + i \in J
    BY <1>2, <1>3
  <2> HIDE DEF K, J, a, t
  <2>2. QED
    BY <1>1, <2>1 DEF Same
<1>6. Chosen(s, J) = Chosen(a, I) \o Chosen(t, K)
  <2>1. a \in Seq(Entries) /\ t \in Seq(Entries) /\ Same(I, J, Len(a), 0) /\ Same(K, J, Len(t), Len(a))
    BY <1>1, <1>4, <1>5
  <2> HIDE DEF h, a, t, I, J, K
  <2>2. Chosen(a \o t, J) = Chosen(a, I) \o Chosen(t, K)
    BY <2>1, ChosenConcat
  <2>3. s = a \o t
    BY <1>1
  <2>4. QED
    BY <2>2, <2>3
<1>7. Chosen(a, I) = IF GoesTo(conf, h.argv, n) THEN <<h>> ELSE <<>>
  <2>1. 1 \in I <=> GoesTo(conf, h.argv, n)
    BY <1>1, <1>3
  <2> HIDE DEF h, I
  <2>2. Chosen(<<h>>, I) = IF 1 \in I THEN <<h>> ELSE <<>>
    BY <1>1, ChosenOne
  <2>3. QED
    BY <2>1, <2>2
<1>8. Routed(conf, s, n) = Chosen(s, J) /\ Routed(conf, t, n) = Chosen(t, K)
  BY DEF Routed
<1> HIDE DEF I, J, K, a, t, h
<1>9. Routed(conf, s, n) = (IF GoesTo(conf, h.argv, n) THEN <<h>> ELSE <<>>) \o Routed(conf, t, n)
  BY <1>6, <1>7, <1>8
<1>10. QED
  BY <1>9 DEF h, t

LEMMA BecomesType == ASSUME NEW conf, NEW e \in Fine(conf), NEW n PROVE Becomes(conf, e, n) \in Seq(Entries)
BY RoutedType DEF Becomes, Fine

Become(conf, s, n) == [i \in DOMAIN s |-> Becomes(conf, s[i], n)]

LEMMA BecomeType ==
  ASSUME NEW conf, NEW s \in Seq(Fine(conf)), NEW n
  PROVE  Become(conf, s, n) \in Seq(Seq(Entries)) /\ Len(Become(conf, s, n)) = Len(s)
<1>1. DOMAIN s = 1..Len(s) /\ Len(s) \in Nat /\ \A i \in 1..Len(s) : s[i] \in Fine(conf)
  OBVIOUS
<1>2. \A i \in 1..Len(s) : Becomes(conf, s[i], n) \in Seq(Entries)
  BY <1>1, BecomesType
<1>3. Become(conf, s, n) = [i \in 1..Len(s) |-> Becomes(conf, s[i], n)]
  BY <1>1 DEF Become
<1>4. Become(conf, s, n) \in Seq(Seq(Entries))
  BY <1>1, <1>2, <1>3, IsASeq
<1>5. QED
  BY <1>1, <1>3, <1>4

LEMMA PromisedType ==
  ASSUME NEW conf, NEW s \in Seq(Fine(conf)), NEW n PROVE PromisedTo(conf, s, n) \in Seq(Entries)
BY BecomeType, FlattenType DEF PromisedTo, Become

LEMMA PromisedEmpty == ASSUME NEW conf, NEW n PROVE PromisedTo(conf, <<>>, n) = <<>>
<1>1. [i \in DOMAIN <<>> |-> Becomes(conf, <<>>[i], n)] = <<>>
  OBVIOUS
<1>2. QED
  BY <1>1, FlattenEmpty DEF PromisedTo

LEMMA PromisedOne ==
  ASSUME NEW conf, NEW e \in Fine(conf), NEW n PROVE PromisedTo(conf, <<e>>, n) = Becomes(conf, e, n)
<1> DEFINE b == Becomes(conf, e, n)
<1>1. [i \in DOMAIN <<e>> |-> Becomes(conf, <<e>>[i], n)] = <<b>>
  OBVIOUS
<1>2. b \in Seq(Entries)
  BY BecomesType
<1>3. FlattenSeq(<<b>>) = b
  <2> HIDE DEF b
  <2>1. QED
    BY <1>2, FlattenOne
<1>4. QED
  BY <1>1, <1>3 DEF PromisedTo

LEMMA PromisedConcat ==
  ASSUME NEW conf, NEW s \in Seq(Fine(conf)), NEW t \in Seq(Fine(conf)), NEW n
  PROVE  PromisedTo(conf, s \o t, n) = PromisedTo(conf, s, n) \o PromisedTo(conf, t, n)
<1> DEFINE p == Become(conf, s, n)
           q == Become(conf, t, n)
           r == Become(conf, s \o t, n)
<1>1. s \o t \in Seq(Fine(conf)) /\ Len(s \o t) = Len(s) + Len(t) /\ Len(s) \in Nat /\ Len(t) \in Nat
  OBVIOUS
<1>2. /\ p \in Seq(Seq(Entries)) /\ q \in Seq(Seq(Entries)) /\ r \in Seq(Seq(Entries))
      /\ Len(p) = Len(s) /\ Len(q) = Len(t) /\ Len(r) = Len(s) + Len(t)
  <2> DEFINE u == s \o t
  <2>1. u \in Seq(Fine(conf)) /\ Len(u) = Len(s) + Len(t)
    BY <1>1
  <2> HIDE DEF u
  <2>2. Become(conf, u, n) \in Seq(Seq(Entries)) /\ Len(Become(conf, u, n)) = Len(u)
    BY <2>1, BecomeType
  <2>3. QED
    BY <2>1, <2>2, BecomeType DEF u
<1>3. ASSUME NEW i \in 1..Len(r) PROVE r[i] = (p \o q)[i]
  <2>0. i \in DOMAIN (s \o t) /\ i \in Nat /\ i <= Len(s) + Len(t) /\ i >= 1
    BY <1>1, <1>2
  <2>1. r[i] = Becomes(conf, (s \o t)[i], n)
    BY <2>0 DEF Become
  <2>2. CASE i <= Len(s)
    <3>1. (s \o t)[i] = s[i] /\ i \in DOMAIN s
      BY <1>1, <2>0, <2>2
    <3>2. p[i] = Becomes(conf, s[i], n)
      BY <3>1 DEF Become
    <3> HIDE DEF p, q
    <3>3. (p \o q)[i] = p[i]
      BY <1>1, <1>2, <2>0, <2>2
    <3>4. QED
      BY <2>1, <3>1, <3>2, <3>3
  <2>3. CASE i > Len(s)
    <3> DEFINE j == i - Len(s)
    <3>1. (s \o t)[i] = t[j] /\ j \in DOMAIN t /\ j \in 1..Len(t)
      BY <1>1, <2>0, <2>3
    <3>2. q[j] = Becomes(conf, t[j], n)
      BY <3>1 DEF Become
    <3> HIDE DEF p, q
    <3>3. i \in 1..(Len(p) + Len(q)) /\ ~(i <= Len(p)) /\ i - Len(p) = j
      BY <1>1, <1>2, <2>0, <2>3
    <3> HIDE DEF j
    <3>4. (p \o q)[i] = q[j]
      BY <1>2, <3>3, ConcatProperties
    <3>5. QED
      BY <2>1, <3>1, <3>2, <3>4
  <2> HIDE DEF p, q, r
  <2>4. i <= Len(s) \/ i > Len(s)
    BY <1>1, <2>0
  <2>5. QED
    BY <2>2, <2>3, <2>4
<1> HIDE DEF p, q, r
<1>4. p \o q \in Seq(Seq(Entries)) /\ Len(p \o q) = Len(r)
  <2>1. Len(p \o q) = Len(p) + Len(q) /\ p \o q \in Seq(Seq(Entries))
    BY <1>2, ConcatProperties
  <2>2. QED
    BY <1>2, <2>1
<1>5. r = p \o q
  BY <1>2, <1>3, <1>4, SeqEqual
<1>6. FlattenSeq(p \o q) = FlattenSeq(p) \o FlattenSeq(q)
  BY <1>2, FlattenConcat
<1>7. /\ PromisedTo(conf, s \o t, n) = FlattenSeq(r)
      /\ PromisedTo(conf, s, n) = FlattenSeq(p) /\ PromisedTo(conf, t, n) = FlattenSeq(q)
  BY DEF PromisedTo, Become, p, q, r
<1>8. QED
  BY <1>5, <1>6, <1>7

-----------------------------------------------------------------------------
(* What has arrived, piece by piece. *)

Writes == Entries \cup {FromMain(<<"PING">>).e, FromMain(<<"FLUSHALL">>).e}
Items == [from : Nat, e : Writes]

LEMMA ItemIs == ASSUME NEW x \in Items PROVE x.e \in Writes /\ x.from \in Nat
BY DEF Items

LEMMA FromType ==
  ASSUME NEW s \in Seq(Items), NEW c PROVE EntriesFrom(s, c) \in Seq(Writes)
<1> DEFINE es == [i \in DOMAIN s |-> s[i].e]
<1>1. DOMAIN s = 1..Len(s) /\ Len(s) \in Nat /\ \A i \in 1..Len(s) : s[i] \in Items /\ s[i].e \in Writes
  BY ItemIs
<1>2. es \in Seq(Writes)
  <2>1. es = [i \in 1..Len(s) |-> s[i].e]
    BY <1>1
  <2>2. QED
    BY <1>1, <2>1, IsASeq
<1> HIDE DEF es
<1>3. \A I : Chosen(es, I) \in Seq(Writes)
  BY <1>2, ChosenType
<1>4. QED
  BY <1>3 DEF EntriesFrom, es

LEMMA FromEmpty == ASSUME NEW c PROVE EntriesFrom(<<>>, c) = <<>>
<1>1. [i \in DOMAIN <<>> |-> <<>>[i].e] = <<>>
  OBVIOUS
<1>2. QED
  BY <1>1, ChosenEmpty DEF EntriesFrom

LEMMA FromMore ==
  ASSUME NEW s \in Seq(Items), NEW x \in Items, NEW c
  PROVE  EntriesFrom(Append(s, x), c) = EntriesFrom(s, c) \o (IF x.from = c THEN << x.e >> ELSE <<>>)
<1> DEFINE u == Append(s, x)
           k == Len(s)
           y == x.e
           es == [i \in DOMAIN s |-> s[i].e]
           us == [i \in DOMAIN u |-> u[i].e]
           I == {i \in DOMAIN s : s[i].from = c}
           J == {i \in DOMAIN u : u[i].from = c}
           K == IF x.from = c THEN {1} ELSE {}
<1>1. k \in Nat /\ DOMAIN s = 1..k /\ \A i \in 1..k : s[i] \in Items /\ s[i].e \in Writes
  BY ItemIs
<1>2. y \in Writes /\ <<y>> \in Seq(Writes) /\ Len(<<y>>) = 1
  BY ItemIs
<1>3. DOMAIN u = 1..(k + 1) /\ u[k + 1] = x /\ \A i \in 1..k : u[i] = s[i]
  BY <1>1
<1>4. es \in Seq(Writes) /\ Len(es) = k /\ \A i \in 1..k : es[i] = s[i].e
  <2>1. es = [i \in 1..k |-> s[i].e]
    BY <1>1
  <2>2. QED
    BY <1>1, <2>1, IsASeq
<1>5. us = Append(es, y)
  <2>1. us = [i \in 1..(k + 1) |-> u[i].e]
    BY <1>3
  <2>2. \A i \in 1..(k + 1) : i \in 1..k \/ i = k + 1
    BY <1>1
  <2>3. \A i \in 1..(k + 1) : u[i].e \in Writes
    BY <1>1, <1>2, <1>3, <2>2
  <2>4. us \in Seq(Writes) /\ Len(us) = k + 1
    BY <1>1, <2>1, <2>3, IsASeq
  <2>5. /\ \A i \in 1..k : us[i] = es[i]
        /\ us[k + 1] = y
    BY <1>1, <1>3, <1>4, <2>1
  <2> HIDE DEF us, es, y
  <2>6. Append(es, y) \in Seq(Writes) /\ Len(Append(es, y)) = k + 1
    BY <1>2, <1>4
  <2>7. \A i \in 1..k : Append(es, y)[i] = es[i]
    BY <1>2, <1>4
  <2>8. Append(es, y)[k + 1] = y
    BY <1>2, <1>4
  <2>9. \A i \in 1..Len(us) : us[i] = Append(es, y)[i]
    BY <2>2, <2>4, <2>5, <2>7, <2>8
  <2>10. QED
    BY <2>4, <2>6, <2>9, SeqEqual
<1>6. us = es \o <<y>>
  <2> HIDE DEF us, es, y
  <2>1. Append(es, y) = es \o <<y>>
    BY <1>2, <1>4
  <2>2. QED
    BY <1>5, <2>1
<1>7. Same(I, J, k, 0)
  <2>1. ASSUME NEW i \in 1..k PROVE i \in I <=> 0 + i \in J
    BY <1>1, <1>3
  <2> HIDE DEF I, J, k
  <2>2. QED
    BY <2>1 DEF Same
<1>8. Same(K, J, 1, k)
  <2>1. 1 \in K <=> k + 1 \in J
    BY <1>1, <1>3
  <2> HIDE DEF K, J, k
  <2>2. \A i \in 1..1 : i = 1
    OBVIOUS
  <2>3. QED
    BY <2>1, <2>2 DEF Same
<1> DEFINE v == <<y>>
<1>9. Chosen(es \o v, J) = Chosen(es, I) \o Chosen(v, K)
  <2>1. v \in Seq(Writes) /\ Len(v) = 1
    BY <1>2
  <2> HIDE DEF v, es, I, J, K, k
  <2>2. es \in Seq(Writes) /\ v \in Seq(Writes) /\ Same(I, J, Len(es), 0) /\ Same(K, J, Len(v), Len(es))
    BY <1>4, <1>7, <1>8, <2>1
  <2> HIDE DEF y, u
  <2>3. QED
    BY <2>2, ChosenConcat
<1>10. Chosen(v, K) = IF x.from = c THEN <<y>> ELSE <<>>
  <2>1. 1 \in K <=> x.from = c
    OBVIOUS
  <2> HIDE DEF K, y
  <2>2. Chosen(<<y>>, K) = IF 1 \in K THEN <<y>> ELSE <<>>
    BY <1>2, ChosenOne
  <2>3. QED
    BY <2>1, <2>2
<1>11. EntriesFrom(u, c) = Chosen(us, J) /\ EntriesFrom(s, c) = Chosen(es, I)
  BY DEF EntriesFrom
<1> HIDE DEF us, es, v, J, I, K, u
<1>12. EntriesFrom(u, c) = EntriesFrom(s, c) \o Chosen(v, K)
  BY <1>6, <1>9, <1>11 DEF v
<1>13. QED
  BY <1>10, <1>12 DEF u

-----------------------------------------------------------------------------
(* main waits for every goroutine, and a goroutine ends behind the last entry. *)

PumpRec(p) == p \in [pc : {"take", "parse", "write", "end"}, outs : {p.outs}, dests : {p.dests}]

Live == {c \in Chans : pump[c].pc # "end"}

MainInv ==
  /\ \A c \in Chans : PumpRec(pump[c])
  /\ main.pc # "create" => ~CreatePanics /\ main.left = Cardinality(Live)
  /\ main.pc \in {"close", "wait"} => Live = {}
  /\ \A c \in Chans : pump[c].pc = "end" => chs[c] = <<>> /\ ~open[c]
  /\ proc = "exit" => main.pc = "wait"

LEMMA PumpRecIs ==
  ASSUME NEW p, PumpRec(p)
  PROVE  /\ \A a : [p EXCEPT !.pc = a] = [pc |-> a, outs |-> p.outs, dests |-> p.dests]
         /\ \A a, b : [p EXCEPT !.pc = a, !.outs = b] = [pc |-> a, outs |-> b, dests |-> p.dests]
         /\ \A a, b : [p EXCEPT !.pc = a, !.dests = b] = [pc |-> a, outs |-> p.outs, dests |-> b]
         /\ \A b : [p EXCEPT !.dests = b] = [pc |-> p.pc, outs |-> p.outs, dests |-> b]
<1> DEFINE S == {p.outs}
           T == {p.dests}
<1>1. p \in [pc : {"take", "parse", "write", "end"}, outs : S, dests : T]
  BY DEF PumpRec
<1> HIDE DEF S, T
<1>2. ASSUME NEW a PROVE [p EXCEPT !.pc = a] = [pc |-> a, outs |-> p.outs, dests |-> p.dests]
  BY <1>1
<1>3. ASSUME NEW a, NEW b PROVE [p EXCEPT !.pc = a, !.outs = b] = [pc |-> a, outs |-> b, dests |-> p.dests]
  <2> DEFINE r == [pc |-> a, outs |-> p.outs, dests |-> p.dests]
  <2>1. [p EXCEPT !.pc = a] = r
    BY <1>2
  <2>2. [r EXCEPT !.outs = b] = [pc |-> a, outs |-> b, dests |-> p.dests]
    OBVIOUS
  <2> HIDE DEF r
  <2>3. QED
    BY <2>1, <2>2, Zenon
<1>4. ASSUME NEW a, NEW b PROVE [p EXCEPT !.pc = a, !.dests = b] = [pc |-> a, outs |-> p.outs, dests |-> b]
  <2> DEFINE r == [pc |-> a, outs |-> p.outs, dests |-> p.dests]
  <2>1. [p EXCEPT !.pc = a] = r
    BY <1>2
  <2>2. [r EXCEPT !.dests = b] = [pc |-> a, outs |-> p.outs, dests |-> b]
    OBVIOUS
  <2> HIDE DEF r
  <2>3. QED
    BY <2>1, <2>2, Zenon
<1>5. ASSUME NEW b PROVE [p EXCEPT !.dests = b] = [pc |-> p.pc, outs |-> p.outs, dests |-> b]
  BY <1>1
<1>6. QED
  BY <1>2, <1>3, <1>4, <1>5, Zenon

LEMMA LiveFinite == ASSUME ReaderInv PROVE IsFiniteSet(Live) /\ Cardinality(Live) \in Nat
<1>1. PICK n \in Nat : Chans = 1..n
  BY DEF ReaderInv, ChanInv
<1>2. IsFiniteSet(1..n) /\ Live \subseteq 1..n
  BY <1>1, FS_Interval DEF Live
<1>3. QED
  BY <1>2, FS_Subset, FS_CardinalityType

(* What a goroutine does to itself. *)
LEMMA PumpMoves ==
  ASSUME ReaderInv, MainInv, NEW c \in Chans,
         PumpTake(c) \/ PumpParse(c) \/ PumpWrite(c) \/ PumpWritten(c)
  PROVE  /\ pump[c].pc # "end" /\ PumpRec(pump'[c]) /\ pump'[c].pc # "end"
         /\ \A d \in Chans : d # c => pump'[d] = pump[d] /\ chs'[d] = chs[d]
         /\ main' = main /\ open' = open /\ cfg' = cfg /\ proc' \in {proc, "panic"}
<1>0. PumpRec(pump[c]) /\ DOMAIN pump = Chans /\ c \in DOMAIN pump
  BY DEF MainInv, ReaderInv, ChanInv
<1>1. CASE PumpTake(c)
  <2>1. pump' = pump \/ pump' = [pump EXCEPT ![c].pc = "parse", ![c].outs = RunFunction(cfg, Head(chs[c]))]
    BY <1>1, Zenon DEF PumpTake
  <2>2. PumpRec(pump'[c]) /\ pump'[c].pc # "end" /\ \A d \in Chans : d # c => pump'[d] = pump[d]
    <3>1. CASE pump' = pump
      BY <1>0, <1>1, <3>1 DEF PumpTake
    <3>2. CASE pump' = [pump EXCEPT ![c].pc = "parse", ![c].outs = RunFunction(cfg, Head(chs[c]))]
      <4>1. pump'[c] = [pump[c] EXCEPT !.pc = "parse", !.outs = RunFunction(cfg, Head(chs[c]))]
        BY <1>0, <3>2
      <4>2. pump'[c] = [pc |-> "parse", outs |-> RunFunction(cfg, Head(chs[c])), dests |-> pump[c].dests]
        BY <1>0, <4>1, PumpRecIs
      <4>3. QED
        BY <1>0, <3>2, <4>2 DEF PumpRec
    <3>3. QED
      BY <2>1, <3>1, <3>2
  <2>3. QED
    BY <1>1, <2>2 DEF PumpTake, Panic
<1>2. CASE PumpParse(c)
  <2>1. \/ pump' = pump \/ pump' = [pump EXCEPT ![c].pc = "take"]
        \/ pump' = [pump EXCEPT ![c].pc = "write", ![c].dests = Dests(Head(pump[c].outs).argv)]
    BY <1>2, Zenon DEF PumpParse
  <2>2. PumpRec(pump'[c]) /\ pump'[c].pc # "end" /\ \A d \in Chans : d # c => pump'[d] = pump[d]
    <3>1. CASE pump' = pump
      BY <1>0, <1>2, <3>1 DEF PumpParse
    <3>2. CASE pump' = [pump EXCEPT ![c].pc = "take"]
      <4>1. pump'[c] = [pc |-> "take", outs |-> pump[c].outs, dests |-> pump[c].dests]
        BY <1>0, <3>2, PumpRecIs
      <4>2. QED
        BY <1>0, <3>2, <4>1 DEF PumpRec
    <3>3. CASE pump' = [pump EXCEPT ![c].pc = "write", ![c].dests = Dests(Head(pump[c].outs).argv)]
      <4> DEFINE to == Dests(Head(pump[c].outs).argv)
      <4> HIDE DEF to
      <4>1. pump'[c] = [pump[c] EXCEPT !.pc = "write", !.dests = to]
        BY <1>0, <3>3 DEF to
      <4>2. pump'[c] = [pc |-> "write", outs |-> pump[c].outs, dests |-> to]
        BY <1>0, <4>1, PumpRecIs
      <4>3. QED
        BY <1>0, <3>3, <4>2 DEF PumpRec
    <3>4. QED
      BY <2>1, <3>1, <3>2, <3>3
  <2>3. QED
    BY <1>2, <2>2 DEF PumpParse, Panic, ReaderVars
<1>3. CASE PumpWrite(c)
  <2>1. pump[c].pc = "write" /\ pump' = [pump EXCEPT ![c].dests = Tail(@)]
    BY <1>3 DEF PumpWrite
  <2>2. pump'[c] = [pc |-> "write", outs |-> pump[c].outs, dests |-> Tail(pump[c].dests)]
    BY <1>0, <2>1, PumpRecIs
  <2>3. QED
    BY <1>3, <2>1, <2>2 DEF PumpWrite, ReaderVars, PumpRec
<1>4. CASE PumpWritten(c)
  <2>1. pump[c].pc = "write" /\ pump' = [pump EXCEPT ![c].pc = "parse", ![c].outs = Tail(@)]
    BY <1>4 DEF PumpWritten
  <2>2. pump'[c] = [pump[c] EXCEPT !.pc = "parse", !.outs = Tail(pump[c].outs)]
    BY <1>0, <2>1
  <2>3. pump'[c] = [pc |-> "parse", outs |-> Tail(pump[c].outs), dests |-> pump[c].dests]
    BY <1>0, <2>2, PumpRecIs
  <2>4. PumpRec(pump'[c]) /\ pump'[c].pc # "end"
    BY <2>3 DEF PumpRec
  <2>5. UNCHANGED <<main, open, cfg, proc, chs>>
    BY <1>4 DEF PumpWritten, ReaderVars
  <2>6. pump[c].pc # "end" /\ \A d \in Chans : d # c => pump'[d] = pump[d]
    BY <1>0, <2>1
  <2>7. QED
    BY <2>4, <2>5, <2>6
<1>5. QED
  BY <1>1, <1>2, <1>3, <1>4

LEMMA MainInit == Init => MainInv
BY DEF Init, MainInv, Chans

LEMMA EndKeeps ==
  ASSUME ReaderInv, MainInv, NEW c \in Chans, PumpEnd(c), Chans' = Chans, proc # "exit" PROVE MainInv'
<1>0. PumpRec(pump[c]) /\ DOMAIN pump = Chans /\ c \in DOMAIN pump
  BY DEF MainInv, ReaderInv, ChanInv
<1>1. /\ pump[c].pc = "take" /\ chs[c] = <<>> /\ ~open[c] /\ main.pc = "loop"
      /\ pump' = [pump EXCEPT ![c].pc = "end"]
      /\ main' = [main EXCEPT !.left = Left, !.pc = IF Left = 0 THEN "close" ELSE "loop"]
      /\ UNCHANGED <<chs, open, cfg, proc>>
  BY DEF PumpEnd, ReaderVars
<1>2. main \in [pc : {"create", "loop", "close", "wait"}, left : Int, pings : Nat]
  BY DEF ReaderInv, OpenInv
<1>3. pump'[c] = [pc |-> "end", outs |-> pump[c].outs, dests |-> pump[c].dests]
  BY <1>0, <1>1, PumpRecIs
<1>4. PumpRec(pump'[c]) /\ pump'[c].pc = "end" /\ \A d \in Chans : d # c => pump'[d] = pump[d]
  BY <1>0, <1>1, <1>3 DEF PumpRec
<1>5. Live' = Live \ {c} /\ c \in Live
  BY <1>1, <1>4 DEF Live
<1>6. IsFiniteSet(Live) /\ IsFiniteSet(Live') /\ Cardinality(Live') = Cardinality(Live) - 1 /\ Cardinality(Live') \in Nat
  BY <1>5, LiveFinite, FS_RemoveElement, FS_CardinalityType
<1>7. main'.left = Cardinality(Live') /\ main'.pc = IF Cardinality(Live') = 0 THEN "close" ELSE "loop"
  BY <1>1, <1>2, <1>6 DEF MainInv, Left
<1>8. main'.pc = "close" => Live' = {}
  BY <1>6, <1>7, FS_EmptySet
<1>9. ~CreatePanics'
  BY <1>1 DEF MainInv, CreatePanics, Clustered, ToCluster
<1>10. \A d \in Chans : PumpRec(pump[d])' /\ (pump'[d].pc = "end" => chs'[d] = <<>> /\ ~open'[d])
  BY <1>1, <1>4 DEF MainInv, PumpRec
<1>11. QED
  BY <1>1, <1>7, <1>8, <1>9, <1>10 DEF MainInv

LEMMA MainCreateKeeps == ASSUME ReaderInv, MainInv, Create, proc # "exit" PROVE MainInv'
<1>0. /\ main.pc = "create" /\ UNCHANGED cfg /\ Chans = {}
      /\ main \in [pc : {"create", "loop", "close", "wait"}, left : Int, pings : Nat]
  BY DEF ReaderInv, OpenInv, Create
<1>1. CASE Panic /\ UNCHANGED <<chs, open, main, pump>>
  BY <1>0, <1>1 DEF MainInv, Chans, Panic
<1>2. CASE ~CreatePanics /\ ~(Panic /\ UNCHANGED <<chs, open, main, pump>>)
  <2> DEFINE addrs == IF Clustered THEN Addresses(cfg.source, cfg.preferReplica) ELSE <<"file">>
  <2>1. /\ chs' = [c \in DOMAIN addrs |-> <<>>]
        /\ pump' = [c \in DOMAIN addrs |-> IdlePump]
        /\ main' = [main EXCEPT !.pc = "loop", !.left = Len(addrs)] /\ UNCHANGED proc
    BY <1>2, Zenon DEF Create
  <2>2. \E n \in Nat : Len(addrs) = n /\ DOMAIN addrs = 1..n
    <3>1. CASE Clustered
      <4> DEFINE a == Addresses(cfg.source, cfg.preferReplica)
                 n == Len(Masters(cfg.source))
      <4>1. cfg.source \in Seq(NodeLines(Words))
        BY ConfigAssumption DEF ReaderInv, OpenInv, ConfigOK, LinesOK
      <4>2. /\ DOMAIN a = 1..n /\ n \in Nat
            /\ \A i \in DOMAIN a : \E l \in ToSet(cfg.source) : a[i] = l.addr
        BY <4>1, AddressOfLine
      <4>3. a = [i \in 1..n |-> a[i]]
        BY <4>2 DEF Addresses
      <4> HIDE DEF a, n
      <4>4. a \in Seq({l.addr : l \in ToSet(cfg.source)}) /\ Len(a) = n
        BY <4>2, <4>3, IsASeq
      <4>5. QED
        BY <3>1, <4>2, <4>4 DEF a
    <3>2. CASE ~Clustered
      BY <3>2
    <3>3. QED
      BY <3>1, <3>2
  <2> HIDE DEF addrs
  <2>3. PICK n \in Nat : Len(addrs) = n /\ DOMAIN addrs = 1..n
    BY <2>2
  <2>4. Chans' = 1..n /\ \A c \in 1..n : pump'[c] = IdlePump
    BY <2>1, <2>3 DEF Chans
  <2>5. Live' = 1..n
    BY <2>4 DEF Live, IdlePump
  <2>6. Cardinality(1..n) = n
    BY FS_Interval
  <2>7. main'.pc = "loop" /\ main'.left = n
    BY <1>0, <2>1, <2>3
  <2>8. ~CreatePanics'
    BY <1>0, <1>2 DEF CreatePanics, Clustered, ToCluster
  <2>9. PumpRec(IdlePump) /\ IdlePump.pc # "end"
    BY DEF PumpRec, IdlePump
  <2>10. \A c \in Chans' : PumpRec(pump[c])' /\ pump'[c].pc # "end"
    BY <2>4, <2>9 DEF PumpRec
  <2>11. QED
    BY <2>1, <2>5, <2>6, <2>7, <2>8, <2>10 DEF MainInv
<1>3. QED
  BY <1>1, <1>2 DEF Create

LEMMA MainNext == ReaderInv /\ MainInv /\ [Next]_vars => MainInv'
<1> SUFFICES ASSUME ReaderInv, MainInv, [Next]_vars PROVE MainInv'
  OBVIOUS
<1>0. /\ main \in [pc : {"create", "loop", "close", "wait"}, left : Int, pings : Nat] /\ DOMAIN pump = Chans
      /\ chs \in [Chans -> Seq(Kept)]
  BY DEF ReaderInv, OpenInv, ChanInv
<1>1. CASE proc = "run" /\ ReaderStep
  <2>1. /\ Chans' = Chans /\ Sends /\ (\A c \in Chans : open'[c] => open[c])
        /\ UNCHANGED <<cfg, main, pump>> /\ proc' \in {proc, "panic"}
    BY <1>1, ReaderStepKeeps
  <2>2. \A c \in Chans : ~open[c] => chs'[c] = chs[c]
    BY <1>0, <2>1 DEF Sends, Pushed
  <2>3. Live' = Live /\ (CreatePanics' <=> CreatePanics)
    BY <2>1 DEF Live, CreatePanics, Clustered, ToCluster
  <2>4. QED
    BY <1>1, <2>1, <2>2, <2>3 DEF MainInv, PumpRec
<1>2. CASE proc = "run" /\ PumpStep
  <2>1. PICK c \in Chans : PumpTake(c) \/ PumpParse(c) \/ PumpWrite(c) \/ PumpWritten(c) \/ PumpEnd(c)
    BY <1>0, <1>2 DEF PumpStep
  <2>2. ReaderInv' /\ Chans' = Chans
    <3>1. ReaderInv'
      BY ReaderNext
    <3>2. CASE PumpTake(c)
      BY <3>1, <3>2, TakeKeeps
    <3>3. CASE PumpParse(c) \/ PumpWrite(c) \/ PumpWritten(c) \/ PumpEnd(c)
      BY <3>1, <3>3 DEF PumpParse, PumpWrite, PumpWritten, PumpEnd, ReaderVars, Chans
    <3>4. QED
      BY <2>1, <3>2, <3>3
  <2>3. CASE PumpEnd(c)
    BY <1>2, <2>2, <2>3, EndKeeps
  <2>4. CASE PumpTake(c) \/ PumpParse(c) \/ PumpWrite(c) \/ PumpWritten(c)
    <3>1. /\ pump[c].pc # "end" /\ PumpRec(pump'[c]) /\ pump'[c].pc # "end"
          /\ \A d \in Chans : d # c => pump'[d] = pump[d] /\ chs'[d] = chs[d]
          /\ main' = main /\ open' = open /\ cfg' = cfg /\ proc' \in {proc, "panic"}
      BY <2>4, PumpMoves
    <3>2. Live' = Live /\ (CreatePanics' <=> CreatePanics)
      BY <2>2, <3>1 DEF Live, CreatePanics, Clustered, ToCluster
    <3>3. \A d \in Chans : PumpRec(pump[d])'
      BY <3>1 DEF MainInv, PumpRec
    <3>4. QED
      BY <1>2, <2>2, <3>1, <3>2, <3>3 DEF MainInv
  <2>5. QED
    BY <2>1, <2>3, <2>4
<1>3. CASE proc = "run" /\ Create
  BY <1>3, MainCreateKeeps
<1>4. CASE proc = "run" /\ (StatusRun \/ MainPing \/ MainClose \/ MainExit \/ FileWriterStep \/ (\E int \in BOOLEAN : Signal(int)))
  <2>1. UNCHANGED <<ReaderVars, cfg, pump>>
    BY <1>4 DEF StatusRun, MainPing, MainClose, MainExit, FileWriterStep, Signal, pipeVars
  <2>2. Chans' = Chans /\ Live' = Live /\ (CreatePanics' <=> CreatePanics) /\ UNCHANGED <<chs, open>>
    BY <2>1 DEF Live, CreatePanics, Clustered, ToCluster, ReaderVars, Chans
  <2>3. /\ main'.left = main.left
        /\ main'.pc = main.pc \/ (main.pc = "close" /\ main'.pc = "wait")
        /\ proc' = "exit" => main'.pc = "wait"
    <3>1. CASE StatusRun \/ FileWriterStep \/ (\E int \in BOOLEAN : Signal(int))
      BY <1>4, <3>1 DEF StatusRun, FileWriterStep, Signal, pipeVars
    <3>2. CASE MainPing
      BY <1>0, <1>4, <3>2 DEF MainPing
    <3>3. CASE MainClose \/ MainExit
      BY <1>0, <1>4, <3>3 DEF MainClose, MainExit
    <3>4. QED
      BY <1>4, <3>1, <3>2, <3>3
  <2>4. \A d \in Chans : PumpRec(pump[d])'
    BY <2>1 DEF MainInv, PumpRec
  <2>5. QED
    BY <2>1, <2>2, <2>3, <2>4 DEF MainInv
<1>5. CASE UNCHANGED vars
  <2>1. UNCHANGED <<chs, open, cfg, main, pump, proc>>
    BY <1>5 DEF vars, pipeVars
  <2>2. QED
    BY <2>1 DEF MainInv, Chans, Live, PumpRec, CreatePanics, Clustered, ToCluster
<1>6. QED
  BY <1>1, <1>2, <1>3, <1>4, <1>5 DEF Next, MainStep, Ended

LEMMA MainAlways == Spec => []MainInv
BY ReaderAlways, MainInit, MainNext, PTL DEF Spec

-----------------------------------------------------------------------------
(* The writers take what they are given, at the end. *)

FileType == [pc : {"run", "flush", "end"}, buf : Seq(Items), file : Seq(Items), count : Nat,
             closed : BOOLEAN, wait : {0, 1}]
Taken(f) == f.file \o f.buf

LEMMA FileTakes ==
  ASSUME fw \in FileType, NEW x \in Items, FileTake(x) PROVE fw' \in FileType /\ Taken(fw)' = Append(Taken(fw), x)
<1> DEFINE b == fw.buf
           f == fw.file
<1>0. b \in Seq(Items) /\ f \in Seq(Items) /\ fw.count \in Nat
  BY DEF FileType
<1> DEFINE w == WriteEntry(fw, x)
<1>1. fw' = [w EXCEPT !.count = @ + 1]
  BY DEF FileTake
<1>2. ASSUME w \in FileType PROVE fw' \in FileType /\ fw'.buf = w.buf /\ fw'.file = w.file
  <2> DEFINE k == w.count + 1
  <2> HIDE DEF w
  <2>1. k \in Nat /\ fw' = [w EXCEPT !.count = k]
    BY <1>1, <1>2 DEF FileType
  <2> HIDE DEF k
  <2>2. QED
    BY <1>2, <2>1 DEF FileType
<1>3. CASE Len(b) < BufCap
  <2> DEFINE more == Append(b, x)
  <2>0. more \in Seq(Items)
    BY <1>0
  <2>1. w = [fw EXCEPT !.buf = more]
    BY <1>3 DEF WriteEntry
  <2> HIDE DEF more, w
  <2>2. w \in FileType /\ w.buf = more /\ w.file = f
    BY <2>0, <2>1 DEF FileType
  <2> HIDE DEF b, f
  <2>3. f \o Append(b, x) = Append(f \o b, x)
    BY <1>0
  <2>4. QED
    BY <1>2, <2>2, <2>3 DEF Taken, b, f, more
<1>4. CASE ~(Len(b) < BufCap)
  <2> DEFINE g == f \o b
             one == <<x>>
  <2>2. g \in Seq(Items) /\ one \in Seq(Items)
    BY <1>0
  <2>3. w = [fw EXCEPT !.file = g, !.buf = one]
    BY <1>4 DEF WriteEntry
  <2> HIDE DEF g, one, w
  <2>4. w \in FileType /\ w.buf = one /\ w.file = g
    BY <2>2, <2>3 DEF FileType
  <2>5. g \o one = Append(g, x)
    BY <2>2 DEF one
  <2>6. QED
    BY <1>2, <2>4, <2>5 DEF Taken, g
<1>5. QED
  BY <1>3, <1>4

LEMMA FlushedSame ==
  ASSUME NEW w \in FileType PROVE Flushed(w) \in FileType /\ Taken(Flushed(w)) = Taken(w) /\ Flushed(w).pc = w.pc
<1> DEFINE g == w.file \o w.buf
           none == <<>>
<1>1. w.file \in Seq(Items) /\ w.buf \in Seq(Items)
  BY DEF FileType
<1>2. g \in Seq(Items) /\ none \in Seq(Items)
  BY <1>1
<1>3. Flushed(w) = [w EXCEPT !.file = g, !.buf = none]
  BY DEF Flushed
<1> HIDE DEF g, none
<1>4. Flushed(w) \in FileType /\ Flushed(w).file = g /\ Flushed(w).buf = none /\ Flushed(w).pc = w.pc
  BY <1>2, <1>3 DEF FileType
<1>5. g \o none = g
  BY <1>2, ConcatEmptySeq DEF none
<1>6. QED
  BY <1>4, <1>5 DEF Taken, g

LEMMA FileSteps ==
  ASSUME fw \in FileType, FileStep \/ FileClose PROVE fw' \in FileType /\ Taken(fw)' = Taken(fw)
<1>1. CASE FileTick
  BY <1>1, FlushedSame DEF FileTick
<1>2. CASE FileDone \/ FileClose
  <2>1. fw' \in FileType /\ fw'.file = fw.file /\ fw'.buf = fw.buf
    BY <1>2 DEF FileDone, FileClose, FileType
  <2>2. QED
    BY <2>1 DEF Taken
<1>3. CASE FileLastFlush
  <2> DEFINE w == Flushed(fw)
  <2>1. w \in FileType /\ Taken(w) = Taken(fw)
    BY FlushedSame
  <2>2. fw' = [w EXCEPT !.pc = "end"]
    BY <1>3 DEF FileLastFlush
  <2> HIDE DEF w
  <2>3. fw' \in FileType /\ fw'.file = w.file /\ fw'.buf = w.buf
    BY <2>1, <2>2 DEF FileType
  <2>4. QED
    BY <2>1, <2>3 DEF Taken
<1>4. QED
  BY <1>1, <1>2, <1>3 DEF FileStep

Addrs == {l.addr : l \in ToSet(cfg.target)}
SinkInv == fw \in FileType /\ nodes \in [Addrs -> Seq(Items)]

(* What a sink has got of a channel: nodes at once, the file when it is flushed. *)
Got(n, c) ==
  IF n = "file" THEN EntriesFrom(Taken(fw), c)
  ELSE IF n \in DOMAIN nodes THEN EntriesFrom(nodes[n], c) ELSE <<>>

LEMMA TakenType == ASSUME NEW w \in FileType PROVE Taken(w) \in Seq(Items) /\ w.file \in Seq(Items) /\ w.buf \in Seq(Items)
<1>1. w.file \in Seq(Items) /\ w.buf \in Seq(Items)
  BY DEF FileType
<1>2. QED
  BY <1>1 DEF Taken

LEMMA GotType == ASSUME SinkInv, NEW n, NEW c PROVE Got(n, c) \in Seq(Writes)
<1>1. Taken(fw) \in Seq(Items) /\ \A a \in DOMAIN nodes : nodes[a] \in Seq(Items)
  BY TakenType DEF SinkInv
<1>2. QED
  BY <1>1, FromType DEF Got

LEMMA SameGot ==
  ASSUME nodes' = nodes, Taken(fw)' = Taken(fw), NEW n, NEW c PROVE Got(n, c)' = Got(n, c)
BY DEF Got

More(n, c, m, x) == IF n = m /\ x.from = c THEN << x.e >> ELSE <<>>

LEMMA Gives ==
  ASSUME SinkInv, cfg \in Configs, cfg' = cfg, NEW m \in SinksOf(cfg), NEW x \in Items, Give(m, x)
  PROVE  SinkInv' /\ \A n, c : Got(n, c)' = Got(n, c) \o More(n, c, m, x)
<1>0. x.e \in Writes
  BY ItemIs
<1>1. CASE ToCluster
  <2>1. nodes' = [nodes EXCEPT ![m] = Append(@, x)] /\ UNCHANGED fw
    BY <1>1 DEF Give
  <2>2. m \in Addrs /\ "file" \notin Addrs /\ nodes \in [Addrs -> Seq(Items)] /\ Addrs' = Addrs
    BY <1>1, SinksAre DEF Addrs, SinkInv
  <2>3. Append(nodes[m], x) \in Seq(Items)
    BY <2>2
  <2>4. nodes' \in [Addrs -> Seq(Items)] /\ nodes'[m] = Append(nodes[m], x) /\ \A n \in Addrs : n # m => nodes'[n] = nodes[n]
    BY <2>1, <2>2, <2>3
  <2>5. ASSUME NEW n, NEW c PROVE Got(n, c)' = Got(n, c) \o More(n, c, m, x)
    <3>1. Got(n, c) \in Seq(Writes)
      BY GotType
    <3>2. Got(n, c) \o <<>> = Got(n, c)
      <4> DEFINE g == Got(n, c)
      <4> HIDE DEF g
      <4>1. g \in Seq(Writes)
        BY <3>1 DEF g
      <4>2. g \o <<>> = g
        BY <4>1, ConcatEmptySeq
      <4>3. QED
        BY <4>2 DEF g
    <3>3. CASE n = m
      <4>1. Got(n, c)' = EntriesFrom(Append(nodes[m], x), c) /\ Got(n, c) = EntriesFrom(nodes[m], c)
        BY <2>2, <2>4, <3>3 DEF Got
      <4>2. nodes[m] \in Seq(Items)
        BY <2>2
      <4>3. EntriesFrom(Append(nodes[m], x), c) = EntriesFrom(nodes[m], c) \o (IF x.from = c THEN << x.e >> ELSE <<>>)
        BY <4>2, FromMore
      <4>4. QED
        BY <3>3, <4>1, <4>3 DEF More
    <3>4. CASE n # m
      <4>1. Got(n, c)' = Got(n, c)
        BY <2>1, <2>2, <2>4, <3>4 DEF Got
      <4>2. QED
        BY <3>2, <3>4, <4>1 DEF More
    <3>5. QED
      BY <3>3, <3>4
  <2>6. QED
    BY <2>1, <2>2, <2>4, <2>5 DEF SinkInv
<1>2. CASE ~ToCluster
  <2>1. FileTake(x) /\ UNCHANGED nodes /\ m = "file"
    BY <1>2, SinksAre DEF Give
  <2>2. fw \in FileType /\ fw' \in FileType /\ Taken(fw)' = Append(Taken(fw), x) /\ Taken(fw) \in Seq(Items) /\ Addrs' = Addrs
    BY <2>1, FileTakes, TakenType DEF SinkInv, Addrs
  <2>3. ASSUME NEW n, NEW c PROVE Got(n, c)' = Got(n, c) \o More(n, c, m, x)
    <3>1. CASE n = m
      <4>1. Got(n, c)' = EntriesFrom(Append(Taken(fw), x), c) /\ Got(n, c) = EntriesFrom(Taken(fw), c)
        BY <2>1, <2>2, <3>1 DEF Got
      <4>2. EntriesFrom(Append(Taken(fw), x), c) = EntriesFrom(Taken(fw), c) \o (IF x.from = c THEN << x.e >> ELSE <<>>)
        BY <2>2, FromMore
      <4>3. QED
        BY <3>1, <4>1, <4>2 DEF More
    <3>2. CASE n # m
      <4> DEFINE g == Got(n, c)
      <4>1. Got(n, c)' = Got(n, c)
        BY <2>1, <3>2 DEF Got
      <4>2. g \in Seq(Writes)
        BY GotType
      <4> HIDE DEF g
      <4>3. g \o <<>> = g
        BY <4>2, ConcatEmptySeq
      <4>4. QED
        BY <3>2, <4>1, <4>3 DEF More, g
    <3>3. QED
      BY <3>1, <3>2
  <2>4. QED
    BY <2>1, <2>2, <2>3 DEF SinkInv
<1>3. QED
  BY <1>1, <1>2

(* What main writes itself comes from no channel. *)
LEMMA MainItem ==
  /\ FromMain(<<"PING">>) \in Items /\ FromMain(<<"PING">>).from = 0
  /\ FromMain(<<"FLUSHALL">>) \in Items /\ FromMain(<<"FLUSHALL">>).from = 0
<1> DEFINE p == Entry(0, <<"PING">>, 0, NoValue)
           f == Entry(0, <<"FLUSHALL">>, 0, NoValue)
<1>1. FromMain(<<"PING">>) = [from |-> 0, e |-> p] /\ FromMain(<<"FLUSHALL">>) = [from |-> 0, e |-> f]
  BY DEF FromMain, Item
<1> HIDE DEF p, f
<1>2. p \in Writes /\ f \in Writes
  BY <1>1 DEF Writes
<1>3. QED
  BY <1>1, <1>2 DEF Items

LEMMA PingGives ==
  ASSUME ReaderInv, SinkInv, MainPing PROVE SinkInv' /\ \A n : \A c \in Chans : Got(n, c)' = Got(n, c)
<1> DEFINE x == FromMain(<<"PING">>)
<1>0. /\ x \in Items /\ x.from = 0 /\ cfg \in Configs /\ cfg' = cfg /\ Addrs' = Addrs
      /\ 0 \notin Chans /\ nodes \in [Addrs -> Seq(Items)] /\ fw \in FileType /\ "file" \notin Addrs
  BY MainItem, SinksAre DEF ReaderInv, OpenInv, ChanInv, MainPing, Addrs, SinkInv
<1> HIDE DEF x
<1>1. ASSUME NEW s \in Seq(Items), NEW c \in Chans PROVE EntriesFrom(Append(s, x), c) = EntriesFrom(s, c)
  <2> DEFINE g == EntriesFrom(s, c)
  <2>1. EntriesFrom(Append(s, x), c) = g \o (IF x.from = c THEN << x.e >> ELSE <<>>)
    BY <1>0, FromMore
  <2>2. g \in Seq(Writes) /\ x.from # c
    BY <1>0, FromType
  <2> HIDE DEF g
  <2>3. g \o <<>> = g
    BY <2>2, ConcatEmptySeq
  <2>4. QED
    BY <2>1, <2>2, <2>3 DEF g
<1>2. CASE ToCluster
  <2>1. UNCHANGED fw /\ nodes' = [n \in DOMAIN nodes |-> IF n \in ToSet(Writers) THEN Append(nodes[n], x) ELSE nodes[n]]
    BY <1>2 DEF MainPing, x
  <2>2. \A n \in Addrs : Append(nodes[n], x) \in Seq(Items) /\ nodes[n] \in Seq(Items)
    BY <1>0
  <2>3. nodes' \in [Addrs -> Seq(Items)] /\ \A n \in Addrs : nodes'[n] = Append(nodes[n], x) \/ nodes'[n] = nodes[n]
    BY <1>0, <2>1, <2>2
  <2>4. ASSUME NEW n, NEW c \in Chans PROVE Got(n, c)' = Got(n, c)
    <3>1. CASE n \in Addrs
      <4>1. n # "file" /\ n \in DOMAIN nodes /\ n \in DOMAIN nodes'
        BY <1>0, <2>3, <3>1
      <4>2. Got(n, c)' = EntriesFrom(nodes'[n], c) /\ Got(n, c) = EntriesFrom(nodes[n], c)
        BY <4>1 DEF Got
      <4>3. QED
        BY <1>1, <2>2, <2>3, <3>1, <4>2
    <3>2. CASE n \notin Addrs
      BY <1>0, <2>1, <2>3, <3>2 DEF Got
    <3>3. QED
      BY <3>1, <3>2
  <2>5. QED
    BY <1>0, <2>1, <2>3, <2>4 DEF SinkInv
<1>3. CASE ~ToCluster
  <2>1. FileTake(x) /\ UNCHANGED nodes
    BY <1>3 DEF MainPing, x
  <2>2. fw' \in FileType /\ Taken(fw)' = Append(Taken(fw), x) /\ Taken(fw) \in Seq(Items)
    BY <1>0, <2>1, FileTakes, TakenType
  <2>3. ASSUME NEW n, NEW c \in Chans PROVE Got(n, c)' = Got(n, c)
    BY <1>1, <2>1, <2>2 DEF Got
  <2>4. QED
    BY <1>0, <2>1, <2>2, <2>3 DEF SinkInv
<1>4. QED
  BY <1>2, <1>3

-----------------------------------------------------------------------------
(* What was promised of what a goroutine has taken has been given, or is in its hands. *)

OnceEach(s) == \A i, j \in DOMAIN s : s[i] = s[j] => i = j

PumpGood(p) ==
  /\ p.outs \in Seq(Agreed) /\ p.dests \in Seq(SinksOf(cfg))
  /\ p.pc = "write" => p.outs # <<>> /\ OnceEach(p.dests)

ToCome(p, n) ==
  IF p.pc = "parse" THEN Routed(cfg, p.outs, n)
  ELSE IF p.pc = "write"
  THEN (IF n \in ToSet(p.dests) THEN << Head(p.outs) >> ELSE <<>>) \o Routed(cfg, Tail(p.outs), n)
  ELSE <<>>

Owed(t, c) == \A n \in AllSinks : PromisedTo(cfg, t, n) = Got(n, c) \o ToCome(pump[c], n)
Paid(c) == PumpGood(pump[c]) /\ \E t \in Seq(Fine(cfg)) : sent[c] = t \o chs[c] /\ Owed(t, c)

WorkInv ==
  /\ SinkInv
  /\ main.pc = "create" => Taken(fw) = <<>> /\ nodes = [n \in Addrs |-> <<>>]
  /\ \A c \in Chans : Paid(c)

LEMMA AgreedIs ==
  ASSUME NEW s \in Seq(Agreed)
  PROVE  /\ s \in Seq(Entries)
         /\ s # <<>> => /\ Head(s) \in Entries /\ Tail(s) \in Seq(Agreed) /\ Tail(s) \in Seq(Entries)
                        /\ KeysAgree(Head(s).argv) /\ Head(s).argv \in Seq(Words)
<1>1. Agreed \subseteq Entries
  BY DEF Agreed
<1>2. Seq(Agreed) \subseteq Seq(Entries)
  BY <1>1
<1>3. ASSUME s # <<>> PROVE Head(s) \in Agreed /\ Tail(s) \in Seq(Agreed)
  BY <1>3
<1>4. \A e \in Agreed : KeysAgree(e.argv) /\ e.argv \in Seq(Words)
  BY DEF Agreed, Entries
<1>5. QED
  BY <1>1, <1>2, <1>3, <1>4

LEMMA SentFine ==
  ASSUME ReaderInv, KeysAsInRedis, NEW c \in Chans
  PROVE  sent[c] \in Seq(Fine(cfg)) /\ chs[c] \in Seq(Kept)
<1> DEFINE s == sent[c]
<1>1. s \in Seq(Kept) /\ c \in DOMAIN sent /\ chs[c] \in Seq(Kept)
  BY DEF ReaderInv, ChanInv
<1>2. ASSUME NEW i \in 1..Len(s) PROVE s[i] \in Fine(cfg)
  <2>1. s[i] \in Kept /\ i \in DOMAIN s
    BY <1>1
  <2>2. QED
    BY <1>1, <2>1 DEF KeysAsInRedis, Fine
<1>3. Len(s) \in Nat /\ s = [i \in 1..Len(s) |-> s[i]]
  BY <1>1
<1> HIDE DEF s
<1>4. s \in Seq(Fine(cfg))
  BY <1>2, <1>3, IsASeq
<1>5. QED
  BY <1>1, <1>4 DEF s

LEMMA ToComeType ==
  ASSUME NEW p, PumpGood(p), NEW n PROVE ToCome(p, n) \in Seq(Entries)
<1> DEFINE q == p.outs
<1>1. q \in Seq(Agreed) /\ (p.pc = "write" => q # <<>>)
  BY DEF PumpGood
<1>2. q \in Seq(Entries) /\ (q # <<>> => Head(q) \in Entries /\ Tail(q) \in Seq(Entries))
  BY <1>1, AgreedIs
<1> HIDE DEF q
<1>3. Routed(cfg, q, n) \in Seq(Entries) /\ (q # <<>> => Routed(cfg, Tail(q), n) \in Seq(Entries))
  BY <1>2, RoutedType
<1>4. CASE p.pc = "write"
  <2> DEFINE a == IF n \in ToSet(p.dests) THEN << Head(q) >> ELSE <<>>
             b == Routed(cfg, Tail(q), n)
  <2>1. a \in Seq(Entries) /\ b \in Seq(Entries)
    BY <1>1, <1>2, <1>3, <1>4
  <2> HIDE DEF a, b
  <2>2. a \o b \in Seq(Entries)
    BY <2>1
  <2>3. ToCome(p, n) = a \o b
    BY <1>4 DEF ToCome, a, b, q
  <2>4. QED
    BY <2>2, <2>3
<1>5. CASE p.pc # "write"
  BY <1>3, <1>5 DEF ToCome, q
<1>6. QED
  BY <1>4, <1>5

(* Steps that leave a goroutine and what it was given alone. *)
LEMMA PaidSame ==
  ASSUME NEW c, Paid(c), cfg' = cfg, pump'[c] = pump[c], chs'[c] = chs[c], sent'[c] = sent[c],
         \A n : Got(n, c)' = Got(n, c)
  PROVE  Paid(c)'
<1>1. PICK t \in Seq(Fine(cfg)) : sent[c] = t \o chs[c] /\ Owed(t, c)
  BY DEF Paid
<1>2. \A n : ToCome(pump[c], n)' = ToCome(pump[c], n)
  BY DEF ToCome
<1>3. Owed(t, c)'
  BY <1>1, <1>2 DEF Owed
<1>4. PumpGood(pump[c])'
  BY DEF Paid, PumpGood
<1>5. Fine(cfg)' = Fine(cfg)
  OBVIOUS
<1>6. sent'[c] = t \o chs'[c]
  BY <1>1
<1>7. QED
  BY <1>1, <1>3, <1>4, <1>5, <1>6 DEF Paid

LEMMA ReaderWork ==
  ASSUME ReaderInv, WorkInv, ReaderStep PROVE WorkInv'
<1>1. /\ Chans' = Chans /\ Sends /\ UNCHANGED <<cfg, main, pump, nodes, fw>>
      /\ chs \in [Chans -> Seq(Kept)] /\ sent \in [Chans -> Seq(Kept)]
  BY ReaderStepKeeps DEF ReaderInv, ChanInv
<1>2. \A n, c : Got(n, c)' = Got(n, c)
  BY <1>1 DEF Got
<1>3. ASSUME NEW c \in Chans PROVE Paid(c)'
  <2>1. Paid(c)
    BY DEF WorkInv
  <2>2. CASE chs'[c] = chs[c] /\ sent'[c] = sent[c]
    BY <1>1, <1>2, <2>1, <2>2, PaidSame
  <2>3. CASE \E e \in Kept : Pushed(c, e)
    <3>1. PICK e \in Kept : Pushed(c, e)
      BY <2>3
    <3>2. chs'[c] = Append(chs[c], e) /\ sent'[c] = Append(sent[c], e)
      BY <1>1, <3>1 DEF Pushed
    <3>3. PICK t \in Seq(Fine(cfg)) : sent[c] = t \o chs[c] /\ Owed(t, c)
      BY <2>1 DEF Paid
    <3>4. t \in Seq(Kept) /\ chs[c] \in Seq(Kept)
      <4>1. Fine(cfg) \subseteq Kept
        BY DEF Fine
      <4>2. QED
        BY <1>1, <3>3, <4>1
    <3>5. sent'[c] = t \o chs'[c]
      <4> DEFINE s == chs[c]
      <4>1. s \in Seq(Kept)
        BY <3>4
      <4> HIDE DEF s
      <4>2. Append(t \o s, e) = t \o Append(s, e)
        BY <3>4, <4>1
      <4>3. QED
        BY <3>2, <3>3, <4>2 DEF s
    <3>6. Owed(t, c)'
      BY <1>1, <1>2, <3>3 DEF Owed, ToCome
    <3>7. PumpGood(pump[c])'
      BY <1>1, <2>1 DEF Paid, PumpGood
    <3>8. QED
      BY <1>1, <3>3, <3>5, <3>6, <3>7 DEF Paid
  <2>4. QED
    BY <1>1, <2>2, <2>3 DEF Sends, Pushed
<1>4. SinkInv' /\ (main'.pc = "create" => Taken(fw)' = <<>> /\ nodes' = [n \in Addrs' |-> <<>>])
  BY <1>1 DEF WorkInv, SinkInv, Addrs, Taken
<1>5. QED
  BY <1>1, <1>3, <1>4 DEF WorkInv

(* A goroutine that has nothing in its hands takes an entry. *)
LEMMA TakeWork ==
  ASSUME ReaderInv, MainInv, WorkInv, KeysAsInRedis, NEW c \in Chans, PumpTake(c), proc' # "panic"
  PROVE  Paid(c)'
<1> DEFINE s == chs[c]
           e == Head(s)
           out == RunFunction(cfg, e)
<1>1. /\ pump[c].pc = "take" /\ s # <<>> /\ chs' = [chs EXCEPT ![c] = Tail(@)] /\ UNCHANGED <<cfg, sent, nodes, fw>>
      /\ ~ParsePanics(e.argv)
      /\ pump' = IF Filter(cfg.rules, e) THEN [pump EXCEPT ![c].pc = "parse", ![c].outs = out] ELSE pump
  BY Zenon DEF PumpTake, Panic
<1>2. /\ DOMAIN pump = Chans /\ PumpRec(pump[c]) /\ Paid(c) /\ cfg \in Configs /\ RulesOK(cfg.rules)
      /\ s \in Seq(Kept) /\ chs \in [Chans -> Seq(Kept)] /\ SinkInv
  BY ConfigAssumption DEF ReaderInv, ChanInv, OpenInv, MainInv, WorkInv, ConfigOK
<1>3. PICK t \in Seq(Fine(cfg)) : sent[c] = t \o s /\ Owed(t, c)
  BY <1>2 DEF Paid
<1>4. chs'[c] = Tail(s)
  BY <1>1, <1>2
<1>5. e \in Fine(cfg) /\ sent[c] = Append(t, e) \o Tail(s) /\ Append(t, e) \in Seq(Fine(cfg))
  <2>1. sent[c] \in Seq(Fine(cfg))
    BY SentFine
  <2>2. t \in Seq(Kept)
    <3>1. Fine(cfg) \subseteq Kept
      BY DEF Fine
    <3>2. QED
      BY <3>1
  <2> DEFINE u == t \o s
             k == Len(t) + 1
  <2>3. u[k] = Head(s) /\ k \in 1..Len(u) /\ Append(t, Head(s)) \o Tail(s) = u
    <3> HIDE DEF s
    <3>1. s # <<>> /\ s \in Seq(Kept) /\ Len(s) \in Nat /\ Len(s) >= 1 /\ Len(t) \in Nat
      BY <1>1, <1>2, <2>2
    <3>2. Len(t \o s) = Len(t) + Len(s) /\ (t \o s)[Len(t) + 1] = s[1] /\ Head(s) = s[1]
      BY <2>2, <3>1
    <3>3. Append(t, Head(s)) \o Tail(s) = t \o s
      BY <2>2, <3>1
    <3>4. QED
      BY <3>1, <3>2, <3>3
  <2> HIDE DEF u, k, s
  <2>4. u \in Seq(Fine(cfg))
    BY <1>3, <2>1 DEF u
  <2>5. Head(s) \in Fine(cfg)
    <3>1. k \in 1..Len(u) /\ u[k] = Head(s)
      BY <2>3
    <3>2. u[k] \in Fine(cfg)
      BY <2>4, <3>1
    <3>3. QED
      BY <3>1, <3>2
  <2>6. Append(t, Head(s)) \in Seq(Fine(cfg))
    BY <2>5
  <2>7. QED
    BY <1>3, <2>3, <2>5, <2>6 DEF u
<1> HIDE DEF e, s
<1>6. KeysAgree(e.argv) /\ out \in Seq(Entries) /\ \A x \in ToSet(out) : KeysAgree(x.argv)
  BY <1>5 DEF Fine
<1>7. Filter(cfg.rules, e) <=> DocPasses(cfg.rules, e)
  BY <1>1, <1>2, <1>6, FilterAsDocumented
<1>8. ASSUME NEW n PROVE PromisedTo(cfg, Append(t, e), n) = PromisedTo(cfg, t, n) \o Becomes(cfg, e, n)
  <2> DEFINE one == <<e>>
  <2>1. one \in Seq(Fine(cfg)) /\ Append(t, e) = t \o one
    BY <1>5
  <2>2. PromisedTo(cfg, one, n) = Becomes(cfg, e, n)
    BY <1>5, PromisedOne
  <2> HIDE DEF one
  <2>3. PromisedTo(cfg, t \o one, n) = PromisedTo(cfg, t, n) \o PromisedTo(cfg, one, n)
    BY <2>1, PromisedConcat
  <2>4. QED
    BY <2>1, <2>2, <2>3
<1>9. ASSUME NEW n \in AllSinks PROVE PromisedTo(cfg, t, n) = Got(n, c)
  <2> DEFINE g == Got(n, c)
  <2>1. ToCome(pump[c], n) = <<>>
    BY <1>1 DEF ToCome
  <2>2. g \in Seq(Writes)
    BY <1>2, GotType
  <2>3. PromisedTo(cfg, t, n) = g \o <<>>
    BY <1>3, <2>1 DEF Owed
  <2> HIDE DEF g
  <2>4. g \o <<>> = g
    BY <2>2, ConcatEmptySeq
  <2>5. QED
    BY <2>3, <2>4 DEF g
<1>10. \A n : Got(n, c)' = Got(n, c)
  BY <1>1 DEF Got
<1>11. SUFFICES PumpGood(pump[c])' /\ \A n \in AllSinks : ToCome(pump[c], n)' = Becomes(cfg, e, n)
  <2>1. SUFFICES ASSUME PumpGood(pump[c])', \A n \in AllSinks : ToCome(pump[c], n)' = Becomes(cfg, e, n) PROVE Paid(c)'
    OBVIOUS
  <2>2. PICK u \in Seq(Fine(cfg)) : u = Append(t, e)
    BY <1>5
  <2>3. ASSUME NEW n \in AllSinks PROVE PromisedTo(cfg, u, n) = Got(n, c)' \o ToCome(pump[c], n)'
    BY <1>8, <1>9, <1>10, <2>1, <2>2
  <2>4. Owed(u, c)'
    BY <1>1, <2>3 DEF Owed
  <2>5. sent'[c] = u \o chs'[c]
    BY <1>1, <1>4, <1>5, <2>2
  <2>6. QED
    BY <1>1, <2>1, <2>2, <2>4, <2>5 DEF Paid
<1>12. CASE Filter(cfg.rules, e)
  <2>1. pump'[c] = [pump[c] EXCEPT !.pc = "parse", !.outs = out]
    <3> HIDE DEF out
    <3>1. QED
      BY <1>1, <1>2, <1>12
  <2>2. pump'[c] = [pc |-> "parse", outs |-> out, dests |-> pump[c].dests]
    <3> HIDE DEF out
    <3>1. QED
      BY <1>2, <2>1, PumpRecIs
  <2>3. out \in Seq(Agreed)
    <3> HIDE DEF out
    <3>1. \A i \in 1..Len(out) : out[i] \in Agreed
      BY <1>6 DEF Agreed, ToSet
    <3>2. Len(out) \in Nat /\ out = [i \in 1..Len(out) |-> out[i]]
      BY <1>6
    <3>3. QED
      BY <3>1, <3>2, IsASeq
  <2>4. pump[c].dests \in Seq(SinksOf(cfg))
    BY <1>2 DEF Paid, PumpGood
  <2> HIDE DEF out
  <2>5. PumpGood(pump[c])'
    BY <1>1, <2>2, <2>3, <2>4 DEF PumpGood
  <2>6. \A n : ToCome(pump[c], n)' = Routed(cfg, out, n)
    BY <1>1, <2>2 DEF ToCome
  <2>7. \A n : Becomes(cfg, e, n) = Routed(cfg, out, n)
    BY <1>7, <1>12 DEF Becomes, out
  <2>8. QED
    BY <2>5, <2>6, <2>7
<1>13. CASE ~Filter(cfg.rules, e)
  <2>1. pump' = pump
    BY <1>1, <1>13
  <2>2. PumpGood(pump[c])' /\ \A n : ToCome(pump[c], n)' = <<>>
    BY <1>1, <1>2, <2>1 DEF PumpGood, ToCome, Paid
  <2>3. \A n : Becomes(cfg, e, n) = <<>>
    BY <1>7, <1>13 DEF Becomes
  <2>4. QED
    BY <2>2, <2>3
<1>14. QED
  BY <1>12, <1>13

(* Parse and the beginning of Write: what is owed does not change. *)
LEMMA ParseWork ==
  ASSUME ReaderInv, MainInv, WorkInv, NEW c \in Chans, PumpParse(c), proc' # "panic"
  PROVE  Paid(c)'
<1> DEFINE q == pump[c].outs
           argv == Head(q).argv
           to == Dests(argv)
<1>1. /\ pump[c].pc = "parse" /\ UNCHANGED <<cfg, sent, chs, nodes, fw>>
      /\ \/ q = <<>> /\ pump' = [pump EXCEPT ![c].pc = "take"]
         \/ /\ q # <<>> /\ ~ParsePanics(argv) /\ ~CrossSlot(argv)
            /\ pump' = [pump EXCEPT ![c].pc = "write", ![c].dests = to]
  BY Zenon DEF PumpParse, Panic, ReaderVars
<1>2. /\ DOMAIN pump = Chans /\ PumpRec(pump[c]) /\ Paid(c) /\ cfg \in Configs
      /\ q \in Seq(Agreed) /\ pump[c].dests \in Seq(SinksOf(cfg))
  BY DEF ReaderInv, ChanInv, OpenInv, MainInv, WorkInv, Paid, PumpGood
<1>3. PICK t \in Seq(Fine(cfg)) : sent[c] = t \o chs[c] /\ Owed(t, c)
  BY <1>2 DEF Paid
<1>4. \A n : Got(n, c)' = Got(n, c)
  BY <1>1 DEF Got
<1>5. SUFFICES PumpGood(pump[c])' /\ \A n \in AllSinks : ToCome(pump[c], n)' = ToCome(pump[c], n)
  BY <1>1, <1>3, <1>4 DEF Paid, Owed
<1>6. \A n : ToCome(pump[c], n) = Routed(cfg, q, n)
  BY <1>1 DEF ToCome
<1>7. CASE q = <<>> /\ pump' = [pump EXCEPT ![c].pc = "take"]
  <2>1. pump'[c] = [pc |-> "take", outs |-> q, dests |-> pump[c].dests]
    BY <1>2, <1>7, PumpRecIs
  <2> HIDE DEF q
  <2>2. PumpGood(pump[c])' /\ \A n : ToCome(pump[c], n)' = <<>>
    BY <1>1, <1>2, <2>1 DEF PumpGood, ToCome
  <2>3. \A n : Routed(cfg, q, n) = <<>>
    BY <1>7, RoutedEmpty
  <2>4. QED
    BY <1>6, <2>2, <2>3
<1>8. CASE /\ q # <<>> /\ ~ParsePanics(argv) /\ ~CrossSlot(argv)
           /\ pump' = [pump EXCEPT ![c].pc = "write", ![c].dests = to]
  <2>1. pump'[c] = [pump[c] EXCEPT !.pc = "write", !.dests = to]
    <3> HIDE DEF to
    <3>1. QED
      BY <1>2, <1>8
  <2>2. pump'[c] = [pc |-> "write", outs |-> q, dests |-> to]
    <3> HIDE DEF to
    <3>1. PumpRec(pump[c])
      BY <1>2
    <3>2. QED
      BY <2>1, <3>1, PumpRecIs
  <2> HIDE DEF q
  <2>3. KeysAgree(argv) /\ argv \in Seq(Words) /\ q \in Seq(Entries)
    BY <1>2, <1>8, AgreedIs
  <2>4. ~CreatePanics
    <3>1. main.pc # "create"
      BY DEF ReaderInv, OpenInv
    <3>2. QED
      BY <3>1 DEF MainInv
  <2>5. to \in Seq(SinksOf(cfg)) /\ OnceEach(to) /\ \A n : n \in ToSet(to) <=> GoesTo(cfg, argv, n)
    <3> HIDE DEF argv
    <3>1. QED
      BY <1>2, <1>8, <2>3, <2>4, DestsAre DEF OnceEach
  <2> HIDE DEF to
  <2>6. PumpGood(pump[c])'
    BY <1>1, <1>2, <1>8, <2>2, <2>5 DEF PumpGood
  <2>7. ASSUME NEW n PROVE ToCome(pump[c], n)' = Routed(cfg, q, n)
    <3>1. ToCome(pump[c], n)' = (IF n \in ToSet(to) THEN << Head(q) >> ELSE <<>>) \o Routed(cfg, Tail(q), n)
      BY <1>1, <2>2 DEF ToCome
    <3>2. Routed(cfg, q, n) = (IF GoesTo(cfg, argv, n) THEN << Head(q) >> ELSE <<>>) \o Routed(cfg, Tail(q), n)
      BY <1>8, <2>3, RoutedFirst
    <3>3. QED
      BY <2>5, <3>1, <3>2
  <2>8. QED
    BY <1>6, <2>6, <2>7
<1>9. QED
  BY <1>1, <1>7, <1>8

(* Nothing is left to write of this entry. *)
LEMMA WrittenWork ==
  ASSUME ReaderInv, MainInv, WorkInv, NEW c \in Chans, PumpWritten(c) PROVE Paid(c)'
<1> DEFINE q == pump[c].outs
           r == Tail(q)
<1>1. /\ pump[c].pc = "write" /\ pump[c].dests = <<>> /\ UNCHANGED <<cfg, sent, chs, nodes, fw>>
      /\ pump' = [pump EXCEPT ![c].pc = "parse", ![c].outs = r]
  BY DEF PumpWritten, ReaderVars
<1>2. /\ DOMAIN pump = Chans /\ PumpRec(pump[c]) /\ Paid(c) /\ q # <<>>
      /\ q \in Seq(Agreed) /\ pump[c].dests \in Seq(SinksOf(cfg))
  BY <1>1 DEF ReaderInv, ChanInv, MainInv, WorkInv, Paid, PumpGood
<1>3. r \in Seq(Agreed) /\ r \in Seq(Entries)
  <2> HIDE DEF q
  <2>1. QED
    BY <1>2, AgreedIs
<1> HIDE DEF r
<1>4. pump'[c] = [pump[c] EXCEPT !.pc = "parse", !.outs = r]
  BY <1>1, <1>2
<1>5. pump'[c] = [pc |-> "parse", outs |-> r, dests |-> pump[c].dests]
  BY <1>2, <1>4, PumpRecIs
<1>6. PICK t \in Seq(Fine(cfg)) : sent[c] = t \o chs[c] /\ Owed(t, c)
  BY <1>2 DEF Paid
<1>7. \A n : Got(n, c)' = Got(n, c)
  BY <1>1 DEF Got
<1>8. PumpGood(pump[c])' /\ \A n : ToCome(pump[c], n)' = Routed(cfg, r, n)
  BY <1>1, <1>2, <1>3, <1>5 DEF PumpGood, ToCome
<1>9. ASSUME NEW n PROVE ToCome(pump[c], n) = Routed(cfg, r, n)
  <2> DEFINE a == Routed(cfg, r, n)
  <2>1. a \in Seq(Entries)
    BY <1>3, RoutedType
  <2>2. n \notin ToSet(pump[c].dests)
    BY <1>1 DEF ToSet
  <2>3. ToCome(pump[c], n) = <<>> \o a
    BY <1>1, <2>2 DEF ToCome, r
  <2> HIDE DEF a
  <2>4. <<>> \o a = a
    BY <2>1, ConcatEmptySeq
  <2>5. QED
    BY <2>3, <2>4 DEF a
<1>10. Owed(t, c)'
  BY <1>1, <1>6, <1>7, <1>8, <1>9 DEF Owed
<1>11. QED
  BY <1>1, <1>6, <1>8, <1>10 DEF Paid

LEMMA RestOnce ==
  ASSUME NEW S, NEW s \in Seq(S), s # <<>>, OnceEach(s)
  PROVE  /\ Head(s) \in S /\ Tail(s) \in Seq(S) /\ OnceEach(Tail(s)) /\ Head(s) \notin ToSet(Tail(s))
         /\ \A n : n \in ToSet(s) <=> n = Head(s) \/ n \in ToSet(Tail(s))
<1> DEFINE t == Tail(s)
           k == Len(s)
<1>1. k \in Nat /\ k >= 1 /\ DOMAIN s = 1..k /\ Head(s) = s[1] /\ s[1] \in S
  OBVIOUS
<1>2. t \in Seq(S) /\ DOMAIN t = 1..(k - 1) /\ \A i \in 1..(k - 1) : t[i] = s[i + 1]
  OBVIOUS
<1> HIDE DEF t, k
<1>3. \A i \in 1..k : i = 1 \/ (i - 1 \in 1..(k - 1) /\ (i - 1) + 1 = i)
  BY <1>1
<1>4. \A i \in 1..(k - 1) : i + 1 \in 1..k /\ i + 1 # 1
  BY <1>1
<1>5. OnceEach(t)
  <2>1. SUFFICES ASSUME NEW i \in 1..(k - 1), NEW j \in 1..(k - 1), t[i] = t[j] PROVE i = j
    BY <1>2 DEF OnceEach
  <2>2. i + 1 = j + 1
    BY <1>1, <1>2, <1>4, <2>1 DEF OnceEach
  <2>3. QED
    BY <1>1, <2>2
<1>6. s[1] \notin ToSet(t)
  <2>1. SUFFICES ASSUME NEW i \in 1..(k - 1), t[i] = s[1] PROVE FALSE
    BY <1>2 DEF ToSet
  <2>2. s[i + 1] = s[1] /\ i + 1 \in 1..k /\ 1 \in 1..k /\ i + 1 # 1
    BY <1>1, <1>2, <1>4, <2>1
  <2>3. QED
    BY <1>1, <2>2 DEF OnceEach
<1>7. ASSUME NEW n PROVE n \in ToSet(s) <=> n = s[1] \/ n \in ToSet(t)
  <2>1. ASSUME n \in ToSet(s) PROVE n = s[1] \/ n \in ToSet(t)
    <3>1. PICK i \in 1..k : n = s[i]
      BY <1>1, <2>1 DEF ToSet
    <3>2. CASE i = 1
      BY <3>1, <3>2
    <3>3. CASE i # 1
      <4>1. i - 1 \in 1..(k - 1) /\ t[i - 1] = n
        BY <1>2, <1>3, <3>1, <3>3
      <4>2. QED
        BY <1>2, <4>1 DEF ToSet
    <3>4. QED
      BY <3>2, <3>3
  <2>2. ASSUME NEW i \in 1..(k - 1), n = t[i] PROVE n \in ToSet(s)
    BY <1>1, <1>2, <1>4, <2>2 DEF ToSet
  <2>3. 1 \in DOMAIN s /\ s[1] \in ToSet(s)
    BY <1>1 DEF ToSet
  <2>4. QED
    BY <1>2, <2>1, <2>2, <2>3 DEF ToSet
<1>8. QED
  BY <1>1, <1>2, <1>5, <1>6, <1>7 DEF t

(* One writer is given the entry. *)
LEMMA WriteWork ==
  ASSUME ReaderInv, MainInv, WorkInv, NEW c \in Chans, PumpWrite(c)
  PROVE  SinkInv' /\ \A d \in Chans : Paid(d)'
<1> DEFINE q == pump[c].outs
           h == Head(q)
           ds == pump[c].dests
           m == Head(ds)
           x == Item(c, h)
<1>1. /\ pump[c].pc = "write" /\ ds # <<>> /\ UNCHANGED <<cfg, sent, chs>>
      /\ Give(m, x) /\ pump' = [pump EXCEPT ![c].dests = Tail(ds)]
  BY DEF PumpWrite, ReaderVars
<1>2. /\ DOMAIN pump = Chans /\ PumpRec(pump[c]) /\ Paid(c) /\ q # <<>> /\ OnceEach(ds) /\ cfg \in Configs
      /\ q \in Seq(Agreed) /\ ds \in Seq(SinksOf(cfg)) /\ SinkInv /\ c \in Nat
  <2>1. DOMAIN pump = Chans /\ PumpRec(pump[c]) /\ Paid(c) /\ cfg \in Configs /\ SinkInv /\ c \in Nat
    BY DEF ReaderInv, ChanInv, OpenInv, MainInv, WorkInv
  <2>2. pump[c].pc = "write" /\ PumpGood(pump[c])
    BY <1>1, <2>1 DEF Paid
  <2>3. QED
    BY <2>1, <2>2 DEF PumpGood
<1>3. /\ m \in SinksOf(cfg) /\ Tail(ds) \in Seq(SinksOf(cfg)) /\ OnceEach(Tail(ds)) /\ m \notin ToSet(Tail(ds))
      /\ \A n : n \in ToSet(ds) <=> n = m \/ n \in ToSet(Tail(ds))
  <2> HIDE DEF ds
  <2>1. QED
    BY <1>1, <1>2, RestOnce
<1>4. h \in Entries /\ Tail(q) \in Seq(Entries)
  <2> HIDE DEF q
  <2>1. QED
    BY <1>2, AgreedIs
<1>5. x \in Items /\ x.from = c /\ x.e = h
  <2> HIDE DEF h
  <2>1. h \in Writes
    BY <1>4 DEF Writes
  <2>2. QED
    BY <1>2, <2>1 DEF Item, Items
<1> HIDE DEF x, m
<1>6. SinkInv' /\ \A n, d : Got(n, d)' = Got(n, d) \o More(n, d, m, x)
  BY <1>1, <1>2, <1>3, <1>5, Gives
<1>7. ASSUME NEW d, NEW n, More(n, d, m, x) = <<>> PROVE Got(n, d)' = Got(n, d)
  <2> DEFINE g == Got(n, d)
  <2>1. g \in Seq(Writes)
    BY <1>2, GotType
  <2> HIDE DEF g
  <2>2. g \o <<>> = g
    BY <2>1, ConcatEmptySeq
  <2>3. QED
    BY <1>6, <1>7, <2>2 DEF g
<1>8. ASSUME NEW d \in Chans, d # c PROVE Paid(d)'
  <2>1. \A n : Got(n, d)' = Got(n, d)
    BY <1>5, <1>7, <1>8 DEF More
  <2>2. pump'[d] = pump[d] /\ chs'[d] = chs[d] /\ sent'[d] = sent[d] /\ Paid(d)
    BY <1>1, <1>2, <1>8 DEF WorkInv
  <2>3. QED
    BY <1>1, <2>1, <2>2, PaidSame
<1>9. Paid(c)'
  <2> DEFINE rest == Tail(ds)
  <2> HIDE DEF rest
  <2>1. pump'[c] = [pump[c] EXCEPT !.dests = rest]
    BY <1>1, <1>2 DEF rest
  <2>2. pump'[c] = [pc |-> "write", outs |-> q, dests |-> rest]
    <3>1. PumpRec(pump[c]) /\ pump[c].pc = "write"
      BY <1>1, <1>2
    <3>2. QED
      BY <2>1, <3>1, PumpRecIs
  <2> HIDE DEF q, ds
  <2>3. PumpGood(pump[c])'
    BY <1>1, <1>2, <1>3, <2>2 DEF PumpGood, rest
  <2>4. PICK t \in Seq(Fine(cfg)) : sent[c] = t \o chs[c] /\ Owed(t, c)
    BY <1>2 DEF Paid
  <2>5. ASSUME NEW n \in AllSinks PROVE Got(n, c) \o ToCome(pump[c], n) = Got(n, c)' \o ToCome(pump[c], n)'
    <3> DEFINE r == Routed(cfg, Tail(q), n)
               g == Got(n, c)
               one == <<h>>
               none == <<>>
    <3>1. r \in Seq(Entries) /\ g \in Seq(Writes)
      BY <1>2, <1>4, RoutedType, GotType
    <3>2. r \in Seq(Writes) /\ one \in Seq(Writes) /\ none \in Seq(Writes)
      <4>1. Entries \subseteq Writes
        BY DEF Writes
      <4>2. h \in Writes
        BY <1>4, <4>1
      <4> HIDE DEF r, h
      <4>3. r \in Seq(Writes)
        BY <3>1, <4>1
      <4>4. QED
        BY <4>2, <4>3
    <3>3. /\ ToCome(pump[c], n) = (IF n \in ToSet(ds) THEN one ELSE none) \o r
          /\ ToCome(pump[c], n)' = (IF n \in ToSet(rest) THEN one ELSE none) \o r
      <4>1. pump[c].pc = "write" /\ cfg' = cfg
        BY <1>1
      <4>2. pump'[c].pc = "write" /\ pump'[c].outs = q /\ pump'[c].dests = rest
        BY <2>2
      <4>3. ToCome(pump[c], n) = (IF n \in ToSet(ds) THEN one ELSE none) \o r
        BY <4>1 DEF ToCome, q, ds
      <4>4. ToCome(pump[c], n)' = (IF n \in ToSet(rest) THEN one ELSE none) \o r
        BY <4>1, <4>2 DEF ToCome
      <4>5. QED
        BY <4>3, <4>4
    <3>4. CASE n = m
      <4>1. n \in ToSet(ds) /\ n \notin ToSet(rest)
        BY <1>3, <3>4 DEF rest
      <4>2. ToCome(pump[c], n) = one \o r /\ ToCome(pump[c], n)' = none \o r
        BY <3>3, <4>1
      <4>3. Got(n, c)' = g \o one
        BY <1>5, <1>6, <3>4 DEF More
      <4> HIDE DEF one, none, r, g
      <4>4. g \o (one \o r) = (g \o one) \o r
        BY <3>1, <3>2, ConcatAssociative
      <4>5. none \o r = r
        BY <3>2, ConcatEmptySeq DEF none
      <4>6. QED
        BY <4>2, <4>3, <4>4, <4>5 DEF g
    <3>5. CASE n # m
      <4>1. n \in ToSet(ds) <=> n \in ToSet(rest)
        BY <1>3, <3>5 DEF rest
      <4>2. More(n, c, m, x) = <<>>
        BY <3>5 DEF More
      <4>3. Got(n, c)' = Got(n, c)
        BY <1>7, <4>2
      <4>4. QED
        BY <3>3, <4>1, <4>3
    <3>6. QED
      BY <3>4, <3>5
  <2>6. Owed(t, c)'
    BY <1>1, <2>4, <2>5 DEF Owed
  <2>7. QED
    BY <1>1, <2>3, <2>4, <2>6 DEF Paid
<1>10. QED
  BY <1>6, <1>8, <1>9

LEMMA WorkInit == Init => WorkInv
<1>1. SUFFICES ASSUME Init PROVE WorkInv
  OBVIOUS
<1>2. Chans = {} /\ nodes = [n \in Addrs |-> <<>>]
  BY <1>1 DEF Init, Chans, Addrs
<1> DEFINE none == <<>>
<1>3. none \in Seq(Items) /\ none \o none = none
  OBVIOUS
<1>4. fw = [pc |-> "run", buf |-> none, file |-> none, count |-> 0, closed |-> FALSE, wait |-> 1]
  BY <1>1 DEF Init, IdleFile
<1> HIDE DEF none
<1>5. fw \in FileType /\ Taken(fw) = none
  BY <1>3, <1>4 DEF FileType, Taken
<1>6. nodes \in [Addrs -> Seq(Items)]
  BY <1>2
<1>7. QED
  BY <1>2, <1>5, <1>6 DEF WorkInv, SinkInv, none

(* Nothing is owed of what has not been sent. *)
LEMMA CreateWork ==
  ASSUME ReaderInv, WorkInv, Create, proc # "panic", proc' # "panic" PROVE WorkInv'
<1> DEFINE addrs == IF Clustered THEN Addresses(cfg.source, cfg.preferReplica) ELSE <<"file">>
           x == FromMain(<<"FLUSHALL">>)
<1>1. /\ chs' = [c \in DOMAIN addrs |-> <<>>] /\ sent' = [c \in DOMAIN addrs |-> <<>>]
      /\ pump' = [c \in DOMAIN addrs |-> IdlePump]
      /\ nodes' = (IF ToCluster /\ cfg.emptyDb
                   THEN [n \in DOMAIN nodes |-> IF n \in ToSet(Writers) THEN <<x>> ELSE <<>>]
                   ELSE nodes)
      /\ main' = [main EXCEPT !.pc = "loop", !.left = Len(addrs)]
      /\ main.pc = "create" /\ UNCHANGED <<cfg, fw>>
  BY Zenon DEF Create, Panic
<1>2. /\ Addrs' = Addrs /\ Taken(fw) = <<>> /\ Taken(fw)' = <<>> /\ nodes = [n \in Addrs |-> <<>>] /\ fw' \in FileType
      /\ main \in [pc : {"create", "loop", "close", "wait"}, left : Int, pings : Nat]
      /\ \E n \in Nat : Chans' = 1..n
  <2>1. ReaderInv'
    BY CreateKeeps
  <2>2. \E n \in Nat : Chans' = 1..n
    BY <2>1 DEF ReaderInv, ChanInv
  <2>3. Addrs' = Addrs /\ Taken(fw)' = Taken(fw)
    BY <1>1 DEF Addrs, Taken
  <2>4. QED
    BY <1>1, <2>2, <2>3 DEF WorkInv, SinkInv, ReaderInv, OpenInv
<1> HIDE DEF addrs
<1>3. x \in Items /\ x.from = 0
  BY MainItem
<1> HIDE DEF x
<1>4. ASSUME NEW c, c # 0 PROVE EntriesFrom(<<x>>, c) = <<>> /\ EntriesFrom(<<>>, c) = <<>>
  <2> DEFINE none == <<>>
  <2>1. none \in Seq(Items) /\ Append(none, x) = <<x>>
    BY <1>3
  <2> HIDE DEF none
  <2>2. EntriesFrom(Append(none, x), c) = EntriesFrom(none, c) \o (IF x.from = c THEN << x.e >> ELSE <<>>)
    BY <1>3, <2>1, FromMore
  <2>3. EntriesFrom(none, c) = <<>>
    BY FromEmpty DEF none
  <2>4. <<>> \o <<>> = <<>>
    OBVIOUS
  <2>5. QED
    BY <1>3, <1>4, <2>1, <2>2, <2>3, <2>4 DEF none
<1>5. nodes' \in [Addrs -> Seq(Items)] /\ \A n \in Addrs : nodes'[n] = <<>> \/ nodes'[n] = <<x>>
  BY <1>1, <1>2, <1>3
<1>6. ASSUME NEW c \in Chans', NEW n PROVE Got(n, c)' = <<>>
  <2>1. c # 0
    BY <1>2
  <2>2. EntriesFrom(<<x>>, c) = <<>> /\ EntriesFrom(<<>>, c) = <<>>
    BY <1>4, <2>1
  <2>3. DOMAIN nodes' = Addrs
    BY <1>5
  <2>4. QED
    BY <1>2, <1>5, <2>2, <2>3 DEF Got
<1>7. ASSUME NEW c \in Chans' PROVE Paid(c)'
  <2> DEFINE none == <<>>
  <2>1. sent'[c] = none /\ chs'[c] = none /\ pump'[c] = IdlePump /\ none \o none = none
    BY <1>1 DEF Chans
  <2>2. none \in Seq(Fine(cfg)) /\ none \in Seq(Agreed) /\ none \in Seq(SinksOf(cfg'))
    OBVIOUS
  <2>3. \A n : PromisedTo(cfg', none, n) = none
    BY PromisedEmpty
  <2>4. pump'[c].pc = "take" /\ pump'[c].outs = none /\ pump'[c].dests = none
    BY <2>1 DEF IdlePump
  <2>5. PumpGood(pump[c])' /\ \A n : ToCome(pump[c], n)' = none
    BY <2>2, <2>4 DEF PumpGood, ToCome
  <2>6. \A n : Got(n, c)' = none
    BY <1>6
  <2> HIDE DEF none
  <2>7. Owed(none, c)'
    BY <2>1, <2>3, <2>5, <2>6 DEF Owed, none
  <2>8. \E t \in Seq(Fine(cfg')) : sent'[c] = t \o chs'[c] /\ Owed(t, c)'
    BY <1>1, <2>1, <2>2, <2>7 DEF none
  <2>9. QED
    BY <2>5, <2>8 DEF Paid
<1>8. main'.pc = "loop"
  BY <1>1, <1>2
<1>9. QED
  BY <1>2, <1>5, <1>7, <1>8 DEF WorkInv, SinkInv

LEMMA WorkNext ==
  ReaderInv /\ MainInv /\ KeysAsInRedis /\ (proc # "panic" => WorkInv) /\ [Next]_vars => (proc # "panic" => WorkInv)'
<1> SUFFICES ASSUME ReaderInv, MainInv, KeysAsInRedis, proc # "panic" => WorkInv, [Next]_vars, proc' # "panic"
             PROVE  WorkInv'
  OBVIOUS
<1>0. /\ main \in [pc : {"create", "loop", "close", "wait"}, left : Int, pings : Nat] /\ DOMAIN pump = Chans
      /\ chs \in [Chans -> Seq(Kept)] /\ (main.pc = "create" => Chans = {})
  BY DEF ReaderInv, OpenInv, ChanInv
<1>1. CASE proc = "run" /\ ReaderStep
  BY <1>1, ReaderWork
<1>2. CASE proc = "run" /\ PumpStep
  <2>0. WorkInv
    BY <1>2
  <2>1. PICK c \in Chans : PumpTake(c) \/ PumpParse(c) \/ PumpWrite(c) \/ PumpWritten(c) \/ PumpEnd(c)
    BY <1>0, <1>2 DEF PumpStep
  <2>2. main.pc # "create" /\ main'.pc # "create" /\ Chans' = Chans /\ UNCHANGED <<cfg, sent>>
        /\ \A d \in Chans : d # c => pump'[d] = pump[d] /\ chs'[d] = chs[d]
    <3>1. CASE PumpTake(c) \/ PumpParse(c) \/ PumpWrite(c) \/ PumpWritten(c)
      <4>1. /\ main' = main /\ cfg' = cfg /\ \A d \in Chans : d # c => pump'[d] = pump[d] /\ chs'[d] = chs[d]
        BY <3>1, PumpMoves
      <4>2. sent' = sent /\ DOMAIN chs' = DOMAIN chs
        BY <3>1 DEF PumpTake, PumpParse, PumpWrite, PumpWritten, ReaderVars
      <4>3. QED
        BY <1>0, <4>1, <4>2 DEF Chans
    <3>2. CASE PumpEnd(c)
      <4>1. /\ main.pc = "loop" /\ main' = [main EXCEPT !.left = Left, !.pc = IF Left = 0 THEN "close" ELSE "loop"]
            /\ UNCHANGED <<chs, sent, cfg>> /\ pump' = [pump EXCEPT ![c].pc = "end"]
        BY <3>2 DEF PumpEnd, ReaderVars
      <4>2. QED
        BY <1>0, <4>1 DEF Chans
    <3>3. QED
      BY <2>1, <3>1, <3>2
  <2>3. CASE PumpWrite(c)
    BY <2>0, <2>2, <2>3, WriteWork DEF WorkInv
  <2>4. CASE PumpTake(c) \/ PumpParse(c) \/ PumpWritten(c) \/ PumpEnd(c)
    <3>1. UNCHANGED <<nodes, fw>>
      BY <2>4 DEF PumpTake, PumpParse, PumpWritten, PumpEnd
    <3>2. \A n, d : Got(n, d)' = Got(n, d)
      BY <3>1 DEF Got
    <3>3. ASSUME NEW d \in Chans, d # c PROVE Paid(d)'
      BY <2>0, <2>2, <3>2, <3>3, PaidSame DEF WorkInv
    <3>4. Paid(c)'
      <4>1. CASE PumpTake(c)
        BY <2>0, <4>1, TakeWork
      <4>2. CASE PumpParse(c)
        BY <2>0, <4>2, ParseWork
      <4>3. CASE PumpWritten(c)
        BY <2>0, <4>3, WrittenWork
      <4>4. CASE PumpEnd(c)
        <5>1. /\ pump[c].pc = "take" /\ PumpRec(pump[c]) /\ pump' = [pump EXCEPT ![c].pc = "end"]
              /\ UNCHANGED <<chs, sent, cfg>> /\ Paid(c)
          BY <2>0, <4>4 DEF PumpEnd, ReaderVars, MainInv, WorkInv
        <5>2. pump'[c] = [pc |-> "end", outs |-> pump[c].outs, dests |-> pump[c].dests]
          BY <1>0, <5>1, PumpRecIs
        <5>3. PumpGood(pump[c])' /\ \A n : ToCome(pump[c], n)' = <<>> /\ ToCome(pump[c], n) = <<>>
          BY <5>1, <5>2 DEF PumpGood, Paid, ToCome
        <5>4. PICK t \in Seq(Fine(cfg)) : sent[c] = t \o chs[c] /\ Owed(t, c)
          BY <5>1 DEF Paid
        <5>5. Owed(t, c)'
          BY <3>2, <5>1, <5>3, <5>4 DEF Owed
        <5>6. QED
          BY <5>1, <5>3, <5>4, <5>5 DEF Paid
      <4>5. QED
        BY <2>4, <4>1, <4>2, <4>3, <4>4
    <3>5. SinkInv'
      BY <2>0, <2>2, <3>1 DEF WorkInv, SinkInv, Addrs
    <3>6. QED
      BY <2>2, <3>3, <3>4, <3>5 DEF WorkInv
  <2>5. QED
    BY <2>1, <2>3, <2>4
<1>3. CASE proc = "run" /\ Create
  BY <1>3, CreateWork
<1>4. CASE proc = "run" /\ (StatusRun \/ MainPing \/ MainClose \/ MainExit \/ FileWriterStep \/ (\E int \in BOOLEAN : Signal(int)))
  <2>0. WorkInv
    BY <1>4
  <2>1. UNCHANGED <<ReaderVars, cfg, pump>> /\ Chans' = Chans /\ UNCHANGED <<chs, sent>>
    BY <1>4 DEF StatusRun, MainPing, MainClose, MainExit, FileWriterStep, Signal, pipeVars, ReaderVars, Chans
  <2>2. SinkInv' /\ \A n : \A c \in Chans : Got(n, c)' = Got(n, c)
    <3>1. CASE MainPing
      BY <2>0, <3>1, PingGives DEF WorkInv
    <3>2. CASE FileWriterStep \/ (MainClose /\ ~ToCluster)
      <4>1. (FileStep \/ FileClose) /\ UNCHANGED nodes
        BY <3>2 DEF FileWriterStep, MainClose, pipeVars
      <4>2. fw' \in FileType /\ Taken(fw)' = Taken(fw)
        BY <2>0, <4>1, FileSteps DEF WorkInv, SinkInv
      <4>3. QED
        BY <2>0, <2>1, <4>1, <4>2, SameGot DEF WorkInv, SinkInv, Addrs
    <3>3. CASE StatusRun \/ MainExit \/ (MainClose /\ ToCluster) \/ (\E int \in BOOLEAN : Signal(int))
      <4>1. UNCHANGED <<fw, nodes>>
        BY <3>3 DEF StatusRun, MainExit, MainClose, Signal
      <4>2. QED
        BY <2>0, <2>1, <4>1 DEF WorkInv, SinkInv, Addrs, Got
    <3>4. QED
      BY <1>4, <3>1, <3>2, <3>3
  <2>3. main'.pc = "create" => main.pc = "create" /\ Taken(fw)' = Taken(fw) /\ nodes' = nodes
    <3>1. CASE MainPing \/ MainClose
      BY <1>0, <3>1 DEF MainPing, MainClose
    <3>2. CASE FileWriterStep
      <4>1. Taken(fw)' = Taken(fw)
        BY <2>0, <3>2, FileSteps DEF WorkInv, SinkInv, FileWriterStep
      <4>2. QED
        BY <3>2, <4>1 DEF FileWriterStep, pipeVars
    <3>3. CASE StatusRun \/ MainExit \/ (\E int \in BOOLEAN : Signal(int))
      BY <3>3 DEF StatusRun, MainExit, Signal, Taken
    <3>4. QED
      BY <1>4, <3>1, <3>2, <3>3
  <2>4. ASSUME NEW c \in Chans PROVE Paid(c)'
    BY <2>0, <2>1, <2>2, PaidSame DEF WorkInv
  <2>5. QED
    BY <2>0, <2>1, <2>2, <2>3, <2>4 DEF WorkInv, Addrs
<1>5. CASE UNCHANGED vars
  <2>1. UNCHANGED <<chs, sent, cfg, main, pump, nodes, fw, proc>> /\ WorkInv
    BY <1>5 DEF vars, pipeVars
  <2>2. \A n, c : Got(n, c)' = Got(n, c)
    BY <2>1 DEF Got
  <2>3. ASSUME NEW c \in Chans PROVE Paid(c)'
    BY <2>1, <2>2, PaidSame DEF WorkInv
  <2>4. Chans' = Chans /\ Addrs' = Addrs /\ Taken(fw)' = Taken(fw)
    BY <2>1 DEF Chans, Addrs, Taken
  <2>5. QED
    BY <2>1, <2>3, <2>4 DEF WorkInv, SinkInv
<1>6. QED
  BY <1>1, <1>2, <1>3, <1>4, <1>5 DEF Next, MainStep, Ended

LEMMA WorkAlways == Spec /\ []KeysAsInRedis => [](proc # "panic" => WorkInv)
<1>1. Init => (proc # "panic" => WorkInv)
  BY WorkInit
<1>2. QED
  BY <1>1, ReaderAlways, MainAlways, WorkNext, PTL DEF Spec

(***************************************************************************)
(* main.go's "Wait for all writing operations to complete" for every       *)
(* configuration, every number of channels, nodes and entries, and however *)
(* signals fall: when main gets past Close, each reader has closed its     *)
(* channel, the channel is drained, and of all that was ever sent on it    *)
(* the writers were given, in order and once, what the documented filter,  *)
(* the function and the slots Redis computes call for - as long as the     *)
(* table of commands names the keys Redis names (KeysAsInRedis).           *)
(***************************************************************************)
THEOREM EverythingIsWritten == Spec /\ []KeysAsInRedis => []NothingIsLeftBehind
<1>1. ReaderInv /\ MainInv /\ (proc # "panic" => WorkInv) => NothingIsLeftBehind
  <2>1. SUFFICES ASSUME ReaderInv, MainInv, WorkInv, proc = "exit", NEW c \in DOMAIN chs
                 PROVE  /\ chs[c] = <<>> /\ ~open[c]
                        /\ \A n \in AllSinks :
                             IF n = "file" THEN EntriesFrom(fw.file \o fw.buf, c) = PromisedTo(cfg, sent[c], n)
                             ELSE Arrived[n][c] = PromisedTo(cfg, sent[c], n)
    BY DEF NothingIsLeftBehind
  <2>2. c \in Chans /\ main.pc = "wait" /\ Live = {}
    BY <2>1 DEF Chans, MainInv
  <2>3. pump[c].pc = "end"
    BY <2>2 DEF Live
  <2>4. chs[c] = <<>> /\ ~open[c] /\ Paid(c) /\ SinkInv
    BY <2>1, <2>2, <2>3 DEF MainInv, WorkInv
  <2>5. PICK t \in Seq(Fine(cfg)) : sent[c] = t \o chs[c] /\ Owed(t, c)
    BY <2>4 DEF Paid
  <2>6. sent[c] = t
    <3>1. t \o <<>> = t
      BY ConcatEmptySeq
    <3>2. QED
      BY <2>4, <2>5, <3>1
  <2>7. ASSUME NEW n \in AllSinks PROVE PromisedTo(cfg, sent[c], n) = Got(n, c)
    <3> DEFINE g == Got(n, c)
    <3>1. g \in Seq(Writes)
      BY <2>4, GotType
    <3>2. ToCome(pump[c], n) = <<>>
      BY <2>3 DEF ToCome
    <3>3. PromisedTo(cfg, t, n) = g \o <<>>
      BY <2>5, <3>2 DEF Owed
    <3> HIDE DEF g
    <3>4. g \o <<>> = g
      BY <3>1, ConcatEmptySeq
    <3>5. QED
      BY <2>6, <3>3, <3>4 DEF g
  <2>8. ASSUME NEW n \in AllSinks
        PROVE  IF n = "file" THEN EntriesFrom(fw.file \o fw.buf, c) = PromisedTo(cfg, sent[c], n)
               ELSE Arrived[n][c] = PromisedTo(cfg, sent[c], n)
    <3>1. CASE n = "file"
      BY <2>7, <3>1 DEF Got, Taken
    <3>2. CASE n # "file"
      <4>1. Arrived[n][c] = IF n \in DOMAIN nodes THEN EntriesFrom(nodes[n], c) ELSE <<>>
        BY <2>1, <3>2 DEF Arrived
      <4>2. QED
        BY <2>7, <3>2, <4>1 DEF Got
    <3>3. QED
      BY <3>1, <3>2
  <2>9. QED
    BY <2>4, <2>8
<1>2. QED
  BY <1>1, ReaderAlways, MainAlways, WorkAlways, PTL

-----------------------------------------------------------------------------
(* The process implements Delivery. *)

LEMMA DeliveryInit == Init => D!Init
<1>1. SUFFICES ASSUME Init PROVE D!Init
  OBVIOUS
<1>2. sent = <<>> /\ chs = <<>>
  BY <1>1 DEF Init
<1>3. \A n \in AllSinks : Arrived[n] = <<>>
  BY <1>2 DEF Arrived
<1>4. Arrived = [n \in AllSinks |-> <<>>]
  BY <1>3 DEF Arrived
<1>5. QED
  BY <1>2, <1>4 DEF D!Init
LEMMA FromConcat ==
  ASSUME NEW s \in Seq(Items), NEW t \in Seq(Items), NEW c
  PROVE  EntriesFrom(s \o t, c) = EntriesFrom(s, c) \o EntriesFrom(t, c)
<1> DEFINE u == s \o t
           k == Len(s)
           m == Len(t)
           es == [i \in DOMAIN s |-> s[i].e]
           et == [i \in DOMAIN t |-> t[i].e]
           eu == [i \in DOMAIN u |-> u[i].e]
           I == {i \in DOMAIN s : s[i].from = c}
           K == {i \in DOMAIN t : t[i].from = c}
           J == {i \in DOMAIN u : u[i].from = c}
<1>1. /\ k \in Nat /\ DOMAIN s = 1..k /\ m \in Nat /\ DOMAIN t = 1..m
      /\ \A i \in 1..k : s[i] \in Items /\ s[i].e \in Writes
      /\ \A i \in 1..m : t[i] \in Items /\ t[i].e \in Writes
  BY ItemIs
<1>2. /\ DOMAIN u = 1..(k + m)
      /\ \A i \in 1..k : u[i] = s[i]
      /\ \A i \in 1..m : u[k + i] = t[i]
  BY <1>1
<1>3. es \in Seq(Writes) /\ Len(es) = k /\ \A i \in 1..k : es[i] = s[i].e
  <2>1. es = [i \in 1..k |-> s[i].e]
    BY <1>1
  <2>2. QED
    BY <1>1, <2>1, IsASeq
<1>4. et \in Seq(Writes) /\ Len(et) = m /\ \A i \in 1..m : et[i] = t[i].e
  <2>1. et = [i \in 1..m |-> t[i].e]
    BY <1>1
  <2>2. QED
    BY <1>1, <2>1, IsASeq
<1>5. \A i \in 1..(k + m) : i \in 1..k \/ \E j \in 1..m : i = k + j
  <2>1. ASSUME NEW i \in 1..(k + m), i \notin 1..k PROVE (i - k) \in 1..m /\ i = k + (i - k)
    BY <1>1, <2>1
  <2>2. QED
    BY <2>1
<1>6. eu \in Seq(Writes) /\ Len(eu) = k + m /\ (\A i \in 1..k : eu[i] = es[i]) /\ (\A i \in 1..m : eu[k + i] = et[i])
  <2>1. eu = [i \in 1..(k + m) |-> u[i].e]
    BY <1>2
  <2>2. \A i \in 1..(k + m) : u[i].e \in Writes
    BY <1>1, <1>2, <1>5
  <2>3. eu \in Seq(Writes) /\ Len(eu) = k + m
    BY <1>1, <2>1, <2>2, IsASeq
  <2>4. \A i \in 1..k : i \in 1..(k + m)
    BY <1>1
  <2>5. \A i \in 1..m : k + i \in 1..(k + m)
    BY <1>1
  <2>6. QED
    BY <1>2, <1>3, <1>4, <2>1, <2>3, <2>4, <2>5
<1>7. Same(I, J, k, 0)
  <2>1. ASSUME NEW i \in 1..k PROVE i \in I <=> 0 + i \in J
    <3>1. 0 + i = i /\ i \in 1..(k + m)
      BY <1>1
    <3>2. QED
      BY <1>1, <1>2, <3>1
  <2> HIDE DEF I, J, k
  <2>2. QED
    BY <2>1 DEF Same
<1>8. Same(K, J, m, k)
  <2>1. ASSUME NEW i \in 1..m PROVE i \in K <=> k + i \in J
    <3>1. k + i \in 1..(k + m)
      BY <1>1
    <3>2. QED
      BY <1>1, <1>2, <3>1
  <2> HIDE DEF K, J, k, m
  <2>2. QED
    BY <2>1 DEF Same
<1>9. EntriesFrom(u, c) = Chosen(eu, J) /\ EntriesFrom(s, c) = Chosen(es, I) /\ EntriesFrom(t, c) = Chosen(et, K)
  BY DEF EntriesFrom
<1> HIDE DEF eu, es, et, I, J, K, k, m
<1>10. eu = es \o et
  <2>0. es \in Seq(Writes) /\ et \in Seq(Writes) /\ Len(es) = k /\ Len(et) = m
    BY <1>3, <1>4
  <2>1. es \o et \in Seq(Writes) /\ Len(es \o et) = k + m
    BY <2>0, ConcatProperties
  <2>2. \A i \in 1..k : (es \o et)[i] = es[i]
    BY <1>3, <1>4
  <2>3. \A i \in 1..m : (es \o et)[k + i] = et[i]
    BY <1>1, <1>3, <1>4
  <2>4. \A i \in 1..Len(eu) : eu[i] = (es \o et)[i]
    <3>1. ASSUME NEW i \in 1..Len(eu) PROVE eu[i] = (es \o et)[i]
      <4>1. i \in 1..(k + m)
        BY <1>6
      <4>2. CASE i \in 1..k
        BY <1>6, <2>2, <4>2
      <4>3. CASE \E j \in 1..m : i = k + j
        <5>1. PICK j \in 1..m : i = k + j
          BY <4>3
        <5>2. eu[k + j] = et[j] /\ (es \o et)[k + j] = et[j]
          BY <1>6, <2>3
        <5>3. QED
          BY <5>1, <5>2
      <4>4. QED
        BY <1>5, <4>1, <4>2, <4>3
    <3>2. QED
      BY <3>1
  <2>5. QED
    BY <1>6, <2>1, <2>4, SeqEqual
<1>11. Chosen(es \o et, J) = Chosen(es, I) \o Chosen(et, K)
  <2>1. es \in Seq(Writes) /\ et \in Seq(Writes) /\ Same(I, J, Len(es), 0) /\ Same(K, J, Len(et), Len(es))
    BY <1>3, <1>4, <1>7, <1>8
  <2>2. QED
    BY <2>1, ChosenConcat
<1>12. EntriesFrom(u, c) = EntriesFrom(s, c) \o EntriesFrom(t, c)
  BY <1>9, <1>10, <1>11
<1>13. QED
  BY <1>12 DEF u

LEMMA BeginsMore ==
  ASSUME NEW S, NEW s \in Seq(S), NEW t \in Seq(S) PROVE D!Begins(s, s \o t)
<1>1. Len(s) <= Len(s \o t) /\ \A i \in 1..Len(s) : (s \o t)[i] = s[i]
  OBVIOUS
<1>2. QED
  BY <1>1 DEF D!Begins

LEMMA BeginsSelf == ASSUME NEW S, NEW s \in Seq(S) PROVE D!Begins(s, s)
BY DEF D!Begins

LEMMA BeginsOn ==
  ASSUME NEW S, NEW s \in Seq(S), NEW t \in Seq(S), NEW u \in Seq(S), D!Begins(s, t), D!Begins(t, u)
  PROVE  D!Begins(s, u)
BY DEF D!Begins

(* What has arrived of a channel begins what was promised of all that was sent on it. *)
KeptSoFar == \A n \in AllSinks : \A c \in Chans : D!Begins(Arrived[n][c], PromisedTo(cfg, sent[c], n))

LEMMA ArrivedIs ==
  ASSUME SinkInv, NEW n \in AllSinks, NEW c \in Chans
  PROVE  /\ Arrived[n][c] \in Seq(Writes)
         /\ \E r \in Seq(Writes) : Got(n, c) = Arrived[n][c] \o r
<1> DEFINE a == Arrived[n][c]
<1>1. a = IF n = "file" THEN EntriesFrom(fw.file, c) ELSE IF n \in DOMAIN nodes THEN EntriesFrom(nodes[n], c) ELSE <<>>
  BY DEF Arrived, Chans
<1>2. CASE n = "file"
  <2>1. fw.file \in Seq(Items) /\ fw.buf \in Seq(Items)
    BY TakenType DEF SinkInv
  <2>2. EntriesFrom(fw.file, c) \in Seq(Writes) /\ EntriesFrom(fw.buf, c) \in Seq(Writes)
    BY <2>1, FromType
  <2>3. EntriesFrom(fw.file \o fw.buf, c) = EntriesFrom(fw.file, c) \o EntriesFrom(fw.buf, c)
    BY <2>1, FromConcat
  <2>4. Got(n, c) = EntriesFrom(fw.file \o fw.buf, c)
    BY <1>2 DEF Got, Taken
  <2>5. a = EntriesFrom(fw.file, c)
    BY <1>1, <1>2
  <2> HIDE DEF a
  <2>6. QED
    BY <2>2, <2>3, <2>4, <2>5 DEF a
<1>3. CASE n # "file"
  <2>1. a = Got(n, c)
    BY <1>1, <1>3 DEF Got
  <2>2. a \in Seq(Writes)
    BY <2>1, GotType
  <2> HIDE DEF a
  <2>3. a = a \o <<>> /\ <<>> \in Seq(Writes)
    BY <2>2, ConcatEmptySeq
  <2>4. Got(n, c) = a \o <<>>
    BY <2>1, <2>3
  <2>5. QED
    BY <2>2, <2>3, <2>4 DEF a
<1>4. QED
  BY <1>2, <1>3

LEMMA KeptNow == ReaderInv /\ KeysAsInRedis /\ WorkInv => KeptSoFar
<1> SUFFICES ASSUME ReaderInv, KeysAsInRedis, WorkInv, NEW n \in AllSinks, NEW c \in Chans
             PROVE  D!Begins(Arrived[n][c], PromisedTo(cfg, sent[c], n))
  BY DEF KeptSoFar
<1> DEFINE a == Arrived[n][c]
           s == chs[c]
<1>1. SinkInv /\ Paid(c)
  BY DEF WorkInv
<1>2. PICK t \in Seq(Fine(cfg)) : sent[c] = t \o s /\ Owed(t, c)
  BY <1>1 DEF Paid
<1>3. s \in Seq(Fine(cfg))
  <2>1. sent[c] \in Seq(Fine(cfg)) /\ s \in Seq(Kept)
    BY SentFine
  <2>2. Fine(cfg) \subseteq Kept
    BY DEF Fine
  <2>3. t \in Seq(Kept)
    BY <2>2
  <2> HIDE DEF s
  <2>4. \A i \in 1..Len(s) : s[i] \in Fine(cfg)
    <3>1. ASSUME NEW i \in 1..Len(s) PROVE s[i] \in Fine(cfg)
      <4>1. s[i] = (t \o s)[Len(t) + i] /\ Len(t) + i \in 1..Len(t \o s)
        BY <2>1, <2>3
      <4>2. QED
        BY <1>2, <2>1, <4>1
    <3>2. QED
      BY <3>1
  <2>5. Len(s) \in Nat /\ s = [i \in 1..Len(s) |-> s[i]]
    BY <2>1
  <2>6. QED
    BY <2>4, <2>5, IsASeq
<1> HIDE DEF s
<1>4. PromisedTo(cfg, sent[c], n) = PromisedTo(cfg, t, n) \o PromisedTo(cfg, s, n)
  BY <1>2, <1>3, PromisedConcat
<1> DEFINE p == PromisedTo(cfg, s, n)
           q == ToCome(pump[c], n)
<1>5. p \in Seq(Writes) /\ q \in Seq(Writes)
  <2>1. p \in Seq(Entries)
    BY <1>3, PromisedType
  <2>2. q \in Seq(Entries)
    BY <1>1, ToComeType DEF Paid
  <2>3. Entries \subseteq Writes
    BY DEF Writes
  <2> HIDE DEF p, q
  <2>4. QED
    BY <2>1, <2>2, <2>3
<1>6. a \in Seq(Writes) /\ \E r \in Seq(Writes) : Got(n, c) = a \o r
  BY <1>1, ArrivedIs
<1>7. PICK r \in Seq(Writes) : Got(n, c) = a \o r
  BY <1>6
<1> DEFINE g == Got(n, c)
           gq == g \o q
<1>8. PromisedTo(cfg, sent[c], n) = gq \o p
  BY <1>2, <1>4 DEF Owed
<1>9. g \in Seq(Writes)
  BY <1>1, GotType
<1> HIDE DEF a, p, q, g
<1>10. gq \in Seq(Writes)
  BY <1>5, <1>9
<1>11. D!Begins(a, g)
  <2>1. a \in Seq(Writes)
    BY <1>6
  <2>2. D!Begins(a, a \o r)
    BY <2>1, BeginsMore
  <2>3. QED
    BY <1>7, <2>2 DEF g
<1>12. D!Begins(g, gq)
  BY <1>5, <1>9, BeginsMore
<1> HIDE DEF gq
<1>13. D!Begins(gq, gq \o p)
  BY <1>5, <1>10, BeginsMore
<1>14. a \in Seq(Writes) /\ gq \o p \in Seq(Writes)
  BY <1>5, <1>6, <1>10
<1> DEFINE all == gq \o p
<1> HIDE DEF all
<1>15. D!Begins(a, gq)
  BY <1>9, <1>10, <1>11, <1>12, <1>14, BeginsOn
<1>16. D!Begins(a, all)
  BY <1>10, <1>13, <1>14, <1>15, BeginsOn DEF all
<1>17. QED
  BY <1>8, <1>16 DEF a, all
LEMMA KeptAlways == Spec /\ []KeysAsInRedis => [](proc # "panic" => KeptSoFar)
<1>1. ReaderInv /\ KeysAsInRedis /\ (proc # "panic" => WorkInv) => (proc # "panic" => KeptSoFar)
  BY KeptNow
<1>2. QED
  BY <1>1, ReaderAlways, WorkAlways, PTL

(* The file is only ever added to, the buffer as a whole. *)
LEMMA FileGrows ==
  ASSUME fw \in FileType, (\E x : FileTake(x)) \/ FileStep \/ FileClose
  PROVE  fw'.file = fw.file \/ fw'.file = fw.file \o fw.buf
<1> DEFINE g == fw.file \o fw.buf
<1>0. g \in Seq(Items)
  BY DEF FileType
<1>1. ASSUME NEW x, FileTake(x) PROVE fw'.file = fw.file \/ fw'.file = g
  <2>1. fw' = [WriteEntry(fw, x) EXCEPT !.count = @ + 1]
    BY <1>1 DEF FileTake
  <2>2. WriteEntry(fw, x).file = fw.file \/ WriteEntry(fw, x).file = g
    <3>1. CASE Len(fw.buf) < BufCap
      BY <3>1 DEF WriteEntry, FileType
    <3>2. CASE ~(Len(fw.buf) < BufCap)
      <4>1. WriteEntry(fw, x) = [fw EXCEPT !.file = g, !.buf = <<x>>]
        BY <3>2 DEF WriteEntry
      <4> HIDE DEF g
      <4>2. QED
        BY <4>1 DEF FileType
    <3>3. QED
      BY <3>1, <3>2
  <2>3. fw'.file = WriteEntry(fw, x).file
    <3> DEFINE w == WriteEntry(fw, x)
               k == w.count + 1
    <3>1. fw' = [w EXCEPT !.count = k]
      BY <2>1
    <3> HIDE DEF w, k
    <3>2. fw'.file = w.file
      BY <3>1
    <3>3. QED
      BY <3>2 DEF w
  <2>4. QED
    BY <2>2, <2>3
<1>2. ASSUME NEW w, w = Flushed(fw) PROVE w \in FileType /\ w.file = g
  <2>1. w \in FileType
    BY <1>2, FlushedSame
  <2>2. w = [fw EXCEPT !.file = g, !.buf = <<>>]
    BY <1>2 DEF Flushed
  <2> HIDE DEF g
  <2>3. QED
    BY <2>1, <2>2 DEF FileType
<1>3. CASE FileTick
  BY <1>2, <1>3 DEF FileTick
<1>4. CASE FileDone \/ FileClose
  BY <1>4 DEF FileDone, FileClose, FileType
<1>5. CASE FileLastFlush
  <2> DEFINE w == Flushed(fw)
  <2>1. w \in FileType /\ w.file = g
    BY <1>2
  <2>2. fw' = [w EXCEPT !.pc = "end"]
    BY <1>5 DEF FileLastFlush
  <2> HIDE DEF w, g
  <2>3. QED
    BY <2>1, <2>2 DEF FileType, g
<1>6. QED
  BY <1>1, <1>3, <1>4, <1>5 DEF FileStep

Added(s, t) == t = s \/ \E x \in Items : t = Append(s, x)

LEMMA ArrivedGrows ==
  ASSUME SinkInv, Chans' = Chans, fw'.file = fw.file \/ fw'.file = fw.file \o fw.buf,
         DOMAIN nodes' = DOMAIN nodes, \A n \in DOMAIN nodes : Added(nodes[n], nodes'[n])
  PROVE  D!Grows(Arrived, Arrived')
<1>0. ASSUME NEW s \in Seq(Items), NEW t \in Seq(Items), NEW c
      PROVE  D!Begins(EntriesFrom(s, c), EntriesFrom(s \o t, c))
  <2> DEFINE a == EntriesFrom(s, c)
             b == EntriesFrom(t, c)
  <2>1. a \in Seq(Writes) /\ b \in Seq(Writes)
    BY FromType
  <2>2. EntriesFrom(s \o t, c) = a \o b
    BY FromConcat
  <2> HIDE DEF a, b
  <2>3. D!Begins(a, a \o b)
    BY <2>1, BeginsMore
  <2>4. QED
    BY <2>2, <2>3 DEF a
<1>1. ASSUME NEW s \in Seq(Items), NEW c PROVE D!Begins(EntriesFrom(s, c), EntriesFrom(s, c))
  BY FromType, BeginsSelf
<1>2. fw.file \in Seq(Items) /\ fw.buf \in Seq(Items) /\ \A n \in DOMAIN nodes : nodes[n] \in Seq(Items)
  BY TakenType DEF SinkInv
<1>3. ASSUME NEW n \in AllSinks, NEW c \in Chans PROVE D!Begins(Arrived[n][c], Arrived'[n][c])
  <2>1. /\ Arrived[n][c] = IF n = "file" THEN EntriesFrom(fw.file, c)
                           ELSE IF n \in DOMAIN nodes THEN EntriesFrom(nodes[n], c) ELSE <<>>
        /\ Arrived'[n][c] = IF n = "file" THEN EntriesFrom(fw'.file, c)
                            ELSE IF n \in DOMAIN nodes THEN EntriesFrom(nodes'[n], c) ELSE <<>>
    BY DEF Arrived, Chans
  <2>2. CASE n = "file"
    BY <1>0, <1>1, <1>2, <2>1, <2>2
  <2>3. CASE n # "file" /\ n \in DOMAIN nodes
    <3> DEFINE s == nodes[n]
    <3>1. s \in Seq(Items) /\ Added(s, nodes'[n])
      BY <1>2, <2>3
    <3>2. ASSUME NEW x \in Items, nodes'[n] = Append(s, x) PROVE \E t \in Seq(Items) : nodes'[n] = s \o t
      <4>1. <<x>> \in Seq(Items) /\ Append(s, x) = s \o <<x>>
        BY <3>1
      <4>2. QED
        BY <3>2, <4>1
    <3>3. Arrived[n][c] = EntriesFrom(s, c) /\ Arrived'[n][c] = EntriesFrom(nodes'[n], c)
      BY <2>1, <2>3
    <3> HIDE DEF s
    <3>4. D!Begins(EntriesFrom(s, c), EntriesFrom(nodes'[n], c))
      BY <1>0, <1>1, <3>1, <3>2 DEF Added
    <3>5. QED
      BY <3>3, <3>4
  <2>4. CASE n # "file" /\ n \notin DOMAIN nodes
    <3>1. Arrived[n][c] = <<>> /\ Arrived'[n][c] = <<>>
      BY <2>1, <2>4
    <3>2. D!Begins(<<>>, <<>>)
      BY DEF D!Begins
    <3>3. QED
      BY <3>1, <3>2
  <2>5. QED
    BY <2>2, <2>3, <2>4
<1>4. \A n \in AllSinks : DOMAIN Arrived[n] = Chans /\ DOMAIN Arrived'[n] = Chans
  BY DEF Arrived, Chans
<1>5. QED
  BY <1>3, <1>4 DEF D!Grows

LEMMA ArrivedSame == ASSUME UNCHANGED <<fw, nodes>>, Chans' = Chans PROVE Arrived' = Arrived
BY DEF Arrived, Chans
LEMMA Arriving ==
  ASSUME ReaderInv, SinkInv, KeptSoFar', UNCHANGED <<sent, cfg>>, Chans' = Chans,
         fw'.file = fw.file \/ fw'.file = fw.file \o fw.buf,
         DOMAIN nodes' = DOMAIN nodes, \A n \in DOMAIN nodes : Added(nodes[n], nodes'[n])
  PROVE  D!Next
<1>1. D!Grows(Arrived, Arrived')
  BY ArrivedGrows
<1>2. DOMAIN sent = Chans
  BY DEF ReaderInv, ChanInv
<1>3. \A n \in AllSinks : \A c \in Chans : D!Begins(Arrived'[n][c], PromisedTo(cfg, sent[c], n))
  BY DEF KeptSoFar
<1>4. D!Kept(Arrived', sent)
  BY <1>2, <1>3 DEF D!Kept
<1>5. QED
  BY <1>1, <1>4 DEF D!Next, D!Arrive

LEMMA Standing ==
  ASSUME UNCHANGED <<fw, nodes, sent, cfg>>, Chans' = Chans PROVE UNCHANGED D!vars
BY ArrivedSame DEF D!vars

LEMMA Sending ==
  ASSUME ReaderInv, ReaderStep PROVE D!Next
<1>1. Chans' = Chans /\ Sends /\ UNCHANGED <<cfg, nodes, fw>> /\ sent \in [Chans -> Seq(Kept)]
  BY ReaderStepKeeps DEF ReaderInv, ChanInv
<1>2. Arrived' = Arrived
  BY <1>1, ArrivedSame
<1>3. ASSUME NEW s \in Seq(Kept), NEW e \in Kept PROVE D!Begins(s, Append(s, e))
  <2>1. <<e>> \in Seq(Kept) /\ Append(s, e) = s \o <<e>>
    OBVIOUS
  <2>2. QED
    BY <2>1, BeginsMore
<1>4. DOMAIN sent' = DOMAIN sent /\ \A c \in DOMAIN sent : D!Begins(sent[c], sent'[c])
  <2>1. CASE sent' = sent
    BY <1>1, <2>1, BeginsSelf
  <2>2. ASSUME NEW c \in Chans, NEW e \in Kept, Pushed(c, e)
        PROVE  DOMAIN sent' = DOMAIN sent /\ \A d \in DOMAIN sent : D!Begins(sent[d], sent'[d])
    <3>1. DOMAIN sent' = DOMAIN sent /\ DOMAIN sent = Chans /\ sent'[c] = Append(sent[c], e) /\ \A d \in Chans : d # c => sent'[d] = sent[d]
      BY <1>1, <2>2 DEF Pushed
    <3>2. \A d \in Chans : sent[d] \in Seq(Kept)
      BY <1>1
    <3>3. D!Begins(sent[c], sent'[c])
      BY <1>3, <3>1, <3>2
    <3>4. \A d \in Chans : d # c => D!Begins(sent[d], sent'[d])
      BY <3>1, <3>2, BeginsSelf
    <3>5. QED
      BY <3>1, <3>3, <3>4
  <2>3. QED
    BY <1>1, <2>1, <2>2 DEF Sends
<1>5. QED
  BY <1>1, <1>2, <1>4 DEF D!Next, D!Send

LEMMA Starting ==
  ASSUME ReaderInv, WorkInv, Create, proc # "panic", ReaderInv', proc' # "panic" => WorkInv' /\ KeptSoFar'
  PROVE  [D!Next]_(D!vars)
<1>1. main.pc = "create" /\ UNCHANGED <<cfg, fw>>
  BY DEF Create
<1>2. Chans = {} /\ DOMAIN sent = Chans /\ sent \in [Chans -> Seq(Kept)]
  BY <1>1 DEF ReaderInv, OpenInv, ChanInv
<1>3. CASE UNCHANGED <<chs, sent, nodes>>
  BY <1>1, <1>3, Standing DEF Chans
<1> DEFINE addrs == IF Clustered THEN Addresses(cfg.source, cfg.preferReplica) ELSE <<"file">>
<1>4. CASE proc' # "panic" /\ chs' = [c \in DOMAIN addrs |-> <<>>] /\ sent' = [c \in DOMAIN addrs |-> <<>>]
  <2>1. WorkInv' /\ KeptSoFar' /\ SinkInv' /\ Chans' = DOMAIN addrs
    BY <1>4 DEF WorkInv, Chans
  <2> HIDE DEF addrs
  <2>2. ASSUME NEW n \in AllSinks, NEW c \in Chans' PROVE Arrived'[n][c] = <<>>
    <3>1. D!Begins(Arrived'[n][c], PromisedTo(cfg', sent'[c], n))
      BY <2>1 DEF KeptSoFar
    <3>2. sent'[c] = <<>>
      BY <1>4, <2>1
    <3>3. D!Begins(Arrived'[n][c], <<>>)
      BY <3>1, <3>2, PromisedEmpty
    <3>4. Arrived'[n][c] = IF n = "file" THEN EntriesFrom(fw'.file, c)
                           ELSE IF n \in DOMAIN nodes' THEN EntriesFrom(nodes'[n], c) ELSE <<>>
      BY DEF Arrived, Chans
    <3>5. fw'.file \in Seq(Items) /\ \A a \in DOMAIN nodes' : nodes'[a] \in Seq(Items)
      <4>1. fw' \in FileType /\ nodes' \in [Addrs' -> Seq(Items)]
        BY <2>1 DEF SinkInv
      <4>2. QED
        BY <4>1 DEF FileType
    <3> DEFINE a == Arrived'[n][c]
    <3>6. a \in Seq(Writes)
      BY <3>4, <3>5, FromType
    <3>7. Len(a) <= 0
      BY <3>3 DEF D!Begins
    <3> HIDE DEF a
    <3>8. a = <<>>
      BY <3>6, <3>7
    <3>9. QED
      BY <3>8 DEF a
  <2>3. \A n \in AllSinks : DOMAIN Arrived'[n] = Chans'
    BY DEF Arrived, Chans
  <2>4. D!Empty(Arrived', DOMAIN sent')
    BY <1>4, <2>1, <2>2, <2>3 DEF D!Empty
  <2>5. sent = <<>>
    BY <1>2
  <2>6. CASE sent' = <<>>
    <3>1. Chans' = {}
      BY <1>4, <2>1, <2>6
    <3>2. Arrived' = Arrived
      BY <1>2, <3>1 DEF Arrived, Chans
    <3>3. QED
      BY <1>1, <2>5, <2>6, <3>2 DEF D!vars
  <2>7. CASE sent' # <<>>
    <3>1. \A c \in DOMAIN sent' : sent'[c] = <<>>
      BY <1>4
    <3>2. D!Start
      BY <2>4, <2>5, <2>7, <3>1 DEF D!Start
    <3>3. QED
      BY <1>1, <3>2 DEF D!Next
  <2>8. QED
    BY <2>6, <2>7
<1>5. QED
  <2>1. \/ UNCHANGED <<chs, sent, nodes>>
        \/ chs' = [c \in DOMAIN addrs |-> <<>>] /\ sent' = [c \in DOMAIN addrs |-> <<>>] /\ proc' = proc
    BY Zenon DEF Create
  <2>2. QED
    BY <1>3, <1>4, <2>1
LEMMA DeliveryNext ==
  /\ ReaderInv /\ MainInv /\ KeysAsInRedis /\ (proc # "panic" => WorkInv) /\ [Next]_vars
  /\ (proc # "panic" => KeptSoFar)'
  => [D!Next]_(D!vars)
<1> SUFFICES ASSUME ReaderInv, MainInv, KeysAsInRedis, proc # "panic" => WorkInv, [Next]_vars,
                    (proc # "panic" => KeptSoFar)'
             PROVE  [D!Next]_(D!vars)
  OBVIOUS
<1>0. ReaderInv' /\ DOMAIN pump = Chans /\ (proc' # "panic" => WorkInv')
  BY ReaderNext, WorkNext DEF ReaderInv, ChanInv
<1>1. CASE proc = "run" /\ ReaderStep
  BY <1>1, Sending
<1>2. CASE proc = "run" /\ PumpStep
  <2>0. WorkInv /\ SinkInv /\ nodes \in [Addrs -> Seq(Items)]
    BY <1>2 DEF WorkInv, SinkInv
  <2>1. PICK c \in Chans : PumpTake(c) \/ PumpParse(c) \/ PumpWrite(c) \/ PumpWritten(c) \/ PumpEnd(c)
    BY <1>0, <1>2 DEF PumpStep
  <2>2. CASE PumpWrite(c)
    <3>1. /\ pump[c].pc = "write" /\ pump[c].dests # <<>> /\ UNCHANGED <<chs, sent, cfg, proc>>
          /\ Give(Head(pump[c].dests), Item(c, Head(pump[c].outs)))
      BY <2>2 DEF PumpWrite, ReaderVars
    <3>2. Item(c, Head(pump[c].outs)) \in Items
      <4>1. pump[c].outs \in Seq(Agreed) /\ pump[c].outs # <<>>
        BY <2>0, <3>1 DEF WorkInv, Paid, PumpGood
      <4>2. Head(pump[c].outs) \in Entries /\ c \in Nat
        BY <4>1, AgreedIs DEF ReaderInv, ChanInv
      <4> DEFINE y == Head(pump[c].outs)
      <4>3. y \in Writes
        BY <4>2 DEF Writes
      <4> HIDE DEF y
      <4>4. Item(c, y) \in Items
        BY <4>2, <4>3 DEF Item, Items
      <4>5. QED
        BY <4>4 DEF y
    <3> DEFINE x == Item(c, Head(pump[c].outs))
               m == Head(pump[c].dests)
    <3> HIDE DEF x, m
    <3>3. Give(m, x) /\ x \in Items
      BY <3>1, <3>2 DEF x, m
    <3>4. /\ fw'.file = fw.file \/ fw'.file = fw.file \o fw.buf
          /\ DOMAIN nodes' = DOMAIN nodes /\ \A n \in DOMAIN nodes : Added(nodes[n], nodes'[n])
      <4>1. CASE ToCluster
        <5>1. nodes' = [nodes EXCEPT ![m] = Append(@, x)] /\ fw' = fw
          BY <3>3, <4>1 DEF Give
        <5>2. DOMAIN nodes' = DOMAIN nodes /\ \A n \in DOMAIN nodes : nodes'[n] = nodes[n] \/ nodes'[n] = Append(nodes[n], x)
          BY <2>0, <5>1
        <5>3. QED
          BY <3>3, <5>1, <5>2 DEF Added
      <4>2. CASE ~ToCluster
        <5>1. FileTake(x) /\ nodes' = nodes
          BY <3>3, <4>2 DEF Give
        <5>2. QED
          BY <2>0, <5>1, FileGrows DEF Added, SinkInv
      <4>3. QED
        BY <4>1, <4>2
    <3>5. KeptSoFar' /\ Chans' = Chans
      BY <1>2, <3>1 DEF Chans
    <3>6. QED
      BY <2>0, <3>1, <3>4, <3>5, Arriving
  <2>3. CASE PumpTake(c) \/ PumpParse(c) \/ PumpWritten(c) \/ PumpEnd(c)
    <3>1. UNCHANGED <<nodes, fw, cfg, sent>> /\ DOMAIN chs' = DOMAIN chs
      BY <2>3 DEF PumpTake, PumpParse, PumpWritten, PumpEnd, ReaderVars
    <3>2. QED
      BY <3>1, Standing DEF Chans
  <2>4. QED
    BY <2>1, <2>2, <2>3
<1>3. CASE proc = "run" /\ Create
  BY <1>0, <1>3, Starting
<1>4. CASE proc = "run" /\ (MainPing \/ FileWriterStep \/ MainClose)
  <2>0. SinkInv /\ fw \in FileType /\ nodes \in [Addrs -> Seq(Items)]
    BY <1>4 DEF WorkInv, SinkInv
  <2>1. UNCHANGED <<chs, sent, cfg, proc>>
    BY <1>4 DEF MainPing, FileWriterStep, MainClose, ReaderVars, pipeVars
  <2>2. /\ fw'.file = fw.file \/ fw'.file = fw.file \o fw.buf
        /\ DOMAIN nodes' = DOMAIN nodes /\ \A n \in DOMAIN nodes : Added(nodes[n], nodes'[n])
    <3> DEFINE x == FromMain(<<"PING">>)
    <3>0. x \in Items
      BY MainItem
    <3>1. CASE FileWriterStep \/ MainClose \/ (MainPing /\ ~ToCluster)
      <4>1. nodes' = nodes /\ (fw' = fw \/ (\E y : FileTake(y)) \/ FileStep \/ FileClose)
        BY <3>1 DEF FileWriterStep, MainClose, MainPing, pipeVars
      <4>2. QED
        BY <2>0, <4>1, FileGrows DEF Added
    <3>2. CASE MainPing /\ ToCluster
      <4>1. fw' = fw /\ nodes' = [n \in DOMAIN nodes |-> IF n \in ToSet(Writers) THEN Append(nodes[n], x) ELSE nodes[n]]
        BY <3>2 DEF MainPing
      <4> HIDE DEF x
      <4>2. DOMAIN nodes' = DOMAIN nodes /\ \A n \in DOMAIN nodes : nodes'[n] = nodes[n] \/ nodes'[n] = Append(nodes[n], x)
        BY <4>1
      <4>3. QED
        BY <3>0, <4>1, <4>2 DEF Added
    <3>3. QED
      BY <1>4, <3>1, <3>2
  <2>3. KeptSoFar' /\ Chans' = Chans
    BY <1>4, <2>1 DEF Chans
  <2>4. QED
    BY <2>0, <2>1, <2>2, <2>3, Arriving
<1>5. CASE StatusRun \/ MainExit \/ (\E int \in BOOLEAN : Signal(int)) \/ UNCHANGED vars
  <2>1. UNCHANGED <<nodes, fw, cfg, sent, chs>>
    BY <1>5 DEF StatusRun, MainExit, Signal, vars, pipeVars, ReaderVars
  <2>2. QED
    BY <2>1, Standing DEF Chans
<1>6. QED
  BY <1>1, <1>2, <1>3, <1>4, <1>5 DEF Next, MainStep, Ended

(***************************************************************************)
(* The whole process implements Delivery, whatever the configuration, the  *)
(* number of channels, nodes and entries, the rules and the function, and  *)
(* however goroutines, flushes, pings and signals fall: what the file and  *)
(* every node have received of a channel is, at all times, a beginning of  *)
(* what the documented filter, the function and Redis's slots make of what *)
(* the reader sent on it, and is never taken back - as long as the table   *)
(* of commands names the keys Redis names (KeysAsInRedis).                 *)
(***************************************************************************)
THEOREM DeliveryIsKept == Spec /\ []KeysAsInRedis => DeliversAsPromised
<1>1. Spec /\ []KeysAsInRedis => D!Spec
  BY DeliveryInit, DeliveryNext, ReaderAlways, MainAlways, WorkAlways, KeptAlways, PTL DEF Spec, D!Spec
<1>2. QED
  BY <1>1 DEF DeliversAsPromised
-----------------------------------------------------------------------------
(* Every slot of the source has one reader. *)

(* What a concatenation holds, and what it means that it holds nothing twice. *)
LEMMA FlattenHolds ==
  ASSUME NEW S, NEW ss \in Seq(Seq(S))
  PROVE  /\ \A x : x \in ToSet(FlattenSeq(ss)) <=> \E i \in 1..Len(ss) : x \in ToSet(ss[i])
         /\ OnceEach(FlattenSeq(ss)) =>
              \A i, j \in 1..Len(ss) : \A x : x \in ToSet(ss[i]) /\ x \in ToSet(ss[j]) => i = j
<1>1. PICK F \in [0..Len(ss) -> Seq(S)] : Running(F, ss)
  BY RunningExists
<1>2. /\ Len(ss) \in Nat /\ F[0] = <<>>
      /\ \A i \in 1..Len(ss) : F[i] = F[i - 1] \o ss[i]
      /\ \A i \in 1..Len(ss) : ss[i] \in Seq(S)
      /\ FlattenSeq(ss) = F[Len(ss)]
  <2>1. FlattenSeq(ss) = F[Len(ss)]
    BY <1>1, FlattenRunning
  <2>2. F[0] = <<>> /\ \A i \in 1..Len(ss) : F[i] = F[i - 1] \o ss[i]
    BY <1>1 DEF Running
  <2>3. Len(ss) \in Nat /\ \A i \in 1..Len(ss) : ss[i] \in Seq(S)
    OBVIOUS
  <2>4. QED
    BY <2>1, <2>2, <2>3
<1> DEFINE Holds(n) == \A x : x \in ToSet(F[n]) <=> \E i \in 1..n : x \in ToSet(ss[i])
           Once(n) == OnceEach(F[n]) => \A i, j \in 1..n : \A x : x \in ToSet(ss[i]) /\ x \in ToSet(ss[j]) => i = j
           G == {n \in 0..Len(ss) : Holds(n) /\ Once(n)}
<1>3. 0 \in G
  <2>1. ToSet(F[0]) = {}
    BY <1>2 DEF ToSet
  <2>2. 0 \in 0..Len(ss) /\ 1..0 = {}
    BY <1>2
  <2>3. QED
    BY <2>1, <2>2
<1>4. ASSUME NEW k \in 0..(Len(ss) - 1), k \in G PROVE k + 1 \in G
  <2> DEFINE s == F[k]
             t == ss[k + 1]
             u == F[k + 1]
  <2>1. /\ k \in Nat /\ k + 1 \in 1..Len(ss) /\ k + 1 \in 0..Len(ss)
        /\ \A i \in 1..(k + 1) : i \in 1..k \/ i = k + 1
        /\ \A i \in 1..k : i \in 1..(k + 1) /\ i # k + 1
    BY <1>2
  <2>2. s \in Seq(S) /\ t \in Seq(S) /\ u = s \o t
    <3>0. k + 1 \in 1..Len(ss) /\ k \in 0..Len(ss) /\ (k + 1) - 1 = k
      BY <1>2, <2>1
    <3>1. s \in Seq(S)
      BY <3>0
    <3>2. t \in Seq(S)
      BY <1>2, <3>0
    <3>3. u = F[(k + 1) - 1] \o t
      BY <1>2, <3>0, Zenon
    <3>4. QED
      BY <3>0, <3>1, <3>2, <3>3
  <2>3. Holds(k) /\ Once(k)
    BY <1>4
  <2> HIDE DEF s, t, u
  <2>4. Len(s) \in Nat /\ Len(t) \in Nat /\ DOMAIN s = 1..Len(s) /\ DOMAIN t = 1..Len(t)
    BY <2>2
  <2>5. DOMAIN u = 1..(Len(s) + Len(t))
    BY <2>2
  <2>6. \A i \in 1..Len(s) : i \in DOMAIN u /\ u[i] = s[i]
    BY <2>2, <2>4, <2>5
  <2>7. \A i \in 1..Len(t) : Len(s) + i \in DOMAIN u /\ u[Len(s) + i] = t[i]
    BY <2>2, <2>4, <2>5
  <2>8. \A i \in DOMAIN u : i \in 1..Len(s) \/ \E j \in 1..Len(t) : i = Len(s) + j
    <3>1. ASSUME NEW i \in 1..(Len(s) + Len(t)), i \notin 1..Len(s)
          PROVE  (i - Len(s)) \in 1..Len(t) /\ i = Len(s) + (i - Len(s))
      BY <2>4, <3>1
    <3>2. QED
      BY <2>5, <3>1
  <2>9. \A x : x \in ToSet(u) <=> x \in ToSet(s) \/ x \in ToSet(t)
    <3>1. ASSUME NEW x \in ToSet(u) PROVE x \in ToSet(s) \/ x \in ToSet(t)
      <4>1. PICK i \in DOMAIN u : x = u[i]
        BY <3>1 DEF ToSet
      <4>2. QED
        BY <2>4, <2>6, <2>7, <2>8, <4>1 DEF ToSet
    <3>2. ASSUME NEW x, x \in ToSet(s) \/ x \in ToSet(t) PROVE x \in ToSet(u)
      <4>1. (\E i \in 1..Len(s) : x = s[i]) \/ (\E i \in 1..Len(t) : x = t[i])
        BY <2>4, <3>2 DEF ToSet
      <4>2. \E i \in DOMAIN u : x = u[i]
        BY <2>6, <2>7, <4>1
      <4>3. QED
        BY <4>2 DEF ToSet
    <3>3. QED
      BY <3>1, <3>2
  <2>10. Holds(k + 1)
    <3>1. \A x : x \in ToSet(s) <=> \E i \in 1..k : x \in ToSet(ss[i])
      BY <2>3 DEF s
    <3>2. ASSUME NEW x PROVE x \in ToSet(u) <=> \E i \in 1..(k + 1) : x \in ToSet(ss[i])
      BY <2>1, <2>9, <3>1 DEF t
    <3>3. QED
      BY <3>2 DEF u
  <2>11. ASSUME OnceEach(u), NEW i \in 1..(k + 1), NEW j \in 1..(k + 1), NEW x, x \in ToSet(ss[i]), x \in ToSet(ss[j])
         PROVE  i = j
    <3>1. OnceEach(s)
      BY <2>4, <2>6, <2>11 DEF OnceEach
    <3>2. ASSUME x \in ToSet(s), x \in ToSet(t) PROVE FALSE
      <4>1. PICK p \in 1..Len(s) : x = s[p]
        BY <2>4, <3>2 DEF ToSet
      <4>2. PICK q \in 1..Len(t) : x = t[q]
        BY <2>4, <3>2 DEF ToSet
      <4>3. p \in DOMAIN u /\ Len(s) + q \in DOMAIN u /\ u[p] = u[Len(s) + q]
        BY <2>6, <2>7, <4>1, <4>2
      <4>4. p = Len(s) + q
        BY <2>11, <4>3 DEF OnceEach
      <4>5. QED
        BY <2>4, <4>4
    <3>3. \A m \in 1..k : x \in ToSet(ss[m]) => x \in ToSet(s)
      BY <2>3 DEF s
    <3>4. CASE i \in 1..k /\ j \in 1..k
      BY <2>3, <2>11, <3>1, <3>4 DEF s
    <3>5. CASE i = k + 1 /\ j \in 1..k
      BY <2>11, <3>2, <3>3, <3>5 DEF t
    <3>6. CASE j = k + 1 /\ i \in 1..k
      BY <2>11, <3>2, <3>3, <3>6 DEF t
    <3>7. QED
      BY <2>1, <3>4, <3>5, <3>6
  <2>12. Once(k + 1)
    BY <2>11 DEF u
  <2> HIDE DEF Holds, Once
  <2>13. QED
    BY <2>1, <2>10, <2>12
<1> HIDE DEF G
<1>5. \A k \in 0..Len(ss) : k \in G
  BY <1>2, <1>3, <1>4, Upwards
<1>6. Len(ss) \in G
  BY <1>2, <1>5
<1>7. QED
  BY <1>2, <1>6 DEF G

(* As many different slots as there are: all of them. *)
LEMMA AllListed ==
  ASSUME NEW s \in Seq(AllSlots), OnceEach(s), Len(s) = SlotCount PROVE ToSet(s) = AllSlots
<1>1. SlotCount \in Nat \ {0} /\ DOMAIN s = 1..SlotCount
  BY CommandsAssumption
<1>2. s \in Injection(1..SlotCount, AllSlots)
  <2>1. s \in [1..SlotCount -> AllSlots] /\ \A i, j \in 1..SlotCount : s[i] = s[j] => i = j
    BY <1>1 DEF OnceEach
  <2>2. QED
    BY <2>1 DEF Injection, IsInjective
<1>3. /\ IsFiniteSet(AllSlots) /\ Cardinality(AllSlots) = SlotCount
      /\ IsFiniteSet(1..SlotCount) /\ Cardinality(1..SlotCount) = SlotCount
  BY <1>1, FS_Interval DEF AllSlots
<1>4. s \in Surjection(1..SlotCount, AllSlots)
  BY <1>2, <1>3, FS_Injection
<1>5. QED
  BY <1>1, <1>4 DEF Surjection, ToSet
LEMMA SlotListType == ASSUME NEW l \in NodeLines(Words) PROVE SlotList(l) \in Seq(Nat)
<1> DEFINE W == [from : Nat, to : Nat, mark : BOOLEAN]
           v == l.words
           ws == SlotWords(v)
           r == [i \in DOMAIN ws |-> [j \in 1..(ws[i].to - ws[i].from + 1) |-> ws[i].from + j - 1]]
<1>1. v \in Seq(W)
  BY DEF NodeLines
<1> HIDE DEF v
<1>2. ws \in Seq(W)
  <2> DEFINE marks == {i \in DOMAIN v : v[i].mark}
  <2>1. CASE marks = {}
    BY <1>1, <2>1 DEF SlotWords
  <2>2. CASE marks # {}
    <3>1. marks \in SUBSET Nat /\ marks \subseteq 1..Len(v) /\ Len(v) \in Nat
      BY <1>1
    <3>2. Min(marks) \in 1..Len(v)
      BY <2>2, <3>1, MinIs
    <3>3. ws = SubSeq(v, 1, Min(marks) - 1)
      BY <2>2 DEF SlotWords
    <3> DEFINE k == Min(marks) - 1
    <3>4. k \in 0..Len(v)
      BY <3>1, <3>2
    <3> HIDE DEF k, marks
    <3>5. SubSeq(v, 1, k) \in Seq(W)
      <4> HIDE DEF W
      <4>1. \A i \in 1..k : v[i] \in W
        BY <1>1, <3>1, <3>4
      <4>2. SubSeq(v, 1, k) = [i \in 1..k |-> v[i]]
        BY <1>1, <3>1, <3>4
      <4>3. k \in Nat
        BY <3>1, <3>4
      <4>4. QED
        BY <4>1, <4>2, <4>3, IsASeq
    <3>6. QED
      BY <3>3, <3>5 DEF k
  <2>3. QED
    BY <2>1, <2>2
<1> HIDE DEF ws
<1>3. DOMAIN ws = 1..Len(ws) /\ Len(ws) \in Nat /\ \A i \in 1..Len(ws) : ws[i].from \in Nat /\ ws[i].to \in Nat
  <2>1. \A w \in W : w.from \in Nat /\ w.to \in Nat
    OBVIOUS
  <2> HIDE DEF W
  <2>2. DOMAIN ws = 1..Len(ws) /\ Len(ws) \in Nat /\ \A i \in 1..Len(ws) : ws[i] \in W
    BY <1>2
  <2>3. QED
    BY <2>1, <2>2
<1>4. ASSUME NEW i \in 1..Len(ws) PROVE r[i] \in Seq(Nat)
  <2> DEFINE f == ws[i].from
             k == ws[i].to - ws[i].from + 1
             m == IF k < 0 THEN 0 ELSE k
  <2>1. f \in Nat /\ k \in Int
    BY <1>3
  <2>2. r[i] = [j \in 1..k |-> f + j - 1]
    BY <1>3
  <2> HIDE DEF f, k
  <2>3. m \in Nat /\ 1..k = 1..m
    BY <2>1
  <2> HIDE DEF m
  <2>4. \A j \in 1..m : f + j - 1 \in Nat
    BY <2>1, <2>3
  <2>5. r[i] = [j \in 1..m |-> f + j - 1]
    BY <2>2, <2>3
  <2>6. QED
    BY <2>3, <2>4, <2>5, IsASeq
<1>5. r \in Seq(Seq(Nat))
  <2> DEFINE g(i) == r[i]
  <2>1. r = [i \in 1..Len(ws) |-> g(i)]
    BY <1>3
  <2>2. \A i \in 1..Len(ws) : g(i) \in Seq(Nat)
    BY <1>4
  <2> HIDE DEF g, r
  <2>3. [i \in 1..Len(ws) |-> g(i)] \in Seq(Seq(Nat))
    BY <1>3, <2>2, IsASeq
  <2>4. QED
    BY <2>1, <2>3
<1>6. SlotList(l) = FlattenSeq(r)
  BY DEF SlotList, ws, v
<1> HIDE DEF r
<1>7. QED
  BY <1>5, <1>6, FlattenType

(* Every master's slots, in the order of the reply. *)
SlotLists(lines) == [i \in DOMAIN Masters(lines) |-> SlotList(Masters(lines)[i])]

LEMMA SlotListsType ==
  ASSUME NEW lines, LinesOK(lines)
  PROVE  /\ SlotLists(lines) \in Seq(Seq(Nat)) /\ DOMAIN Masters(lines) = 1..Len(SlotLists(lines))
         /\ SlotsListed(lines) = FlattenSeq(SlotLists(lines)) /\ SlotsListed(lines) \in Seq(Nat)
         /\ \A i \in DOMAIN Masters(lines) : SlotLists(lines)[i] = SlotList(Masters(lines)[i])
<1> DEFINE M == Masters(lines)
           L == SlotLists(lines)
<1>1. DOMAIN M = 1..Len(M) /\ Len(M) \in Nat /\ \A i \in 1..Len(M) : M[i] \in ToSet(lines)
  BY MastersAre
<1>2. \A l \in ToSet(lines) : l \in NodeLines(Words)
  BY DEF LinesOK, ToSet
<1>3. \A i \in 1..Len(M) : SlotList(M[i]) \in Seq(Nat)
  BY <1>1, <1>2, SlotListType
<1>4. L = [i \in 1..Len(M) |-> SlotList(M[i])]
  BY <1>1 DEF SlotLists
<1>5. SlotsListed(lines) = FlattenSeq(L)
  BY DEF SlotsListed, SlotLists
<1> HIDE DEF M
<1>6. L \in Seq(Seq(Nat)) /\ Len(L) = Len(M)
  BY <1>1, <1>3, <1>4, IsASeq
<1>7. \A i \in 1..Len(M) : L[i] = SlotList(M[i])
  BY <1>4
<1> HIDE DEF L
<1>8. FlattenSeq(L) \in Seq(Nat)
  BY <1>6, FlattenType
<1>9. QED
  BY <1>1, <1>5, <1>6, <1>7, <1>8 DEF L, M

(* Each slot is in the list of one master. *)
LEMMA OneMaster ==
  ASSUME NEW lines, LinesOK(lines), SourceOK(lines), SlotTotal(lines) = SlotCount, NEW s \in AllSlots
  PROVE  \E i \in DOMAIN Masters(lines) : \A j \in DOMAIN Masters(lines) : s \in NodeSlots(Masters(lines)[j]) <=> j = i
<1> DEFINE L == SlotLists(lines)
           a == SlotsListed(lines)
<1>1. /\ L \in Seq(Seq(Nat)) /\ DOMAIN Masters(lines) = 1..Len(L) /\ a = FlattenSeq(L) /\ a \in Seq(Nat)
      /\ \A i \in 1..Len(L) : ToSet(L[i]) = NodeSlots(Masters(lines)[i])
  BY SlotListsType DEF NodeSlots
<1>2. OnceEach(a) /\ ToSet(a) \subseteq AllSlots /\ Len(a) = SlotCount
  BY DEF SourceOK, IsInjective, OnceEach, SlotTotal
<1> HIDE DEF L, a
<1>3. a \in Seq(AllSlots)
  <2>1. Len(a) \in Nat /\ a = [i \in 1..Len(a) |-> a[i]] /\ \A i \in 1..Len(a) : a[i] \in ToSet(a)
    BY <1>1 DEF ToSet
  <2>2. QED
    BY <1>2, <2>1, IsASeq
<1>4. s \in ToSet(a)
  BY <1>2, <1>3, AllListed
<1>5. (\E i \in 1..Len(L) : s \in ToSet(L[i])) /\ \A i, j \in 1..Len(L) : s \in ToSet(L[i]) /\ s \in ToSet(L[j]) => i = j
  BY <1>1, <1>2, <1>4, FlattenHolds
<1>6. QED
  BY <1>1, <1>5
(* As in EverySlotIsRead. *)
Serves(lines, a, s) ==
  \E l \in ToSet(lines) : /\ l.addr = a /\ ~l.bad
                          /\ \E m \in ToSet(lines) : /\ m.master /\ s \in NodeSlots(m)
                                                     /\ l.id = m.id \/ (~l.master /\ l.of = m.id)

(* The line that stands for a master: its own, or that of a replica in order. *)
LEMMA ReadFrom ==
  ASSUME NEW lines, LinesOK(lines), SourceOK(lines), NEW prefer, NEW c \in DOMAIN Masters(lines)
  PROVE  \E l \in ToSet(lines) : /\ Addresses(lines, prefer)[c] = l.addr /\ ~l.bad
                                 /\ l = Masters(lines)[c] \/ (~l.master /\ l.of = Masters(lines)[c].id)
<1> DEFINE m == Masters(lines)[c]
           I == {i \in DOMAIN lines : ~lines[i].master /\ ~lines[i].bad /\ lines[i].of = m.id}
           r == Replicas(lines, m.id)
<1>1. m \in ToSet(lines) /\ m.master
  BY MastersAre
<1>2. r = Chosen(lines, I)
  BY DEF Replicas
<1>3. Addresses(lines, prefer)[c] = IF prefer /\ r # <<>> THEN r[1].addr ELSE m.addr
  BY DEF Addresses
<1>4. lines \in Seq(NodeLines(Words)) /\ DOMAIN lines = 1..Len(lines)
  BY DEF LinesOK
<1>5. CASE prefer /\ r # <<>>
  <2>1. r \in Seq(NodeLines(Words)) /\ \E f : Picks(f, r, lines, Len(lines), I)
    <3> HIDE DEF I, r
    <3>1. QED
      BY <1>2, <1>4, ChosenType, ChosenPicks
  <2>2. PICK f : Picks(f, r, lines, Len(lines), I)
    BY <2>1
  <2>3. 1 \in 1..Len(r)
    <3> HIDE DEF r
    <3>1. QED
      BY <1>5, <2>1
  <2>4. f[1] \in I /\ r[1] = lines[f[1]]
    <3> HIDE DEF r, I
    <3>1. QED
      BY <2>2, <2>3 DEF Picks
  <2> DEFINE l == r[1]
  <2>5. l \in ToSet(lines) /\ ~l.master /\ ~l.bad /\ l.of = m.id
    BY <2>4 DEF ToSet
  <2>6. Addresses(lines, prefer)[c] = l.addr
    BY <1>3, <1>5
  <2> HIDE DEF l
  <2>7. QED
    BY <2>5, <2>6
<1>6. CASE ~(prefer /\ r # <<>>)
  <2>1. ~m.bad
    BY <1>1 DEF SourceOK
  <2>2. QED
    BY <1>1, <1>3, <1>6, <2>1
<1>7. QED
  BY <1>5, <1>6

LEMMA ServesItsMaster ==
  ASSUME NEW lines, LinesOK(lines), SourceOK(lines), NEW prefer, NEW c \in DOMAIN Masters(lines), NEW s
  PROVE  Serves(lines, Addresses(lines, prefer)[c], s) <=> s \in NodeSlots(Masters(lines)[c])
<1> DEFINE M == Masters(lines)[c]
           a == Addresses(lines, prefer)[c]
<1>1. PICK l \in ToSet(lines) : a = l.addr /\ ~l.bad /\ (l = M \/ (~l.master /\ l.of = M.id))
  BY ReadFrom
<1>2. M \in ToSet(lines) /\ M.master
  BY MastersAre
<1>3. \A k, m \in ToSet(lines) : (k.addr = m.addr => k = m) /\ (k.id = m.id => k = m)
  BY DEF LinesOK, SourceOK, ToSet
<1> HIDE DEF M, a
<1>4. ASSUME s \in NodeSlots(M) PROVE Serves(lines, a, s)
  BY <1>1, <1>2, <1>4 DEF Serves
<1>5. ASSUME Serves(lines, a, s) PROVE s \in NodeSlots(M)
  <2>1. PICK k \in ToSet(lines), m \in ToSet(lines) :
          k.addr = a /\ m.master /\ s \in NodeSlots(m) /\ (k.id = m.id \/ (~k.master /\ k.of = m.id))
    BY <1>5 DEF Serves
  <2>2. k = l
    BY <1>1, <1>3, <2>1
  <2>3. m = M
    BY <1>1, <1>2, <1>3, <2>1, <2>2
  <2>4. QED
    BY <2>1, <2>3
<1>6. QED
  BY <1>4, <1>5 DEF M, a

LEMMA OneReader ==
  ASSUME NEW lines, LinesOK(lines), SourceOK(lines), SlotTotal(lines) = SlotCount, NEW prefer, NEW s \in AllSlots
  PROVE  Cardinality({c \in DOMAIN Addresses(lines, prefer) : Serves(lines, Addresses(lines, prefer)[c], s)}) = 1
<1> DEFINE D0 == DOMAIN Masters(lines)
           R == {c \in DOMAIN Addresses(lines, prefer) : Serves(lines, Addresses(lines, prefer)[c], s)}
<1>1. DOMAIN Addresses(lines, prefer) = D0
  BY DEF Addresses
<1>2. PICK i \in D0 : \A j \in D0 : s \in NodeSlots(Masters(lines)[j]) <=> j = i
  BY OneMaster
<1>3. \A j \in D0 : Serves(lines, Addresses(lines, prefer)[j], s) <=> j = i
  BY <1>2, ServesItsMaster
<1> HIDE DEF D0
<1>4. R = {i}
  BY <1>1, <1>3
<1> HIDE DEF R
<1>5. Cardinality(R) = 1
  BY <1>4, FS_Singleton
<1>6. QED
  BY <1>5 DEF R

(* A cluster reader with channels has counted the slots. *)
CountInv == cfg \in Configs /\ (Clustered /\ Chans # {} => SlotTotal(cfg.source) = SlotCount)

LEMMA CountNext == ReaderInv /\ CountInv /\ [Next]_vars => CountInv'
<1> SUFFICES ASSUME ReaderInv, CountInv, [Next]_vars PROVE CountInv'
  OBVIOUS
<1>0. DOMAIN pump = Chans
  BY DEF ReaderInv, ChanInv
<1>1. ASSUME Chans' = Chans, cfg' = cfg PROVE CountInv'
  BY <1>1 DEF CountInv, Clustered
<1>2. CASE ReaderStep
  BY <1>1, <1>2, ReaderStepKeeps
<1>3. CASE PumpStep
  <2>1. PICK c \in Chans : PumpTake(c) \/ PumpParse(c) \/ PumpWrite(c) \/ PumpWritten(c) \/ PumpEnd(c)
    BY <1>0, <1>3 DEF PumpStep
  <2>2. DOMAIN chs' = DOMAIN chs /\ cfg' = cfg
    BY <2>1 DEF PumpTake, PumpParse, PumpWrite, PumpWritten, PumpEnd, ReaderVars
  <2>3. QED
    BY <1>1, <2>2 DEF Chans
<1>4. CASE Create
  <2>1. cfg' = cfg /\ (chs' = chs \/ ~CreatePanics)
    BY <1>4 DEF Create
  <2>2. CASE chs' = chs
    BY <1>1, <2>1, <2>2 DEF Chans
  <2>3. CASE ~CreatePanics
    BY <2>1, <2>3 DEF CreatePanics, CountInv, Clustered
  <2>4. QED
    BY <2>1, <2>2, <2>3
<1>5. CASE StatusRun \/ MainPing \/ MainClose \/ MainExit \/ FileWriterStep \/ (\E int \in BOOLEAN : Signal(int)) \/ UNCHANGED vars
  <2>1. chs' = chs /\ cfg' = cfg
    BY <1>5 DEF StatusRun, MainPing, MainClose, MainExit, FileWriterStep, Signal, vars, pipeVars, ReaderVars
  <2>2. QED
    BY <1>1, <2>1 DEF Chans
<1>6. QED
  BY <1>2, <1>3, <1>4, <1>5 DEF Next, MainStep, Ended

(***************************************************************************)
(* GetRedisClusterNodes, which the cluster readers rest on, for every      *)
(* reply a cluster gives (SourceOK) and whether or not replicas are        *)
(* preferred: when the slots it has counted are as many as there are, each *)
(* slot is read from exactly one node, its master or a replica of that     *)
(* master that is not marked as failed.                                    *)
(***************************************************************************)
THEOREM SlotsAreRead == Spec => []EverySlotIsRead
<1>1. Init => CountInv
  BY DEF Init, CountInv, Chans
<1>2. ReaderInv /\ CountInv => EverySlotIsRead
  <2> SUFFICES ASSUME ReaderInv, CountInv, Clustered, chs # <<>> PROVE EverySlotIsRead
    BY DEF EverySlotIsRead
  <2>1. Chans # {}
    <3>1. chs \in [Chans -> Seq(Kept)]
      BY DEF ReaderInv, ChanInv
    <3>2. ASSUME NEW f \in [{} -> Seq(Kept)] PROVE f = <<>>
      OBVIOUS
    <3>3. QED
      BY <3>1, <3>2
  <2>2. LinesOK(cfg.source) /\ SourceOK(cfg.source) /\ SlotTotal(cfg.source) = SlotCount
    BY <2>1, ConfigAssumption DEF CountInv, ConfigOK, Clustered
  <2>3. \A s \in AllSlots :
          Cardinality({c \in DOMAIN Addresses(cfg.source, cfg.preferReplica) :
                         Serves(cfg.source, Addresses(cfg.source, cfg.preferReplica)[c], s)}) = 1
    BY <2>2, OneReader
  <2>4. QED
    BY <2>3 DEF EverySlotIsRead, Serves
<1>3. QED
  BY <1>1, <1>2, CountNext, ReaderAlways, PTL DEF Spec

=============================================================================
