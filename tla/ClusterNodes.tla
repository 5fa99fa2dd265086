---------------------------- MODULE ClusterNodes ----------------------------
(***************************************************************************)
(* GetRedisClusterNodes: which addresses the reply to CLUSTER NODES makes  *)
(* a cluster reader or a cluster writer connect to, and which slots belong *)
(* to each.  A line of the reply is                                        *)
(*   [id, addr, master, bad, of, words]                                    *)
(* with bad for a replica that is marked fail or noaddr and words the      *)
(* slots: [from, to, mark], mark for a "[slot->-node]" of a migration.     *)
(***************************************************************************)
EXTENDS Integers, Sequences, FiniteSetsExt, SequencesExt

NodeLines(names) ==
  [id : names, addr : names, master : BOOLEAN, bad : BOOLEAN, of : names,
   words : Seq([from : Nat, to : Nat, mark : BOOLEAN])]

(* The elements of s at these positions, in their order. *)
Chosen(s, positions) ==
  FlattenSeq([i \in DOMAIN s |-> IF i \in positions THEN << s[i] >> ELSE <<>>])

(* The words that name slots: a migration ends the list. *)
SlotWords(words) ==
  LET marks == {i \in DOMAIN words : words[i].mark}
  IN  IF marks = {} THEN words ELSE SubSeq(words, 1, Min(marks) - 1)

(* The slots of a line, one after the other, as the loop appends them. *)
SlotList(l) ==
  LET ws == SlotWords(l.words)
  IN  FlattenSeq([i \in DOMAIN ws |-> [j \in 1..(ws[i].to - ws[i].from + 1) |-> ws[i].from + j - 1]])

NodeSlots(l) == ToSet(SlotList(l))

(* The masters, in the order of the reply; one without slots is left out. *)
Masters(lines) == Chosen(lines, {i \in DOMAIN lines : lines[i].master /\ lines[i].words # <<>>})

(* Fault: replicas that are marked fail or noaddr are kept. *)
ReplicasAny(lines, id) == Chosen(lines, {i \in DOMAIN lines : ~lines[i].master /\ lines[i].of = id})

Replicas(lines, id) ==
  Chosen(lines, {i \in DOMAIN lines : ~lines[i].master /\ ~lines[i].bad /\ lines[i].of = id})

(* All slots listed, and slotsCount, which must come out as the number of slots. *)
SlotsListed(lines) == FlattenSeq([i \in DOMAIN Masters(lines) |-> SlotList(Masters(lines)[i])])

SlotTotal(lines) == Len(SlotsListed(lines))

Addresses(lines, preferReplica) ==
  [i \in DOMAIN Masters(lines) |->
     LET l == Masters(lines)[i]
         r == Replicas(lines, l.id)
     IN  IF preferReplica /\ r # <<>> THEN r[1].addr ELSE l.addr]

(* loadClusterNodes of the writer: every slot is taken by exactly one node. *)
Occupied(lines, s) == {i \in DOMAIN Masters(lines) : s \in NodeSlots(Masters(lines)[i])}

Router(lines, slots) ==
  [s \in slots |-> Masters(lines)[CHOOSE i \in Occupied(lines, s) : TRUE].addr]

=============================================================================
