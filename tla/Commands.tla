------------------------------ MODULE Commands ------------------------------
(***************************************************************************)
(* What main needs to know about an entry: its command, group, keys and    *)
(* slots (commands/keys.go, entry.Parse) and whether the filter lets it    *)
(* pass (filter.go).  Arguments are strings; how a key is spelled, which   *)
(* arguments are numbers and what upper case makes of a word are           *)
(* constants, and the checksum behind a slot is any function.              *)
(***************************************************************************)
EXTENDS CommandTable, FiniteSetsExt, SequencesExt

CONSTANTS
  Spelling,     \* the characters of a key
  Numeral,      \* the value of an argument that is a number
  UpperCase,    \* the words strings.ToUpper changes
  Crc16(_),     \* checksum of a sequence of characters
  SlotCount     \* 16384 in the code

ASSUME CommandsAssumption ==
  /\ SlotCount \in Nat \ {0}
  /\ \A key \in DOMAIN Spelling : LET s == Spelling[key] IN
       /\ s \in Seq(ToSet(s))
       /\ \A i \in 1..(Len(s) + 1), j \in 0..Len(s) : Crc16(SubSeq(s, i, j)) \in Nat

ToUpper(w) == IF w \in DOMAIN UpperCase THEN UpperCase[w] ELSE w

-----------------------------------------------------------------------------
(* CalcKeys. *)

(* The name in the table: a container is followed by its subcommand. *)
CmdName(argv) ==
  LET name == ToUpper(argv[1])
  IN  IF name \in containers /\ Len(argv) > 1 THEN name \o "-" \o ToUpper(argv[2]) ELSE name

Known(argv) == CmdName(argv) \in DOMAIN redisCommands

Group(argv) == IF Known(argv) THEN redisCommands[CmdName(argv)].group ELSE "unknown"

(* Where a key specification begins: nowhere when its keyword is not there.  Positions
   count from 0 as in the code, argv[i + 1] is the argument at position i. *)
Begins(spec, argv) ==
  LET b     == spec.begin
      hits  == {i \in 0..(Len(argv) - 1) : ToUpper(argv[i + 1]) = b.keyword}
      ahead == {i \in hits : i >= b.from}
      back  == {i \in hits : i <= -b.from /\ -b.from < Len(argv)}
  IN  IF b.search = "index" THEN {b.index}
      ELSE IF b.from > 0 THEN {i + 1 : i \in {j \in ahead : \A k \in ahead : j <= k}}
      ELSE {i + 1 : i \in {j \in back : \A k \in back : j >= k}}

(* The positions, counted from 1, of the keys of a "range". *)
RangeKeys(spec, argv, begin) ==
  LET last  == IF spec.last >= 0 THEN begin + spec.last ELSE Len(argv) + spec.last
      count == IF last < begin THEN 0 ELSE (last - begin) \div spec.step + 1
      limit == IF spec.limit <= -2 THEN Max({0, (Len(argv) - begin) \div (-spec.limit)}) ELSE count
  IN  {begin + (n - 1) * spec.step + 1 : n \in 1..Min({count, limit})}

(* The same of a "keynum", which says how many keys follow; 0 marks the panic over an
   argument that is missing or no number. *)
KeynumKeys(spec, argv, begin) ==
  IF begin + 1 <= Len(argv) /\ argv[begin + 1] \in DOMAIN Numeral
  THEN {begin + spec.first + (n - 1) * spec.step + 1 : n \in 1..Numeral[argv[begin + 1]]}
  ELSE {0}

(* The positions of all keys; in which order they are found matters to no caller. *)
KeyIndexes(argv) ==
  LET specs == IF Known(argv) THEN ToSet(redisCommands[CmdName(argv)].keySpec) ELSE {}
  IN  UNION {UNION {IF spec.find = "range" THEN RangeKeys(spec, argv, begin)
                                           ELSE KeynumKeys(spec, argv, begin)
                      : begin \in Begins(spec, argv)}
               : spec \in specs}

(* An index outside argv ends the process, like the panics of CalcKeys. *)
ParsePanics(argv) == ~(KeyIndexes(argv) \subseteq DOMAIN argv)

Keys(argv) == {argv[i] : i \in KeyIndexes(argv)}

-----------------------------------------------------------------------------
(* CalcSlots. *)

LeftBrace == "{"
RightBrace == "}"

(* Fault: the tag ends at the last brace. *)
HashTagLast(key) ==
  LET s      == Spelling[key]
      closes == {k \in DOMAIN s : s[k] = RightBrace}
      opens  == {i \in DOMAIN s : s[i] = LeftBrace /\ \E k \in closes : k >= i}
      tag    == IF opens = {} THEN <<>> ELSE SubSeq(s, Min(opens) + 1, Max(closes) - 1)
  IN  IF tag = <<>> THEN s ELSE tag

(* The part of a key that is hashed. *)
HashTag(key) ==
  LET s      == Spelling[key]
      closes == {k \in DOMAIN s : s[k] = RightBrace}
      opens  == {i \in DOMAIN s : s[i] = LeftBrace /\ \E k \in closes : k >= i}
      tag    == IF opens = {} THEN <<>>
                ELSE SubSeq(s, Min(opens) + 1, Min({k \in closes : k >= Min(opens)}) - 1)
  IN  IF tag = <<>> THEN s ELSE tag

KeyHash(key) == Crc16(HashTag(key)) % SlotCount

Slots(argv) == {KeyHash(key) : key \in Keys(argv)}

-----------------------------------------------------------------------------
(* The filter.  rules is the section [filter]: for keys, allow and block give names,
   prefixes, suffixes and, for the regular expressions, the set of keys they match;
   any is an allow_key_regex that is "*", ".*" or "^.*$". *)

StartsWith(key, p) == IsPrefix(p, Spelling[key])
EndsWith(key, p) == IsSuffix(p, Spelling[key])

Listed(list, key) ==
  \/ key \in list.keys
  \/ key \in list.regex
  \/ \E p \in list.prefix : StartsWith(key, p)
  \/ \E p \in list.suffix : EndsWith(key, p)

Unset(list) == list.keys = {} /\ list.regex = {} /\ list.prefix = {} /\ list.suffix = {} /\ ~list.any

BlockKeyFilter(rules, key) == ~Unset(rules.block) /\ Listed(rules.block, key)

AllowKeyFilter(rules, key) ==
  Unset(rules.allow) \/ Listed(rules.allow, key) \/ rules.allow.any

KeyPasses(rules, key) == ~BlockKeyFilter(rules, key) /\ AllowKeyFilter(rules, key)

(* An allow or block list of anything else; an empty allow list allows all. *)
Permitted(allow, block, x) == (allow = {} \/ x \in allow) /\ x \notin block

(* Filter: TRUE when the entry goes on to the target. *)
Filter(rules, e) ==
  /\ \A key \in Keys(e.argv) : KeyPasses(rules, key)
  /\ Permitted(rules.allowDb, rules.blockDb, e.db)
  /\ Permitted(rules.allowCmd, rules.blockCmd, CmdName(e.argv))
  /\ Permitted(rules.allowGroup, rules.blockGroup, Group(e.argv))

=============================================================================
