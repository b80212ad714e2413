----------------------------- MODULE FeatureWord -----------------------------
(***************************************************************************)
(* The capability word of a board (src/src/capabilities.cpp): the text the *)
(* device publishes, the 64-bit word the client keeps, the text and the    *)
(* names the command line prints.                                          *)
(*                                                                         *)
(* A text is a sequence of ASCII codes.  A word is its hex digits, the     *)
(* most significant first; Nibbles is 16 in the code.                      *)
(***************************************************************************)
EXTENDS Integers, Sequences

CONSTANT Nibbles

ASSUME NibblesAssumption == Nibbles \in Nat /\ Nibbles >= 2

Digits == 0..15
Words  == [1..Nibbles -> Digits]
Texts  == Seq(0..127)

\* What parse_feature_flags() returns for a text it rejects.
nullopt == <<>>

is_ascii_space(c) == c = 32 \/ c \in 9..13

\* The value of a hex digit of either case, -1 for another character.
hex_digit(c) ==
  CASE c \in 48..57  -> c - 48
    [] c \in 97..102 -> c - 87
    [] c \in 65..70  -> c - 55
    [] OTHER         -> -1

IsHex(t) == \A i \in DOMAIN t : hex_digit(t[i]) # -1

\* t without the white space around it.
Trim(t) ==
  LET solid == {i \in DOMAIN t : ~is_ascii_space(t[i])}
      begin == CHOOSE i \in solid : \A j \in solid : i <= j
      end   == CHOOSE i \in solid : \A j \in solid : j <= i
  IN  IF solid = {} THEN <<>> ELSE SubSeq(t, begin, end)

\* t without a leading 0x or 0X.
Unprefix(t) ==
  IF Len(t) >= 2 /\ t[1] = 48 /\ t[2] \in {88, 120} THEN SubSeq(t, 3, Len(t)) ELSE t

\* Each digit shifts the word one nibble to the left and takes the place freed:
\* the last digit ends in the last nibble, and what leaves the word is lost.
Accumulate(t) ==
  [i \in 1..Nibbles |->
     LET k == Len(t) - Nibbles + i IN IF k >= 1 THEN hex_digit(t[k]) ELSE 0]

\* Mutant: a text of any length is accumulated.
parse_feature_flags_long(t) ==
  LET digits == Unprefix(Trim(t))
  IN  IF digits # <<>> /\ IsHex(digits) THEN Accumulate(digits) ELSE nullopt

\* At least one digit, no more than the word holds, and nothing else.
parse_feature_flags(t) ==
  LET digits == Unprefix(Trim(t))
  IN  IF Len(digits) \in 1..Nibbles /\ IsHex(digits) THEN Accumulate(digits) ELSE nullopt

\* All digits of the word, in upper case.
format_feature_flags(w) ==
  [i \in 1..Nibbles |-> IF w[i] < 10 THEN 48 + w[i] ELSE 55 + w[i]]

\* A reference for the reader: the digits of t stand from i to j, white space is
\* around them, and 0x or 0X may stand before them.
Blank(t, i, j) == \A k \in DOMAIN t : k < i \/ k > j => is_ascii_space(t[k])
Spelled(t, i, j) ==
  /\ i \in DOMAIN t /\ j \in DOMAIN t /\ i <= j /\ j - i < Nibbles
  /\ \A k \in i..j : hex_digit(t[k]) # -1
  /\ \/ Blank(t, i, j)
     \/ i > 2 /\ t[i - 2] = 48 /\ t[i - 1] \in {88, 120} /\ Blank(t, i - 2, j)

\* The word whose last digits they are.
WordAt(t, i, j) ==
  [n \in 1..Nibbles |-> LET k == j - Nibbles + n IN IF k >= i THEN hex_digit(t[k]) ELSE 0]

IsSpelling(t)  == \E i, j \in DOMAIN t : Spelled(t, i, j)
Spells(t, w)   == \E i, j \in DOMAIN t : Spelled(t, i, j) /\ w = WordAt(t, i, j)

\* The bit of each feature this build knows.
Bit == [magnetometer |-> 0, auto |-> 1, plan |-> 2, off |-> 3, echo |-> 4, led |-> 5]

Has(w, f) == (w[Nibbles - Bit[f] \div 4] \div 2^(Bit[f] % 4)) % 2 = 1

known_features == {"magnetometer", "auto", "plan", "off", "echo", "led"}

\* The known features in w; the reserved bits have no name.
decode_features(w) == {f \in known_features : Has(w, f)}

\* 0x17, the word of a board that never answered `id`.
legacy_features ==
  [i \in 1..Nibbles |-> IF i = Nibbles THEN 7 ELSE IF i = Nibbles - 1 THEN 1 ELSE 0]
=============================================================================
