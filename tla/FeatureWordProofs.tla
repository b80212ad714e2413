-------------------------- MODULE FeatureWordProofs --------------------------
(* What the reader of feature words returns for every text and every width.     *)
EXTENDS FeatureWord, SequenceTheorems, WellFoundedInduction, NaturalsInduction, TLAPS

\* A digit is not white space, and the letter of the prefix is not a digit.
LEMMA DigitFacts ==
  ASSUME NEW c \in 0..127
  PROVE  /\ hex_digit(c) \in Digits \cup {-1}
         /\ hex_digit(c) # -1 => ~is_ascii_space(c) /\ c \notin {88, 120}
         /\ c = 48 => hex_digit(c) # -1
BY SMTT(30) DEF hex_digit, is_ascii_space, Digits

\* Trimming finds the first and the last character that is not white space.
LEMMA TrimIs ==
  ASSUME NEW t \in Texts, NEW b \in DOMAIN t, NEW e \in DOMAIN t, b <= e,
         ~is_ascii_space(t[b]), ~is_ascii_space(t[e]), Blank(t, b, e)
  PROVE  Trim(t) = SubSeq(t, b, e)
<1> DEFINE solid == {i \in DOMAIN t : ~is_ascii_space(t[i])}
           first == CHOOSE i \in solid : \A j \in solid : i <= j
           last  == CHOOSE i \in solid : \A j \in solid : j <= i
<1>1. DOMAIN t = 1..Len(t) /\ Len(t) \in Nat
  BY DEF Texts
<1>2. b \in solid /\ e \in solid /\ \A j \in solid : b <= j /\ j <= e
  BY <1>1 DEF Blank
<1>3. first \in solid /\ \A j \in solid : first <= j
  BY <1>2
<1>4. last \in solid /\ \A j \in solid : j <= last
  BY <1>2
<1>5. first = b /\ last = e
  <2> HIDE DEF first, last
  <2>1. first \in Int /\ last \in Int /\ b \in Int /\ e \in Int
    BY <1>1, <1>2, <1>3, <1>4
  <2> QED BY <1>2, <1>3, <1>4, <2>1
<1>6. solid # {}
  BY <1>2
<1>7. Trim(t) = SubSeq(t, first, last)
  BY <1>6 DEF Trim
<1> QED BY <1>5, <1>7

\* Digits alone, no more than a word holds, are read as the word they end.
LEMMA DigitsParse ==
  ASSUME NEW t \in Texts, NEW i \in DOMAIN t, NEW j \in DOMAIN t, i <= j, j - i < Nibbles,
         \A k \in i..j : hex_digit(t[k]) # -1,
         Unprefix(Trim(t)) = SubSeq(t, i, j)
  PROVE  parse_feature_flags(t) = WordAt(t, i, j)
<1> DEFINE d == SubSeq(t, i, j)
<1>1. DOMAIN t = 1..Len(t) /\ Len(t) \in Nat /\ Nibbles \in Nat /\ i \in Nat /\ j \in Nat /\ i >= 1
  BY NibblesAssumption DEF Texts
<1>2. d \in Seq(0..127) /\ Len(d) = j - i + 1 /\ \A k \in 1..j - i + 1 : d[k] = t[i + k - 1]
  <2>1. \A k \in i..j : t[k] \in 0..127
    <3>1. \A k \in 1..Len(t) : t[k] \in 0..127
      BY ElementOfSeq DEF Texts
    <3>2. i..j \subseteq 1..Len(t)
      BY <1>1
    <3> QED BY <3>1, <3>2
  <2> QED BY <1>1, <2>1, SubSeqProperties
<1> HIDE DEF d
<1>3. DOMAIN d = 1..j - i + 1
  BY <1>1, <1>2
<1>4. IsHex(d)
  <2> SUFFICES ASSUME NEW k \in 1..j - i + 1 PROVE hex_digit(d[k]) # -1
    BY <1>3 DEF IsHex
  <2>1. i + k - 1 \in i..j
    BY <1>1
  <2> QED BY <1>2, <2>1
<1>5. Len(d) \in 1..Nibbles
  BY <1>1, <1>2
<1>6. parse_feature_flags(t) = Accumulate(d)
  BY <1>4, <1>5 DEF parse_feature_flags, d
<1>7. ASSUME NEW n \in 1..Nibbles
      PROVE  (IF Len(d) - Nibbles + n >= 1 THEN hex_digit(d[Len(d) - Nibbles + n]) ELSE 0)
               = (IF j - Nibbles + n >= i THEN hex_digit(t[j - Nibbles + n]) ELSE 0)
  <2>1. CASE Len(d) - Nibbles + n >= 1
    <3>1. Len(d) - Nibbles + n \in 1..j - i + 1 /\ j - Nibbles + n >= i
      BY <1>1, <1>2, <2>1
    <3>2. d[Len(d) - Nibbles + n] = t[i + (Len(d) - Nibbles + n) - 1]
      BY <1>2, <3>1
    <3>3. i + (Len(d) - Nibbles + n) - 1 = j - Nibbles + n
      BY <1>1, <1>2, SMTT(30)
    <3> QED BY <2>1, <3>1, <3>2, <3>3
  <2>2. CASE ~(Len(d) - Nibbles + n >= 1)
    <3>1. ~(j - Nibbles + n >= i)
      BY <1>1, <1>2, <2>2
    <3> QED BY <2>2, <3>1
  <2> QED BY <2>1, <2>2
<1> QED BY <1>6, <1>7 DEF Accumulate, WordAt

\* Unprefix() of a stretch of t: the stretch without 0x or 0X at its start.
LEMMA UnprefixIs ==
  ASSUME NEW t \in Texts, NEW b \in DOMAIN t, NEW e \in DOMAIN t, b <= e
  PROVE  Unprefix(SubSeq(t, b, e)) =
           IF e >= b + 1 /\ t[b] = 48 /\ t[b + 1] \in {88, 120}
           THEN SubSeq(t, b + 2, e) ELSE SubSeq(t, b, e)
<1> DEFINE d == SubSeq(t, b, e)
<1>1. DOMAIN t = 1..Len(t) /\ Len(t) \in Nat /\ b \in Nat /\ e \in Nat /\ b >= 1
  BY DEF Texts
<1>2. \A k \in b..e : t[k] \in 0..127
  <2>1. \A k \in 1..Len(t) : t[k] \in 0..127
    BY ElementOfSeq DEF Texts
  <2> QED BY <1>1, <2>1
<1>3. d \in Seq(0..127) /\ Len(d) = e - b + 1 /\ \A k \in 1..e - b + 1 : d[k] = t[b + k - 1]
  BY <1>1, <1>2, SubSeqProperties
<1>4. d[1] = t[b] /\ (e >= b + 1 => d[2] = t[b + 1])
  <2>1. 1 \in 1..e - b + 1 /\ (e >= b + 1 => 2 \in 1..e - b + 1)
    BY <1>1
  <2>2. b + 1 - 1 = b /\ b + 2 - 1 = b + 1
    BY <1>1
  <2> HIDE DEF d
  <2> QED BY <1>3, <2>1, <2>2
<1>5. Len(d) >= 2 <=> e >= b + 1
  BY <1>1, <1>3
<1>6. e >= b + 1 => SubSeq(d, 3, Len(d)) = SubSeq(t, b + 2, e)
  <2>1. CASE e >= b + 2
    <3> DEFINE n == Len(d)
               l == SubSeq(d, 3, n)
               r == SubSeq(t, b + 2, e)
    <3>1. n \in Nat /\ n = e - b + 1 /\ n >= 3
      BY <1>1, <1>3, <2>1
    <3>2. \A k \in 1..n : d[k] \in 0..127 /\ d[k] = t[b + k - 1]
      BY <1>3, <3>1, ElementOfSeq
    <3> HIDE DEF n, d
    <3>3. \A k \in 3..n : d[k] \in 0..127
      BY <3>1, <3>2
    <3>4. l \in Seq(0..127) /\ Len(l) = n - 3 + 1 /\ \A k \in 1..n - 3 + 1 : l[k] = d[3 + k - 1]
      BY <3>1, <3>3, SubSeqProperties
    <3>5. \A k \in b + 2..e : t[k] \in 0..127
      BY <1>1, <1>2
    <3>6. /\ r \in Seq(0..127) /\ Len(r) = e - (b + 2) + 1
          /\ \A k \in 1..e - (b + 2) + 1 : r[k] = t[(b + 2) + k - 1]
      BY <1>1, <2>1, <3>5, SubSeqProperties
    <3>7. n - 3 + 1 = e - (b + 2) + 1
      BY <1>1, <3>1
    <3> HIDE DEF l, r
    <3>8. ASSUME NEW k \in 1..n - 3 + 1 PROVE l[k] = r[k]
      <4>1. 3 + k - 1 \in 1..n /\ b + (3 + k - 1) - 1 = (b + 2) + k - 1
        BY <1>1, <3>1
      <4>2. l[k] = d[3 + k - 1] /\ d[3 + k - 1] = t[b + (3 + k - 1) - 1]
        BY <3>2, <3>4, <4>1
      <4>3. r[k] = t[(b + 2) + k - 1]
        BY <3>6, <3>7
      <4> QED BY <4>1, <4>2, <4>3
    <3>9. l = r
      BY <3>4, <3>6, <3>7, <3>8, SeqEqual
    <3> QED BY <3>9 DEF l, r, n
  <2>2. CASE e = b + 1
    <3>1. Len(d) = 2 /\ e < b + 2
      BY <1>1, <1>3, <2>2
    <3>2. SubSeq(d, 3, Len(d)) = <<>> /\ SubSeq(t, b + 2, e) = <<>>
      BY <1>1, <3>1, SubSeqEmpty
    <3> QED BY <3>2
  <2>3. e >= b + 1 => e >= b + 2 \/ e = b + 1
    BY <1>1
  <2> HIDE DEF d
  <2> QED BY <2>1, <2>2, <2>3
<1> HIDE DEF d
<1>7. Unprefix(d) = IF Len(d) >= 2 /\ d[1] = 48 /\ d[2] \in {88, 120}
                    THEN SubSeq(d, 3, Len(d)) ELSE d
  BY DEF Unprefix
<1>8. CASE e >= b + 1
  BY <1>4, <1>5, <1>6, <1>7, <1>8 DEF d
<1>9. CASE ~(e >= b + 1)
  BY <1>5, <1>7, <1>9 DEF d
<1> QED BY <1>8, <1>9

\* A text that the manual calls a feature word, 0x or not, upper or lower case, with
\* white space around it, is read as the word it spells, reserved bits included.
THEOREM SpellingParses ==
  ASSUME NEW t \in Texts, NEW w, Spells(t, w)
  PROVE  parse_feature_flags(t) = w
<1>1. PICK i \in DOMAIN t, j \in DOMAIN t : Spelled(t, i, j) /\ w = WordAt(t, i, j)
  BY DEF Spells
<1>2. DOMAIN t = 1..Len(t) /\ Len(t) \in Nat /\ i \in Nat /\ j \in Nat /\ i >= 1
  BY DEF Texts
<1>3. /\ i <= j /\ j - i < Nibbles /\ \A k \in i..j : hex_digit(t[k]) # -1
      /\ \/ Blank(t, i, j)
         \/ i > 2 /\ t[i - 2] = 48 /\ t[i - 1] \in {88, 120} /\ Blank(t, i - 2, j)
  BY <1>1 DEF Spelled
<1>4. \A k \in 1..Len(t) : t[k] \in 0..127
  BY ElementOfSeq DEF Texts
<1>5. \A k \in i..j : k \in 1..Len(t) /\ ~is_ascii_space(t[k]) /\ t[k] \notin {88, 120}
  <2> SUFFICES ASSUME NEW k \in i..j
               PROVE  k \in 1..Len(t) /\ ~is_ascii_space(t[k]) /\ t[k] \notin {88, 120}
    OBVIOUS
  <2>1. k \in 1..Len(t)
    BY <1>2
  <2> QED BY <1>3, <1>4, <2>1, DigitFacts, ZenonT(30)
<1>6. Unprefix(Trim(t)) = SubSeq(t, i, j)
  <2>1. CASE Blank(t, i, j)
    <3>1. ~is_ascii_space(t[i]) /\ ~is_ascii_space(t[j])
      BY <1>2, <1>3, <1>5
    <3>2. Trim(t) = SubSeq(t, i, j)
      BY <1>3, <2>1, <3>1, TrimIs
    <3>3. ASSUME j >= i + 1 PROVE t[i + 1] \notin {88, 120}
      <4>1. i + 1 \in i..j
        BY <1>2, <3>3
      <4> QED BY <1>5, <4>1
    <3>4. Unprefix(SubSeq(t, i, j)) =
            IF j >= i + 1 /\ t[i] = 48 /\ t[i + 1] \in {88, 120}
            THEN SubSeq(t, i + 2, j) ELSE SubSeq(t, i, j)
      BY <1>3, UnprefixIs
    <3> QED BY <3>2, <3>3, <3>4
  <2>2. CASE i > 2 /\ t[i - 2] = 48 /\ t[i - 1] \in {88, 120} /\ Blank(t, i - 2, j)
    <3>1. i - 2 \in DOMAIN t /\ i - 2 <= j /\ j >= (i - 2) + 1
          /\ (i - 2) + 1 = i - 1 /\ (i - 2) + 2 = i
      BY <1>2, <1>3, <2>2
    <3>2. ~is_ascii_space(t[i - 2]) /\ ~is_ascii_space(t[j])
      <4>1. j \in i..j
        BY <1>2, <1>3
      <4> QED BY <1>5, <2>2, <4>1 DEF is_ascii_space
    <3>3. Trim(t) = SubSeq(t, i - 2, j)
      BY <2>2, <3>1, <3>2, TrimIs
    <3>4. Unprefix(SubSeq(t, i - 2, j)) =
            IF j >= (i - 2) + 1 /\ t[i - 2] = 48 /\ t[(i - 2) + 1] \in {88, 120}
            THEN SubSeq(t, (i - 2) + 2, j) ELSE SubSeq(t, i - 2, j)
      BY <3>1, UnprefixIs
    <3> QED BY <2>2, <3>1, <3>3, <3>4
  <2> QED BY <1>3, <2>1, <2>2
<1> QED BY <1>1, <1>3, <1>6, DigitsParse

-----------------------------------------------------------------------------
(* What is rejected *)

\* A set of positions that is not empty has a first and a last one.
LEMMA FirstExists ==
  ASSUME NEW T, T \subseteq Nat, T # {}
  PROVE  \E x \in T : \A y \in T : x <= y
<1> DEFINE R == {p \in Nat \X Nat : p[1] < p[2]}
<1>1. IsWellFoundedOn(R, Nat)
  BY NatLessThanWellFounded DEF OpToRel
<1> HIDE DEF R
<1>2. PICK x \in T : \A y \in T : ~(<<y, x>> \in R)
  BY <1>1, WFMin
<1>3. ASSUME NEW y \in T PROVE x <= y
  <2>1. <<y, x>> \in Nat \X Nat /\ ~(<<y, x>> \in R) /\ x \in Nat /\ y \in Nat
    BY <1>2
  <2>2. ~(y < x)
    BY <2>1 DEF R
  <2> QED BY <2>1, <2>2
<1> QED BY <1>3

LEMMA LastExists ==
  ASSUME NEW n \in Nat, NEW T, T \subseteq 1..n, T # {}
  PROVE  \E x \in T : \A y \in T : y <= x
<1> DEFINE U == {k \in Nat : n - k \in T}
<1>1. U \subseteq Nat /\ U # {}
  <2>1. PICK k \in T : k \in 1..n
    OBVIOUS
  <2>2. n - k \in Nat /\ n - (n - k) = k
    BY <2>1
  <2>3. n - k \in U
    BY <2>2
  <2> QED BY <2>3
<1>2. PICK x \in U : \A y \in U : x <= y
  BY <1>1, FirstExists
<1>3. ASSUME NEW k \in T PROVE k <= n - x
  <2>1. k \in 1..n /\ x \in Nat
    OBVIOUS
  <2>2. n - k \in Nat /\ n - (n - k) = k
    BY <2>1
  <2>3. n - k \in U
    BY <2>2
  <2>4. x <= n - k
    BY <1>2, <2>3
  <2> QED BY <2>1, <2>4
<1> QED BY <1>3

\* What is accepted is a spelling: a text with another character, too long, or
\* without a digit leaves the fallback in place.
THEOREM OnlySpellingsParse ==
  ASSUME NEW t \in Texts, ~IsSpelling(t)
  PROVE  parse_feature_flags(t) = nullopt
<1> SUFFICES ASSUME parse_feature_flags(t) # nullopt PROVE IsSpelling(t)
  OBVIOUS
<1> DEFINE digits == Unprefix(Trim(t))
           solid  == {k \in DOMAIN t : ~is_ascii_space(t[k])}
<1>1. Len(digits) \in 1..Nibbles /\ IsHex(digits)
  BY DEF parse_feature_flags
<1>2. DOMAIN t = 1..Len(t) /\ Len(t) \in Nat /\ Nibbles \in Nat
  BY NibblesAssumption DEF Texts
<1>3. solid # {}
  <2> SUFFICES ASSUME solid = {} PROVE FALSE
    OBVIOUS
  <2>1. Trim(t) = <<>>
    BY DEF Trim
  <2>2. Unprefix(<<>>) = <<>> /\ Len(<<>>) = 0
    BY DEF Unprefix
  <2> QED BY <1>1, <1>2, <2>1, <2>2
<1>4. PICK b \in solid : \A k \in solid : b <= k
  <2>1. solid \subseteq Nat
    BY <1>2
  <2> HIDE DEF solid
  <2> QED BY <1>3, <2>1, FirstExists
<1>5. PICK e \in solid : \A k \in solid : k <= e
  <2>1. solid \subseteq 1..Len(t)
    BY <1>2
  <2> HIDE DEF solid
  <2> QED BY <1>2, <1>3, <2>1, LastExists
<1>6. b \in DOMAIN t /\ e \in DOMAIN t /\ b <= e /\ ~is_ascii_space(t[b]) /\ ~is_ascii_space(t[e])
  BY <1>4, <1>5
<1>7. Blank(t, b, e)
  <2> SUFFICES ASSUME NEW k \in DOMAIN t, k < b \/ k > e PROVE is_ascii_space(t[k])
    BY DEF Blank
  <2>1. k \in Nat /\ b \in Nat /\ e \in Nat
    BY <1>2, <1>6
  <2>2. k \notin solid
    BY <1>4, <1>5, <2>1
  <2> QED BY <2>2
<1>8. Trim(t) = SubSeq(t, b, e)
  BY <1>6, <1>7, TrimIs
<1>9. digits = IF e >= b + 1 /\ t[b] = 48 /\ t[b + 1] \in {88, 120}
               THEN SubSeq(t, b + 2, e) ELSE SubSeq(t, b, e)
  BY <1>6, <1>8, UnprefixIs
<1> HIDE DEF digits, solid
<1>10. b \in Nat /\ e \in Nat /\ b >= 1 /\ e <= Len(t)
  BY <1>2, <1>6
<1>11. ASSUME NEW i \in Nat, i >= 1, digits = SubSeq(t, i, e)
       PROVE  i <= e /\ e - i < Nibbles /\ \A k \in i..e : hex_digit(t[k]) # -1
  <2>1. \A k \in i..e : t[k] \in 0..127
    <3>1. i..e \subseteq 1..Len(t)
      BY <1>2, <1>10, <1>11
    <3>2. \A k \in 1..Len(t) : t[k] \in 0..127
      BY ElementOfSeq DEF Texts
    <3> QED BY <3>1, <3>2
  <2>2. /\ digits \in Seq(0..127) /\ Len(digits) = IF i <= e THEN e - i + 1 ELSE 0
        /\ \A k \in 1..e - i + 1 : digits[k] = t[i + k - 1]
    BY <1>10, <1>11, <2>1, SubSeqProperties
  <2>3. i <= e /\ Len(digits) = e - i + 1 /\ e - i < Nibbles
    <3>1. CASE i <= e
      BY <1>1, <1>2, <1>10, <2>2, <3>1
    <3>2. CASE ~(i <= e)
      BY <1>1, <1>2, <2>2, <3>2
    <3> QED BY <3>1, <3>2
  <2>4. ASSUME NEW k \in i..e PROVE hex_digit(t[k]) # -1
    <3>1. k - i + 1 \in 1..e - i + 1 /\ i + (k - i + 1) - 1 = k
      BY <1>10
    <3>2. digits[k - i + 1] = t[k]
      BY <2>2, <3>1
    <3>3. k - i + 1 \in DOMAIN digits
      BY <2>2, <2>3, <3>1
    <3> QED BY <1>1, <3>2, <3>3 DEF IsHex
  <2> QED BY <2>3, <2>4
<1>12. CASE e >= b + 1 /\ t[b] = 48 /\ t[b + 1] \in {88, 120}
  <2> DEFINE i == b + 2
  <2>1. digits = SubSeq(t, i, e) /\ i \in Nat /\ i >= 1
    BY <1>9, <1>10, <1>12
  <2>2. i <= e /\ e - i < Nibbles /\ \A k \in i..e : hex_digit(t[k]) # -1
    BY <1>11, <2>1
  <2>3. i \in DOMAIN t /\ i > 2 /\ i - 2 = b /\ i - 1 = b + 1
    BY <1>2, <1>10, <2>2
  <2>4. Spelled(t, i, e)
    BY <1>6, <1>7, <1>12, <2>2, <2>3 DEF Spelled
  <2> QED BY <1>6, <2>3, <2>4 DEF IsSpelling
<1>13. CASE ~(e >= b + 1 /\ t[b] = 48 /\ t[b + 1] \in {88, 120})
  <2>1. digits = SubSeq(t, b, e)
    BY <1>9, <1>13
  <2>2. b <= e /\ e - b < Nibbles /\ \A k \in b..e : hex_digit(t[k]) # -1
    BY <1>10, <1>11, <2>1
  <2>3. Spelled(t, b, e)
    BY <1>6, <1>7, <2>2 DEF Spelled
  <2> QED BY <1>6, <2>3 DEF IsSpelling
<1> QED BY <1>12, <1>13

-----------------------------------------------------------------------------
\* What is printed of a word is read back as the same word.
THEOREM PrintedWordReadsBack ==
  ASSUME NEW w \in Words
  PROVE  parse_feature_flags(format_feature_flags(w)) = w
<1> DEFINE t == format_feature_flags(w)
<1>1. Nibbles \in Nat /\ Nibbles >= 2
  BY NibblesAssumption
<1>2. ASSUME NEW n \in 1..Nibbles
      PROVE  w[n] \in 0..15 /\ t[n] \in 0..127 /\ hex_digit(t[n]) = w[n]
  <2>1. w[n] \in 0..15 /\ t[n] = IF w[n] < 10 THEN 48 + w[n] ELSE 55 + w[n]
    BY DEF Words, Digits, format_feature_flags
  <2> HIDE DEF t
  <2>2. CASE w[n] < 10
    <3>1. t[n] \in 48..57 /\ t[n] - 48 = w[n]
      BY <2>1, <2>2
    <3> QED BY <2>1, <3>1, SMTT(30) DEF hex_digit
  <2>3. CASE ~(w[n] < 10)
    <3>1. t[n] \in 65..70 /\ t[n] - 55 = w[n]
      BY <2>1, <2>3
    <3> QED BY <2>1, <3>1, SMTT(30) DEF hex_digit
  <2> QED BY <2>2, <2>3
<1>3. t \in Texts /\ Len(t) = Nibbles /\ DOMAIN t = 1..Nibbles
  <2>1. t = [n \in 1..Nibbles |-> t[n]]
    BY DEF format_feature_flags
  <2> HIDE DEF t
  <2>2. t \in [1..Nibbles -> 0..127]
    BY <1>2, <2>1
  <2> QED BY <1>1, <2>2 DEF Texts
<1> HIDE DEF t
<1>4. Spelled(t, 1, Nibbles)
  <2>1. 1 \in DOMAIN t /\ Nibbles \in DOMAIN t /\ 1 <= Nibbles /\ Nibbles - 1 < Nibbles
    BY <1>1, <1>3
  <2>2. \A k \in 1..Nibbles : hex_digit(t[k]) # -1
    BY <1>2
  <2>3. Blank(t, 1, Nibbles)
    BY <1>1, <1>3 DEF Blank
  <2> QED BY <2>1, <2>2, <2>3 DEF Spelled
<1>5. WordAt(t, 1, Nibbles) = w
  <2>1. ASSUME NEW n \in 1..Nibbles
        PROVE  (IF Nibbles - Nibbles + n >= 1 THEN hex_digit(t[Nibbles - Nibbles + n]) ELSE 0)
                 = w[n]
    <3>1. Nibbles - Nibbles + n = n /\ n >= 1
      BY <1>1
    <3> QED BY <1>2, <3>1
  <2>2. w = [n \in 1..Nibbles |-> w[n]]
    BY DEF Words
  <2> QED BY <2>1, <2>2 DEF WordAt
<1>6. Spells(t, w)
  <2>1. 1 \in DOMAIN t /\ Nibbles \in DOMAIN t
    BY <1>1, <1>3
  <2> QED BY <1>4, <1>5, <2>1 DEF Spells
<1> QED BY <1>3, <1>6, SpellingParses DEF t
=============================================================================
