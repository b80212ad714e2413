-------------------------- MODULE CommandPathProofs --------------------------
(* What leaves the client, for any boards, any lines and any width of the word.  *)
EXTENDS CommandPath, FeatureWordProofs, FiniteSetTheorems, WellFoundedInduction

\* The shape in force is what the channel has published, read field by field.
HeardInv ==
  /\ form \in {"cli", "repl"} /\ target \in Channels /\ board \in Boards
  /\ caps = [c \in Channels |-> Published(c)]

\* A line leaves nothing behind it before it is served, and an offset is in range.
LineInv ==
  /\ stage \in {"shell", "connect", "prompt", "act"} => outcome = "none" /\ sent = <<>>
  /\ stage \in {"connect", "act"} /\ request.verb = "offset" => request.n \in 0..359

\* What a reader of words makes of a board's text is the board's own word.
LEMMA BoardWord ==
  ASSUME NEW b \in Boards, NEW c \in Channels
  PROVE  /\ parse_feature_flags(b[c].text) = b[c].word
         /\ b[c].inputs \in Nat /\ b[c].word \in Words \cup {nullopt}
<1>1. IsBoard(b[c])
  BY BoardsAssumption
<1>2. CASE b[c].word \in Words /\ Spells(b[c].text, b[c].word)
  BY <1>1, <1>2, SpellingParses DEF IsBoard
<1>3. CASE b[c].word = nullopt /\ ~IsSpelling(b[c].text)
  BY <1>1, <1>3, OnlySpellingsParse DEF IsBoard
<1> QED BY <1>1, <1>2, <1>3 DEF IsBoard

LEMMA LegacyWord == legacy_features \in Words
<1>1. \A i \in 1..Nibbles : (IF i = Nibbles THEN 7 ELSE IF i = Nibbles - 1 THEN 1 ELSE 0) \in 0..15
  OBVIOUS
<1> QED BY <1>1 DEF legacy_features, Words, Digits

LEMMA PublishedWord ==
  ASSUME HeardInv, NEW c \in Channels
  PROVE  Published(c).features \in Words
<1>1. board[c].word \in Words \cup {nullopt}
  BY BoardWord DEF HeardInv
<1> QED BY <1>1, LegacyWord DEF Published

\* The two checks of the client ask for what the manual promises, and for no more.
LEMMA AdmissibleIsServed ==
  ASSUME NEW q, NEW s, q.verb \in Actions, q.verb = "offset" => q.n \in 0..359
  PROVE  Admissible(q, s) <=> Serves(q, s)
<1>1. (q.verb \in DOMAIN Needs => Has(s.features, Needs[q.verb]))
        <=> (q.verb \in {"auto", "plan", "off"} => q.verb \in decode_features(s.features))
  <2>1. DOMAIN Needs = {"auto", "plan", "off"} /\ \A v \in DOMAIN Needs : Needs[v] = v
    BY DEF Needs
  <2>2. {"auto", "plan", "off"} \subseteq known_features
    BY DEF known_features
  <2> QED BY <2>1, <2>2 DEF decode_features
<1>2. InputsOf(q) \subseteq 1..s.inputCount
        <=> /\ q.verb = "set" => q.n \in 1..s.inputCount
            /\ \A i \in DOMAIN q.steps :
                 q.steps[i].kind = "input" => q.steps[i].n \in 1..s.inputCount
  <2> DEFINE R == 1..s.inputCount
  <2> HIDE DEF R
  <2>1. InputsOf(q) \subseteq R
          <=> /\ q.verb = "set" => q.n \in R
              /\ \A i \in DOMAIN q.steps : q.steps[i].kind = "input" => q.steps[i].n \in R
    BY DEF InputsOf
  <2> QED BY <2>1 DEF R
<1> QED BY <1>1, <1>2 DEF Admissible, Serves

LEMMA PairsAreLong ==
  ASSUME NEW a, NEW b
  PROVE  /\ <<a, b>> # <<>> /\ <<a, b>> \o <<>> # <<>>
         /\ \A c : <<a, b>> \o <<c>> # <<>>
OBVIOUS

LEMMA TextIsLong ==
  ASSUME NEW q, NEW n, q.verb \in Actions
  PROVE  Text(q, n) # <<>>
<1>1. build_start_auto(q, n) # <<>>
  BY PairsAreLong DEF build_start_auto
<1>2. build_run_plan(q) # <<>>
  BY PairsAreLong DEF build_run_plan
<1> QED BY <1>1, <1>2 DEF Text, Actions

-----------------------------------------------------------------------------
(* The shape in force *)

LEMMA HeardInit == Init => HeardInv
BY DEF Init, HeardInv, legacy, Published

\* A capability state moves one channel's shape to what is published by then.
LEMMA HearFollows ==
  ASSUME HeardInv, NEW c \in Channels, NEW field \in CapsFields, Hear(c, field)
  PROVE  caps' = [d \in Channels |-> Published(d)']
<1>1. /\ heard' = heard \cup {<<c, field>>} /\ <<c, field>> \notin heard /\ board' = board
      /\ caps' = [caps EXCEPT ![c] = Adopt(caps[c], board[c], field)]
  BY DEF Hear
<1>2. caps = [d \in Channels |-> Published(d)]
  BY DEF HeardInv
<1>3. parse_feature_flags(board[c].text) = board[c].word
  BY BoardWord DEF HeardInv
<1>4. ASSUME NEW d \in Channels, d # c PROVE Published(d)' = Published(d)
  BY <1>1, <1>4 DEF Published
<1>5. Adopt(Published(c), board[c], field) = Published(c)'
  <2>1. CASE field = "capsInputCount"
    <3>1. <<c, "capsInputCount">> \in heard' /\ <<c, "capsInputCount">> \notin heard
      BY <1>1, <2>1
    <3>2. <<c, "capsFeatures">> \in heard' <=> <<c, "capsFeatures">> \in heard
      BY <1>1, <2>1
    <3> QED BY <1>1, <2>1, <3>1, <3>2 DEF Adopt, Published
  <2>2. CASE field = "capsFeatures"
    <3>1. <<c, "capsFeatures">> \in heard' /\ <<c, "capsFeatures">> \notin heard
      BY <1>1, <2>2
    <3>2. <<c, "capsInputCount">> \in heard' <=> <<c, "capsInputCount">> \in heard
      BY <1>1, <2>2
    <3> QED BY <1>1, <1>3, <2>2, <3>1, <3>2 DEF Adopt, Published
  <2> QED BY <2>1, <2>2 DEF CapsFields
<1> QED BY <1>1, <1>2, <1>4, <1>5

\* No other step changes a shape or what it is made of.
LEMMA HeardStep == HeardInv /\ [Next]_vars => HeardInv'
<1> SUFFICES ASSUME HeardInv, [Next]_vars PROVE HeardInv'
  OBVIOUS
<1>1. ASSUME board' = board, heard' = heard, caps' = caps, form' = form, target' \in Channels
      PROVE  HeardInv'
  BY <1>1 DEF HeardInv, Published
<1>2. ASSUME NEW l \in CliLines, Run(l) PROVE HeardInv'
  BY <1>1, <1>2 DEF Run, boardVars, HeardInv
<1>3. ASSUME NEW l \in ReplLines, Enter(l) PROVE HeardInv'
  BY <1>1, <1>3 DEF Enter, boardVars, HeardInv
<1>4. ASSUME NEW l \in ReplLines, SwitchChannel(l) PROVE HeardInv'
  BY <1>1, <1>4 DEF SwitchChannel, boardVars, HeardInv
<1>5. CASE Connect
  BY <1>1, <1>5 DEF Connect, lineVars, boardVars, HeardInv
<1>6. CASE Act
  BY <1>1, <1>6 DEF Act, lineVars, boardVars, HeardInv
<1>7. CASE Reprompt
  BY <1>1, <1>7 DEF Reprompt, boardVars, HeardInv
<1>8. CASE UNCHANGED vars
  BY <1>1, <1>8 DEF vars, lineVars, boardVars, HeardInv
<1>9. CASE Exited
  BY <1>8, <1>9 DEF Exited
<1>10. ASSUME NEW c \in Channels, NEW field \in CapsFields, Hear(c, field) PROVE HeardInv'
  <2>1. caps' = [d \in Channels |-> Published(d)']
    BY <1>10, HearFollows
  <2> QED BY <1>10, <2>1 DEF HeardInv, Hear, lineVars
<1> QED BY <1>2, <1>3, <1>4, <1>5, <1>6, <1>7, <1>8, <1>9, <1>10 DEF Next

-----------------------------------------------------------------------------
(* Lines *)

LEMMA LineInit == Init => LineInv
BY DEF Init, LineInv, NoRequest

LEMMA LineStep == LineInv /\ [Next]_vars => LineInv'
<1> SUFFICES ASSUME LineInv, [Next]_vars PROVE LineInv'
  OBVIOUS
<1>1. ASSUME NEW l \in CliLines, Run(l) PROVE LineInv'
  <2>1. CASE CliParses(l) /\ stage' = "connect" /\ request' = CliRequest(l) /\ UNCHANGED outcome
    <3>1. CliRequest(l).verb = "offset" => CliRequest(l).n \in 0..359
      BY <2>1 DEF CliParses, CliRequest
    <3> QED BY <1>1, <2>1, <3>1 DEF LineInv, Run
  <2>2. CASE ~CliParses(l) /\ stage' = "exited"
    BY <2>2 DEF LineInv
  <2> QED BY <1>1, <2>1, <2>2 DEF Run
<1>2. ASSUME NEW l \in ReplLines, Enter(l) PROVE LineInv'
  <2>1. CASE ReplParses(l) /\ stage' = "act" /\ request' = ReplRequest(l) /\ UNCHANGED outcome
    <3>1. ReplRequest(l).verb = "offset" => ReplRequest(l).n \in 0..359
      BY <2>1 DEF ReplParses, ReplRequest
    <3> QED BY <1>2, <2>1, <3>1 DEF LineInv, Enter
  <2>2. CASE ~ReplParses(l) /\ stage' = "done"
    BY <2>2 DEF LineInv
  <2> QED BY <1>2, <2>1, <2>2 DEF Enter
<1>3. ASSUME NEW l \in ReplLines, SwitchChannel(l) PROVE LineInv'
  BY <1>3 DEF LineInv, SwitchChannel
<1>4. CASE Connect
  BY <1>4 DEF LineInv, Connect, lineVars, endVars
<1>5. CASE Act
  BY <1>5 DEF LineInv, Act
<1>6. CASE Reprompt
  BY <1>6 DEF LineInv, Reprompt
<1>7. CASE UNCHANGED vars
  BY <1>7 DEF LineInv, vars, endVars
<1>8. CASE Exited
  BY <1>7, <1>8 DEF Exited
<1>9. ASSUME NEW c \in Channels, NEW field \in CapsFields, Hear(c, field) PROVE LineInv'
  BY <1>9 DEF LineInv, Hear, endVars
<1> QED BY <1>1, <1>2, <1>3, <1>4, <1>5, <1>6, <1>7, <1>8, <1>9 DEF Next

-----------------------------------------------------------------------------
(* The two theorems *)

LEMMA Invariants == Spec => [](HeardInv /\ LineInv)
<1>1. Init => HeardInv /\ LineInv
  BY HeardInit, LineInit
<1>2. HeardInv /\ LineInv /\ [Next]_vars => (HeardInv /\ LineInv)'
  BY HeardStep, LineStep
<1> QED BY <1>1, <1>2, PTL DEF Spec

\* A line is served by the shape that its channel has published when it is served.
LEMMA ActServes ==
  ASSUME HeardInv, LineInv, Act
  PROVE  ServedExactly' /\ WordSurvives'
<1>1. /\ stage = "act" /\ shape' = [c \in Channels |-> Published(c)]
      /\ UNCHANGED <<form, line, target, request, board, heard, caps>>
  BY DEF Act, lineVars, boardVars
<1>2. caps = [c \in Channels |-> Published(c)] /\ target \in Channels
  BY DEF HeardInv
<1>3. caps[target] = shape'[target] /\ outcome = "none" /\ sent = <<>>
  BY <1>1, <1>2 DEF LineInv
<1>4. CASE /\ request.verb \in {"state", "caps"} /\ outcome' = "shown" /\ UNCHANGED sent
           /\ shown' = [c \in Channels |-> Shown(caps[c])]
  <2>1. ServedExactly'
    BY <1>3, <1>4 DEF ServedExactly
  <2>2. ASSUME NEW c \in Channels
        PROVE  /\ form = "cli" => parse_feature_flags(shown'[c].features) = shape'[c].features
               /\ shown'[c].featureList = {f \in DOMAIN Bit : Has(shape'[c].features, f)}
    <3>1. shape'[c].features \in Words /\ shown'[c] = Shown(shape'[c])
      BY <1>1, <1>2, <1>4, PublishedWord
    <3>2. DOMAIN Bit = known_features
      BY DEF Bit, known_features
    <3>3. parse_feature_flags(format_feature_flags(shape'[c].features)) = shape'[c].features
      BY <3>1, PrintedWordReadsBack
    <3> QED BY <3>1, <3>2, <3>3 DEF Shown, decode_features
  <2> QED BY <1>1, <2>1, <2>2 DEF WordSurvives
<1>5. CASE /\ request.verb \in Actions /\ Admissible(request, caps[target]) /\ outcome' = "sent"
           /\ sent' = Text(request, caps[target].inputCount)
  <2>1. Serves(request, shape'[target])
    BY <1>1, <1>3, <1>5, AdmissibleIsServed DEF LineInv
  <2>2. sent' # <<>>
    BY <1>5, TextIsLong
  <2> QED BY <1>1, <1>5, <2>1, <2>2 DEF ServedExactly, WordSurvives
<1>6. CASE /\ request.verb \in Actions /\ ~Admissible(request, caps[target]) /\ outcome' = "refused"
           /\ UNCHANGED sent
  <2>1. ~Serves(request, shape'[target])
    BY <1>1, <1>3, <1>6, AdmissibleIsServed DEF LineInv
  <2> QED BY <1>1, <1>3, <1>6, <2>1 DEF ServedExactly, WordSurvives
<1> QED BY <1>4, <1>5, <1>6 DEF Act

LEMMA ServedStep ==
  HeardInv /\ LineInv /\ ServedExactly /\ WordSurvives /\ [Next]_vars
    => ServedExactly' /\ WordSurvives'
<1> SUFFICES ASSUME HeardInv, LineInv, ServedExactly, WordSurvives, [Next]_vars
             PROVE  ServedExactly' /\ WordSurvives'
  OBVIOUS
<1>1. ASSUME outcome' \in {"none", "invalid"}, sent' = <<>> PROVE ServedExactly' /\ WordSurvives'
  BY <1>1 DEF ServedExactly, WordSurvives
<1>2. ASSUME UNCHANGED <<form, target, request, endVars>> PROVE ServedExactly' /\ WordSurvives'
  BY <1>2 DEF ServedExactly, WordSurvives, endVars
<1>3. ASSUME NEW l \in CliLines, Run(l) PROVE ServedExactly' /\ WordSurvives'
  BY <1>1, <1>3 DEF Run, LineInv
<1>4. ASSUME NEW l \in ReplLines, Enter(l) PROVE ServedExactly' /\ WordSurvives'
  BY <1>1, <1>4 DEF Enter, LineInv
<1>5. ASSUME NEW l \in ReplLines, SwitchChannel(l) PROVE ServedExactly' /\ WordSurvives'
  BY <1>1, <1>5 DEF SwitchChannel, LineInv
<1>6. CASE Connect
  BY <1>2, <1>6 DEF Connect, lineVars
<1>7. CASE Act
  BY <1>7, ActServes
<1>8. CASE Reprompt
  BY <1>1, <1>8 DEF Reprompt
<1>9. CASE UNCHANGED vars
  BY <1>2, <1>9 DEF vars, lineVars
<1>10. CASE Exited
  BY <1>9, <1>10 DEF Exited
<1>11. ASSUME NEW c \in Channels, NEW field \in CapsFields, Hear(c, field)
       PROVE  ServedExactly' /\ WordSurvives'
  BY <1>2, <1>11 DEF Hear, lineVars
<1> QED BY <1>3, <1>4, <1>5, <1>6, <1>7, <1>8, <1>9, <1>10, <1>11 DEF Next

\* Whatever arrives late or not at all, a request goes out exactly when the shape
\* its channel has published by then serves it (startAuto(), runPlan(), setInput()).
THEOREM ServesWhatIsPublished == Spec => []ServedExactly
<1>1. Init => ServedExactly /\ WordSurvives
  BY DEF Init, ServedExactly, WordSurvives
<1> QED BY <1>1, ServedStep, Invariants, PTL DEF Spec

\* For every width of the word and every spelling of it: what a board publishes is
\* what is printed of it, and reads back as the same (capabilities_to_json()).
THEOREM WordsSurvive == Spec => []WordSurvives
<1>1. Init => ServedExactly /\ WordSurvives
  BY DEF Init, ServedExactly, WordSurvives
<1> QED BY <1>1, ServedStep, Invariants, PTL DEF Spec

-----------------------------------------------------------------------------
(* Words that are skipped *)

\* Of finitely many places there is a first, a second and so on: the least place up to
\* which there are k of them is the k-th.
LEMMA KthPlace ==
  ASSUME NEW N \in Nat, NEW I \in SUBSET (1..N)
  PROVE  /\ Cardinality(I) \in Nat
         /\ \A k \in 1..Cardinality(I) : \E i \in I : Cardinality({j \in I : j <= i}) = k
<1> DEFINE Low(i) == {j \in I : j <= i}
           R == {r \in Nat \X Nat : r[1] < r[2]}
<1>1. \A j \in I : j \in Nat /\ 1 <= j /\ j <= N
  OBVIOUS
<1>2. IsFiniteSet(I) /\ Cardinality(I) \in Nat
  <2>1. IsFiniteSet(1..N)
    BY FS_Interval
  <2>2. QED
    BY <2>1, FS_Subset, FS_CardinalityType
<1>3. \A i : IsFiniteSet(Low(i)) /\ Cardinality(Low(i)) \in Nat
  BY <1>2, FS_Subset, FS_CardinalityType
<1>4. ASSUME NEW k \in 1..Cardinality(I)
      PROVE  \E i \in I : Cardinality(Low(i)) = k
  <2> DEFINE T == {i \in 0..N : Cardinality(Low(i)) >= k}
  <2>1. N \in T
    <3>1. Low(N) = I
      BY <1>1
    <3>2. QED
      BY <1>2, <3>1
  <2>2. IsWellFoundedOn(R, Nat)
    BY NatLessThanWellFounded DEF OpToRel
  <2>3. \A x, y \in Nat : y < x => <<y, x>> \in R
    BY SMT
  <2>4. T \subseteq Nat /\ T # {}
    BY <2>1
  <2> HIDE DEF R
  <2>5. PICK i \in T : \A j \in T : <<j, i>> \notin R
    <3> HIDE DEF T
    <3>1. QED
      BY <2>2, <2>4, WFMin
  <2>6. \A j \in T : ~(j < i)
    BY <2>3, <2>4, <2>5, Zenon
  <2>7. i # 0
    <3>1. Low(0) = {}
      <4>1. \A j \in I : ~(j <= 0)
        BY <1>1
      <4>2. QED
        BY <4>1, Zenon
    <3>2. Cardinality(Low(0)) = 0
      BY <3>1, FS_EmptySet
    <3>3. QED
      BY <3>2
  <2>8. i \in 1..N /\ i - 1 \in 0..N /\ i - 1 < i
    BY <2>7
  <2>9. \A j \in I : j <= i <=> j <= i - 1 \/ j = i
    BY <1>1, <2>8
  <2>10. i - 1 \notin T
    BY <2>6, <2>8
  <2> HIDE DEF Low
  <2>11. Cardinality(Low(i - 1)) < k
    BY <1>3, <2>8, <2>10
  <2>12. i \in I
    <3>1. SUFFICES ASSUME i \notin I PROVE FALSE
      OBVIOUS
    <3>2. Low(i) = Low(i - 1)
      BY <2>9, <3>1, Zenon DEF Low
    <3>3. QED
      BY <1>3, <2>11, <3>2
  <2>13. Low(i) = Low(i - 1) \cup {i} /\ i \notin Low(i - 1)
    <3>1. ~(i <= i - 1)
      BY <2>8
    <3>2. QED
      BY <2>12, <2>9, <3>1, Zenon DEF Low
  <2>14. Cardinality(Low(i)) = Cardinality(Low(i - 1)) + 1
    BY <1>3, <2>13, FS_AddElement
  <2>15. Cardinality(Low(i)) = k
    BY <1>3, <2>11, <2>14
  <2>16. QED
    BY <2>12, <2>15
<1>5. QED
  BY <1>2, <1>4

\* What is kept of a sequence is a sequence of its elements.
LEMMA KeptIsSeq ==
  ASSUME NEW S, NEW s \in Seq(S), NEW I \in SUBSET DOMAIN s
  PROVE  Keep(s, I) \in Seq(S)
<1>1. DOMAIN s = 1..Len(s) /\ Len(s) \in Nat
  OBVIOUS
<1>2. /\ Cardinality(I) \in Nat
      /\ \A k \in 1..Cardinality(I) : \E i \in I : Cardinality({j \in I : j <= i}) = k
  BY <1>1, KthPlace, ZenonT(40)
<1>3. \A k \in 1..Cardinality(I) :
        s[CHOOSE i \in I : Cardinality({j \in I : j <= i}) = k] \in S
  BY <1>2, SMTT(30)
<1>4. Keep(s, I) \in [1..Cardinality(I) -> S]
  BY <1>3 DEF Keep
<1>5. QED
  BY <1>2, <1>4, SeqDef

-----------------------------------------------------------------------------
(* What the two parsers read *)

\* The steps of a cycle are inputs; those of a plan are inputs and delays.
IsCycle(steps) ==
  steps \in Seq(StepType) /\ \A i \in DOMAIN steps : steps[i].kind = "input" /\ steps[i].unit = "ms"
IsPlanOf(steps) ==
  steps \in Seq(StepType) /\ \A i \in DOMAIN steps : steps[i].kind = "input" => steps[i].unit = "ms"

LEMMA SeqByPlace ==
  ASSUME NEW S, NEW n \in Nat, NEW s, s \in [1..n -> S]
  PROVE  s \in Seq(S) /\ DOMAIN s = 1..n /\ Len(s) = n
BY SeqDef

LEMMA InputStepType ==
  ASSUME NEW n \in Int
  PROVE  /\ InputStep(n) \in StepType /\ InputStep(n).kind = "input" /\ InputStep(n).unit = "ms"
         /\ InputStep(n).n = n
BY DEF InputStep, StepType, Units

LEMMA DelayStepType ==
  ASSUME NEW n \in Int, NEW u \in Units
  PROVE  DelayStep(n, u) \in StepType /\ DelayStep(n, u).kind = "delay"
BY DEF DelayStep, StepType, Units

LEMMA InputsAreCycle ==
  ASSUME NEW w \in Seq(ItemType)
  PROVE  IsCycle(Inputs(w))
<1> DEFINE kept == Items(w)
<1>1. kept \in Seq(ItemType)
  <2>1. {i \in DOMAIN w : w[i].int \/ w[i].tail # ""} \subseteq DOMAIN w
    OBVIOUS
  <2>2. QED
    BY <2>1, KeptIsSeq DEF Items
<1> HIDE DEF kept
<1>2. Len(kept) \in Nat /\ DOMAIN kept = 1..Len(kept) /\ \A i \in DOMAIN kept : kept[i] \in ItemType
  BY <1>1
<1>3. \A i \in DOMAIN kept : kept[i].n \in Int
  BY <1>2 DEF ItemType
<1>4. Inputs(w) = [i \in DOMAIN kept |-> InputStep(kept[i].n)]
  BY DEF Inputs, kept
<1>5. Inputs(w) \in [1..Len(kept) -> StepType]
  BY <1>2, <1>3, <1>4, InputStepType
<1>6. Inputs(w) \in Seq(StepType) /\ DOMAIN Inputs(w) = DOMAIN kept
  BY <1>2, <1>5, SeqByPlace
<1>7. QED
  BY <1>3, <1>4, <1>6, InputStepType DEF IsCycle

LEMMA StepsArePlan ==
  ASSUME NEW ws \in Seq(Seq(ItemType)), IsPlan(ws)
  PROVE  IsPlanOf(Steps(ws))
<1>1. /\ Len(ws) \in Nat /\ DOMAIN ws = 1..Len(ws)
      /\ \A i \in DOMAIN ws : ws[i] \in Seq(ItemType)
  OBVIOUS
<1>2. \A i \in DOMAIN ws : Len(ws[i]) = 1
  BY DEF IsPlan, IsDelay, Whole
<1>3. \A i \in DOMAIN ws : ws[i][1] \in ItemType
  BY <1>1, <1>2
<1>4. \A i \in DOMAIN ws : ws[i][1].n \in Int
  BY <1>3 DEF ItemType
<1>5. \A i \in DOMAIN ws : IsDelay(ws[i]) => ws[i][1].tail \in Units
  BY DEF IsDelay
<1>6. \A i \in DOMAIN ws :
        /\ IsDelay(ws[i]) => Steps(ws)[i] = DelayStep(ws[i][1].n, ws[i][1].tail)
        /\ ~IsDelay(ws[i]) => Steps(ws)[i] = InputStep(ws[i][1].n)
  BY Zenon DEF Steps, Number
<1>7. ASSUME NEW i \in DOMAIN ws
      PROVE  /\ Steps(ws)[i] \in StepType
             /\ Steps(ws)[i].kind = "input" => Steps(ws)[i].unit = "ms"
  <2>1. CASE IsDelay(ws[i])
    BY <1>4, <1>5, <1>6, <2>1, DelayStepType, Zenon
  <2>2. CASE ~IsDelay(ws[i])
    <3>1. Steps(ws)[i] = InputStep(ws[i][1].n)
      BY <1>6, <2>2, Zenon
    <3>2. InputStep(ws[i][1].n) \in StepType /\ InputStep(ws[i][1].n).unit = "ms"
      BY <1>4, InputStepType, Zenon
    <3>3. QED
      BY <3>1, <3>2, Zenon
  <2>3. QED
    BY <2>1, <2>2
<1>8. Steps(ws) \in [1..Len(ws) -> StepType]
  BY <1>1, <1>7 DEF Steps
<1>9. QED
  BY <1>1, <1>7, <1>8, SeqByPlace DEF IsPlanOf

LEMMA EmptyIsCycle == IsCycle(<<>>) /\ <<>> \in Seq(StepType)
BY DEF IsCycle

\* A request by what its verb takes: a number, a unit, steps and a repetition.
MadeOf(q, verb, n, unit, steps, repeat) ==
  q = [verb |-> verb, n |-> n, unit |-> unit, steps |-> steps, repeat |-> repeat]

LEMMA RequestByVerb ==
  ASSUME NEW q, NEW verb \in Actions \cup {"state", "caps", "none"}, NEW n \in Int,
         NEW unit \in Units, NEW steps \in Seq(StepType), NEW repeat \in BOOLEAN,
         MadeOf(q, verb, n, unit, steps, repeat),
         verb \notin {"set", "auto", "offset"} => n = 0,
         verb # "auto" => unit = "ms",
         verb = "auto" => IsCycle(steps),
         verb = "plan" => IsPlanOf(steps),
         verb \notin {"auto", "plan"} => steps = <<>>,
         verb # "plan" => ~repeat
  PROVE  q \in Requests
<1>1. q \in RequestType
  BY DEF MadeOf, RequestType
<1>2. q.verb = verb /\ q.n = n /\ q.unit = unit /\ q.steps = steps /\ q.repeat = repeat
  BY DEF MadeOf
<1>3. ASSUME NEW i \in DOMAIN steps
      PROVE  IF steps[i].kind = "input" THEN steps[i].unit = "ms" ELSE verb = "plan"
  <2>1. CASE verb = "auto"
    BY <1>3, <2>1, Zenon DEF IsCycle
  <2>2. CASE verb = "plan"
    BY <1>3, <2>2, Zenon DEF IsPlanOf
  <2>3. CASE verb \notin {"auto", "plan"}
    BY <1>3, <2>3
  <2>4. QED
    BY <2>1, <2>2, <2>3
<1>4. QED
  BY <1>1, <1>2, <1>3, Zenon DEF Requests

LEMMA FirstNumber ==
  ASSUME NEW ws \in Seq(Seq(ItemType)), ws # <<>>, ws[1] # <<>>
  PROVE  Number(ws[1]) \in Int
<1>1. ws[1] \in Seq(ItemType)
  OBVIOUS
<1>2. ws[1][1] \in ItemType
  BY <1>1
<1>3. QED
  BY <1>2 DEF Number, ItemType

LEMMA WordsOfLine ==
  ASSUME NEW l \in CliLines \cup ReplLines
  PROVE  l.args \in Seq(Seq(ItemType)) /\ l.csv \in Seq(ItemType)
BY LinesAssumption DEF IsLine

\* What the shell reads is a request.
LEMMA CliReads ==
  ASSUME NEW l \in CliLines, CliParses(l)
  PROVE  CliRequest(l) \in Requests
<1> DEFINE n == IF l.verb \in {"set", "auto", "offset"} THEN Number(l.args[1]) ELSE 0
           unit == IF l.verb = "auto" /\ "us" \in l.flags THEN "us" ELSE "ms"
           steps == IF l.verb = "auto" THEN Inputs(l.csv)
                    ELSE IF l.verb = "plan" THEN Steps(Solid(l.args)) ELSE <<>>
           repeat == l.verb = "plan" /\ "repeat" \in l.flags
<1>1. MadeOf(CliRequest(l), l.verb, n, unit, steps, repeat)
  BY DEF CliRequest, MadeOf
<1>2. l.verb \in Actions \cup {"state", "caps", "none"}
  BY DEF CliParses, Verbs
<1>3. n \in Int
  <2>1. CASE l.verb \in {"set", "auto", "offset"}
    <3>1. Len(l.args) = 1 /\ Len(l.args[1]) = 1
      BY <2>1 DEF CliParses, Whole
    <3>2. l.args # <<>> /\ l.args[1] # <<>>
      BY <3>1
    <3>3. Number(l.args[1]) \in Int
      BY <3>2, WordsOfLine, FirstNumber
    <3>4. QED
      BY <2>1, <3>3
  <2>2. CASE l.verb \notin {"set", "auto", "offset"}
    BY <2>2
  <2>3. QED
    BY <2>1, <2>2
<1>4. unit \in Units /\ repeat \in BOOLEAN
  BY DEF Units
<1>5. IsCycle(Inputs(l.csv))
  BY WordsOfLine, InputsAreCycle
<1>6. l.verb = "plan" => IsPlanOf(Steps(Solid(l.args)))
  <2>1. {i \in DOMAIN l.args : l.args[i] # <<>>} \subseteq DOMAIN l.args
    OBVIOUS
  <2>2. Solid(l.args) \in Seq(Seq(ItemType))
    BY <2>1, WordsOfLine, KeptIsSeq DEF Solid
  <2>3. l.verb = "plan" => IsPlan(Solid(l.args))
    BY DEF CliParses
  <2>4. QED
    BY <2>2, <2>3, StepsArePlan
<1>7. steps \in Seq(StepType)
  BY <1>5, <1>6, EmptyIsCycle DEF IsCycle, IsPlanOf
<1>8. /\ l.verb \notin {"set", "auto", "offset"} => n = 0
      /\ l.verb # "auto" => unit = "ms"
      /\ l.verb = "auto" => IsCycle(steps)
      /\ l.verb = "plan" => IsPlanOf(steps)
      /\ l.verb \notin {"auto", "plan"} => steps = <<>>
      /\ l.verb # "plan" => ~repeat
  BY <1>5, <1>6
<1> HIDE DEF n, unit, steps, repeat
<1>9. QED
  BY <1>1, <1>2, <1>3, <1>4, <1>7, <1>8, RequestByVerb

LEMMA WithoutIsSeq ==
  ASSUME NEW ws \in Seq(Seq(ItemType)), NEW keywords
  PROVE  Without(ws, keywords) \in Seq(Seq(ItemType))
<1>1. {i \in DOMAIN ws : ws[i] \notin keywords} \subseteq DOMAIN ws
  OBVIOUS
<1>2. QED
  BY <1>1, KeptIsSeq DEF Without

\* What the prompt reads is a request.
LEMMA ReplReads ==
  ASSUME NEW l \in ReplLines, ReplParses(l)
  PROVE  ReplRequest(l) \in Requests
<1> DEFINE n == IF l.verb \in {"set", "auto", "offset"} THEN Number(l.args[1]) ELSE 0
           unit == IF l.verb = "auto" /\ Len(Lists(l)) < Len(l.args) - 1 THEN "us" ELSE "ms"
           steps == IF l.verb = "plan" THEN Steps(Without(l.args, RepeatWords))
                    ELSE IF l.verb = "auto" /\ Lists(l) # <<>> THEN Inputs(Last(Lists(l)))
                    ELSE <<>>
           repeat == l.verb = "plan" /\ Without(l.args, RepeatWords) # l.args
<1>1. MadeOf(ReplRequest(l), l.verb, n, unit, steps, repeat)
  BY DEF ReplRequest, MadeOf
<1>2. l.verb \in Actions \cup {"state", "caps", "none"}
  BY DEF ReplParses, Verbs
<1>3. l.verb \in {"set", "auto", "offset"} => l.args # <<>> /\ l.args[1] # <<>>
  BY DEF ReplParses, Begins
<1>4. n \in Int
  BY <1>3, WordsOfLine, FirstNumber
<1>5. unit \in Units /\ repeat \in BOOLEAN
  BY DEF Units
<1>6. ASSUME l.verb = "auto", Lists(l) # <<>> PROVE IsCycle(Inputs(Last(Lists(l))))
  <2>1. Tail(l.args) \in Seq(Seq(ItemType))
    BY <1>3, <1>6, WordsOfLine
  <2>2. Lists(l) \in Seq(Seq(ItemType))
    BY <2>1, WithoutIsSeq DEF Lists
  <2>3. Last(Lists(l)) \in Seq(ItemType)
    BY <1>6, <2>2 DEF Last
  <2>4. QED
    BY <2>3, InputsAreCycle
<1>7. l.verb = "plan" => IsPlanOf(Steps(Without(l.args, RepeatWords)))
  <2>1. Without(l.args, RepeatWords) \in Seq(Seq(ItemType))
    BY WordsOfLine, WithoutIsSeq
  <2>2. l.verb = "plan" => IsPlan(Without(l.args, RepeatWords))
    BY DEF ReplParses
  <2>3. QED
    BY <2>1, <2>2, StepsArePlan
<1>8. /\ l.verb = "auto" => IsCycle(steps)
      /\ l.verb = "plan" => IsPlanOf(steps)
      /\ l.verb \notin {"auto", "plan"} => steps = <<>>
  BY <1>6, <1>7, EmptyIsCycle
<1>9. steps \in Seq(StepType)
  BY <1>8, EmptyIsCycle DEF IsCycle, IsPlanOf
<1>10. /\ l.verb \notin {"set", "auto", "offset"} => n = 0
       /\ l.verb # "auto" => unit = "ms"
       /\ l.verb # "plan" => ~repeat
  OBVIOUS
<1> HIDE DEF n, unit, steps, repeat
<1>11. QED
  BY <1>1, <1>2, <1>4, <1>5, <1>8, <1>9, <1>10, RequestByVerb, SMTT(30)

-----------------------------------------------------------------------------
(* The texts *)

PartType == [mark : Marks, n : Int, unit : {"", "u"}]

LEMMA PartIsPart ==
  ASSUME NEW mark \in Marks, NEW n \in Int, NEW unit \in Units
  PROVE  Part(mark, n, unit) \in PartType
BY DEF Part, PartType

\* A part tells its mark, its number and its unit.
LEMMA PartTells ==
  ASSUME NEW mark, NEW n, NEW unit \in Units, NEW mark2, NEW n2, NEW unit2 \in Units,
         Part(mark, n, unit) = Part(mark2, n2, unit2)
  PROVE  mark = mark2 /\ n = n2 /\ unit = unit2
BY DEF Part, Units

LEMMA Concatenated ==
  ASSUME NEW a, NEW b
  PROVE  <<a, b>> \o <<>> = <<a, b>> /\ \A c : <<a, b>> \o <<c>> = <<a, b, c>>
<1>1. <<a, b>> \o <<>> = <<a, b>>
  BY <<a, b>> \in Seq({a, b}), ConcatEmptySeq
<1>2. ASSUME NEW c PROVE <<a, b>> \o <<c>> = <<a, b, c>>
  <2> DEFINE S == {a, b, c}
             s == <<a, b>>
             t == <<c>>
             u == <<a, b, c>>
  <2>1. /\ s \in Seq(S) /\ Len(s) = 2 /\ s[1] = a /\ s[2] = b
        /\ t \in Seq(S) /\ Len(t) = 1 /\ t[1] = c
        /\ u \in Seq(S) /\ Len(u) = 3 /\ u[1] = a /\ u[2] = b /\ u[3] = c
    OBVIOUS
  <2> HIDE DEF S, s, t, u
  <2>2. /\ s \o t \in Seq(S) /\ Len(s \o t) = 3
        /\ \A i \in 1..3 : (s \o t)[i] = IF i <= 2 THEN s[i] ELSE t[i - 2]
    <3>1. /\ s \o t \in Seq(S) /\ Len(s \o t) = Len(s) + Len(t)
          /\ \A i \in 1..Len(s) + Len(t) :
               (s \o t)[i] = IF i <= Len(s) THEN s[i] ELSE t[i - Len(s)]
      BY <2>1, ConcatProperties, Zenon
    <3>2. Len(s) + Len(t) = 3 /\ Len(s) = 2
      BY <2>1
    <3>3. QED
      BY <3>1, <3>2
  <2>3. \A i \in 1..3 : (s \o t)[i] = u[i]
    BY <2>1, <2>2
  <2>4. s \o t = u
    BY <2>1, <2>2, <2>3, SeqEqual
  <2>5. QED
    BY <2>4 DEF s, t, u
<1>3. QED
  BY <1>1, <1>2

\* The auto cycle's steps are written, if it has some that are not all inputs in order.
Written(q, n) == q.steps # <<>> /\ ~covers_all_in_order(q.steps, n)

\* The first field of a verb's text.
FirstMark(verb) == IF verb = "offset" THEN "angle_offset=" ELSE verb

LEMMA TextOfVerb ==
  ASSUME NEW q, NEW n, q.verb \in Actions
  PROVE  /\ q.verb = "set" => Text(q, n) = <<Name("set"), <<Part("", q.n, "ms")>>>>
         /\ q.verb = "offset" =>
              Text(q, n) = <<Name("angle_offset="), <<Part("", q.n, "ms")>>>>
         /\ q.verb = "auto" /\ Written(q, n) =>
              Text(q, n) = <<Name("auto"), <<Part("", q.n, q.unit)>>, Parts(q.steps)>>
         /\ q.verb = "auto" /\ ~Written(q, n) =>
              Text(q, n) = <<Name("auto"), <<Part("", q.n, q.unit)>>>>
         /\ q.verb = "plan" =>
              Text(q, n) = <<Name("plan"),
                             Parts(q.steps) \o (IF q.repeat THEN Name("r") ELSE <<>>)>>
         /\ q.verb \in {"stop", "off"} => Text(q, n) = <<Name(q.verb)>>
<1>1. q.verb = "set" => Text(q, n) = <<Name("set"), <<Part("", q.n, "ms")>>>>
  BY DEF Text
<1>2. q.verb = "offset" => Text(q, n) = <<Name("angle_offset="), <<Part("", q.n, "ms")>>>>
  BY DEF Text
<1>3. q.verb = "auto" => Text(q, n) = build_start_auto(q, n)
  BY DEF Text
<1>4. q.verb = "plan" => Text(q, n) = build_run_plan(q)
  BY DEF Text
<1>5. q.verb \in {"stop", "off"} => Text(q, n) = <<Name(q.verb)>>
  BY DEF Text
<1>6. Written(q, n) =>
        build_start_auto(q, n) = <<Name("auto"), <<Part("", q.n, q.unit)>>, Parts(q.steps)>>
  BY Concatenated DEF build_start_auto, Written
<1>7. ~Written(q, n) => build_start_auto(q, n) = <<Name("auto"), <<Part("", q.n, q.unit)>>>>
  BY Concatenated DEF build_start_auto, Written
<1>8. QED
  BY <1>1, <1>2, <1>3, <1>4, <1>5, <1>6, <1>7, Zenon DEF build_run_plan

\* A text tells the verb.
LEMMA TextTellsVerb ==
  ASSUME NEW q, NEW r, NEW n, q.verb \in Actions, r.verb \in Actions, Text(q, n) = Text(r, n)
  PROVE  q.verb = r.verb
<1>1. ASSUME NEW x, x.verb \in Actions PROVE Text(x, n)[1][1].mark = FirstMark(x.verb)
  <2>1. \A s : Name(s)[1].mark = s
    BY DEF Name, Part
  <2>2. \E a, b : \/ Text(x, n) = <<Name(FirstMark(x.verb))>>
                  \/ Text(x, n) = <<Name(FirstMark(x.verb)), a>>
                  \/ Text(x, n) = <<Name(FirstMark(x.verb)), a, b>>
    <3>1. x.verb \in {"set", "auto", "plan", "stop", "off", "offset"}
      BY <1>1 DEF Actions
    <3>2. x.verb = "set" => FirstMark(x.verb) = "set"
      BY DEF FirstMark
    <3>3. x.verb = "offset" => FirstMark(x.verb) = "angle_offset="
      BY DEF FirstMark
    <3>4. x.verb = "auto" => FirstMark(x.verb) = "auto"
      BY DEF FirstMark
    <3>5. x.verb = "plan" => FirstMark(x.verb) = "plan"
      BY DEF FirstMark
    <3>6. x.verb \in {"stop", "off"} => FirstMark(x.verb) = x.verb
      BY DEF FirstMark
    <3>7. QED
      BY <1>1, <3>1, <3>2, <3>3, <3>4, <3>5, <3>6, TextOfVerb, ZenonT(30)
  <2>3. Text(x, n)[1] = Name(FirstMark(x.verb))
    BY <2>2
  <2>4. QED
    BY <2>1, <2>3
<1>2. FirstMark(q.verb) = FirstMark(r.verb)
  BY <1>1
<1>3. QED
  BY <1>2 DEF FirstMark, Actions

LEMMA StepOfType ==
  ASSUME NEW x \in StepType
  PROVE  /\ x.kind \in {"input", "delay"} /\ x.n \in Int /\ x.unit \in Units
         /\ x = [kind |-> x.kind, n |-> x.n, unit |-> x.unit]
BY DEF StepType

\* What a part makes of a step.
MarkOf(x) == IF x.kind = "delay" THEN "s" ELSE ""

LEMMA PartsByPlace ==
  ASSUME NEW steps \in Seq(StepType)
  PROVE  /\ Parts(steps) \in Seq(PartType) /\ Len(Parts(steps)) = Len(steps)
         /\ \A i \in 1..Len(steps) :
              Parts(steps)[i] = Part(MarkOf(steps[i]), steps[i].n, steps[i].unit)
<1>1. DOMAIN steps = 1..Len(steps) /\ Len(steps) \in Nat
  OBVIOUS
<1>2. \A i \in 1..Len(steps) : steps[i] \in StepType
  OBVIOUS
<1>3. ASSUME NEW i \in 1..Len(steps)
      PROVE  /\ Parts(steps)[i] = Part(MarkOf(steps[i]), steps[i].n, steps[i].unit)
             /\ Parts(steps)[i] \in PartType
  <2>1. Parts(steps)[i] = Part(MarkOf(steps[i]), steps[i].n, steps[i].unit)
    BY <1>1 DEF Parts, MarkOf
  <2>2. MarkOf(steps[i]) \in Marks
    BY DEF MarkOf, Marks
  <2>3. steps[i].n \in Int /\ steps[i].unit \in Units
    BY <1>2, StepOfType
  <2>4. QED
    BY <2>1, <2>2, <2>3, PartIsPart
<1>4. DOMAIN Parts(steps) = 1..Len(steps)
  BY <1>1 DEF Parts
<1>5. Parts(steps) \in [1..Len(steps) -> PartType]
  BY <1>1, <1>3 DEF Parts
<1>6. QED
  BY <1>1, <1>3, <1>5, SeqByPlace

\* The parts tell the steps.
LEMMA PartsTell ==
  ASSUME NEW s \in Seq(StepType), NEW t \in Seq(StepType), Parts(s) = Parts(t)
  PROVE  s = t
<1>1. Len(s) = Len(t)
  BY PartsByPlace
<1>2. ASSUME NEW i \in 1..Len(s) PROVE s[i] = t[i]
  <2>1. s[i] \in StepType /\ t[i] \in StepType
    BY <1>1
  <2>2. Part(MarkOf(s[i]), s[i].n, s[i].unit) = Part(MarkOf(t[i]), t[i].n, t[i].unit)
    BY <1>1, PartsByPlace
  <2>3. MarkOf(s[i]) = MarkOf(t[i]) /\ s[i].n = t[i].n /\ s[i].unit = t[i].unit
    BY <2>1, <2>2, StepOfType, PartTells
  <2>4. s[i].kind = t[i].kind
    BY <2>1, <2>3, StepOfType DEF MarkOf
  <2>5. QED
    BY <2>1, <2>3, <2>4, StepOfType, Zenon
<1>3. QED
  BY <1>1, <1>2, SeqEqual

LEMMA NameIsField ==
  ASSUME NEW mark \in Marks
  PROVE  /\ Name(mark) \in Seq(PartType) /\ Len(Name(mark)) = 1
         /\ Name(mark)[1] = Part(mark, 0, "ms") /\ Name(mark)[1].mark = mark
<1>1. Part(mark, 0, "ms") \in PartType
  BY PartIsPart DEF Units
<1>2. Part(mark, 0, "ms").mark = mark
  BY DEF Part
<1>3. QED
  BY <1>1, <1>2 DEF Name

\* The mark of a repetition stands behind the steps, and no step has it.
LEMMA RepeatStandsBehind ==
  ASSUME NEW s \in Seq(StepType)
  PROVE  LET X == Parts(s) \o Name("r")
         IN  /\ X \in Seq(PartType) /\ Len(X) = Len(s) + 1 /\ X[Len(s) + 1].mark = "r"
             /\ \A i \in 1..Len(s) : X[i] = Parts(s)[i] /\ Parts(s)[i].mark # "r"
<1> DEFINE X == Parts(s) \o Name("r")
<1>1. "r" \in Marks
  BY DEF Marks
<1>2. /\ Name("r") \in Seq(PartType) /\ Len(Name("r")) = 1 /\ Name("r")[1].mark = "r"
  BY <1>1, NameIsField
<1>3. Parts(s) \in Seq(PartType) /\ Len(Parts(s)) = Len(s) /\ Len(s) \in Nat
  BY PartsByPlace
<1>4. /\ X \in Seq(PartType) /\ Len(X) = Len(Parts(s)) + Len(Name("r"))
      /\ \A i \in 1..Len(Parts(s)) + Len(Name("r")) :
           X[i] = IF i <= Len(Parts(s)) THEN Parts(s)[i] ELSE Name("r")[i - Len(Parts(s))]
  BY <1>2, <1>3, ConcatProperties, Zenon
<1> HIDE DEF X
<1>5. Len(X) = Len(s) + 1
  BY <1>2, <1>3, <1>4
<1>6. X[Len(s) + 1] = Name("r")[1]
  BY <1>2, <1>3, <1>4, SMTT(30)
<1>7. \A i \in 1..Len(s) : X[i] = Parts(s)[i]
  BY <1>2, <1>3, <1>4
<1>8. ASSUME NEW i \in 1..Len(s) PROVE Parts(s)[i].mark # "r"
  <2>1. Parts(s)[i] = Part(MarkOf(s[i]), s[i].n, s[i].unit)
    BY PartsByPlace
  <2>2. Parts(s)[i].mark = MarkOf(s[i])
    <3>1. \A m, n, u : Part(m, n, u).mark = m
      BY DEF Part
    <3>2. QED
      BY <2>1, <3>1
  <2>3. QED
    BY <2>2 DEF MarkOf
<1>9. QED
  BY <1>2, <1>4, <1>5, <1>6, <1>7, <1>8, Zenon DEF X

\* The field of a plan with its repetition.
PlanField(steps, repeat) == Parts(steps) \o (IF repeat THEN Name("r") ELSE <<>>)

LEMMA PlanByRepeat ==
  ASSUME NEW s \in Seq(StepType)
  PROVE  /\ PlanField(s, TRUE) = Parts(s) \o Name("r")
         /\ PlanField(s, FALSE) = Parts(s)
<1>1. Parts(s) \in Seq(PartType)
  BY PartsByPlace
<1>2. Parts(s) \o <<>> = Parts(s)
  BY <1>1, ConcatEmptySeq
<1>3. QED
  BY <1>2 DEF PlanField

LEMMA RepeatTells ==
  ASSUME NEW s \in Seq(StepType), NEW t \in Seq(StepType)
  PROVE  PlanField(s, TRUE) # PlanField(t, FALSE)
<1> SUFFICES ASSUME PlanField(s, TRUE) = PlanField(t, FALSE) PROVE FALSE
  OBVIOUS
<1> DEFINE X == Parts(s) \o Name("r")
<1>1. X = Parts(t)
  BY PlanByRepeat
<1>2. Len(X) = Len(s) + 1 /\ X[Len(s) + 1].mark = "r"
  BY RepeatStandsBehind
<1>3. Len(X) = Len(t) /\ Len(s) \in Nat /\ Len(t) \in Nat
  BY <1>1, PartsByPlace
<1> HIDE DEF X
<1>4. Len(s) + 1 \in 1..Len(t)
  BY <1>2, <1>3
<1>5. Parts(t)[Len(s) + 1].mark # "r"
  BY <1>4, RepeatStandsBehind
<1>6. QED
  BY <1>1, <1>2, <1>5

LEMMA PlanTells ==
  ASSUME NEW s \in Seq(StepType), NEW t \in Seq(StepType), NEW a \in BOOLEAN, NEW b \in BOOLEAN,
         PlanField(s, a) = PlanField(t, b)
  PROVE  s = t /\ a = b
<1>1. CASE a = FALSE /\ b = FALSE
  BY <1>1, PlanByRepeat, PartsTell
<1>2. CASE a = TRUE /\ b = TRUE
  <2> DEFINE X == Parts(s) \o Name("r")
             Y == Parts(t) \o Name("r")
  <2>1. X = Y
    BY <1>2, PlanByRepeat
  <2>2. Len(X) = Len(s) + 1 /\ \A i \in 1..Len(s) : X[i] = Parts(s)[i]
    BY RepeatStandsBehind
  <2>3. Len(Y) = Len(t) + 1 /\ \A i \in 1..Len(t) : Y[i] = Parts(t)[i]
    BY RepeatStandsBehind
  <2> HIDE DEF X, Y
  <2>4. Len(s) \in Nat /\ Len(t) \in Nat
    OBVIOUS
  <2>5. Len(s) = Len(t)
    BY <2>1, <2>2, <2>3, <2>4
  <2>6. \A i \in 1..Len(s) : Parts(s)[i] = Parts(t)[i]
    BY <2>1, <2>2, <2>3, <2>5
  <2>7. /\ Parts(s) \in Seq(PartType) /\ Len(Parts(s)) = Len(s)
        /\ Parts(t) \in Seq(PartType) /\ Len(Parts(t)) = Len(t)
    BY PartsByPlace
  <2>8. Parts(s) = Parts(t)
    BY <2>5, <2>6, <2>7, SeqEqual
  <2>9. QED
    BY <1>2, <2>8, PartsTell
<1>3. CASE a = TRUE /\ b = FALSE
  BY <1>3, RepeatTells, Zenon
<1>4. CASE a = FALSE /\ b = TRUE
  BY <1>4, RepeatTells, Zenon
<1>5. QED
  BY <1>1, <1>2, <1>3, <1>4

\* Two requests with one text mean the same to a board of n inputs.
LEMMA TextTells ==
  ASSUME NEW q \in Requests, NEW r \in Requests, NEW n,
         q.verb \in Actions, r.verb \in Actions, Text(q, n) = Text(r, n)
  PROVE  Means(q, n) = Means(r, n)
<1>1. q.verb = r.verb
  BY TextTellsVerb
<1>2. ASSUME NEW x \in Requests
      PROVE  /\ x = [verb |-> x.verb, n |-> x.n, unit |-> x.unit, steps |-> x.steps,
                     repeat |-> x.repeat]
             /\ x.unit \in Units /\ x.steps \in Seq(StepType) /\ x.repeat \in BOOLEAN
             /\ x.verb \notin {"set", "auto", "offset"} => x.n = 0
             /\ x.verb # "auto" => x.unit = "ms"
             /\ x.verb \notin {"auto", "plan"} => x.steps = <<>>
             /\ x.verb # "plan" => x.repeat = FALSE
  BY DEF Requests, RequestType
<1>3. ASSUME q.n = r.n, q.unit = r.unit, q.steps = r.steps, q.repeat = r.repeat
      PROVE  Means(q, n) = Means(r, n)
  <2>1. q = r
    BY <1>1, <1>2, <1>3, Zenon
  <2>2. QED
    BY <2>1
<1>4. CASE q.verb \in {"set", "offset"}
  <2>1. PICK m : /\ Text(q, n) = <<m, <<Part("", q.n, "ms")>>>>
                 /\ Text(r, n) = <<m, <<Part("", r.n, "ms")>>>>
    BY <1>1, <1>4, TextOfVerb, Zenon
  <2>2. Part("", q.n, "ms") = Part("", r.n, "ms")
    <3>1. <<m, <<Part("", q.n, "ms")>>>> = <<m, <<Part("", r.n, "ms")>>>>
      BY <2>1, Zenon
    <3>2. QED
      BY <3>1
  <2>3. q.n = r.n
    BY <2>2 DEF Part
  <2>4. q.verb # "auto" /\ q.verb # "plan"
    BY <1>4
  <2>5. QED
    BY <1>1, <1>2, <1>3, <2>3, <2>4, Zenon
<1>5. CASE q.verb = "plan"
  <2>1. /\ Text(q, n) = <<Name("plan"), PlanField(q.steps, q.repeat)>>
        /\ Text(r, n) = <<Name("plan"), PlanField(r.steps, r.repeat)>>
    BY <1>1, <1>5, TextOfVerb, Zenon DEF PlanField
  <2>2. PlanField(q.steps, q.repeat) = PlanField(r.steps, r.repeat)
    <3>1. <<Name("plan"), PlanField(q.steps, q.repeat)>>
            = <<Name("plan"), PlanField(r.steps, r.repeat)>>
      BY <2>1, Zenon
    <3>2. QED
      BY <3>1
  <2>3. q.steps = r.steps /\ q.repeat = r.repeat
    <3>1. /\ q.steps \in Seq(StepType) /\ q.repeat \in BOOLEAN
          /\ r.steps \in Seq(StepType) /\ r.repeat \in BOOLEAN
      BY <1>2, Zenon
    <3>2. QED
      BY <2>2, <3>1, PlanTells
  <2>4. q.verb \notin {"set", "auto", "offset"} /\ q.verb # "auto"
    BY <1>5
  <2>5. QED
    BY <1>1, <1>2, <1>3, <2>3, <2>4, Zenon
<1>6. CASE q.verb \in {"stop", "off"}
  <2>1. q.verb \notin {"set", "auto", "offset"} /\ q.verb \notin {"auto", "plan"}
        /\ q.verb # "auto" /\ q.verb # "plan"
    BY <1>6
  <2>2. QED
    BY <1>1, <1>2, <1>3, <2>1, Zenon
<1>7. CASE q.verb = "auto"
  <2>1. ASSUME NEW x \in Requests, x.verb = "auto"
        PROVE  /\ Written(x, n) =>
                    Text(x, n) = <<Name("auto"), <<Part("", x.n, x.unit)>>, Parts(x.steps)>>
               /\ ~Written(x, n) => Text(x, n) = <<Name("auto"), <<Part("", x.n, x.unit)>>>>
    <3>1. x.verb \in Actions
      BY <2>1 DEF Actions
    <3>2. QED
      BY <2>1, <3>1, TextOfVerb, Zenon
  <2>2. r.verb = "auto"
    BY <1>1, <1>7
  <2> DEFINE A(x) == <<Part("", x.n, x.unit)>>
  <2>3. Written(q, n) <=> Written(r, n)
    <3>1. \A a, b, c, d, e : <<a, b, c>> # <<d, e>>
      OBVIOUS
    <3>2. QED
      BY <1>7, <2>1, <2>2, <3>1, Zenon
  <2>4. A(q) = A(r) /\ (Written(q, n) => Parts(q.steps) = Parts(r.steps))
    <3>1. CASE Written(q, n)
      <4>1. <<Name("auto"), A(q), Parts(q.steps)>> = <<Name("auto"), A(r), Parts(r.steps)>>
        BY <1>7, <2>1, <2>2, <2>3, <3>1, Zenon
      <4> HIDE DEF A
      <4>2. QED
        BY <4>1
    <3>2. CASE ~Written(q, n)
      <4>1. <<Name("auto"), A(q)>> = <<Name("auto"), A(r)>>
        BY <1>7, <2>1, <2>2, <2>3, <3>2, Zenon
      <4> HIDE DEF A
      <4>2. QED
        BY <3>2, <4>1
    <3>3. QED
      BY <3>1, <3>2
  <2>5. Part("", q.n, q.unit) = Part("", r.n, r.unit)
    BY <2>4
  <2>6. q.n = r.n /\ q.unit = r.unit
    <3>1. q.unit \in Units /\ r.unit \in Units
      BY <1>2, Zenon
    <3>2. q.n = r.n /\ (q.unit = "us" <=> r.unit = "us")
      BY <2>5 DEF Part
    <3>3. QED
      BY <3>1, <3>2 DEF Units
  <2>7. q.repeat = r.repeat
    BY <1>2, <1>7, <2>2, "auto" # "plan", Zenon
  <2>8. CASE Written(q, n)
    <3>1. q.steps = r.steps
      BY <1>2, <2>4, <2>8, PartsTell
    <3>2. QED
      BY <1>3, <2>6, <2>7, <3>1
  <2>9. CASE ~Written(q, n)
    <3>1. ASSUME NEW x \in Requests, x.verb = "auto", ~Written(x, n)
          PROVE  Means(x, n) = [verb |-> x.verb, n |-> x.n, unit |-> x.unit,
                                steps |-> AllInputs(n), repeat |-> x.repeat]
      <4>1. x.steps = <<>> \/ x.steps = AllInputs(n)
        BY <3>1 DEF Written, covers_all_in_order
      <4>2. CASE x.steps = <<>>
        <5>1. Means(x, n) = [x EXCEPT !.steps = AllInputs(n)]
          BY <3>1, <4>2 DEF Means
        <5>2. QED
          BY <1>2, <5>1
      <4>3. CASE x.steps # <<>> /\ x.steps = AllInputs(n)
        BY <1>2, <3>1, <4>3, Zenon DEF Means
      <4>4. QED
        BY <4>1, <4>2, <4>3
    <3>2. QED
      BY <1>1, <1>7, <2>2, <2>3, <2>6, <2>7, <2>9, <3>1
  <2>10. QED
    BY <2>8, <2>9
<1>8. QED
  BY <1>4, <1>5, <1>6, <1>7 DEF Actions

\* A text is fields of parts.
LEMMA TextIsFields ==
  ASSUME NEW q \in Requests, NEW n, q.verb \in Actions
  PROVE  Text(q, n) \in Seq(Seq(PartType))
<1>1. q.n \in Int /\ q.unit \in Units /\ q.steps \in Seq(StepType) /\ q.repeat \in BOOLEAN
  BY DEF Requests, RequestType
<1>2. /\ {"set", "auto", "plan", "stop", "off", "angle_offset=", "r", ""} \subseteq Marks
      /\ "ms" \in Units
  BY DEF Marks, Actions, Units
<1>3. \A mark \in Marks : Name(mark) \in Seq(PartType)
  BY NameIsField
<1>4. \A u \in Units : <<Part("", q.n, u)>> \in Seq(PartType)
  <2>1. \A u \in Units : Part("", q.n, u) \in PartType
    BY <1>1, <1>2, PartIsPart
  <2>2. \A part \in PartType : <<part>> \in Seq(PartType)
    OBVIOUS
  <2>3. QED
    BY <2>1, <2>2, Zenon
<1>5. Parts(q.steps) \in Seq(PartType) /\ PlanField(q.steps, q.repeat) \in Seq(PartType)
  <2>1. PlanField(q.steps, TRUE) \in Seq(PartType) /\ PlanField(q.steps, FALSE) \in Seq(PartType)
    BY <1>1, PartsByPlace, PlanByRepeat, RepeatStandsBehind
  <2>2. QED
    BY <1>1, <2>1, PartsByPlace
<1>6. \A a, b, c \in Seq(PartType) :
        /\ <<a>> \in Seq(Seq(PartType)) /\ <<a, b>> \in Seq(Seq(PartType))
        /\ <<a, b, c>> \in Seq(Seq(PartType))
  OBVIOUS
<1>7. CASE q.verb = "set"
  <2>1. Text(q, n) = <<Name("set"), <<Part("", q.n, "ms")>>>>
    BY <1>7, TextOfVerb
  <2>2. QED
    BY <1>2, <1>3, <1>4, <1>6, <2>1, Zenon
<1>8. CASE q.verb = "offset"
  <2>1. Text(q, n) = <<Name("angle_offset="), <<Part("", q.n, "ms")>>>>
    BY <1>8, TextOfVerb
  <2>2. QED
    BY <1>2, <1>3, <1>4, <1>6, <2>1, Zenon
<1>9. CASE q.verb = "auto"
  <2>1. \/ Text(q, n) = <<Name("auto"), <<Part("", q.n, q.unit)>>, Parts(q.steps)>>
        \/ Text(q, n) = <<Name("auto"), <<Part("", q.n, q.unit)>>>>
    BY <1>9, TextOfVerb
  <2>2. QED
    BY <1>1, <1>2, <1>3, <1>4, <1>5, <1>6, <2>1, ZenonT(30)
<1>10. CASE q.verb = "plan"
  <2>1. Text(q, n) = <<Name("plan"), PlanField(q.steps, q.repeat)>>
    BY <1>10, TextOfVerb DEF PlanField
  <2>2. QED
    BY <1>2, <1>3, <1>5, <1>6, <2>1, Zenon
<1>11. CASE q.verb \in {"stop", "off"}
  <2>1. Text(q, n) = <<Name(q.verb)>> /\ q.verb \in Marks
    BY <1>2, <1>11, TextOfVerb
  <2>2. QED
    BY <1>3, <1>6, <2>1, Zenon
<1>12. QED
  BY <1>7, <1>8, <1>9, <1>10, <1>11 DEF Actions

-----------------------------------------------------------------------------
(* Requests and texts over a session *)

LEMMA NothingAsked == NoRequest \in Requests /\ <<>> \in Seq(Seq(PartType))
BY DEF NoRequest, Requests, RequestType, Units

LEMMA ShapesAreShapes ==
  ASSUME HeardInv
  PROVE  [c \in Channels |-> Published(c)] \in [Channels -> ShapeType]
<1>1. ASSUME NEW c \in Channels PROVE Published(c) \in ShapeType
  <2>1. board[c].inputs \in Nat
    BY BoardWord DEF HeardInv
  <2>2. Published(c).inputCount \in Nat \ {0}
    BY <2>1 DEF Published
  <2>3. Published(c).features \in Words
    BY PublishedWord
  <2>4. QED
    BY <2>2, <2>3 DEF Published, ShapeType
<1>2. QED
  BY <1>1

LEMMA LegacyShape == legacy \in ShapeType
BY LegacyWord DEF legacy, ShapeType

LEMMA AdoptIsShape ==
  ASSUME HeardInv, NEW s \in ShapeType, NEW c \in Channels, NEW field \in CapsFields
  PROVE  Adopt(s, board[c], field) \in ShapeType
<1>1. /\ parse_feature_flags(board[c].text) \in Words \cup {nullopt}
      /\ board[c].inputs \in Nat
  BY BoardWord DEF HeardInv
<1>2. CASE field = "capsInputCount"
  BY <1>1, <1>2 DEF Adopt, ShapeType
<1>3. CASE field = "capsFeatures"
  BY <1>1, <1>3 DEF Adopt, ShapeType
<1>4. QED
  BY <1>2, <1>3 DEF CapsFields

LEMMA TypeInit == Init => TypeOK
<1> SUFFICES ASSUME Init PROVE TypeOK
  OBVIOUS
<1>1. [c \in Channels |-> legacy] \in [Channels -> ShapeType]
  BY LegacyShape
<1>2. sent \in Seq(Seq(PartType)) /\ request \in Requests
  BY NothingAsked DEF Init
<1>3. stage \in {"shell", "connect"} /\ form \in {"cli", "repl"}
  BY DEF Init
<1>4. DOMAIN shown \in SUBSET Channels
  BY DEF Init, NoShapes
<1>5. QED
  BY <1>1, <1>2, <1>3, <1>4 DEF Init, TypeOK, PartType

LEMMA TypeStep == TypeOK /\ HeardInv /\ [Next]_vars => TypeOK'
<1> SUFFICES ASSUME TypeOK, HeardInv, [Next]_vars PROVE TypeOK'
  OBVIOUS
<1>1. caps \in [Channels -> ShapeType]
  BY DEF TypeOK
<1>2. CASE UNCHANGED vars
  BY <1>2 DEF TypeOK, vars, lineVars, boardVars, endVars
<1>3. ASSUME NEW l \in CliLines, Run(l) PROVE TypeOK'
  <2>1. request' \in Requests
    BY <1>3, CliReads DEF Run, TypeOK
  <2>2. stage' \in {"connect", "exited"} /\ outcome' \in {outcome, "invalid"} /\ line' = l
    BY <1>3 DEF Run
  <2>3. QED
    BY <1>1, <1>3, <2>1, <2>2 DEF Run, TypeOK, boardVars
<1>4. ASSUME NEW l \in ReplLines, Enter(l) PROVE TypeOK'
  <2>1. request' \in Requests
    BY <1>4, ReplReads DEF Enter, TypeOK
  <2>2. stage' \in {"act", "done"} /\ outcome' \in {outcome, "invalid"} /\ line' = l
    BY <1>4 DEF Enter
  <2>3. QED
    BY <1>1, <1>4, <2>1, <2>2 DEF Enter, TypeOK, boardVars
<1>5. ASSUME NEW l \in ReplLines, SwitchChannel(l) PROVE TypeOK'
  <2>1. target' \in Channels /\ outcome' \in {"none", "invalid"}
    BY <1>5 DEF SwitchChannel, TypeOK
  <2>2. QED
    BY <1>1, <1>5, <2>1 DEF SwitchChannel, TypeOK, boardVars
<1>6. CASE Connect
  BY <1>1, <1>6 DEF Connect, TypeOK, lineVars, boardVars, endVars
<1>7. CASE Act
  <2>1. shape' \in [Channels -> ShapeType]
    BY <1>7, ShapesAreShapes DEF Act
  <2>2. sent' \in Seq(Seq(PartType))
    <3>1. request.verb \in Actions => Text(request, caps[target].inputCount) \in Seq(Seq(PartType))
      BY TextIsFields DEF TypeOK
    <3>2. sent \in Seq(Seq(PartType))
      BY DEF TypeOK, PartType
    <3>3. QED
      BY <1>7, <3>1, <3>2 DEF Act
  <2>3. DOMAIN shown' \in SUBSET Channels
    BY <1>7 DEF Act, TypeOK
  <2>4. stage' \in {"exited", "done"} /\ outcome' \in {"sent", "shown", "refused"}
    BY <1>7 DEF Act
  <2>5. QED
    BY <1>1, <1>7, <2>1, <2>2, <2>3, <2>4 DEF Act, TypeOK, lineVars, boardVars, PartType
<1>8. CASE Reprompt
  <2>1. shape' \in [Channels -> ShapeType]
    BY <1>8, LegacyShape DEF Reprompt
  <2>2. sent' \in Seq(Seq(PartType)) /\ request' \in Requests
    BY <1>8, NothingAsked DEF Reprompt
  <2>3. DOMAIN shown' \in SUBSET Channels
    BY <1>8 DEF Reprompt, NoShapes
  <2>4. QED
    BY <1>1, <1>8, <2>1, <2>2, <2>3 DEF Reprompt, TypeOK, boardVars, PartType
<1>9. CASE Exited
  BY <1>2, <1>9 DEF Exited
<1>10. ASSUME NEW c \in Channels, NEW field \in CapsFields, Hear(c, field) PROVE TypeOK'
  <2>1. <<c, field>> \in Channels \X CapsFields
    OBVIOUS
  <2>2. heard' \subseteq Channels \X CapsFields
    BY <1>10, <2>1, Zenon DEF Hear, TypeOK
  <2>3. caps' \in [Channels -> ShapeType]
    <3>1. Adopt(caps[c], board[c], field) \in ShapeType
      BY <1>1, AdoptIsShape
    <3>2. QED
      BY <1>1, <1>10, <3>1 DEF Hear
  <2>4. QED
    BY <1>10, <2>2, <2>3 DEF Hear, TypeOK, lineVars, endVars
<1>11. QED
  BY <1>2, <1>3, <1>4, <1>5, <1>6, <1>7, <1>8, <1>9, <1>10 DEF Next

\* What was sent is the text of the request, in the shape of its channel.
SentInv ==
  outcome = "sent" => /\ request.verb \in Actions
                      /\ sent = Text(request, shape[target].inputCount)

LEMMA SentStep == SentInv /\ HeardInv /\ LineInv /\ [Next]_vars => SentInv'
<1> SUFFICES ASSUME SentInv, HeardInv, LineInv, [Next]_vars PROVE SentInv'
  OBVIOUS
<1>1. ASSUME outcome' # "sent" PROVE SentInv'
  BY <1>1 DEF SentInv
<1>2. ASSUME UNCHANGED <<target, request, endVars>> PROVE SentInv'
  BY <1>2 DEF SentInv, endVars
<1>3. ASSUME NEW l \in CliLines, Run(l) PROVE SentInv'
  BY <1>1, <1>3 DEF Run, LineInv
<1>4. ASSUME NEW l \in ReplLines, Enter(l) PROVE SentInv'
  BY <1>1, <1>4 DEF Enter, LineInv
<1>5. ASSUME NEW l \in ReplLines, SwitchChannel(l) PROVE SentInv'
  BY <1>1, <1>5 DEF SwitchChannel, LineInv
<1>6. CASE Connect
  BY <1>2, <1>6 DEF Connect, lineVars
<1>7. CASE Act
  <2>1. target' = target /\ request' = request /\ shape' = [c \in Channels |-> Published(c)]
    BY <1>7 DEF Act, lineVars
  <2>2. caps[target] = shape'[target] /\ outcome = "none"
    BY <1>7, <2>1 DEF HeardInv, LineInv, Act
  <2>3. outcome' = "sent" => /\ request.verb \in Actions
                             /\ sent' = Text(request, caps[target].inputCount)
    BY <1>7 DEF Act
  <2>4. QED
    BY <2>1, <2>2, <2>3 DEF SentInv
<1>8. CASE Reprompt
  BY <1>1, <1>8 DEF Reprompt
<1>9. CASE UNCHANGED vars
  BY <1>2, <1>9 DEF vars, lineVars
<1>10. CASE Exited
  BY <1>9, <1>10 DEF Exited
<1>11. ASSUME NEW c \in Channels, NEW field \in CapsFields, Hear(c, field) PROVE SentInv'
  BY <1>2, <1>11 DEF Hear, lineVars
<1>12. QED
  BY <1>3, <1>4, <1>5, <1>6, <1>7, <1>8, <1>9, <1>10, <1>11 DEF Next

LEMMA SessionAlways == Spec => [](TypeOK /\ HeardInv /\ LineInv /\ SentInv)
<1>1. Init => TypeOK /\ HeardInv /\ LineInv /\ SentInv
  <2>1. Init => SentInv
    BY DEF Init, SentInv
  <2>2. QED
    BY <2>1, TypeInit, HeardInit, LineInit
<1>2. TypeOK /\ HeardInv /\ LineInv /\ SentInv /\ [Next]_vars
        => (TypeOK /\ HeardInv /\ LineInv /\ SentInv)'
  BY TypeStep, HeardStep, LineStep, SentStep
<1>3. QED
  BY <1>1, <1>2, PTL DEF Spec

\* Whatever is typed: what the two parsers make of a line they accept is a request with
\* the operands of its verb and no others (run() in main.cpp, Session::process()), and
\* what goes out is fields of parts.
THEOREM TypeCorrect == Spec => []TypeOK
BY SessionAlways, PTL

\* The builders of texts (src/src/commands.cpp) write no two requests that mean
\* different things to a board as the same text, for boards of any number of inputs and
\* lists and plans of any length: a text can be taken for its request only.  An auto
\* cycle is written without a list exactly when that means all inputs in order.
THEOREM TextsTell == Spec => []TextTellsRequest
<1>1. TypeOK /\ SentInv => TextTellsRequest
  <2> SUFFICES ASSUME TypeOK, SentInv, outcome = "sent", NEW q \in Wishes, q.verb \in Actions,
                      Text(q, shape[target].inputCount) = sent
               PROVE  Means(q, shape[target].inputCount) = Means(request, shape[target].inputCount)
    BY DEF TextTellsRequest
  <2>1. q \in Requests
    BY WishesAssumption
  <2>2. request \in Requests
    BY DEF TypeOK
  <2>3. request.verb \in Actions /\ sent = Text(request, shape[target].inputCount)
    BY DEF SentInv
  <2>4. QED
    BY <2>1, <2>2, <2>3, TextTells
<1>2. QED
  BY <1>1, SessionAlways, PTL

-----------------------------------------------------------------------------
(* What is dropped and what is kept *)

\* What is left of w when the fillers are dropped.
Kept(w, fillers) == Keep(w, {p \in DOMAIN w : w[p] \notin fillers})

Increasing(f, m) == \A i, j \in 1..m : i < j => f[i] < f[j]
Rank(p, I) == Cardinality({j \in I : j <= p})

\* An enumeration in order gives each place its rank.
LEMMA Ranks ==
  ASSUME NEW N \in Nat, NEW I \in SUBSET (1..N), NEW m \in Nat, NEW f \in [1..m -> I],
         Increasing(f, m), \A p \in I : \E i \in 1..m : f[i] = p
  PROVE  Cardinality(I) = m /\ \A k \in 1..m : Rank(f[k], I) = k
<1> USE DEF Increasing
<1>1. \A p \in I : p \in Nat
  OBVIOUS
<1>2. \A i, j \in 1..m : f[i] = f[j] => i = j
  <2>1. SUFFICES ASSUME NEW i \in 1..m, NEW j \in 1..m, f[i] = f[j], i < j PROVE FALSE
    OBVIOUS
  <2>2. f[i] < f[j] /\ f[i] \in Nat
    BY <1>1, <2>1
  <2>3. QED
    BY <2>1, <2>2
<1>3. Cardinality(I) = m
  <2>1. f \in Bijection(1..m, I)
    BY <1>2 DEF Bijection, Injection, Surjection, IsInjective
  <2>2. IsFiniteSet(1..m) /\ Cardinality(1..m) = m
    BY FS_Interval
  <2>3. QED
    BY <2>1, <2>2, FS_Bijection DEF ExistsBijection
<1>4. ASSUME NEW k \in 1..m PROVE Rank(f[k], I) = k
  <2> DEFINE L == {p \in I : p <= f[k]}
             g == [i \in 1..k |-> f[i]]
  <2>1. \A i \in 1..k : i \in 1..m /\ f[i] \in L
    <3>1. SUFFICES ASSUME NEW i \in 1..k PROVE i \in 1..m /\ f[i] <= f[k]
      OBVIOUS
    <3>2. i \in 1..m /\ (i = k \/ i < k)
      OBVIOUS
    <3>3. f[i] \in Nat /\ f[k] \in Nat
      BY <1>1, <3>2
    <3>4. QED
      BY <3>2, <3>3
  <2>2. ASSUME NEW p \in L PROVE \E i \in 1..k : f[i] = p
    <3>1. PICK i \in 1..m : f[i] = p
      BY <2>2
    <3>2. ~(k < i)
      <4>1. SUFFICES ASSUME k < i PROVE FALSE
        OBVIOUS
      <4>2. f[k] < f[i] /\ f[i] <= f[k] /\ f[i] \in Nat /\ f[k] \in Nat
        BY <1>1, <2>2, <3>1, <4>1
      <4>3. QED
        BY <4>2
    <3>3. i \in 1..k
      BY <3>2
    <3>4. QED
      BY <3>1, <3>3
  <2>3. g \in Bijection(1..k, L)
    <3>1. g \in [1..k -> L]
      BY <2>1
    <3>2. \A i, j \in 1..k : g[i] = g[j] => i = j
      BY <1>2, <2>1
    <3>3. \A p \in L : \E i \in 1..k : g[i] = p
      BY <2>2
    <3> HIDE DEF g, L
    <3>4. QED
      BY <3>1, <3>2, <3>3 DEF Bijection, Injection, Surjection, IsInjective
  <2>4. IsFiniteSet(1..k) /\ Cardinality(1..k) = k
    BY FS_Interval
  <2> HIDE DEF L, g
  <2>5. Cardinality(L) = k
    BY <2>3, <2>4, FS_Bijection DEF ExistsBijection
  <2>6. QED
    BY <2>5 DEF L, Rank
<1>5. QED
  BY <1>3, <1>4

\* The items that fillers were put between are what is left without the fillers.
LEMMA HeldIsKept ==
  ASSUME NEW S, NEW w \in Seq(S), NEW m \in Nat, NEW s, s = [i \in 1..m |-> s[i]], NEW fillers,
         Holds(w, s, fillers), \A i \in 1..m : s[i] \notin fillers
  PROVE  Kept(w, fillers) = s
<1> DEFINE I == {p \in DOMAIN w : w[p] \notin fillers}
<1>1. DOMAIN w = 1..Len(w) /\ Len(w) \in Nat /\ DOMAIN s = 1..m
  OBVIOUS
<1>2. PICK f \in [1..m -> DOMAIN w] :
        /\ \A i, j \in 1..m : i < j => f[i] < f[j]
        /\ \A i \in 1..m : w[f[i]] = s[i]
        /\ \A p \in DOMAIN w \ {f[i] : i \in 1..m} : w[p] \in fillers
  BY <1>1 DEF Holds
<1>3. f \in [1..m -> I] /\ \A p \in I : \E i \in 1..m : f[i] = p
  BY <1>2
<1>4. I \in SUBSET (1..Len(w))
  BY <1>1
<1> HIDE DEF I
<1>5. Cardinality(I) = m /\ \A k \in 1..m : Rank(f[k], I) = k
  <2>1. Increasing(f, m)
    BY <1>2 DEF Increasing
  <2>2. QED
    BY <1>1, <1>3, <1>4, <2>1, Ranks
<1>6. ASSUME NEW k \in 1..m PROVE w[CHOOSE p \in I : Rank(p, I) = k] = s[k]
  <2> DEFINE c == CHOOSE p \in I : Rank(p, I) = k
  <2>1. c \in I /\ Rank(c, I) = k
    BY <1>3, <1>5
  <2>2. PICK i \in 1..m : f[i] = c
    BY <1>3, <2>1
  <2>3. i = k
    BY <1>5, <2>1, <2>2
  <2>4. QED
    BY <1>2, <2>2, <2>3
<1>7. Keep(w, I) = [k \in 1..m |-> s[k]]
  BY <1>5, <1>6 DEF Keep, Rank
<1>8. QED
  BY <1>7 DEF Kept, I

\* And what is left has the fillers between its items.
LEMMA KeptIsHeld ==
  ASSUME NEW S, NEW w \in Seq(S), NEW fillers
  PROVE  /\ Holds(w, Kept(w, fillers), fillers)
         /\ Kept(w, fillers) \in Seq(S)
         /\ \A i \in DOMAIN Kept(w, fillers) : Kept(w, fillers)[i] \notin fillers
<1> DEFINE I == {p \in DOMAIN w : w[p] \notin fillers}
           Low(p) == {j \in I : j <= p}
           m == Cardinality(I)
           s == Keep(w, I)
           f == [k \in 1..m |-> CHOOSE p \in I : Cardinality(Low(p)) = k]
<1>1. DOMAIN w = 1..Len(w) /\ Len(w) \in Nat
  OBVIOUS
<1>2. I \in SUBSET (1..Len(w)) /\ I \in SUBSET DOMAIN w /\ \A p \in I : p \in Nat
  BY <1>1
<1> HIDE DEF I
<1>3. m \in Nat /\ \A k \in 1..m : \E p \in I : Cardinality(Low(p)) = k
  BY <1>1, <1>2, KthPlace
<1>4. \A k \in 1..m : f[k] \in I /\ Cardinality(Low(f[k])) = k
  BY <1>3
<1>5. s = [k \in 1..m |-> w[f[k]]]
  BY DEF Keep
<1>6. IsFiniteSet(I) /\ \A p \in I : IsFiniteSet(Low(p)) /\ Cardinality(Low(p)) \in 1..m
  <2>1. IsFiniteSet(1..Len(w))
    BY <1>1, FS_Interval
  <2>2. IsFiniteSet(I)
    BY <1>2, <2>1, FS_Subset
  <2>3. ASSUME NEW p \in I PROVE IsFiniteSet(Low(p)) /\ Cardinality(Low(p)) \in 1..m
    <3>1. Low(p) \in SUBSET I /\ p \in Low(p)
      BY <1>2
    <3>2. IsFiniteSet(Low(p)) /\ Cardinality(Low(p)) <= m
      BY <2>2, <3>1, FS_Subset
    <3>3. Cardinality(Low(p)) \in Nat /\ Cardinality(Low(p)) # 0
      BY <3>1, <3>2, FS_CardinalityType, FS_EmptySet
    <3> HIDE DEF Low, m
    <3>4. QED
      BY <1>3, <3>2, <3>3
  <2>4. QED
    BY <2>2, <2>3
<1>7. ASSUME NEW p \in I, NEW q \in I, p < q PROVE Cardinality(Low(p)) < Cardinality(Low(q))
  <2>1. p \in Nat /\ q \in Nat
    BY <1>2
  <2>2. Low(p) \in SUBSET Low(q)
    <3>1. SUFFICES ASSUME NEW j \in I, j <= p PROVE j <= q
      OBVIOUS
    <3>2. QED
      BY <1>2, <1>7, <2>1, <3>1
  <2>3. q \in Low(q) /\ q \notin Low(p)
    BY <1>7, <2>1
  <2>4. Cardinality(Low(p)) <= Cardinality(Low(q)) /\ Cardinality(Low(p)) # Cardinality(Low(q))
    <3>1. IsFiniteSet(Low(q)) /\ Low(p) # Low(q)
      BY <1>6, <2>3
    <3> HIDE DEF Low
    <3>2. QED
      BY <2>2, <3>1, FS_Subset
  <2>5. Cardinality(Low(p)) \in Nat /\ Cardinality(Low(q)) \in Nat
    BY <1>6, FS_CardinalityType
  <2> HIDE DEF Low
  <2>6. QED
    BY <2>4, <2>5
<1> HIDE DEF Low, m, f
<1>8. \A i, j \in 1..m : i < j => f[i] < f[j]
  <2>1. SUFFICES ASSUME NEW i \in 1..m, NEW j \in 1..m, i < j PROVE f[i] < f[j]
    OBVIOUS
  <2>2. f[i] \in I /\ f[j] \in I /\ f[i] \in Nat /\ f[j] \in Nat
    BY <1>2, <1>4
  <2>3. Cardinality(Low(f[i])) = i /\ Cardinality(Low(f[j])) = j
    BY <1>4
  <2>4. ~(f[j] < f[i])
    <3>1. SUFFICES ASSUME f[j] < f[i] PROVE FALSE
      OBVIOUS
    <3>2. j < i
      BY <1>7, <2>2, <2>3, <3>1
    <3>3. QED
      BY <1>3, <2>1, <3>2
  <2>5. f[i] # f[j]
    BY <1>3, <2>1, <2>3
  <2>6. QED
    BY <2>2, <2>4, <2>5
<1>9. \A p \in I : \E k \in 1..m : f[k] = p
  <2>1. SUFFICES ASSUME NEW p \in I PROVE f[Cardinality(Low(p))] = p
    BY <1>6
  <2> DEFINE k == Cardinality(Low(p))
  <2>2. k \in 1..m
    BY <1>6
  <2>3. f[k] \in I /\ Cardinality(Low(f[k])) = k
    BY <1>4, <2>2
  <2>4. ~(k < k)
    BY <1>3, <2>2
  <2>5. ~(f[k] < p) /\ ~(p < f[k])
    BY <1>7, <2>3, <2>4
  <2>6. f[k] \in Nat /\ p \in Nat
    BY <1>2, <2>3
  <2> HIDE DEF k
  <2>7. f[k] = p
    BY <2>5, <2>6
  <2>8. QED
    BY <2>7 DEF k
<1>10. DOMAIN s = 1..m /\ \A i \in 1..m : w[f[i]] = s[i]
  BY <1>5
<1>11. f \in [1..m -> DOMAIN w]
  BY <1>2, <1>4 DEF f
<1>12. \A p \in DOMAIN w \ {f[i] : i \in 1..m} : w[p] \in fillers
  BY <1>9 DEF I
<1>13. \A i \in 1..m : s[i] \notin fillers
  BY <1>4, <1>10 DEF I
<1>14. s \in Seq(S)
  BY <1>2, KeptIsSeq
<1>15. Kept(w, fillers) = s
  BY DEF Kept, I
<1> HIDE DEF s
<1>16. Holds(w, s, fillers)
  <2>1. f \in [DOMAIN s -> DOMAIN w]
    BY <1>10, <1>11
  <2>2. /\ \A i, j \in DOMAIN s : i < j => f[i] < f[j]
        /\ \A i \in DOMAIN s : w[f[i]] = s[i]
        /\ \A p \in DOMAIN w \ {f[i] : i \in DOMAIN s} : w[p] \in fillers
    BY <1>8, <1>10, <1>12
  <2>3. QED
    BY <2>1, <2>2, Zenon DEF Holds
<1>17. QED
  BY <1>10, <1>13, <1>14, <1>15, <1>16

-----------------------------------------------------------------------------
(* What the manual's spellings are read as *)

LEMMA OneOf ==
  ASSUME NEW S, NEW x \in S
  PROVE  <<x>> \in Seq(S) /\ <<x>>[1] = x
OBVIOUS

LEMMA OnlyOne ==
  ASSUME NEW S, NEW w \in Seq(S), Len(w) = 1
  PROVE  w = <<w[1]>> /\ w[1] \in S
OBVIOUS

LEMMA SeqPlaces ==
  ASSUME NEW S, NEW s \in Seq(S)
  PROVE  /\ Len(s) \in Nat /\ DOMAIN s = 1..Len(s)
         /\ s = [i \in DOMAIN s |-> s[i]] /\ \A i \in DOMAIN s : s[i] \in S
OBVIOUS

LEMMA ItemParts ==
  ASSUME NEW x \in ItemType
  PROVE  /\ x.n \in Int /\ x = [int |-> x.int, n |-> x.n, tail |-> x.tail]
         /\ x.int => x.int = TRUE
         /\ ~x.int => x.int = FALSE /\ x.n = 0
BY DEF ItemType

LEMMA NumeralParts ==
  ASSUME NEW n \in Int
  PROVE  /\ Numeral(n).int /\ Numeral(n).n = n /\ Numeral(n).tail = ""
         /\ Numeral(n) # Keyword("")[1]
<1>1. Numeral(n).int
  BY DEF Numeral
<1>2. Numeral(n).n = n /\ Numeral(n).tail = ""
  BY DEF Numeral
<1>3. ~Keyword("")[1].int
  BY DEF Keyword
<1>4. QED
  BY <1>1, <1>2, <1>3

\* An item with no integer and nothing behind it is blank, and the others are kept.
LEMMA ItemsAreKept ==
  ASSUME NEW w \in Seq(ItemType)
  PROVE  Items(w) = Kept(w, {Keyword("")[1]})
<1>1. \A x \in ItemType : x.int \/ x.tail # "" <=> x # Keyword("")[1]
  <2>1. SUFFICES ASSUME NEW x \in ItemType PROVE x.int \/ x.tail # "" <=> x # Keyword("")[1]
    OBVIOUS
  <2>2. Keyword("")[1] = [int |-> FALSE, n |-> 0, tail |-> ""]
    BY DEF Keyword
  <2>3. ~Keyword("")[1].int
    BY DEF Keyword
  <2>4. Keyword("")[1].tail = ""
    BY DEF Keyword
  <2>5. ASSUME ~x.int, x.tail = "" PROVE x = Keyword("")[1]
    BY <2>2, <2>5, ItemParts
  <2>6. QED
    BY <2>3, <2>4, <2>5
<1>2. \A i \in DOMAIN w : w[i] \in ItemType
  OBVIOUS
<1>3. {i \in DOMAIN w : w[i].int \/ w[i].tail # ""}
        = {i \in DOMAIN w : w[i] \notin {Keyword("")[1]}}
  BY <1>1, <1>2
<1>4. QED
  BY <1>3 DEF Items, Kept

\* A whole word is a numeral.
LEMMA WholeIsNumeral ==
  ASSUME NEW w \in Seq(ItemType), Whole(w)
  PROVE  Number(w) \in Int /\ w = <<Numeral(Number(w))>>
<1>1. Len(w) = 1 /\ w[1].tail = ""
  BY DEF Whole
<1>2. w[1].int
  BY DEF Whole
<1>3. w = <<w[1]>> /\ w[1] \in ItemType
  BY <1>1, OnlyOne
<1>4. w[1].n \in Int /\ w[1] = [int |-> TRUE, n |-> w[1].n, tail |-> ""]
  BY <1>1, <1>2, <1>3, ItemParts
<1>5. QED
  BY <1>3, <1>4 DEF Number, Numeral

LEMMA NumeralIsWhole ==
  ASSUME NEW n \in Int
  PROVE  LET w == <<Numeral(n)>> IN Whole(w) /\ Number(w) = n /\ Begins(w)
BY NumeralParts DEF Whole, Number, Begins

\* A list by the manual is read as its inputs.
LEMMA ListIsRead ==
  ASSUME NEW w \in Seq(ItemType), NEW steps, IsCycle(steps), IsList(w, steps)
  PROVE  IsInputs(w) /\ Inputs(w) = steps
<1> DEFINE s == [i \in DOMAIN steps |-> Numeral(steps[i].n)]
           m == Len(steps)
<1>1. m \in Nat /\ DOMAIN steps = 1..m /\ \A i \in 1..m : steps[i] \in StepType
  BY DEF IsCycle
<1>2. \A i \in 1..m : /\ steps[i].kind = "input" /\ steps[i].unit = "ms"
                      /\ steps[i].n >= 1
  BY <1>1 DEF IsCycle, IsList
<1>3. \A i \in 1..m : steps[i].n \in Int /\ steps[i] = InputStep(steps[i].n)
  BY <1>1, <1>2 DEF StepType, InputStep
<1>4. Holds(w, s, {Keyword("")[1]})
  BY DEF IsList
<1>5. s = [i \in 1..m |-> s[i]] /\ \A i \in 1..m : s[i] = Numeral(steps[i].n)
  BY <1>1
<1>6. \A i \in 1..m : s[i] \notin {Keyword("")[1]}
  BY <1>3, <1>5, NumeralParts
<1> HIDE DEF s, m
<1>7. Items(w) = s
  <2> DEFINE F == {Keyword("")[1]}
  <2>1. Holds(w, s, F) /\ \A i \in 1..m : s[i] \notin F
    BY <1>4, <1>6
  <2>2. m \in Nat /\ s = [i \in 1..m |-> s[i]]
    BY <1>1, <1>5
  <2> HIDE DEF F
  <2>3. Kept(w, F) = s
    BY <2>1, <2>2, HeldIsKept
  <2>4. QED
    BY <2>3, ItemsAreKept DEF F
<1>8. DOMAIN Items(w) = 1..m /\ \A i \in 1..m : Items(w)[i] = Numeral(steps[i].n)
  BY <1>5, <1>7
<1>9. IsInputs(w)
  <2>1. SUFFICES ASSUME NEW i \in 1..m PROVE Whole(<<Items(w)[i]>>) /\ Items(w)[i].n >= 1
    BY <1>8 DEF IsInputs
  <2>2. Items(w)[i].n = steps[i].n
    BY <1>3, <1>8, NumeralParts
  <2>3. Whole(<<Items(w)[i]>>)
    BY <1>3, <1>8, NumeralIsWhole
  <2>4. QED
    BY <1>2, <2>2, <2>3
<1>10. ASSUME NEW i \in 1..m PROVE InputStep(Items(w)[i].n) = steps[i]
  <2>1. Items(w)[i].n = steps[i].n
    BY <1>3, <1>8, NumeralParts
  <2>2. QED
    BY <1>3, <2>1
<1>11. Inputs(w) = [i \in 1..m |-> steps[i]]
  BY <1>8, <1>10 DEF Inputs
<1>12. steps = [i \in 1..m |-> steps[i]]
  BY <1>1 DEF IsCycle
<1>13. QED
  BY <1>9, <1>11, <1>12

\* And what is read as inputs is a list of them by the manual.
LEMMA ReadIsList ==
  ASSUME NEW w \in Seq(ItemType), IsInputs(w)
  PROVE  IsList(w, Inputs(w))
<1> DEFINE s == Items(w)
<1>1. s = Kept(w, {Keyword("")[1]})
  BY ItemsAreKept
<1> HIDE DEF s
<1>2. Holds(w, s, {Keyword("")[1]}) /\ s \in Seq(ItemType)
  BY <1>1, KeptIsHeld
<1>3. \A i \in DOMAIN s : s[i] \in ItemType /\ Whole(<<s[i]>>) /\ s[i].n >= 1
  <2>1. \A i \in DOMAIN s : Whole(<<s[i]>>) /\ s[i].n >= 1
    BY DEF IsInputs, s
  <2>2. QED
    BY <1>2, <2>1, SeqPlaces
<1>4. ASSUME NEW i \in DOMAIN s PROVE s[i] = Numeral(s[i].n)
  <2>1. <<s[i]>> \in Seq(ItemType) /\ <<s[i]>>[1] = s[i]
    BY <1>3, OneOf
  <2>2. <<s[i]>> = <<Numeral(s[i].n)>>
    BY <1>3, <2>1, WholeIsNumeral DEF Number
  <2>3. QED
    BY <2>2
<1>5. /\ DOMAIN Inputs(w) = DOMAIN s
      /\ \A i \in DOMAIN s : Inputs(w)[i] = InputStep(s[i].n)
  BY DEF Inputs, s
<1>6. \A i \in DOMAIN s : Inputs(w)[i].kind = "input" /\ Inputs(w)[i].n = s[i].n
  BY <1>5 DEF InputStep
<1>7. s = [i \in DOMAIN s |-> s[i]]
  BY <1>2, SeqPlaces
<1>8. [i \in DOMAIN Inputs(w) |-> Numeral(Inputs(w)[i].n)] = s
  BY <1>4, <1>5, <1>6, <1>7
<1>9. QED
  BY <1>2, <1>3, <1>5, <1>6, <1>8 DEF IsList

\* What parse_plan_steps() makes of one word, and whether it takes the word.
StepOf(w) == IF IsDelay(w) THEN DelayStep(w[1].n, w[1].tail) ELSE InputStep(Number(w))
IsStep(w) == IsDelay(w) \/ (Whole(w) /\ Number(w) >= 1)

LEMMA SpeltInput ==
  ASSUME NEW step, step.kind = "input"
  PROVE  Spelt(step) = <<Numeral(step.n)>>
<1>1. step.kind # "delay"
  OBVIOUS
<1>2. QED
  BY <1>1, Zenon DEF Spelt, Numeral

LEMMA SpeltDelay ==
  ASSUME NEW step, step.kind = "delay"
  PROVE  Spelt(step) = <<[int |-> TRUE, n |-> step.n, tail |-> step.unit]>>
<1>1. step.kind = "delay"
  OBVIOUS
<1>2. QED
  BY <1>1, Zenon DEF Spelt

LEMMA SpeltIsRead ==
  ASSUME NEW step \in StepType, step.kind = "input" => step.unit = "ms" /\ step.n >= 1
  PROVE  IsStep(Spelt(step)) /\ StepOf(Spelt(step)) = step
<1>1. step.n \in Int /\ step.kind \in {"input", "delay"} /\ step.unit \in Units
  BY DEF StepType
<1>2. step = [kind |-> step.kind, n |-> step.n, unit |-> step.unit]
  BY DEF StepType
<1>3. CASE step.kind = "input"
  <2>1. Spelt(step) = <<Numeral(step.n)>>
    BY <1>3, SpeltInput
  <2>2. Whole(Spelt(step)) /\ Number(Spelt(step)) = step.n
    BY <1>1, <2>1, NumeralIsWhole
  <2>3. ~IsDelay(Spelt(step))
    BY <2>2 DEF IsDelay, Whole, Units
  <2>4. InputStep(step.n) = step
    BY <1>2, <1>3 DEF InputStep
  <2>5. QED
    BY <1>3, <2>2, <2>3, <2>4 DEF IsStep, StepOf
<1>4. CASE step.kind = "delay"
  <2> DEFINE x == [int |-> TRUE, n |-> step.n, tail |-> step.unit]
  <2>1. Spelt(step) = <<x>>
    BY <1>4, SpeltDelay
  <2>2. x.int
    OBVIOUS
  <2>3. x.n = step.n /\ x.tail = step.unit
    OBVIOUS
  <2> HIDE DEF x
  <2>4. Spelt(step)[1] = x /\ Len(Spelt(step)) = 1
    BY <2>1
  <2>5. IsDelay(Spelt(step))
    BY <1>1, <2>2, <2>3, <2>4 DEF IsDelay
  <2>6. DelayStep(step.n, step.unit) = step
    BY <1>2, <1>4 DEF DelayStep
  <2>7. QED
    BY <2>3, <2>4, <2>5, <2>6 DEF IsStep, StepOf
<1>5. QED
  BY <1>1, <1>3, <1>4

LEMMA ReadIsSpelt ==
  ASSUME NEW w \in Seq(ItemType), IsStep(w)
  PROVE  w = Spelt(StepOf(w)) /\ (StepOf(w).kind = "input" => StepOf(w).n >= 1)
<1>1. CASE IsDelay(w)
  <2>1. Len(w) = 1 /\ w[1].tail \in Units
    BY <1>1 DEF IsDelay
  <2>2. w[1].int
    BY <1>1 DEF IsDelay
  <2>3. w = <<w[1]>> /\ w[1] \in ItemType
    BY <2>1, OnlyOne
  <2>4. w[1] = [int |-> TRUE, n |-> w[1].n, tail |-> w[1].tail]
    BY <2>2, <2>3, ItemParts
  <2>5. StepOf(w) = DelayStep(w[1].n, w[1].tail)
    BY <1>1 DEF StepOf
  <2>6. StepOf(w).kind = "delay" /\ StepOf(w).n = w[1].n /\ StepOf(w).unit = w[1].tail
    BY <2>5 DEF DelayStep
  <2>7. QED
    BY <2>3, <2>4, <2>6, SpeltDelay
<1>2. CASE ~IsDelay(w)
  <2>1. Whole(w) /\ Number(w) >= 1
    BY <1>2 DEF IsStep
  <2>2. w = <<Numeral(Number(w))>>
    BY <2>1, WholeIsNumeral
  <2>3. StepOf(w) = InputStep(Number(w))
    BY <1>2 DEF StepOf
  <2>4. StepOf(w).kind = "input" /\ StepOf(w).n = Number(w)
    BY <2>3 DEF InputStep
  <2>5. QED
    BY <2>1, <2>2, <2>4, SpeltInput
<1>3. QED
  BY <1>1, <1>2

LEMMA SpeltIsNoKeyword ==
  ASSUME NEW step \in StepType
  PROVE  Spelt(step) \notin {<<>>} /\ Spelt(step) \notin RepeatWords
<1>1. Len(Spelt(step)) = 1 /\ Spelt(step)[1].int
  <2>1. step.kind \in {"input", "delay"}
    BY DEF StepType
  <2>2. CASE step.kind = "input"
    <3>1. step.n \in Int
      BY DEF StepType
    <3>2. Spelt(step)[1] = Numeral(step.n) /\ Len(Spelt(step)) = 1
      BY <2>2, SpeltInput
    <3>3. Numeral(step.n).int
      BY <3>1, NumeralParts
    <3>4. QED
      BY <3>2, <3>3, Zenon
  <2>3. CASE step.kind = "delay"
    <3>1. [int |-> TRUE, n |-> step.n, tail |-> step.unit].int
      OBVIOUS
    <3>2. QED
      BY <2>3, <3>1, SpeltDelay
  <2>4. QED
    BY <2>1, <2>2, <2>3
<1>2. \A k \in RepeatWords : ~k[1].int
  BY DEF RepeatWords, Keyword
<1>3. QED
  BY <1>1, <1>2

\* A plan by the manual is read as its steps.
LEMMA TourIsRead ==
  ASSUME NEW ws \in Seq(Seq(ItemType)), NEW steps, IsPlanOf(steps), NEW fillers,
         IsTour(ws, steps, fillers),
         \A i \in DOMAIN steps : Spelt(steps[i]) \notin fillers
  PROVE  IsPlan(Kept(ws, fillers)) /\ Steps(Kept(ws, fillers)) = steps
<1> DEFINE s == [i \in DOMAIN steps |-> Spelt(steps[i])]
           m == Len(steps)
           K == Kept(ws, fillers)
<1>1. /\ m \in Nat /\ DOMAIN steps = 1..m /\ \A i \in 1..m : steps[i] \in StepType
      /\ steps = [i \in 1..m |-> steps[i]]
  BY DEF IsPlanOf
<1>2. /\ steps # <<>>
      /\ \A i \in 1..m : steps[i].kind = "input" => steps[i].unit = "ms" /\ steps[i].n >= 1
  BY <1>1 DEF IsPlanOf, IsTour
<1>3. Holds(ws, s, fillers)
  BY DEF IsTour
<1>4. s = [i \in 1..m |-> s[i]] /\ \A i \in 1..m : s[i] = Spelt(steps[i]) /\ s[i] \notin fillers
  BY <1>1
<1> HIDE DEF s, m
<1>5. K = s
  BY <1>1, <1>3, <1>4, HeldIsKept
<1> HIDE DEF K
<1>6. DOMAIN K = 1..m /\ K # <<>> /\ \A i \in 1..m : K[i] = Spelt(steps[i])
  BY <1>1, <1>2, <1>4, <1>5
<1>7. \A i \in 1..m : IsStep(K[i]) /\ StepOf(K[i]) = steps[i]
  BY <1>1, <1>2, <1>6, SpeltIsRead
<1>8. IsPlan(K)
  BY <1>6, <1>7 DEF IsPlan, IsStep
<1>9. Steps(K) = [i \in 1..m |-> StepOf(K[i])]
  BY <1>6 DEF Steps, StepOf
<1>10. QED
  BY <1>1, <1>7, <1>8, <1>9 DEF K

\* And what is read as a plan is one by the manual.
LEMMA ReadIsTour ==
  ASSUME NEW ws \in Seq(Seq(ItemType)), NEW fillers, IsPlan(Kept(ws, fillers))
  PROVE  IsTour(ws, Steps(Kept(ws, fillers)), fillers)
<1> DEFINE K == Kept(ws, fillers)
<1>1. Holds(ws, K, fillers) /\ K \in Seq(Seq(ItemType))
  BY KeptIsHeld
<1> HIDE DEF K
<1>2. K # <<>> /\ \A i \in DOMAIN K : IsStep(K[i])
  BY DEF IsPlan, IsStep, K
<1>3. /\ K = [i \in DOMAIN K |-> K[i]] /\ Len(K) \in Nat /\ DOMAIN K = 1..Len(K)
      /\ \A i \in DOMAIN K : K[i] \in Seq(ItemType)
  BY <1>1, SeqPlaces
<1>4. Steps(K) = [i \in DOMAIN K |-> StepOf(K[i])]
  BY DEF Steps, StepOf
<1>5. DOMAIN Steps(K) = DOMAIN K /\ \A i \in DOMAIN K : Steps(K)[i] = StepOf(K[i])
  BY <1>4
<1>6. \A i \in DOMAIN K : /\ Spelt(Steps(K)[i]) = K[i]
                          /\ Steps(K)[i].kind = "input" => Steps(K)[i].n >= 1
  BY <1>2, <1>3, <1>5, ReadIsSpelt
<1>7. [i \in DOMAIN Steps(K) |-> Spelt(Steps(K)[i])] = K
  BY <1>3, <1>5, <1>6
<1>8. Steps(K) # <<>>
  BY <1>2, <1>3, <1>5
<1>9. QED
  BY <1>1, <1>5, <1>6, <1>7, <1>8 DEF IsTour, K

-----------------------------------------------------------------------------
(* What the manual says and what the shell reads *)

LEMMA SolidIsKept == \A ws : Solid(ws) = Kept(ws, {<<>>})
<1>1. SUFFICES ASSUME NEW ws PROVE Solid(ws) = Kept(ws, {<<>>})
  OBVIOUS
<1>2. {i \in DOMAIN ws : ws[i] # <<>>} = {i \in DOMAIN ws : ws[i] \notin {<<>>}}
  OBVIOUS
<1>3. QED
  BY <1>2 DEF Solid, Kept

LEMMA RequestParts ==
  ASSUME NEW q \in Requests
  PROVE  /\ q.n \in Int /\ q.unit \in Units /\ q.steps \in Seq(StepType)
         /\ q.verb \notin {"set", "auto", "offset"} => q.n = 0
         /\ q.verb # "auto" => q.unit = "ms"
         /\ q.verb \notin {"auto", "plan"} => q.steps = <<>>
         /\ q.verb = "auto" => IsCycle(q.steps)
         /\ q.verb = "plan" => IsPlanOf(q.steps)
<1>1. q.n \in Int /\ q.unit \in Units /\ q.steps \in Seq(StepType)
  BY DEF Requests, RequestType
<1>2. /\ q.verb \notin {"set", "auto", "offset"} => q.n = 0
      /\ q.verb # "auto" => q.unit = "ms"
      /\ q.verb \notin {"auto", "plan"} => q.steps = <<>>
  BY DEF Requests
<1>3. \A i \in DOMAIN q.steps :
        IF q.steps[i].kind = "input" THEN q.steps[i].unit = "ms" ELSE q.verb = "plan"
  BY DEF Requests
<1>4. QED
  BY <1>1, <1>2, <1>3 DEF IsCycle, IsPlanOf

LEMMA RequestRepeats ==
  ASSUME NEW q \in Requests
  PROVE  q.repeat \in BOOLEAN /\ (q.verb # "plan" => ~q.repeat)
BY DEF Requests, RequestType

LEMMA RequestIsParts ==
  ASSUME NEW q \in Requests
  PROVE  MadeOf(q, q.verb, q.n, q.unit, q.steps, q.repeat)
BY DEF Requests, RequestType, MadeOf

\* A command line by which the manual asks for q is read as q.
LEMMA CliHearsWish ==
  ASSUME NEW l, IsLine(l), NEW q \in Requests, CliSays(l, q)
  PROVE  CliParses(l) /\ CliRequest(l) = q
<1>1. /\ l.verb = q.verb /\ q.verb \in Verbs.cli
      /\ q.verb \in {"set", "auto", "offset"} => l.args = <<<<Numeral(q.n)>>>>
      /\ q.verb \in {"stop", "off", "state"} => l.args = <<>>
      /\ q.verb = "set" => q.n >= 1
      /\ q.verb = "offset" => q.n \in 0..359
      /\ q.verb = "auto" => IsList(l.csv, q.steps)
      /\ q.verb # "auto" => l.csv = <<>>
      /\ q.verb = "plan" => IsTour(l.args, q.steps, {<<>>})
  BY DEF CliSays
<1>2. "us" \in l.flags <=> q.unit = "us"
  BY DEF CliSays
<1>3. "repeat" \in l.flags <=> q.repeat
  BY DEF CliSays
<1>4. l.args \in Seq(Seq(ItemType)) /\ l.csv \in Seq(ItemType)
  BY DEF IsLine
<1>5. q.verb \in {"set", "auto", "offset"}
        => /\ Len(l.args) = 1 /\ Whole(l.args[1]) /\ Number(l.args[1]) = q.n
  <2>1. SUFFICES ASSUME l.args = <<<<Numeral(q.n)>>>>
                 PROVE  Len(l.args) = 1 /\ Whole(l.args[1]) /\ Number(l.args[1]) = q.n
    BY <1>1
  <2>2. Len(l.args) = 1 /\ l.args[1] = <<Numeral(q.n)>>
    BY <2>1
  <2>3. QED
    BY <2>2, RequestParts, NumeralIsWhole
<1>6. q.verb = "auto" => IsInputs(l.csv) /\ Inputs(l.csv) = q.steps
  BY <1>1, <1>4, RequestParts, ListIsRead
<1>7. q.verb = "plan" => IsPlan(Solid(l.args)) /\ Steps(Solid(l.args)) = q.steps
  <2>1. SUFFICES ASSUME q.verb = "plan"
                 PROVE  IsPlan(Solid(l.args)) /\ Steps(Solid(l.args)) = q.steps
    OBVIOUS
  <2>2. IsPlanOf(q.steps) /\ IsTour(l.args, q.steps, {<<>>})
    BY <1>1, <2>1, RequestParts
  <2>3. \A i \in DOMAIN q.steps : Spelt(q.steps[i]) \notin {<<>>}
    BY RequestParts, SeqPlaces, SpeltIsNoKeyword
  <2>4. QED
    BY <1>4, <2>2, <2>3, TourIsRead, SolidIsKept
<1>8. "us" \in l.flags \/ l.csv # <<>> => l.verb = "auto"
  BY <1>1, <1>2, RequestParts
<1>9. "repeat" \in l.flags => l.verb = "plan"
  BY <1>1, <1>3, RequestRepeats
<1>10. CliParses(l)
  <2>1. /\ l.verb \in Verbs.cli
        /\ l.verb \in {"stop", "off", "state"} => l.args = <<>>
    BY <1>1
  <2>2. /\ l.verb \in {"set", "auto", "offset"} => Len(l.args) = 1 /\ Whole(l.args[1])
        /\ l.verb = "set" => Number(l.args[1]) >= 1
        /\ l.verb = "offset" => Number(l.args[1]) \in 0..359
    BY <1>1, <1>5
  <2>3. /\ l.verb = "auto" => IsInputs(l.csv)
        /\ l.verb = "plan" => IsPlan(Solid(l.args))
    BY <1>1, <1>6, <1>7
  <2>4. QED
    BY <1>8, <1>9, <2>1, <2>2, <2>3, Zenon DEF CliParses
<1> DEFINE n == IF l.verb \in {"set", "auto", "offset"} THEN Number(l.args[1]) ELSE 0
           unit == IF l.verb = "auto" /\ "us" \in l.flags THEN "us" ELSE "ms"
           steps == IF l.verb = "auto" THEN Inputs(l.csv)
                    ELSE IF l.verb = "plan" THEN Steps(Solid(l.args)) ELSE <<>>
           repeat == l.verb = "plan" /\ "repeat" \in l.flags
<1>11. MadeOf(CliRequest(l), l.verb, n, unit, steps, repeat)
  BY DEF CliRequest, MadeOf
<1>12. n = q.n
  BY <1>1, <1>5, RequestParts
<1>13. unit = q.unit
  BY <1>1, <1>2, RequestParts DEF Units
<1>14. steps = q.steps
  BY <1>1, <1>6, <1>7, RequestParts
<1>15. repeat = q.repeat
  BY <1>1, <1>3, RequestRepeats
<1> HIDE DEF n, unit, steps, repeat
<1>16. CliRequest(l) = q
  BY <1>1, <1>11, <1>12, <1>13, <1>14, <1>15, RequestIsParts DEF MadeOf
<1>17. QED
  BY <1>10, <1>16

\* A command line that the shell takes asks by the manual for what is read.
LEMMA CliHearsNoOther ==
  ASSUME NEW l, IsLine(l), CliParses(l)
  PROVE  CliSays(l, CliRequest(l))
<1> DEFINE n == IF l.verb \in {"set", "auto", "offset"} THEN Number(l.args[1]) ELSE 0
           unit == IF l.verb = "auto" /\ "us" \in l.flags THEN "us" ELSE "ms"
           steps == IF l.verb = "auto" THEN Inputs(l.csv)
                    ELSE IF l.verb = "plan" THEN Steps(Solid(l.args)) ELSE <<>>
           repeat == l.verb = "plan" /\ "repeat" \in l.flags
           q == CliRequest(l)
<1>1. q.verb = l.verb /\ q.n = n /\ q.unit = unit /\ q.steps = steps
  BY DEF CliRequest
<1>2. q.repeat <=> repeat
  BY DEF CliRequest
<1> HIDE DEF q
<1>3. l.args \in Seq(Seq(ItemType)) /\ l.csv \in Seq(ItemType)
  BY DEF IsLine
<1>4. /\ l.verb \in Verbs.cli
      /\ l.verb \in {"stop", "off", "state"} => l.args = <<>>
      /\ "us" \in l.flags \/ l.csv # <<>> => l.verb = "auto"
      /\ "repeat" \in l.flags => l.verb = "plan"
      /\ l.verb \in {"set", "auto", "offset"} => Len(l.args) = 1 /\ Whole(l.args[1])
      /\ l.verb = "set" => Number(l.args[1]) >= 1
      /\ l.verb = "offset" => Number(l.args[1]) \in 0..359
      /\ l.verb = "auto" => IsInputs(l.csv)
      /\ l.verb = "plan" => IsPlan(Solid(l.args))
  BY DEF CliParses
<1>5. l.verb \in {"set", "auto", "offset"} => l.args = <<<<Numeral(n)>>>>
  <2>1. SUFFICES ASSUME l.verb \in {"set", "auto", "offset"} PROVE l.args = <<<<Numeral(n)>>>>
    OBVIOUS
  <2>2. l.args = <<l.args[1]>> /\ l.args[1] \in Seq(ItemType) /\ Whole(l.args[1])
    BY <1>3, <1>4, <2>1, OnlyOne
  <2>3. l.args[1] = <<Numeral(n)>>
    BY <2>1, <2>2, WholeIsNumeral
  <2>4. QED
    BY <2>2, <2>3
<1>6. IF l.verb = "auto" THEN IsList(l.csv, steps) ELSE l.csv = <<>>
  BY <1>3, <1>4, ReadIsList
<1>7. l.verb = "plan" => IsTour(l.args, steps, {<<>>})
  BY <1>3, <1>4, ReadIsTour, SolidIsKept
<1>8. "us" \in l.flags <=> unit = "us"
  BY <1>4
<1>9. "repeat" \in l.flags <=> repeat
  BY <1>4
<1>10. /\ l.verb = "set" => n >= 1
       /\ l.verb = "offset" => n \in 0..359
  BY <1>4
<1> HIDE DEF n, unit, steps, repeat
<1>11. CliSays(l, q)
  BY <1>1, <1>2, <1>4, <1>5, <1>6, <1>7, <1>8, <1>9, <1>10 DEF CliSays
<1>12. QED
  BY <1>11 DEF q

-----------------------------------------------------------------------------
(* What the manual says and what the prompt reads *)

LEMMA NothingDropped ==
  ASSUME NEW S, NEW w \in Seq(S), NEW fillers, \A i \in DOMAIN w : w[i] \notin fillers
  PROVE  Kept(w, fillers) = w
<1>1. Len(w) \in Nat /\ DOMAIN w = 1..Len(w) /\ w = [i \in DOMAIN w |-> w[i]]
  BY SeqPlaces
<1> DEFINE f == [i \in DOMAIN w |-> i]
<1>2. f \in [DOMAIN w -> DOMAIN w] /\ \A i \in DOMAIN w : f[i] = i
  OBVIOUS
<1> HIDE DEF f
<1>3. \A i, j \in DOMAIN w : i < j => f[i] < f[j]
  BY <1>2
<1>4. \A i \in DOMAIN w : w[f[i]] = w[i]
  BY <1>2
<1>5. \A p \in DOMAIN w \ {f[i] : i \in DOMAIN w} : w[p] \in fillers
  BY <1>2
<1>6. Holds(w, w, fillers)
  BY <1>2, <1>3, <1>4, <1>5, Zenon DEF Holds
<1>7. QED
  BY <1>1, <1>6, HeldIsKept

LEMMA SomethingDropped ==
  ASSUME NEW S, NEW w \in Seq(S), NEW fillers, NEW i \in DOMAIN w, w[i] \in fillers
  PROVE  Len(Kept(w, fillers)) < Len(w) /\ Kept(w, fillers) # w
<1> DEFINE I == {p \in DOMAIN w : w[p] \notin fillers}
<1>1. Len(w) \in Nat /\ DOMAIN w = 1..Len(w)
  BY SeqPlaces
<1>2. IsFiniteSet(1..Len(w)) /\ Cardinality(1..Len(w)) = Len(w)
  <2>1. \A n \in Nat : IsFiniteSet(1..n) /\ Cardinality(1..n) = n
    BY FS_Interval
  <2>2. QED
    BY <1>1, <2>1
<1>3. I \in SUBSET (1..Len(w)) /\ I # 1..Len(w)
  BY <1>1
<1>4. Kept(w, fillers) = Keep(w, I)
  BY DEF Kept
<1> HIDE DEF I
<1>5. Cardinality(I) <= Len(w) /\ Cardinality(I) # Len(w) /\ Cardinality(I) \in Nat
  BY <1>2, <1>3, FS_Subset, FS_CardinalityType
<1>6. Len(Kept(w, fillers)) = Cardinality(I)
  BY <1>4, <1>5 DEF Keep
<1>7. Len(Kept(w, fillers)) < Len(w)
  BY <1>1, <1>5, <1>6
<1>8. QED
  BY <1>1, <1>7

LEMMA KeywordParts ==
  ASSUME NEW word
  PROVE  1 \in DOMAIN Keyword(word) /\ Keyword(word)[1].tail = word
BY DEF Keyword

LEMMA UsWordParts ==
  ASSUME NEW w \in UsWords
  PROVE  1 \in DOMAIN w /\ w[1].tail # ""
<1>1. Keyword("us")[1].tail = "us" /\ 1 \in DOMAIN Keyword("us")
  BY KeywordParts, Zenon
<1>2. Keyword("--us")[1].tail = "--us" /\ 1 \in DOMAIN Keyword("--us")
  BY KeywordParts, Zenon
<1>3. w = Keyword("us") \/ w = Keyword("--us")
  BY DEF UsWords
<1>4. "us" # "" /\ "--us" # ""
  OBVIOUS
<1>5. QED
  BY <1>1, <1>2, <1>3, <1>4, Zenon

\* No list of inputs is a keyword.
LEMMA ListIsNoKeyword ==
  ASSUME NEW w, NEW steps, IsCycle(steps), IsList(w, steps)
  PROVE  w \notin UsWords
<1> DEFINE s == [i \in DOMAIN steps |-> Numeral(steps[i].n)]
<1>1. SUFFICES ASSUME w \in UsWords PROVE FALSE
  OBVIOUS
<1>2. PICK f \in [DOMAIN s -> DOMAIN w] :
        /\ \A i \in DOMAIN s : w[f[i]] = s[i]
        /\ \A p \in DOMAIN w \ {f[i] : i \in DOMAIN s} : w[p] \in {Keyword("")[1]}
  BY DEF IsList, Holds
<1>3. 1 \in DOMAIN w /\ w[1].tail # ""
  BY <1>1, UsWordParts
<1>4. ~w[1].int
  BY <1>1 DEF UsWords, Keyword
<1>5. CASE \E i \in DOMAIN s : f[i] = 1
  <2>1. PICK i \in DOMAIN s : f[i] = 1
    BY <1>5
  <2>2. steps[i] \in StepType
    BY <2>1 DEF IsCycle
  <2>3. steps[i].n \in Int
    BY <2>2 DEF StepType
  <2>4. w[1] = Numeral(steps[i].n)
    BY <1>2, <2>1
  <2>5. QED
    BY <1>4, <2>3, <2>4, NumeralParts
<1>6. CASE ~\E i \in DOMAIN s : f[i] = 1
  <2>1. w[1] \in {Keyword("")[1]}
    BY <1>2, <1>3, <1>6
  <2>2. Keyword("")[1].tail = ""
    BY DEF Keyword
  <2>3. QED
    BY <1>3, <2>1, <2>2
<1>7. QED
  BY <1>5, <1>6

\* The operands of `auto` by the manual are read as its list.
LEMMA ListsAreRead ==
  ASSUME NEW rest \in Seq(Seq(ItemType)), NEW steps, IsCycle(steps),
         \/ steps = <<>> /\ Holds(rest, <<>>, UsWords)
         \/ \E i \in DOMAIN rest : IsList(rest[i], steps) /\ Holds(rest, <<rest[i]>>, UsWords)
  PROVE  LET lists == Without(rest, UsWords) IN
           /\ \A i \in DOMAIN lists : IsInputs(lists[i])
           /\ (IF lists # <<>> THEN Inputs(Last(lists)) ELSE <<>>) = steps
<1> DEFINE lists == Without(rest, UsWords)
<1>1. lists = Kept(rest, UsWords)
  BY DEF Without, Kept
<1>2. CASE steps = <<>> /\ Holds(rest, <<>>, UsWords)
  <2> DEFINE s == <<>>
  <2>1. s = [i \in 1..0 |-> s[i]] /\ \A i \in 1..0 : s[i] \notin UsWords
    OBVIOUS
  <2>2. Holds(rest, s, UsWords)
    BY <1>2
  <2> HIDE DEF s
  <2>3. Kept(rest, UsWords) = s
    BY <2>1, <2>2, HeldIsKept
  <2>4. QED
    BY <1>1, <1>2, <2>3 DEF s
<1>3. CASE \E i \in DOMAIN rest : IsList(rest[i], steps) /\ Holds(rest, <<rest[i]>>, UsWords)
  <2>1. PICK i \in DOMAIN rest : IsList(rest[i], steps) /\ Holds(rest, <<rest[i]>>, UsWords)
    BY <1>3
  <2> DEFINE s == <<rest[i]>>
  <2>2. rest[i] \in Seq(ItemType)
    BY SeqPlaces
  <2>3. rest[i] \notin UsWords
    BY <2>1, ListIsNoKeyword
  <2>4. s = [k \in 1..1 |-> s[k]] /\ \A k \in 1..1 : s[k] \notin UsWords
    BY <2>3
  <2>5. Holds(rest, s, UsWords)
    BY <2>1
  <2> HIDE DEF s
  <2>6. Kept(rest, UsWords) = s
    BY <2>4, <2>5, HeldIsKept
  <2>7. lists = <<rest[i]>>
    BY <1>1, <2>6 DEF s
  <2>8. IsInputs(rest[i]) /\ Inputs(rest[i]) = steps
    BY <2>1, <2>2, ListIsRead
  <2> HIDE DEF lists
  <2>9. DOMAIN lists = {1} /\ lists[1] = rest[i] /\ lists # <<>> /\ Last(lists) = rest[i]
    BY <2>7 DEF Last
  <2>10. QED
    BY <2>8, <2>9 DEF lists
<1>4. QED
  BY <1>2, <1>3

\* A line at the prompt by which the manual asks for q is read as q.
LEMMA ReplHearsWish ==
  ASSUME NEW l, IsLine(l), NEW q \in Requests, ReplSays(l, q)
  PROVE  ReplParses(l) /\ ReplRequest(l) = q
<1> DEFINE rest == Tail(l.args)
<1>1. /\ l.verb = q.verb /\ q.verb \in Verbs.repl
      /\ q.verb \in {"set", "offset"} => l.args = <<<<Numeral(q.n)>>>>
      /\ q.verb = "offset" => q.n \in 0..359
  BY DEF ReplSays
<1>2. q.verb = "auto" =>
        /\ l.args # <<>> /\ l.args[1] = <<Numeral(q.n)>>
        /\ \/ q.steps = <<>> /\ Holds(rest, <<>>, UsWords)
           \/ \E i \in DOMAIN rest :
                IsList(rest[i], q.steps) /\ Holds(rest, <<rest[i]>>, UsWords)
  BY DEF ReplSays
<1>3. q.verb = "auto" => (q.unit = "us" <=> \E i \in DOMAIN rest : rest[i] \in UsWords)
  BY DEF ReplSays
<1>4. q.verb = "plan" => IsTour(l.args, q.steps, RepeatWords)
  BY DEF ReplSays
<1>5. q.verb = "plan" => (q.repeat <=> \E i \in DOMAIN l.args : l.args[i] \in RepeatWords)
  BY DEF ReplSays
<1>6. l.args \in Seq(Seq(ItemType))
  BY DEF IsLine
<1>7. q.verb \in {"set", "auto", "offset"}
        => l.args # <<>> /\ Begins(l.args[1]) /\ Number(l.args[1]) = q.n
  <2>1. SUFFICES ASSUME q.verb \in {"set", "auto", "offset"}
                 PROVE  l.args # <<>> /\ Begins(l.args[1]) /\ Number(l.args[1]) = q.n
    OBVIOUS
  <2>2. l.args # <<>> /\ l.args[1] = <<Numeral(q.n)>>
    BY <1>1, <1>2, <2>1
  <2>3. QED
    BY <2>2, RequestParts, NumeralIsWhole
<1>8. ASSUME q.verb = "auto"
      PROVE  /\ \A i \in DOMAIN Lists(l) : IsInputs(Lists(l)[i])
             /\ (IF Lists(l) # <<>> THEN Inputs(Last(Lists(l))) ELSE <<>>) = q.steps
             /\ Len(Lists(l)) < Len(l.args) - 1 <=> q.unit = "us"
  <2>1. rest \in Seq(Seq(ItemType)) /\ Len(rest) = Len(l.args) - 1
    BY <1>2, <1>6, <1>8
  <2> HIDE DEF rest
  <2>2. Lists(l) = Without(rest, UsWords)
    BY DEF Lists, rest
  <2>3. /\ \A i \in DOMAIN Lists(l) : IsInputs(Lists(l)[i])
        /\ (IF Lists(l) # <<>> THEN Inputs(Last(Lists(l))) ELSE <<>>) = q.steps
    BY <1>2, <1>8, <2>1, <2>2, RequestParts, ListsAreRead
  <2>4. Lists(l) = Kept(rest, UsWords)
    BY <2>2 DEF Without, Kept
  <2>5. CASE \E i \in DOMAIN rest : rest[i] \in UsWords
    <3>1. Len(Lists(l)) < Len(rest) /\ q.unit = "us"
      BY <1>3, <1>8, <2>1, <2>4, <2>5, SomethingDropped
    <3>2. Len(Lists(l)) < Len(l.args) - 1
      BY <2>1, <3>1
    <3>3. QED
      BY <2>3, <3>1, <3>2
  <2>6. CASE ~\E i \in DOMAIN rest : rest[i] \in UsWords
    <3>1. Lists(l) = rest /\ q.unit # "us" /\ Len(rest) \in Nat
      BY <1>3, <1>8, <2>1, <2>4, <2>6, NothingDropped
    <3>2. ~(Len(Lists(l)) < Len(l.args) - 1)
      BY <2>1, <3>1
    <3>3. QED
      BY <2>3, <3>1, <3>2
  <2>7. QED
    BY <2>3, <2>5, <2>6
<1>9. ASSUME q.verb = "plan"
      PROVE  /\ IsPlan(Without(l.args, RepeatWords))
             /\ Steps(Without(l.args, RepeatWords)) = q.steps
             /\ Without(l.args, RepeatWords) # l.args <=> q.repeat
  <2>1. Without(l.args, RepeatWords) = Kept(l.args, RepeatWords)
    BY DEF Without, Kept
  <2>2. IsPlanOf(q.steps) /\ IsTour(l.args, q.steps, RepeatWords)
    BY <1>4, <1>9, RequestParts
  <2>3. \A i \in DOMAIN q.steps : Spelt(q.steps[i]) \notin RepeatWords
    BY RequestParts, SeqPlaces, SpeltIsNoKeyword
  <2>4. /\ IsPlan(Kept(l.args, RepeatWords))
        /\ Steps(Kept(l.args, RepeatWords)) = q.steps
    BY <1>6, <2>2, <2>3, TourIsRead
  <2>5. CASE \E i \in DOMAIN l.args : l.args[i] \in RepeatWords
    <3>1. Kept(l.args, RepeatWords) # l.args
      BY <1>6, <2>5, SomethingDropped
    <3>2. QED
      BY <1>5, <1>9, <2>1, <2>4, <2>5, <3>1
  <2>6. CASE ~\E i \in DOMAIN l.args : l.args[i] \in RepeatWords
    <3>1. Kept(l.args, RepeatWords) = l.args
      BY <1>6, <2>6, NothingDropped
    <3>2. QED
      BY <1>5, <1>9, <2>1, <2>4, <2>6, <3>1
  <2>7. QED
    BY <2>5, <2>6
<1>10. ReplParses(l)
  BY <1>1, <1>7, <1>8, <1>9 DEF ReplParses
<1> DEFINE n == IF l.verb \in {"set", "auto", "offset"} THEN Number(l.args[1]) ELSE 0
           unit == IF l.verb = "auto" /\ Len(Lists(l)) < Len(l.args) - 1 THEN "us" ELSE "ms"
           steps == IF l.verb = "plan" THEN Steps(Without(l.args, RepeatWords))
                    ELSE IF l.verb = "auto" /\ Lists(l) # <<>> THEN Inputs(Last(Lists(l)))
                    ELSE <<>>
           repeat == l.verb = "plan" /\ Without(l.args, RepeatWords) # l.args
<1>11. MadeOf(ReplRequest(l), l.verb, n, unit, steps, repeat)
  BY DEF ReplRequest, MadeOf
<1>12. n = q.n
  BY <1>1, <1>7, RequestParts
<1>13. unit = q.unit
  BY <1>1, <1>8, RequestParts DEF Units
<1>14. steps = q.steps
  BY <1>1, <1>8, <1>9, RequestParts
<1>15. repeat = q.repeat
  BY <1>1, <1>9, RequestRepeats
<1> HIDE DEF n, unit, steps, repeat
<1>16. ReplRequest(l) = q
  BY <1>1, <1>11, <1>12, <1>13, <1>14, <1>15, RequestIsParts DEF MadeOf
<1>17. QED
  BY <1>10, <1>16

-----------------------------------------------------------------------------
(* From the line to the request *)

\* The shell serves one line and exits, the prompt asks for the next.
FormInv ==
  \/ form = "cli" /\ stage \in {"shell", "connect", "act", "exited"}
  \/ form = "repl" /\ stage \in {"connect", "prompt", "act", "done"}

LEMMA FormInit == Init => FormInv
BY DEF Init, FormInv

LEMMA FormStep == FormInv /\ [Next]_vars => FormInv'
<1> SUFFICES ASSUME FormInv, [Next]_vars PROVE FormInv'
  OBVIOUS
<1> USE DEF FormInv
<1>1. ASSUME NEW l \in CliLines, Run(l) PROVE FormInv'
  BY <1>1 DEF Run
<1>2. ASSUME NEW l \in ReplLines, Enter(l) PROVE FormInv'
  BY <1>2 DEF Enter
<1>3. ASSUME NEW l \in ReplLines, SwitchChannel(l) PROVE FormInv'
  BY <1>3 DEF SwitchChannel
<1>4. CASE Connect
  BY <1>4 DEF Connect, lineVars
<1>5. CASE Act
  BY <1>5 DEF Act, lineVars
<1>6. CASE Reprompt
  BY <1>6 DEF Reprompt
<1>7. CASE Exited \/ UNCHANGED vars
  BY <1>7 DEF Exited, vars, lineVars
<1>8. ASSUME NEW c \in Channels, NEW field \in CapsFields, Hear(c, field) PROVE FormInv'
  BY <1>8 DEF Hear, lineVars
<1>9. QED
  BY <1>1, <1>2, <1>3, <1>4, <1>5, <1>6, <1>7, <1>8 DEF Next

\* A line whose verb is none of the manual's asks for nothing.
LEMMA NothingSaid ==
  ASSUME NEW l, l.verb \in {"none", "channel"}, NEW q
  PROVE  ~CliSays(l, q) /\ ~ReplSays(l, q)
BY DEF CliSays, ReplSays, Verbs, Actions

LEMMA WishInit == Init => RequestIsWish
<1>1. NoLine.verb = "none"
  BY DEF NoLine
<1>2. QED
  BY <1>1, NothingSaid DEF Init, RequestIsWish, Says

LEMMA WishStep == FormInv /\ LineInv /\ RequestIsWish /\ [Next]_vars => RequestIsWish'
<1> SUFFICES ASSUME FormInv, LineInv, RequestIsWish, [Next]_vars PROVE RequestIsWish'
  OBVIOUS
<1>1. ASSUME NEW l \in CliLines, Run(l) PROVE RequestIsWish'
  <2>1. form' = "cli" /\ line' = l /\ IsLine(l) /\ outcome = "none"
    BY <1>1, LinesAssumption DEF Run, FormInv, LineInv
  <2>2. \A q \in Wishes : CliSays(l, q) => CliParses(l) /\ CliRequest(l) = q
    BY <2>1, WishesAssumption, CliHearsWish
  <2>3. CASE CliParses(l) /\ request' = CliRequest(l) /\ outcome' = outcome
    <3>1. CliSays(l, request')
      BY <2>1, <2>3, CliHearsNoOther
    <3>2. QED
      BY <2>1, <2>2, <2>3, <3>1 DEF RequestIsWish, Says
  <2>4. CASE ~CliParses(l) /\ outcome' = "invalid"
    BY <2>1, <2>2, <2>4 DEF RequestIsWish, Says
  <2>5. QED
    BY <1>1, <2>3, <2>4 DEF Run
<1>2. ASSUME NEW l \in ReplLines, Enter(l) PROVE RequestIsWish'
  <2>1. form' = "repl" /\ line' = l /\ IsLine(l) /\ outcome = "none"
    BY <1>2, LinesAssumption DEF Enter, FormInv, LineInv
  <2>2. \A q \in Wishes : ReplSays(l, q) => ReplParses(l) /\ ReplRequest(l) = q
    BY <2>1, WishesAssumption, ReplHearsWish
  <2>3. CASE ReplParses(l) /\ request' = ReplRequest(l) /\ outcome' = outcome
    BY <2>1, <2>2, <2>3 DEF RequestIsWish, Says
  <2>4. CASE ~ReplParses(l)
    BY <2>1, <2>2, <2>4 DEF RequestIsWish, Says
  <2>5. QED
    BY <1>2, <2>3, <2>4 DEF Enter
<1>3. ASSUME NEW l \in ReplLines, SwitchChannel(l) PROVE RequestIsWish'
  <2>1. form' = "repl" /\ line' = l /\ l.verb = "channel"
    BY <1>3 DEF SwitchChannel, FormInv
  <2>2. QED
    BY <2>1, NothingSaid DEF RequestIsWish, Says
<1>4. CASE Reprompt
  <2>1. form' = "repl" /\ line' = NoLine /\ NoLine.verb = "none"
    BY <1>4 DEF Reprompt, FormInv, NoLine
  <2>2. QED
    BY <2>1, NothingSaid DEF RequestIsWish, Says
<1>5. CASE Act
  <2>1. /\ form' = form /\ line' = line /\ request' = request
        /\ outcome = "none" /\ outcome' # "invalid"
    BY <1>5 DEF Act, lineVars, LineInv
  <2>2. QED
    BY <2>1 DEF RequestIsWish, Says
<1>6. CASE UNCHANGED <<form, line, request, outcome>>
  BY <1>6 DEF RequestIsWish, Says
<1>7. CASE Connect
  BY <1>6, <1>7 DEF Connect, lineVars, endVars
<1>8. ASSUME NEW c \in Channels, NEW field \in CapsFields, Hear(c, field) PROVE RequestIsWish'
  BY <1>6, <1>8 DEF Hear, lineVars, endVars
<1>9. CASE Exited \/ UNCHANGED vars
  BY <1>6, <1>9 DEF Exited, vars, lineVars, endVars
<1>10. QED
  BY <1>1, <1>2, <1>3, <1>4, <1>5, <1>7, <1>8, <1>9 DEF Next

\* Both parsers, the one of the shell (run() in main.cpp) and the one of the prompt
\* (Session::process()), read whatever the manual lets a user type for a request as that
\* request: lists and plans of any length, with empty items, empty words and keywords
\* anywhere between them.  And the shell makes a request of no other line.
THEOREM WishesAreRead == Spec => []RequestIsWish
<1>1. Init => FormInv /\ LineInv /\ RequestIsWish
  BY FormInit, LineInit, WishInit
<1>2. FormInv /\ LineInv /\ RequestIsWish /\ [Next]_vars => (FormInv /\ LineInv /\ RequestIsWish)'
  BY FormStep, LineStep, WishStep
<1>3. QED
  BY <1>1, <1>2, PTL DEF Spec
================================================================================
