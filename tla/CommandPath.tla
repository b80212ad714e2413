----------------------------- MODULE CommandPath -----------------------------
(***************************************************************************)
(* A request from the words the user types to the text the board gets:     *)
(* the two parsers of the command line (src/bin/main.cpp with              *)
(* src/bin/cli/commands.cpp, and the prompt of src/bin/cli/interactive.cpp)*)
(* the checks of src/src/client.cpp against the shape the board advertised *)
(* and the text builders of src/src/commands.cpp.                          *)
(*                                                                         *)
(* A word is its comma-separated items; an item is the integer it begins   *)
(* with, if it does and the integer fits an int, and what follows.  White  *)
(* space around items, which the parsers trim, is left out.  Of CLI11, an  *)
(* external library, the model takes that an int option is a whole word,   *)
(* and that a subcommand has the operands and options it was given.  The   *)
(* host has been taken from the words.                                     *)
(***************************************************************************)
EXTENDS FeatureWord, SequencesExt

CONSTANTS
  Channels,   \* the channels: a subset of {1, 2}
  Boards,     \* what the switchers of a device may publish, one for each channel
  CliLines,   \* the command lines a user may type at the shell
  ReplLines,  \* the lines a user may type at the prompt
  Wishes      \* the requests a user may have in mind

Actions == {"set", "auto", "plan", "stop", "off", "offset"}
\* The verb that prints the shapes: `state` at the shell, `caps` at the prompt.
Verbs == [cli |-> Actions \cup {"state"}, repl |-> Actions \cup {"caps"}]
Units == {"ms", "us"}
CapsFields == {"capsInputCount", "capsFeatures"}

\* A board has a word and publishes a spelling of it, or a text that spells none.
IsBoard(b) ==
  /\ b.inputs \in Nat /\ b.text \in Texts
  /\ \/ b.word \in Words /\ Spells(b.text, b.word)
     \/ b.word = nullopt /\ ~IsSpelling(b.text)

StepType == [kind : {"input", "delay"}, n : Int, unit : Units]
RequestType == [verb : Actions \cup {"state", "caps", "none"}, n : Int, unit : Units,
                steps : Seq(StepType), repeat : BOOLEAN]

\* The requests the operations of a channel can be asked: each has its own operands only.
Requests ==
  {q \in RequestType :
     /\ q.verb \notin {"set", "auto", "offset"} => q.n = 0
     /\ q.verb # "auto" => q.unit = "ms"
     /\ q.verb \notin {"auto", "plan"} => q.steps = <<>>
     /\ q.verb # "plan" => ~q.repeat
     /\ \A i \in DOMAIN q.steps :
          IF q.steps[i].kind = "input" THEN q.steps[i].unit = "ms" ELSE q.verb = "plan"}

ItemType == {x \in [int : BOOLEAN, n : Int, tail : STRING] : x.int \/ x.n = 0}

IsLine(l) ==
  /\ l.args \in Seq(Seq(ItemType)) /\ l.csv \in Seq(ItemType)
  /\ l.flags \subseteq {"us", "repeat"}

ASSUME BoardsAssumption ==
  \A b \in Boards : DOMAIN b = Channels /\ \A c \in Channels : IsBoard(b[c])
ASSUME LinesAssumption == \A l \in CliLines \cup ReplLines : IsLine(l)
ASSUME WishesAssumption == Wishes \subseteq Requests

VARIABLES
  form, stage,           \* the shell or the prompt; how far the line has got
  line, request, target, \* the line typed, what was read from it, Session::current_
  board, heard, caps,    \* what the device publishes, what arrived, Impl::states
  sent, shown, outcome,  \* the text written, the shapes printed, what became of the line
  shape                  \* history: what each channel had published when the line was served

lineVars  == <<form, line, target>>
boardVars == <<board, heard, caps>>
endVars   == <<sent, shown, outcome, shape>>
vars == <<stage, lineVars, request, boardVars, endVars>>

-----------------------------------------------------------------------------
(* Requests and their texts *)

InputStep(n)    == [kind |-> "input", n |-> n, unit |-> "ms"]
DelayStep(n, u) == [kind |-> "delay", n |-> n, unit |-> u]

\* A text is its fields between colons, a field its parts between commas, a part a
\* mark before a number and one behind it.
Part(mark, n, unit) == [mark |-> mark, n |-> n, unit |-> IF unit = "us" THEN "u" ELSE ""]
Name(s) == <<Part(s, 0, "ms")>>

Parts(steps) ==
  [i \in DOMAIN steps |->
     Part(IF steps[i].kind = "delay" THEN "s" ELSE "", steps[i].n, steps[i].unit)]

AllInputs(n) == [i \in 1..n |-> InputStep(i)]

\* Mutant: a size comparison.
covers_all_by_size(list, n) == n > 0 /\ Len(list) = n

covers_all_in_order(list, n) == n > 0 /\ list = AllInputs(n)

build_start_auto(q, count) ==
  <<Name("auto"), <<Part("", q.n, q.unit)>>>> \o
  (IF q.steps # <<>> /\ ~covers_all_in_order(q.steps, count) THEN <<Parts(q.steps)>> ELSE <<>>)

build_run_plan(q) ==
  <<Name("plan"), Parts(q.steps) \o (IF q.repeat THEN Name("r") ELSE <<>>)>>

\* The text of a request; an offset is written to a number entity instead.
Text(q, count) ==
  CASE q.verb = "set"    -> <<Name("set"), <<Part("", q.n, "ms")>>>>
    [] q.verb = "auto"   -> build_start_auto(q, count)
    [] q.verb = "plan"   -> build_run_plan(q)
    [] q.verb = "offset" -> <<Name("angle_offset="), <<Part("", q.n, "ms")>>>>
    [] OTHER             -> <<Name(q.verb)>>

-----------------------------------------------------------------------------
(* Reading words *)

Begins(w) == w # <<>> /\ w[1].int

\* The whole word is one integer, as parse_int() and CLI11 want it.
Whole(w) == Len(w) = 1 /\ w[1].int /\ w[1].tail = ""

\* std::stoi(): the integer a word begins with, whatever follows.
Number(w) == w[1].n

\* What s has at these places, in order.
Keep(s, places) ==
  [k \in 1..Cardinality(places) |->
     s[CHOOSE i \in places : Cardinality({j \in places : j <= i}) = k]]

Keyword(s) == <<[int |-> FALSE, n |-> 0, tail |-> s]>>

\* parse_inputs_csv(): items that are empty are skipped, the others are inputs.
Items(w) == Keep(w, {i \in DOMAIN w : w[i].int \/ w[i].tail # ""})
IsInputs(w) == \A i \in DOMAIN Items(w) : Whole(<<Items(w)[i]>>) /\ Items(w)[i].n >= 1
Inputs(w) == [i \in DOMAIN Items(w) |-> InputStep(Items(w)[i].n)]

\* parse_plan_steps(): one step a word that is not empty; `<n>ms` and `<n>us` are
\* delays, the others inputs.
IsDelay(w) == Len(w) = 1 /\ w[1].int /\ w[1].tail \in Units
Solid(ws) == Keep(ws, {i \in DOMAIN ws : ws[i] # <<>>})
IsPlan(ws) ==
  /\ ws # <<>>
  /\ \A i \in DOMAIN ws : IsDelay(ws[i]) \/ (Whole(ws[i]) /\ Number(ws[i]) >= 1)
Steps(ws) ==
  [i \in DOMAIN ws |-> IF IsDelay(ws[i]) THEN DelayStep(ws[i][1].n, ws[i][1].tail)
                       ELSE InputStep(Number(ws[i]))]

\* The shell: options and operands have been told apart by CLI11, which refuses those
\* that a subcommand does not have.
CliParses(l) ==
  /\ l.verb \in Verbs.cli
  /\ l.verb \in {"stop", "off", "state"} => l.args = <<>>
  /\ "us" \in l.flags \/ l.csv # <<>> => l.verb = "auto"
  /\ "repeat" \in l.flags => l.verb = "plan"
  /\ l.verb \in {"set", "auto", "offset"} => Len(l.args) = 1 /\ Whole(l.args[1])
  /\ l.verb = "set" => Number(l.args[1]) >= 1
  /\ l.verb = "offset" => Number(l.args[1]) \in 0..359
  /\ l.verb = "auto" => IsInputs(l.csv)
  /\ l.verb = "plan" => IsPlan(Solid(l.args))

\* Mutant: the unit of the interval is forgotten on the way.
CliRequestMillis(l) ==
  [verb |-> l.verb,
   n |-> IF l.verb \in {"set", "auto", "offset"} THEN Number(l.args[1]) ELSE 0,
   unit |-> "ms",
   steps |-> IF l.verb = "auto" THEN Inputs(l.csv)
             ELSE IF l.verb = "plan" THEN Steps(Solid(l.args)) ELSE <<>>,
   repeat |-> l.verb = "plan" /\ "repeat" \in l.flags]

CliRequest(l) ==
  [verb |-> l.verb,
   n |-> IF l.verb \in {"set", "auto", "offset"} THEN Number(l.args[1]) ELSE 0,
   unit |-> IF l.verb = "auto" /\ "us" \in l.flags THEN "us" ELSE "ms",
   steps |-> IF l.verb = "auto" THEN Inputs(l.csv)
             ELSE IF l.verb = "plan" THEN Steps(Solid(l.args)) ELSE <<>>,
   repeat |-> l.verb = "plan" /\ "repeat" \in l.flags]

\* The prompt: keywords may stand anywhere after the first operand, and the last
\* list of inputs counts.
UsWords     == {Keyword("us"), Keyword("--us")}
RepeatWords == {Keyword("repeat"), Keyword("--repeat"), Keyword("r")}

Without(ws, keywords) == Keep(ws, {i \in DOMAIN ws : ws[i] \notin keywords})
Lists(l) == Without(Tail(l.args), UsWords)

ReplParses(l) ==
  /\ l.verb \in Verbs.repl
  /\ l.verb \in {"set", "auto", "offset"} => l.args # <<>> /\ Begins(l.args[1])
  /\ l.verb = "offset" => Number(l.args[1]) \in 0..359
  /\ l.verb = "auto" => \A i \in DOMAIN Lists(l) : IsInputs(Lists(l)[i])
  /\ l.verb = "plan" => IsPlan(Without(l.args, RepeatWords))

ReplRequest(l) ==
  [verb |-> l.verb,
   n |-> IF l.verb \in {"set", "auto", "offset"} THEN Number(l.args[1]) ELSE 0,
   unit |-> IF l.verb = "auto" /\ Len(Lists(l)) < Len(l.args) - 1 THEN "us" ELSE "ms",
   steps |-> IF l.verb = "plan" THEN Steps(Without(l.args, RepeatWords))
             ELSE IF l.verb = "auto" /\ Lists(l) # <<>> THEN Inputs(Last(Lists(l))) ELSE <<>>,
   repeat |-> l.verb = "plan" /\ Without(l.args, RepeatWords) # l.args]

-----------------------------------------------------------------------------
(* The board's shape *)

legacy == [inputCount |-> 10, features |-> legacy_features]

\* Mutant: a count of zero is taken.
AdoptAny(s, b, field) ==
  CASE field = "capsInputCount" -> [s EXCEPT !.inputCount = b.inputs]
    [] field = "capsFeatures"   ->
         LET flags == parse_feature_flags(b.text)
         IN  [s EXCEPT !.features = IF flags = nullopt THEN @ ELSE flags]

\* What a capability state makes of a shape: a count of zero and a text that does
\* not parse change nothing.
Adopt(s, b, field) ==
  CASE field = "capsInputCount" -> [s EXCEPT !.inputCount = IF b.inputs > 0 THEN b.inputs ELSE @]
    [] field = "capsFeatures"   ->
         LET flags == parse_feature_flags(b.text)
         IN  [s EXCEPT !.features = IF flags = nullopt THEN @ ELSE flags]

\* The feature a verb needs.
Needs == [auto |-> "auto", plan |-> "plan", off |-> "off"]

InputsOf(q) ==
  (IF q.verb = "set" THEN {q.n} ELSE {})
    \cup {q.steps[i].n : i \in {j \in DOMAIN q.steps : q.steps[j].kind = "input"}}

\* Mutant: the last input of a board is refused.
AdmissibleBelow(q, s) ==
  /\ q.verb \in DOMAIN Needs => Has(s.features, Needs[q.verb])
  /\ InputsOf(q) \subseteq 1..(s.inputCount - 1)

\* check_feature() and check_input().
Admissible(q, s) ==
  /\ q.verb \in DOMAIN Needs => Has(s.features, Needs[q.verb])
  /\ InputsOf(q) \subseteq 1..s.inputCount

\* What is printed of a shape; the text form has the names of its features only.
Shown(s) ==
  [features    |-> IF form = "cli" THEN format_feature_flags(s.features) ELSE <<>>,
   featureList |-> decode_features(s.features)]

NoRequest == [verb |-> "none", n |-> 0, unit |-> "ms", steps |-> <<>>, repeat |-> FALSE]
NoShapes == [c \in {} |-> 0]
NoLine == [verb |-> "none", args |-> <<>>, flags |-> {}, csv |-> <<>>]

-----------------------------------------------------------------------------
Init ==
  /\ form \in {"cli", "repl"}
  /\ stage = IF form = "cli" THEN "shell" ELSE "connect"
  /\ line = NoLine /\ request = NoRequest /\ target \in Channels
  /\ board \in Boards /\ heard = {} /\ caps = [c \in Channels |-> legacy]
  /\ sent = <<>> /\ shown = NoShapes /\ outcome = "none" /\ shape = [c \in Channels |-> legacy]

\* main(): the words are read before a connection is made.
Run(l) ==
  /\ stage = "shell"
  /\ line' = l
  /\ \/ CliParses(l) /\ stage' = "connect" /\ request' = CliRequest(l) /\ UNCHANGED outcome
     \/ ~CliParses(l) /\ stage' = "exited" /\ outcome' = "invalid" /\ UNCHANGED request
  /\ UNCHANGED <<form, target, boardVars, sent, shown, shape>>

\* connect() returns, with or without the capabilities.
Connect ==
  /\ stage = "connect"
  /\ stage' = IF form = "cli" THEN "act" ELSE "prompt"
  /\ UNCHANGED <<lineVars, request, boardVars, endVars>>

\* A capability of a channel reaches the snapshot, during connect() or later; one
\* that comes between a line and the next prompt is heard at that prompt.
Hear(c, field) ==
  /\ stage \in {"connect", "act", "prompt"} /\ <<c, field>> \notin heard
  /\ heard' = heard \cup {<<c, field>>}
  /\ caps' = [caps EXCEPT ![c] = Adopt(@, board[c], field)]
  /\ UNCHANGED <<stage, lineVars, request, board, endVars>>

\* process() up to the call of the library.
Enter(l) ==
  /\ stage = "prompt" /\ l.verb # "channel"
  /\ line' = l
  /\ \/ ReplParses(l) /\ stage' = "act" /\ request' = ReplRequest(l) /\ UNCHANGED outcome
     \/ ~ReplParses(l) /\ stage' = "done" /\ outcome' = "invalid" /\ UNCHANGED request
  /\ UNCHANGED <<form, target, boardVars, sent, shown, shape>>

\* `channel <1|2>` aims the lines that follow.
SwitchChannel(l) ==
  /\ stage = "prompt" /\ l.verb = "channel"
  /\ line' = l /\ stage' = "done"
  /\ LET valid == l.args # <<>> /\ Begins(l.args[1]) /\ Number(l.args[1]) \in Channels IN
       /\ target' = IF valid THEN Number(l.args[1]) ELSE target
       /\ outcome' = IF valid THEN "none" ELSE "invalid"
  /\ UNCHANGED <<form, request, boardVars, sent, shown, shape>>

\* repl() asks for the next line; nothing of the last one is kept but the target.
Reprompt ==
  /\ stage = "done"
  /\ stage' = "prompt" /\ line' = NoLine /\ request' = NoRequest
  /\ sent' = <<>> /\ shown' = NoShapes /\ outcome' = "none"
  /\ shape' = [c \in Channels |-> legacy]
  /\ UNCHANGED <<form, target, boardVars>>

\* What a channel has published so far, as its user knows it.
Published(c) ==
  [inputCount |-> IF <<c, "capsInputCount">> \in heard /\ board[c].inputs > 0
                  THEN board[c].inputs ELSE 10,
   features   |-> IF <<c, "capsFeatures">> \in heard /\ board[c].word # nullopt
                  THEN board[c].word ELSE legacy_features]

\* The library's call, or the printing of the shapes, and what follows it.
Act ==
  /\ stage = "act"
  /\ stage' = IF form = "cli" THEN "exited" ELSE "done"
  /\ shape' = [c \in Channels |-> Published(c)]
  /\ \/ /\ request.verb \in {"state", "caps"}
        /\ shown' = [c \in Channels |-> Shown(caps[c])]
        /\ outcome' = "shown"
        /\ UNCHANGED sent
     \/ /\ request.verb \in Actions /\ Admissible(request, caps[target])
        /\ sent' = Text(request, caps[target].inputCount)
        /\ outcome' = "sent"
        /\ UNCHANGED shown
     \/ /\ request.verb \in Actions /\ ~Admissible(request, caps[target])
        /\ outcome' = "refused"
        /\ UNCHANGED <<sent, shown>>
  /\ UNCHANGED <<lineVars, request, boardVars>>

Exited == stage = "exited" /\ UNCHANGED vars

Next ==
  \/ \E l \in CliLines : Run(l)
  \/ \E l \in ReplLines : Enter(l) \/ SwitchChannel(l)
  \/ Connect \/ Act \/ Reprompt \/ Exited
  \/ \E c \in Channels, field \in CapsFields : Hear(c, field)

Spec == Init /\ [][Next]_vars

-----------------------------------------------------------------------------
(* Properties *)

Marks == (Actions \ {"offset"}) \cup {"angle_offset=", "s", "r", ""}
ShapeType == [inputCount : Nat \ {0}, features : Words]

\* The values each variable can take.
TypeOK ==
  /\ form \in {"cli", "repl"} /\ stage \in {"shell", "connect", "prompt", "act", "done", "exited"}
  /\ line \in CliLines \cup ReplLines \cup {NoLine} /\ request \in Requests
  /\ target \in Channels /\ board \in Boards /\ heard \subseteq Channels \X CapsFields
  /\ caps \in [Channels -> ShapeType] /\ shape \in [Channels -> ShapeType]
  /\ sent \in Seq(Seq([mark : Marks, n : Int, unit : {"", "u"}]))
  /\ DOMAIN shown \in SUBSET Channels
  /\ outcome \in {"none", "sent", "shown", "refused", "invalid"}

\* w is the items s in their order, with fillers anywhere between them.
Holds(w, s, fillers) ==
  \E f \in [DOMAIN s -> DOMAIN w] :
    /\ \A i, j \in DOMAIN s : i < j => f[i] < f[j]
    /\ \A i \in DOMAIN s : w[f[i]] = s[i]
    /\ \A p \in DOMAIN w \ {f[i] : i \in DOMAIN s} : w[p] \in fillers

Numeral(n) == [int |-> TRUE, n |-> n, tail |-> ""]
Spelt(step) ==
  <<[int |-> TRUE, n |-> step.n, tail |-> IF step.kind = "delay" THEN step.unit ELSE ""]>>

\* The manual's lists of inputs and plans; a comma too many is no harm.
IsList(w, steps) ==
  /\ \A i \in DOMAIN steps : steps[i].kind = "input" /\ steps[i].n >= 1
  /\ Holds(w, [i \in DOMAIN steps |-> Numeral(steps[i].n)], {Keyword("")[1]})
IsTour(ws, steps, fillers) ==
  /\ steps # <<>> /\ \A i \in DOMAIN steps : steps[i].kind = "input" => steps[i].n >= 1
  /\ Holds(ws, [i \in DOMAIN steps |-> Spelt(steps[i])], fillers)

\* By the manual, the line asks for q: at the shell, and at the prompt.
CliSays(l, q) ==
  /\ l.verb = q.verb /\ q.verb \in Verbs.cli
  /\ q.verb \in {"set", "auto", "offset"} => l.args = <<<<Numeral(q.n)>>>>
  /\ q.verb \in {"stop", "off", "state"} => l.args = <<>>
  /\ q.verb = "set" => q.n >= 1
  /\ q.verb = "offset" => q.n \in 0..359
  /\ IF q.verb = "auto" THEN IsList(l.csv, q.steps) ELSE l.csv = <<>>
  /\ q.verb = "plan" => IsTour(l.args, q.steps, {<<>>})
  /\ "us" \in l.flags <=> q.unit = "us"
  /\ "repeat" \in l.flags <=> q.repeat

ReplSays(l, q) ==
  LET rest == Tail(l.args) IN
  /\ l.verb = q.verb /\ q.verb \in Verbs.repl
  /\ q.verb \in {"set", "offset"} => l.args = <<<<Numeral(q.n)>>>>
  /\ q.verb \in {"stop", "off", "caps"} => l.args = <<>>
  /\ q.verb = "offset" => q.n \in 0..359
  /\ q.verb = "auto" =>
       /\ l.args # <<>> /\ l.args[1] = <<Numeral(q.n)>>
       /\ \/ q.steps = <<>> /\ Holds(rest, <<>>, UsWords)
          \/ \E i \in DOMAIN rest : IsList(rest[i], q.steps) /\ Holds(rest, <<rest[i]>>, UsWords)
       /\ q.unit = "us" <=> \E i \in DOMAIN rest : rest[i] \in UsWords
  /\ q.verb = "plan" =>
       /\ IsTour(l.args, q.steps, RepeatWords)
       /\ q.repeat <=> \E i \in DOMAIN l.args : l.args[i] \in RepeatWords

Says(l, q) == IF form = "cli" THEN CliSays(l, q) ELSE ReplSays(l, q)

\* A line by which the manual asks for a request is read as this request and no other,
\* at the shell and at the prompt; at the shell no other line becomes a request.
RequestIsWish ==
  /\ \A q \in Wishes : Says(line, q) => request = q /\ outcome # "invalid"
  /\ form = "cli" /\ line # NoLine => outcome = "invalid" \/ Says(line, request)

\* What a board with n inputs does on a request: an auto cycle without a list
\* goes through every input.
Means(q, n) == IF q.verb = "auto" /\ q.steps = <<>> THEN [q EXCEPT !.steps = AllInputs(n)] ELSE q

\* What the manual lets a channel of this shape be asked.
Serves(q, s) ==
  /\ q.verb = "offset" => q.n \in 0..359
  /\ q.verb = "set" => q.n \in 1..s.inputCount
  /\ \A i \in DOMAIN q.steps :
       q.steps[i].kind = "input" => q.steps[i].n \in 1..s.inputCount
  /\ q.verb \in {"auto", "plan", "off"} => q.verb \in decode_features(s.features)

\* The text sent stands for one request only: no other request that the board
\* serves has the same text and another meaning.
TextTellsRequest ==
  outcome = "sent" => \A q \in Wishes :
    LET s == shape[target] IN
      q.verb \in Actions /\ Text(q, s.inputCount) = sent /\ Serves(q, s) =>
        Means(q, s.inputCount) = Means(request, s.inputCount)

\* A request goes out exactly when the shape the channel has published serves it,
\* the legacy shape until then; what is refused or not understood leaves nothing.
ServedExactly ==
  /\ outcome = "sent" <=> sent # <<>>
  /\ outcome = "sent" => Serves(request, shape[target])
  /\ outcome = "refused" => ~Serves(request, shape[target])

\* The word a board publishes survives reading and printing, its reserved bits
\* included, whatever the spelling; a text that is no word leaves the fallback.
WordSurvives ==
  outcome = "shown" => \A c \in Channels :
    /\ form = "cli" => parse_feature_flags(shown[c].features) = shape[c].features
    /\ shown[c].featureList = {f \in DOMAIN Bit : Has(shape[c].features, f)}
=============================================================================
