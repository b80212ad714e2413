---------------------------- MODULE MCCommandPath ----------------------------
(* Boards and lines for TLC: the spellings the manual gives of some requests,    *)
(* at the shell and at the prompt, and lines that stand for no request.          *)
EXTENDS CommandPath

Pad(tail) == [i \in 1..Nibbles - Len(tail) |-> 0] \o tail

Upper(w) == [i \in DOMAIN w |-> IF w[i] < 10 THEN 48 + w[i] ELSE 55 + w[i]]
Lower(w) == [i \in DOMAIN w |-> IF w[i] < 10 THEN 48 + w[i] ELSE 87 + w[i]]
Short(w) == LET first == {i \in DOMAIN w : w[i] # 0 \/ i = Len(w)}
            IN  SubSeq(w, CHOOSE i \in first : \A j \in first : i <= j, Len(w))

Spellings(w) ==
  {Upper(w), <<48, 120>> \o Lower(w), <<48, 88>> \o Upper(Short(w)) \o <<10>>,
   <<32, 9>> \o Lower(Short(w)) \o <<32>>}

\* Bits at both ends, some of them reserved.
Wide == <<13, 8>> \o [i \in 1..Nibbles - 4 |-> 0] \o <<10, 6>>

\* Nothing, blanks, "0x", "auto", "-17", and a digit too many.
Junk == {<<>>, <<32, 32>>, <<48, 120>>, <<97, 117, 116, 111>>, <<45, 49, 55>>,
         <<49>> \o Upper(Wide)}

Board(n, w, t) == [inputs |-> n, word |-> w, text |-> t]

MCChannels == {1, 2}
MCBoards ==
  {<<b, Board(2, Pad(<<8>>), <<56>>)>> :
     b \in {Board(3, Wide, t) : t \in Spellings(Wide)}
           \cup {Board(n, Pad(<<3, 15>>), <<51, 102>>) : n \in {0, 1, 3}}
           \cup {Board(3, Pad(<<>>), <<48>>), Board(3, Pad(<<4, 0>>), <<52, 48>>)}
           \cup {Board(0, nullopt, t) : t \in Junk}}

-----------------------------------------------------------------------------
Lead(n, t) == [int |-> TRUE, n |-> n, tail |-> t]
N(n)       == <<Lead(n, "")>>
Csv(ns)    == [i \in DOMAIN ns |-> Lead(ns[i], "")]
Empty      == Keyword("")[1]

Req(verb, n, unit, steps, repeat) ==
  [verb |-> verb, n |-> n, unit |-> unit, steps |-> steps, repeat |-> repeat]

\* A line, and the request it stands for, if any.
Line(wish, verb, args, flags, csv) ==
  [wish |-> wish, line |-> [verb |-> verb, args |-> args, flags |-> flags, csv |-> csv]]

\* Verbs alone, verbs with one number.
Plain(verbs) == {Line(<<Req(v, 0, "ms", <<>>, FALSE)>>, v, <<>>, {}, <<>>) : v \in verbs}
Numbered(verb, ns) ==
  {Line(<<Req(verb, n, "ms", <<>>, FALSE)>>, verb, <<N(n)>>, {}, <<>>) : n \in ns}

\* Lists of inputs, and plans as words with the steps they stand for.
ListSamples == {<<>>, <<1>>, <<1, 2>>, <<1, 2, 3>>, <<3, 1, 2>>, <<1, 4>>}
Listed(ns) == [i \in DOMAIN ns |-> InputStep(ns[i])]
Plans ==
  {<<<<N(1), <<Lead(100, "ms")>>, N(2), <<Lead(50, "us")>>>>,
     <<InputStep(1), DelayStep(100, "ms"), InputStep(2), DelayStep(50, "us")>>>>,
   <<<<N(2)>>, <<InputStep(2)>>>>,
   <<<<N(1), <<Lead(50, "ms")>>, N(4)>>, <<InputStep(1), DelayStep(50, "ms"), InputStep(4)>>>>}

PlanLine(p, repeat, args, flags) ==
  Line(<<Req("plan", 0, "ms", p[2], repeat)>>, "plan", args, flags, <<>>)
AutoLine(n, u, ns, args, flags, csv) ==
  Line(<<Req("auto", n, u, Listed(ns), FALSE)>>, "auto", args, flags, csv)

\* A list may have a comma too many; a list of no inputs is left out.
Csvs(ns) ==
  {Csv(ns)} \cup (IF ns = <<1, 2>> THEN {<<Lead(1, ""), Empty, Lead(2, ""), Empty>>} ELSE {})

\* `us` before, after or without the list.
Around(list, u) ==
  IF u = "ms" THEN {list}
  ELSE UNION {{<<us>> \o list, list \o <<us>>} : us \in UsWords}

\* What stands for no request: a number out of its range or with more behind it, a
\* word that is none, a list or a plan with such a word.
BadWords == {Keyword("x"), <<Lead(2, "x")>>, Csv(<<1, 2>>)}
BadLines ==
  {Line(<<>>, v, <<w>>, {}, <<>>) : v \in {"set", "auto", "offset", "plan"}, w \in BadWords}
    \cup {Line(<<>>, "set", <<N(n)>>, {}, <<>>) : n \in {-1, 0}}
    \cup {Line(<<>>, "offset", <<N(n)>>, {}, <<>>) : n \in {-1, 360}}
    \cup {Line(<<>>, "plan", ws, {}, <<>>) :
            ws \in {<<>>, <<N(0)>>, <<N(1), <<Lead(100, "xx")>>>>, <<Keyword("ms")>>}}
    \cup {Line(<<>>, "frob", <<>>, {}, <<>>)}
BadCsvs == {<<Lead(1, ""), Lead(2, "x")>>, <<Lead(0, "")>>}

Common == Plain({"stop", "off"}) \cup Numbered("set", {1, 3, 4}) \cup Numbered("offset", {0, 359})
            \cup BadLines

\* Operands and options that a subcommand does not have.
Foreign ==
  {Line(<<>>, v, <<N(1)>>, {}, <<>>) : v \in {"stop", "off", "state"}}
    \cup {Line(<<>>, "set", <<N(1)>>, {"us"}, <<>>), Line(<<>>, "off", <<>>, {"repeat"}, <<>>),
          Line(<<>>, "auto", <<N(3)>>, {"us", "repeat"}, <<>>),
          Line(<<>>, "plan", <<N(1)>>, {}, Csv(<<1>>))}

CliSamples ==
  Common \cup Plain({"state"})
    \cup UNION {{AutoLine(3, u, ns, <<N(3)>>, {"us"} \cap {u}, csv) : csv \in Csvs(ns)} :
                  u \in Units, ns \in ListSamples}
    \cup {Line(<<>>, "auto", <<N(3)>>, {}, csv) : csv \in BadCsvs}
    \cup {PlanLine(p, FALSE, p[1] \o <<<<>>>>, {}) : p \in Plans}
    \cup {PlanLine(p, TRUE, p[1], {"repeat"}) : p \in Plans}
    \cup {Line(<<>>, "plan", <<<<>>>>, {}, <<>>)} \cup Foreign

ReplSamples ==
  Common \cup Plain({"caps"})
    \cup UNION {{AutoLine(3, u, ns, <<N(3)>> \o words, {}, <<>>) :
                   words \in UNION {Around(IF ns = <<>> THEN <<>> ELSE <<csv>>, u) :
                                      csv \in Csvs(ns)}} : u \in Units, ns \in ListSamples}
    \cup {Line(<<>>, "auto", <<N(3), csv>>, {}, <<>>) : csv \in BadCsvs}
    \cup {Line(<<>>, "auto", <<N(3), Csv(<<1>>), Csv(<<2>>)>>, {}, <<>>)}
    \cup {PlanLine(p, FALSE, p[1], {}) : p \in Plans}
    \cup {PlanLine(p, TRUE, p[1] \o <<r>>, {}) : p \in Plans, r \in RepeatWords}
    \cup {Line(<<>>, "channel", <<w>>, {}, <<>>) : w \in BadWords \cup {N(1), N(3)}}
    \cup {Line(<<>>, "set", <<>>, {}, <<>>)}

MCCliLines == {s.line : s \in CliSamples}
MCReplLines == {s.line : s \in ReplSamples}
MCWishes == {s.wish[1] : s \in {t \in CliSamples \cup ReplSamples : t.wish # <<>>}}

\* The manual asks by each line for the request it was written for, and at the shell
\* for no other.
ASSUME SamplesSay ==
  /\ \A s \in CliSamples : \A q \in MCWishes : CliSays(s.line, q) <=> s.wish = <<q>>
  /\ \A s \in ReplSamples : s.wish # <<>> => ReplSays(s.line, s.wish[1])
=============================================================================
