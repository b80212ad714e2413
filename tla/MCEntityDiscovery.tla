-------------------------- MODULE MCEntityDiscovery --------------------------
(* The firmwares TLC plays with: every role in the three spellings of its id;    *)
(* with strangers, one entity or all capability entities missing.                *)
EXTENDS EntityDiscovery

FieldList == <<"command">> \o StateFields

\* The friendly name of a role behind its channel, in words.
Titles ==
  [command |-> <<"Command">>, angle_offset |-> <<"Angle", "Offset">>,
   bearing |-> <<"Status", "Bearing">>, input |-> <<"Status", "Input">>,
   interval |-> <<"Status", "Interval", "us">>, mode |-> <<"Status", "Mode">>,
   inputs |-> <<"Status", "inputs">>, caps_input_count |-> <<"Caps", "Input", "Count">>,
   caps_circle_count |-> <<"Caps", "Circle", "Count">>, caps_features |-> <<"Caps", "Features">>]

DomainOf(field) ==
  CASE field = "command" -> "text" [] field = "angle_offset" -> "number"
    [] field \in {"mode", "inputs", "caps_features"} -> "text_sensor" [] OTHER -> "sensor"

Spaced(words, sep) ==
  FoldLeft(LAMBDA acc, w : acc \o (IF acc = <<>> THEN <<>> ELSE sep) \o <<w>>, <<>>, words)

\* `#1 Caps . Input Count`, with the bullet behind the group, if there is one.
NameOf(c, words) ==
  <<"#", c, " ">> \o
  (IF words[1] \in {"Status", "Caps"}
   THEN <<words[1], " ", "bullet", " ">> \o Spaced(Tail(words), <<" ">>)
   ELSE Spaced(words, <<" ">>))

\* `_1_caps____input_count`, and `1_caps__input_count` as the client derives it.
Underscored(name) ==
  [i \in DOMAIN name |-> IF name[i] \in Separators THEN "_" ELSE to_ascii_lower(name[i])]
Derived(name) ==
  Tail(Underscored(SelectSeq(name, LAMBDA p : p # "bullet")))

\* The three spellings: the device's, the client's, and none but the name.
ObjectId(name, style) == <<Underscored(name), Derived(name), <<>>>>[style + 1]

Index(c, i) == (IF c = "1" THEN 0 ELSE 10) + i

Entity(key, domain, role, object_id, name) ==
  [key |-> key, domain |-> domain, role |-> role, object_id |-> object_id, name |-> name]

\* All entities of a device that spells its ids in all styles, from the first.
Spelled(first) ==
  {LET name == NameOf(c, Titles[FieldList[i]])
   IN  Entity(Index(c, i), DomainOf(FieldList[i]), <<c, FieldList[i]>>,
              ObjectId(name, (first + i) % 3), name) :
     c \in Channels, i \in DOMAIN FieldList}

\* What else such devices publish: another digit in front, a field's name in another
\* domain or with more behind it, no channel at all; and a mode that comes twice.
Strangers ==
  {Entity(31, "text", <<>>, <<"1", "1", "_", "command">>, <<"Eleven">>),
   Entity(32, "number", <<>>, <<"_", "2", "1", "_", "angle", "_", "offset">>, <<"Twenty">>),
   Entity(33, "sensor", <<>>, <<"uptime">>, <<"Uptime">>),
   Entity(34, "sensor", <<>>, <<"bearing">>, <<"Bearing">>),
   Entity(35, "text_sensor", <<>>, <<"1", "_", "mode", "_", "version">>, <<"Version">>),
   Entity(36, "text_sensor", <<>>, <<>>, <<"#", "2", " ", "Command">>),
   Entity(0, "text_sensor", <<"1", "mode">>, <<"1", "_", "mode">>, <<"#", "1", " ", "Mode">>),
   Entity(37, "sensor", <<"2", "interval">>, <<>>, <<"#", "2", " ", "Interval">>)}

Missing ==
  {{}} \cup {{<<c, f>>} : c \in Channels, f \in Fields}
       \cup {Channels \X {f} : f \in {"bearing", "mode"}} \cup {Channels \X (Fields \ Required)}

MCDevices ==
  {Spelled(first) : first \in 0..2}
    \cup {{e \in Spelled(0) : e.role \notin missing} \cup Strangers : missing \in Missing}

MCOrders == {[k \in 0..37 |-> k], [k \in 0..37 |-> 37 - k]}
=============================================================================
