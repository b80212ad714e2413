------------------------ MODULE EntityDiscoveryProofs ------------------------
(* Proofs about EntityDiscovery, for any firmwares, any order in which the       *)
(* registry lists the entities and any number of sessions.                       *)
EXTENDS EntityDiscovery, SequenceTheorems, WellFoundedInduction, TLAPS

-----------------------------------------------------------------------------
(* The entities of the firmwares *)

Published == UNION Devices

\* What the patterns make of an entity is what it is there for.
IdsTell ==
  \A e \in Published : \A c \in Channels, f \in Fields :
    f \in FieldsOf(e, c) <=> e.role = <<c, f>>

LEMMA EntityFacts ==
  /\ \A e \in Published : e.key # nullopt
  /\ \A e, g \in Published : e.key = g.key => e.role = g.role
  /\ \A order \in Orders : \A e \in Published : order[e.key] \in Nat
BY DevicesAssumption DEF Published

\* The field of a key is one, for a key belongs to entities of one role.
LEMMA KeyTellsField ==
  ASSUME NEW D \in SUBSET Published, NEW c, NEW f, NEW d, NEW g,
         NEW k \in KeysOf(D, c, f), k \in KeysOf(D, d, g)
  PROVE  c = d /\ f = g
<1>1. PICK e \in D : e.role = <<c, f>> /\ e.key = k
  BY DEF KeysOf
<1>2. PICK x \in D : x.role = <<d, g>> /\ x.key = k
  BY DEF KeysOf
<1>3. e.role = x.role
  BY <1>1, <1>2, EntityFacts
<1>4. QED
  BY <1>1, <1>2, <1>3

-----------------------------------------------------------------------------
(* Operators *)

\* A set of keys that have ranks has one of the lowest rank.
LEMMA FirstKey ==
  ASSUME NEW keys, keys # {}, NEW order, \A k \in keys : order[k] \in Nat
  PROVE  \E k \in keys : \A j \in keys : order[k] <= order[j]
<1> DEFINE R == {r \in Nat \X Nat : r[1] < r[2]}
           T == {order[k] : k \in keys}
<1>1. IsWellFoundedOn(R, Nat)
  BY NatLessThanWellFounded DEF OpToRel
<1>2. \A x, y \in Nat : y < x => <<y, x>> \in R
  BY SMT
<1>3. T \subseteq Nat /\ T # {}
  OBVIOUS
<1> HIDE DEF R, T
<1>4. PICK x \in T : \A y \in T : <<y, x>> \notin R
  BY <1>1, <1>3, WFMin
<1>5. \A y \in T : ~(y < x)
  BY <1>2, <1>3, <1>4, Zenon
<1>6. \A y \in T : x <= y
  BY <1>3, <1>5, SMT
<1>7. QED
  BY <1>4, <1>6 DEF T

\* A key that was found is kept; else one of the entities that the patterns tell to be
\* the field is taken, and one is if there is any.
LEMMA Resolved ==
  ASSUME IdsTell, registry \in SUBSET Published, NEW c \in Channels, NEW f \in Fields,
         NEW order \in Orders
  PROVE  /\ ent[c][f] # nullopt => Resolve(c, f, order) = ent[c][f]
         /\ Resolve(c, f, order) \in {ent[c][f], nullopt} \cup KeysOf(registry, c, f)
         /\ KeysOf(registry, c, f) # {} => Resolve(c, f, order) # nullopt
<1>1. Candidates(c, f) = KeysOf(registry, c, f)
  BY DEF Candidates, KeysOf, IdsTell
<1>2. \A k \in KeysOf(registry, c, f) : k # nullopt /\ order[k] \in Nat
  BY EntityFacts DEF KeysOf
<1>3. KeysOf(registry, c, f) # {} =>
        \E k \in KeysOf(registry, c, f) :
          \A j \in KeysOf(registry, c, f) : order[k] <= order[j]
  BY <1>2, FirstKey
<1> DEFINE K == KeysOf(registry, c, f)
           first == CHOOSE k \in K : \A j \in K : order[k] <= order[j]
<1>4. K # {} => first \in K
  BY <1>3
<1>5. Resolve(c, f, order) = IF ent[c][f] # nullopt THEN ent[c][f]
                             ELSE IF K = {} THEN nullopt ELSE first
  BY <1>1 DEF Resolve
<1> HIDE DEF K, first
<1>6. QED
  BY <1>2, <1>4, <1>5 DEF K

\* Every field but the command reports states, and is registered once.
StateField == Fields \ {"command"}

LEMMA StateFieldsAre ==
  /\ DOMAIN StateFields = 1..9
  /\ \A i \in 1..9 : StateFields[i] \in StateField
  /\ \A i, j \in 1..9 : StateFields[i] = StateFields[j] => i = j
  /\ \A f \in StateField : \E i \in 1..9 : StateFields[i] = f
BY DEF StateFields, StateField, Fields, Required

FoundKeys(found, c) == {found[c][f] : f \in StateField} \ {nullopt}

\* No two fields of the channel have the same key.
OneEach(found, c) ==
  \A f, g \in StateField : found[c][f] = found[c][g] /\ found[c][f] # nullopt => f = g

\* m routes each key of the channel to its field, and all other keys as `known` does.
Extends(m, known, found, c) ==
  /\ DOMAIN m = DOMAIN known \cup FoundKeys(found, c)
  /\ \A f \in StateField : found[c][f] # nullopt => m[found[c][f]] = <<c, f>>
  /\ \A k \in DOMAIN known \ FoundKeys(found, c) : m[k] = known[k]

LEMMA Registered ==
  ASSUME NEW found, NEW c, NEW known, OneEach(found, c)
  PROVE  Extends(register_keys(found, c, known), known, found, c)
<1> DEFINE keys == FoundKeys(found, c)
           m == register_keys(found, c, known)
           at(k) == {i \in DOMAIN StateFields : found[c][StateFields[i]] = k}
<1>1. {found[c][StateFields[i]] : i \in DOMAIN StateFields} \ {nullopt} = keys
  BY StateFieldsAre DEF FoundKeys
<1>2. m = [k \in DOMAIN known \cup keys |->
             IF k \in keys THEN <<c, StateFields[Max(at(k))]>> ELSE known[k]]
  BY <1>1 DEF register_keys
<1>3. ASSUME NEW f \in StateField, found[c][f] # nullopt
      PROVE  StateFields[Max(at(found[c][f]))] = f
  <2>1. PICK i \in 1..9 : StateFields[i] = f
    BY StateFieldsAre
  <2>2. at(found[c][f]) = {i}
    BY <1>3, <2>1, StateFieldsAre DEF OneEach
  <2>3. Max({i}) = i
    BY DEF Max
  <2>4. QED
    BY <2>1, <2>2, <2>3
<1> HIDE DEF at, m
<1>4. QED
  BY <1>2, <1>3 DEF FoundKeys, Extends, m

-----------------------------------------------------------------------------
(* The invariant *)

\* What the client works with comes from what was published.
Sources ==
  /\ device \in Devices /\ seen \subseteq Published
  /\ device \subseteq seen /\ registry \subseteq seen

\* A key that was found is that of an entity for its field, in this session or before.
Rightful ==
  \A c \in Channels, f \in Fields : ent[c][f] # nullopt => ent[c][f] \in KeysOf(seen, c, f)

\* The states of a key go to the field that has it, and each key found is routed.
Routed ==
  /\ nullopt \notin DOMAIN key_field
  /\ \A c \in Channels, f \in StateField :
       /\ \A k \in DOMAIN key_field : key_field[k] = <<c, f>> <=> ent[c][f] = k
       /\ ent[c][f] # nullopt => ent[c][f] \in DOMAIN key_field

\* What discover() left behind when it had the whole list.
Outcome ==
  phase = "discovered" =>
    /\ \A c \in Channels, f \in Fields :
         full /\ KeysOf(device, c, f) # {} => ent[c][f] # nullopt
    /\ discover_err = ~Verified(ent)

DiscoveryInv == Sources /\ Rightful /\ Routed /\ Outcome

LEMMA DiscoveryInit == Init => DiscoveryInv
<1> SUFFICES ASSUME Init PROVE DiscoveryInv
  OBVIOUS
<1>1. \A c \in Channels, f \in Fields : ent[c][f] = nullopt
  BY DEF Init
<1>2. Sources
  BY DEF Init, Sources, Published
<1>3. DOMAIN key_field = {} /\ phase = "closed"
  BY DEF Init
<1>4. Rightful /\ Routed /\ Outcome
  BY <1>1, <1>3 DEF Rightful, Routed, Outcome, StateField
<1>5. QED
  BY <1>2, <1>4 DEF DiscoveryInv

LEMMA KeysGrow ==
  ASSUME NEW D, NEW E, D \subseteq E, NEW c, NEW f
  PROVE  KeysOf(D, c, f) \subseteq KeysOf(E, c, f)
BY DEF KeysOf

\* Both channels register: the keys of the one are none of the other's.
LEMMA DiscoverRoutes ==
  ASSUME NEW found, NEW order \in Orders, Discover(order), Routed, seen \subseteq Published,
         ent' = found, \A c \in Channels, f \in Fields : found[c][f] # nullopt =>
                         found[c][f] \in KeysOf(seen, c, f),
         \A c \in Channels, f \in Fields : ent[c][f] # nullopt => found[c][f] = ent[c][f]
  PROVE  Routed'
<1> DEFINE one == register_keys(found, "1", key_field)
           both == register_keys(found, "2", one)
<1>1. ASSUME NEW c \in Channels, NEW f \in Fields, NEW d \in Channels, NEW g \in Fields,
             found[c][f] = found[d][g], found[c][f] # nullopt
      PROVE  c = d /\ f = g
  BY <1>1, KeyTellsField
<1>2. key_field' = both /\ StateField \subseteq Fields /\ Channels = {"1", "2"}
  BY DEF Discover, StateField, Channels
<1>3. OneEach(found, "1") /\ OneEach(found, "2")
  BY <1>1, <1>2 DEF OneEach
<1>4. Extends(one, key_field, found, "1") /\ Extends(both, one, found, "2")
  BY <1>3, Registered, Zenon
<1> HIDE DEF one, both
<1>5. \A k \in FoundKeys(found, "1") : k \notin FoundKeys(found, "2")
  BY <1>1, <1>2 DEF FoundKeys
<1>6. ASSUME NEW c \in Channels, NEW f \in StateField, found[c][f] # nullopt
      PROVE  found[c][f] \in DOMAIN both /\ both[found[c][f]] = <<c, f>>
  BY <1>2, <1>4, <1>5, <1>6, ZenonT(30) DEF FoundKeys, Extends
<1>7. ASSUME NEW k \in DOMAIN both, NEW c \in Channels, NEW f \in StateField
      PROVE  both[k] = <<c, f>> <=> found[c][f] = k
  <2>1. CASE \E d \in Channels, g \in StateField : found[d][g] = k /\ k # nullopt
    <3>1. PICK d \in Channels, g \in StateField : found[d][g] = k /\ k # nullopt
      BY <2>1
    <3>2. both[k] = <<d, g>>
      BY <1>6, <3>1
    <3>3. QED
      BY <1>1, <1>2, <3>1, <3>2
  <2>2. CASE ~\E d \in Channels, g \in StateField : found[d][g] = k /\ k # nullopt
    <3>1. k \notin FoundKeys(found, "1") /\ k \notin FoundKeys(found, "2")
      BY <1>2, <2>2 DEF FoundKeys
    <3>2. k \in DOMAIN key_field /\ both[k] = key_field[k]
      BY <1>4, <3>1 DEF Extends
    <3>3. k # nullopt /\ found[c][f] # k
      BY <2>2, <3>2 DEF Routed
    <3>4. key_field[k] # <<c, f>>
      BY <1>2, <2>2, <3>2, <3>3 DEF Routed
    <3>5. QED
      BY <3>2, <3>3, <3>4
  <2>3. QED
    BY <2>1, <2>2
<1>8. nullopt \notin DOMAIN both
  BY <1>4 DEF Routed, FoundKeys, Extends
<1>9. key_field' = both /\ ent' = found
  BY <1>2
<1>10. /\ nullopt \notin DOMAIN key_field'
      /\ \A c \in Channels, f \in StateField :
           /\ \A k \in DOMAIN key_field' : key_field'[k] = <<c, f>> <=> ent'[c][f] = k
           /\ ent'[c][f] # nullopt => ent'[c][f] \in DOMAIN key_field'
  BY <1>6, <1>7, <1>8, <1>9
<1>11. QED
  BY <1>10 DEF Routed

LEMMA DiscoverStep ==
  ASSUME IdsTell, DiscoveryInv, NEW order \in Orders, Discover(order)
  PROVE  DiscoveryInv'
<1>1. /\ UNCHANGED <<device, registry, seen>> /\ full' = (device \subseteq registry)
      /\ discover_err' = ~Verified(ent')
      /\ \A c \in Channels, f \in Fields : ent'[c][f] = Resolve(c, f, order)
  BY DEF Discover
<1>2. Sources' /\ registry \in SUBSET Published /\ seen \subseteq Published
  BY <1>1 DEF DiscoveryInv, Sources
<1>3. ASSUME NEW c \in Channels, NEW f \in Fields
      PROVE  /\ ent[c][f] # nullopt => ent'[c][f] = ent[c][f]
             /\ ent'[c][f] # nullopt => ent'[c][f] \in KeysOf(seen, c, f)
             /\ KeysOf(registry, c, f) # {} => ent'[c][f] # nullopt
  <2>1. KeysOf(registry, c, f) \subseteq KeysOf(seen, c, f)
    BY KeysGrow DEF DiscoveryInv, Sources
  <2>2. ent'[c][f] = Resolve(c, f, order)
    BY <1>1
  <2>3. /\ ent[c][f] # nullopt => Resolve(c, f, order) = ent[c][f]
        /\ Resolve(c, f, order) \in {ent[c][f], nullopt} \cup KeysOf(registry, c, f)
        /\ KeysOf(registry, c, f) # {} => Resolve(c, f, order) # nullopt
    BY <1>2, Resolved
  <2>4. QED
    BY <2>1, <2>2, <2>3 DEF DiscoveryInv, Rightful
<1>4. Rightful'
  BY <1>1, <1>3 DEF Rightful
<1>5. Routed'
  BY <1>2, <1>3, DiscoverRoutes DEF DiscoveryInv
<1>6. Outcome'
  <2>1. ASSUME NEW c \in Channels, NEW f \in Fields, full', KeysOf(device, c, f) # {}
        PROVE  ent'[c][f] # nullopt
    BY <1>1, <1>3, <2>1, KeysGrow
  <2>2. QED
    BY <1>1, <2>1 DEF Outcome
<1>7. QED
  BY <1>2, <1>4, <1>5, <1>6 DEF DiscoveryInv

LEMMA DiscoveryStep == IdsTell /\ DiscoveryInv /\ [Next]_vars => DiscoveryInv'
<1> SUFFICES ASSUME IdsTell, DiscoveryInv, [Next]_vars PROVE DiscoveryInv'
  OBVIOUS
<1>1. CASE Connect
  BY <1>1 DEF Connect, DiscoveryInv, Sources, Rightful, Routed, Outcome
<1>2. CASE ListDone
  <2>1. Sources'
    BY <1>2 DEF ListDone, DiscoveryInv, Sources
  <2>2. QED
    BY <1>2, <2>1 DEF ListDone, DiscoveryInv, Rightful, Routed, Outcome
<1>3. ASSUME NEW order \in Orders, Discover(order) PROVE DiscoveryInv'
  BY <1>3, DiscoverStep
<1>4. CASE Close
  <2>1. Sources'
    BY <1>4 DEF Close, DiscoveryInv, Sources, Published
  <2>2. Rightful'
    BY <1>4, KeysGrow DEF Close, DiscoveryInv, Rightful
  <2>3. QED
    BY <1>4, <2>1, <2>2 DEF Close, DiscoveryInv, Routed, Outcome
<1>5. CASE UNCHANGED vars
  BY <1>5 DEF vars, DiscoveryInv, Sources, Rightful, Routed, Outcome
<1>6. QED
  BY <1>1, <1>2, <1>3, <1>4, <1>5 DEF Next

LEMMA DiscoveryAlways == ASSUME IdsTell PROVE Spec => []DiscoveryInv
<1>1. DiscoveryInv /\ [Next]_vars => DiscoveryInv'
  BY DiscoveryStep
<1>2. QED
  BY <1>1, DiscoveryInit, PTL DEF Spec

-----------------------------------------------------------------------------
(* Theorems *)

\* However many sessions there are, whatever firmware the device runs in each, in
\* whatever order its entities are listed and whether or not they are forgotten in
\* between: a field has the key of an entity that was published for it, and the states
\* of this key are routed to this field and to no other.
THEOREM KeysRight == ASSUME IdsTell PROVE Spec => []KeysAreRight
<1>1. DiscoveryInv => KeysAreRight
  <2> SUFFICES ASSUME DiscoveryInv, phase = "discovered", NEW c \in Channels, NEW f \in Fields
               PROVE  /\ ent[c][f] # nullopt => ent[c][f] \in KeysOf(seen, c, f)
                      /\ full /\ KeysOf(device, c, f) # {} => ent[c][f] # nullopt
                      /\ f # "command" => \A k \in DOMAIN key_field :
                                            (key_field[k] = <<c, f>>) <=> (ent[c][f] = k)
                      /\ f # "command" /\ ent[c][f] # nullopt => ent[c][f] \in DOMAIN key_field
    BY DEF KeysAreRight
  <2>1. f # "command" => f \in StateField
    BY DEF StateField
  <2>2. QED
    BY <2>1 DEF DiscoveryInv, Rightful, Routed, Outcome
<1>2. QED
  BY <1>1, DiscoveryAlways, PTL

\* verify_discovery() throws exactly when one of the seven entities of a channel was
\* never seen, as far as the list was complete.
THEOREM VerifiedTells == ASSUME IdsTell PROVE Spec => []VerifiedIffComplete
<1>1. DiscoveryInv => VerifiedIffComplete
  <2> SUFFICES ASSUME DiscoveryInv, phase = "discovered" PROVE VerifiedIffComplete
    BY DEF VerifiedIffComplete
  <2>1. Required \subseteq Fields
    BY DEF Fields
  <2>2. ~discover_err => Complete(seen)
    BY <2>1 DEF DiscoveryInv, Outcome, Rightful, Verified, Complete
  <2>3. full /\ Complete(device) => ~discover_err
    BY <2>1 DEF DiscoveryInv, Outcome, Verified, Complete
  <2>4. QED
    BY <2>2, <2>3 DEF VerifiedIffComplete
<1>2. QED
  BY <1>1, DiscoveryAlways, PTL

-----------------------------------------------------------------------------
(* The ids of the manual *)

DomainOf(f) ==
  CASE f = "command" -> "text"
    [] f = "angle_offset" -> "number"
    [] f \in {"mode", "inputs", "caps_features"} -> "text_sensor"
    [] OTHER -> "sensor"

\* The id of a channel's field as the manual names it, once it is normalized.
NormalId(c, f) ==
  CASE f = "command"      -> <<c, "_", "command">>
    [] f = "angle_offset" -> <<c, "_", "angle", "_", "offset">>
    [] f = "bearing"      -> <<c, "_", "status", "_", "bearing">>
    [] f = "input"        -> <<c, "_", "status", "_", "input">>
    [] f = "interval"     -> <<c, "_", "status", "_", "interval", "_", "us">>
    [] f = "mode"         -> <<c, "_", "status", "_", "mode">>
    [] f = "inputs"       -> <<c, "_", "status", "_", "inputs">>
    [] f = "caps_input_count"  -> <<c, "_", "caps", "_", "input", "_", "count">>
    [] f = "caps_circle_count" -> <<c, "_", "caps", "_", "circle", "_", "count">>
    [] f = "caps_features"     -> <<c, "_", "caps", "_", "features">>

\* The words of such ids and of the patterns.
Pieces ==
  {"1", "2", "_", "command", "angle", "offset", "status", "bearing", "input", "interval", "us",
   "mode", "inputs", "caps", "count", "circle", "features"}

\* t begins with s; t ends with s.
Begins(s, t) == Len(s) <= Len(t) /\ \A i \in 1..Len(s) : s[i] = t[i]
Ends(s, t) == Len(s) <= Len(t) /\ \A i \in 1..Len(s) : s[Len(s) - i + 1] = t[Len(t) - i + 1]

LEMMA PrefixByPlace ==
  ASSUME NEW s \in Seq(Pieces), NEW t \in Seq(Pieces)
  PROVE  IsPrefix(s, t) <=> Begins(s, t)
<1> DEFINE a == SubSeq(s, 1, Len(s))
           b == SubSeq(t, 1, Len(s))
<1>1. /\ a \in Seq(Pieces) /\ Len(a) = Len(s) /\ \A i \in 1..Len(s) : a[i] = s[i]
      /\ Len(s) \in Nat /\ Len(t) \in Nat
  OBVIOUS
<1>2. Len(s) <= Len(t) =>
        b \in Seq(Pieces) /\ Len(b) = Len(s) /\ \A i \in 1..Len(s) : b[i] = t[i]
  OBVIOUS
<1>3. IsPrefix(s, t) <=> Len(s) <= Len(t) /\ a = b
  BY DEF IsPrefix
<1> HIDE DEF a, b
<1>4. Len(s) <= Len(t) /\ (\A i \in 1..Len(s) : s[i] = t[i]) => a = b
  BY <1>1, <1>2, SeqEqual
<1>5. QED
  BY <1>1, <1>2, <1>3, <1>4 DEF Begins

LEMMA SuffixByPlace ==
  ASSUME NEW s \in Seq(Pieces), NEW t \in Seq(Pieces)
  PROVE  IsSuffix(s, t) <=> Ends(s, t)
<1> DEFINE a == Reverse(s)
           b == Reverse(t)
<1>1. /\ a \in Seq(Pieces) /\ Len(a) = Len(s)
      /\ \A i \in 1..Len(s) : a[i] = s[Len(s) - i + 1]
      /\ b \in Seq(Pieces) /\ Len(b) = Len(t)
      /\ \A i \in 1..Len(t) : b[i] = t[Len(t) - i + 1]
      /\ Len(s) \in Nat /\ Len(t) \in Nat
  BY DEF Reverse
<1>2. IsSuffix(s, t) <=> IsPrefix(a, b)
  BY DEF IsSuffix
<1> HIDE DEF a, b
<1>3. IsPrefix(a, b) <=> Begins(a, b)
  BY <1>1, PrefixByPlace
<1>4. Begins(a, b) <=> Ends(s, t)
  <2>1. ASSUME Len(s) <= Len(t), NEW i \in 1..Len(s) PROVE i \in 1..Len(t)
    BY <1>1, <2>1
  <2>2. Len(s) <= Len(t) => \A i \in 1..Len(s) :
          a[i] = s[Len(s) - i + 1] /\ b[i] = t[Len(t) - i + 1]
    BY <1>1, <2>1, Zenon
  <2>3. Begins(a, b) <=> Len(s) <= Len(t) /\ \A i \in 1..Len(s) : a[i] = b[i]
    BY <1>1 DEF Begins
  <2>4. QED
    BY <2>2, <2>3 DEF Ends
<1>5. QED
  BY <1>2, <1>3, <1>4

LEMMA OnePiece ==
  ASSUME NEW a \in Pieces
  PROVE  <<a>> \in Seq(Pieces) /\ Len(<<a>>) = 1 /\ <<a>>[1] = a
OBVIOUS

LEMMA TwoPieces ==
  ASSUME NEW a \in Pieces, NEW b \in Pieces, NEW t \in Seq(Pieces)
  PROVE  IsPrefix(<<a, b>>, t) <=> Len(t) >= 2 /\ t[1] = a /\ t[2] = b
<1> DEFINE s == <<a, b>>
<1>1. s \in Seq(Pieces) /\ Len(s) = 2 /\ s[1] = a /\ s[2] = b
  OBVIOUS
<1> HIDE DEF s
<1>2. IsPrefix(s, t) <=> Begins(s, t)
  BY <1>1, PrefixByPlace
<1>3. 1..2 = {1, 2}
  OBVIOUS
<1>4. QED
  BY <1>1, <1>2, <1>3 DEF Begins, s

\* How the patterns of a channel take an entity that has one id, or this one and an
\* empty one: only those of its own channel can, and they look at how the id ends.
IsIdOf(id, c) == id \in Seq(Pieces) /\ Len(id) >= 3 /\ id[1] = c /\ id[2] = "_"

LEMMA OneId ==
  ASSUME NEW c \in Channels, NEW d \in Channels, NEW id, IsIdOf(id, c),
         NEW ids, id \in ids, ids \subseteq {<<>>, id}
  PROVE  /\ \A s : id_matches(ids, d, s) <=> d = c /\ IsSuffix(s, id)
         /\ \A s : id_contains(ids, d, s) <=> d = c /\ contains(id, s)
<1>1. d \in Pieces /\ "_" \in Pieces
  BY DEF Channels, Pieces
<1>2. IsPrefix(<<d, "_">>, id) <=> Len(id) >= 2 /\ id[1] = d /\ id[2] = "_"
  BY <1>1, TwoPieces, Zenon DEF IsIdOf
<1>3. ~IsPrefix(<<d, "_">>, <<>>)
  <2>1. <<>> \in Seq(Pieces) /\ ~(Len(<<>>) >= 2)
    OBVIOUS
  <2>2. QED
    BY <1>1, <2>1, TwoPieces, Zenon
<1>4. Len(id) >= 2
  <2>1. id \in Seq(Pieces) /\ Len(id) >= 3
    BY Zenon DEF IsIdOf
  <2>2. QED
    BY <2>1
<1>5. IsPrefix(<<d, "_">>, id) <=> d = c
  BY <1>2, <1>4, Zenon DEF IsIdOf
<1>6. QED
  BY <1>3, <1>5, Zenon DEF id_matches, id_contains

\* A pattern of one word takes the ids that end with it; a longer one ends as they do.
LEMMA LastWord ==
  ASSUME NEW id \in Seq(Pieces), Len(id) >= 1
  PROVE  /\ \A w \in Pieces : IsSuffix(<<w>>, id) <=> id[Len(id)] = w
         /\ \A s \in Seq(Pieces) : Len(s) >= 1 /\ IsSuffix(s, id) => id[Len(id)] = s[Len(s)]
<1>1. ASSUME NEW s \in Seq(Pieces), Len(s) >= 1, IsSuffix(s, id)
      PROVE  id[Len(id)] = s[Len(s)]
  <2>1. Ends(s, id)
    BY <1>1, SuffixByPlace
  <2>2. 1 \in 1..Len(s) /\ Len(s) \in Nat /\ Len(id) \in Nat
    BY <1>1
  <2>3. s[Len(s) - 1 + 1] = id[Len(id) - 1 + 1]
    BY <2>1, <2>2 DEF Ends
  <2>4. QED
    BY <2>2, <2>3
<1>2. ASSUME NEW w \in Pieces PROVE IsSuffix(<<w>>, id) <=> id[Len(id)] = w
  <2> DEFINE s == <<w>>
  <2>1. s \in Seq(Pieces) /\ Len(s) = 1 /\ s[1] = w
    BY OnePiece
  <2> HIDE DEF s
  <2>2. IsSuffix(s, id) <=> Ends(s, id)
    BY <2>1, SuffixByPlace
  <2>3. Ends(s, id) <=> s[1] = id[Len(id)]
    BY <2>1 DEF Ends
  <2>4. QED
    BY <2>1, <2>2, <2>3 DEF s
<1>3. QED
  BY <1>1, <1>2

\* The first pattern that takes an entity gives its field.
LEMMA FirstHit ==
  ASSUME NEW e, NEW d, NEW chain, chain = Chain[e.domain], NEW i \in DOMAIN chain,
         DOMAIN chain \subseteq Nat, Matches(normalized_ids(e), d, chain[i]),
         \A j \in DOMAIN chain : j < i => ~Matches(normalized_ids(e), d, chain[j])
  PROVE  FieldsOf(e, d) = {chain[i][1]}
<1> DEFINE hits == {j \in DOMAIN chain : Matches(normalized_ids(e), d, chain[j])}
<1>1. FieldsOf(e, d) = {chain[j][1] : j \in {k \in hits : \A l \in hits : k <= l}}
  BY DEF FieldsOf
<1>2. {k \in hits : \A l \in hits : k <= l} = {i}
  OBVIOUS
<1>3. QED
  BY <1>1, <1>2

LEMMA NoHit ==
  ASSUME NEW e, NEW d, NEW chain, chain = Chain[e.domain],
         \A j \in DOMAIN chain : ~Matches(normalized_ids(e), d, chain[j])
  PROVE  FieldsOf(e, d) = {}
BY DEF FieldsOf

LEMMA ThreePieces ==
  ASSUME NEW a \in Pieces, NEW b \in Pieces, NEW c \in Pieces, NEW id, id = <<a, b, c>>
  PROVE  id \in Seq(Pieces) /\ Len(id) = 3 /\ id[1] = a /\ id[2] = b /\ id[Len(id)] = c
OBVIOUS

\* An id of five pieces, or of seven, by place.
IsFive(id, a, b, c, d, e) ==
  /\ id \in Seq(Pieces) /\ Len(id) = 5
  /\ id[1] = a /\ id[2] = b /\ id[3] = c /\ id[4] = d /\ id[5] = e /\ id[Len(id)] = e
  /\ IsSuffix(<<c, d, e>>, id)

IsSeven(id, a, b, c, d, e, f, g) ==
  /\ id \in Seq(Pieces) /\ Len(id) = 7 /\ id[1] = a /\ id[2] = b /\ id[Len(id)] = g
  /\ IsSuffix(<<c, d, e, f, g>>, id)
  /\ contains(id, <<e>>)

LEMMA FivePieces ==
  ASSUME NEW a \in Pieces, NEW b \in Pieces, NEW c \in Pieces, NEW d \in Pieces, NEW e \in Pieces,
         NEW id, id = <<a, b, c, d, e>>
  PROVE  IsFive(id, a, b, c, d, e)
<1>1. /\ id \in Seq(Pieces) /\ Len(id) = 5
      /\ id[1] = a /\ id[2] = b /\ id[3] = c /\ id[4] = d /\ id[5] = e
  OBVIOUS
<1> DEFINE s == <<c, d, e>>
<1>2. s \in Seq(Pieces) /\ Len(s) = 3 /\ s[1] = c /\ s[2] = d /\ s[3] = e
  OBVIOUS
<1> HIDE DEF s
<1>3. Ends(s, id)
  <2>1. 1..3 = {1, 2, 3}
    OBVIOUS
  <2>2. QED
    BY <1>1, <1>2, <2>1 DEF Ends
<1>4. IsSuffix(s, id)
  BY <1>1, <1>2, <1>3, SuffixByPlace
<1>5. QED
  BY <1>1, <1>4 DEF s, IsFive

LEMMA SevenPieces ==
  ASSUME NEW a \in Pieces, NEW b \in Pieces, NEW c \in Pieces, NEW d \in Pieces, NEW e \in Pieces,
         NEW f \in Pieces, NEW g \in Pieces, NEW id, id = <<a, b, c, d, e, f, g>>
  PROVE  IsSeven(id, a, b, c, d, e, f, g)
<1>1. /\ id \in Seq(Pieces) /\ Len(id) = 7 /\ id[1] = a /\ id[2] = b
      /\ id[3] = c /\ id[4] = d /\ id[5] = e /\ id[6] = f /\ id[7] = g
  OBVIOUS
<1> DEFINE s == <<c, d, e, f, g>>
<1>2. /\ s \in Seq(Pieces) /\ Len(s) = 5
      /\ s[1] = c /\ s[2] = d /\ s[3] = e /\ s[4] = f /\ s[5] = g
  BY FivePieces DEF IsFive
<1>3. IsSuffix(s, id)
  <2> HIDE DEF s
  <2>1. 1..5 = {1, 2, 3, 4, 5}
    OBVIOUS
  <2>2. Ends(s, id)
    BY <1>1, <1>2, <2>1 DEF Ends
  <2>3. QED
    BY <1>1, <1>2, <2>2, SuffixByPlace
<1>4. contains(id, <<e>>)
  <2> DEFINE w == <<e>>
  <2>1. w \in Seq(Pieces) /\ Len(w) = 1 /\ w[1] = e
    OBVIOUS
  <2> HIDE DEF w
  <2>2. 4 \in 0..Len(id) - Len(w)
    BY <1>1, <2>1
  <2>3. /\ SubSeq(id, 4 + 1, 4 + Len(w)) \in Seq(Pieces) /\ Len(SubSeq(id, 4 + 1, 4 + Len(w))) = 1
        /\ SubSeq(id, 4 + 1, 4 + Len(w))[1] = e
    BY <1>1, <2>1
  <2>4. SubSeq(id, 4 + 1, 4 + Len(w)) = w
    BY <2>1, <2>3, SeqEqual
  <2>5. QED
    BY <2>2, <2>4 DEF contains, w
<1>5. QED
  BY <1>1, <1>3, <1>4 DEF IsSeven

\* Two patterns of five words that take the same id agree in the middle.
LEMMA SameMiddle ==
  ASSUME NEW a \in Pieces, NEW b \in Pieces, NEW c \in Pieces, NEW d \in Pieces, NEW e \in Pieces,
         NEW x \in Pieces, NEW id \in Seq(Pieces),
         IsSuffix(<<a, b, c, d, e>>, id), IsSuffix(<<a, b, x, d, e>>, id)
  PROVE  c = x
<1> DEFINE s == <<a, b, c, d, e>>
           t == <<a, b, x, d, e>>
<1>1. s \in Seq(Pieces) /\ Len(s) = 5 /\ s[3] = c /\ t \in Seq(Pieces) /\ Len(t) = 5 /\ t[3] = x
  BY FivePieces DEF IsFive
<1> HIDE DEF s, t
<1>2. Ends(s, id) /\ Ends(t, id)
  BY <1>1, SuffixByPlace DEF s, t
<1>3. s[5 - 3 + 1] = id[Len(id) - 3 + 1] /\ t[5 - 3 + 1] = id[Len(id) - 3 + 1]
  BY <1>1, <1>2 DEF Ends
<1>4. QED
  BY <1>1, <1>3

\* A rule gives a field to the ids it takes by a pattern.
IsRule(rule, field, pattern) == rule[1] = field /\ rule[2] = pattern

\* A rule takes an id.
Takes(id, rule) ==
  IF rule[1] = "interval" THEN contains(id, rule[2]) ELSE IsSuffix(rule[2], id)

\* A rule is the first of its domain that takes an id.
FirstToTake(id, domain, i) ==
  /\ DOMAIN Chain[domain] \subseteq Nat /\ i \in DOMAIN Chain[domain] /\ Takes(id, Chain[domain][i])
  /\ \A j \in DOMAIN Chain[domain] : j < i => ~Takes(id, Chain[domain][j])

\* An entity's ids come to this one, if they come to anything.
OnlyId(e, id) == id \in normalized_ids(e) /\ normalized_ids(e) \subseteq {<<>>, id}

\* The patterns make one field of a channel of an entity.
IsFor(e, c, f) == \A d \in Channels : FieldsOf(e, d) = IF d = c THEN {f} ELSE {}

\* An entity with this id only is, for its own channel, what the first rule that takes
\* the id says, and nothing for the other channel.
LEMMA OwnHit ==
  ASSUME NEW c \in Channels, NEW id, IsIdOf(id, c), NEW e, OnlyId(e, id),
         NEW domain, e.domain = domain, NEW i, FirstToTake(id, domain, i),
         NEW f, NEW s, IsRule(Chain[domain][i], f, s)
  PROVE  IsFor(e, c, f)
<1> SUFFICES ASSUME NEW d \in Channels PROVE FieldsOf(e, d) = IF d = c THEN {f} ELSE {}
  BY DEF IsFor
<1> DEFINE chain == Chain[e.domain]
<1>1. ASSUME NEW rule PROVE Matches(normalized_ids(e), d, rule) <=> d = c /\ Takes(id, rule)
  <2> DEFINE ids == normalized_ids(e)
  <2>1. id \in ids /\ ids \subseteq {<<>>, id}
    BY DEF OnlyId
  <2> HIDE DEF ids
  <2>2. /\ \A t : id_matches(ids, d, t) <=> d = c /\ IsSuffix(t, id)
        /\ \A t : id_contains(ids, d, t) <=> d = c /\ contains(id, t)
    BY <2>1, OneId
  <2>3. CASE rule[1] = "interval"
    BY <2>2, <2>3, Zenon DEF Matches, Takes, ids
  <2>4. CASE rule[1] # "interval"
    BY <2>2, <2>4, Zenon DEF Matches, Takes, ids
  <2>5. QED
    BY <2>3, <2>4
<1>2. CASE d = c
  <2>1. Matches(normalized_ids(e), d, chain[i])
    BY <1>1, <1>2, Zenon DEF FirstToTake
  <2>2. \A j \in DOMAIN chain : j < i => ~Matches(normalized_ids(e), d, chain[j])
    BY <1>1, Zenon DEF FirstToTake
  <2>3. FieldsOf(e, d) = {chain[i][1]}
    BY <2>1, <2>2, FirstHit DEF FirstToTake
  <2>4. QED
    BY <1>2, <2>3, Zenon DEF IsRule
<1>3. CASE d # c
  <2>1. \A j \in DOMAIN chain : ~Matches(normalized_ids(e), d, chain[j])
    BY <1>1, <1>3, Zenon
  <2>2. QED
    BY <1>3, <2>1, NoHit, Zenon
<1>4. QED
  BY <1>2, <1>3

\* The rules of each domain.
LEMMA TextChain ==
  /\ DOMAIN Chain["text"] = {1}
  /\ IsRule(Chain["text"][1], "command", <<"command">>)
<1>0. DOMAIN Chain["text"] = 1..1
  BY DEF Chain
<1>1. IsRule(Chain["text"][1], "command", <<"command">>)
  BY DEF Chain, IsRule
<1>2. 1..1 = {1}
  OBVIOUS
<1>3. QED
  BY <1>0, <1>1, <1>2, Zenon

LEMMA NumberChain ==
  /\ DOMAIN Chain["number"] = {1}
  /\ IsRule(Chain["number"][1], "angle_offset", <<"angle", "_", "offset">>)
<1>0. DOMAIN Chain["number"] = 1..1
  BY DEF Chain
<1>1. IsRule(Chain["number"][1], "angle_offset", <<"angle", "_", "offset">>)
  BY DEF Chain, IsRule
<1>2. 1..1 = {1}
  OBVIOUS
<1>3. QED
  BY <1>0, <1>1, <1>2, Zenon

LEMMA SensorChain ==
  /\ DOMAIN Chain["sensor"] = {1, 2, 3, 4, 5}
  /\ IsRule(Chain["sensor"][1], "caps_input_count", <<"caps", "_", "input", "_", "count">>)
  /\ IsRule(Chain["sensor"][2], "caps_circle_count", <<"caps", "_", "circle", "_", "count">>)
  /\ IsRule(Chain["sensor"][3], "bearing", <<"bearing">>)
  /\ IsRule(Chain["sensor"][4], "input", <<"input">>)
  /\ IsRule(Chain["sensor"][5], "interval", <<"interval">>)
<1>0. DOMAIN Chain["sensor"] = 1..5
  BY DEF Chain
<1>1. IsRule(Chain["sensor"][1], "caps_input_count", <<"caps", "_", "input", "_", "count">>)
  BY DEF Chain, IsRule
<1>2. IsRule(Chain["sensor"][2], "caps_circle_count", <<"caps", "_", "circle", "_", "count">>)
  BY DEF Chain, IsRule
<1>3. IsRule(Chain["sensor"][3], "bearing", <<"bearing">>)
  BY DEF Chain, IsRule
<1>4. IsRule(Chain["sensor"][4], "input", <<"input">>)
  BY DEF Chain, IsRule
<1>5. IsRule(Chain["sensor"][5], "interval", <<"interval">>)
  BY DEF Chain, IsRule
<1>6. 1..5 = {1, 2, 3, 4, 5}
  OBVIOUS
<1>7. QED
  BY <1>0, <1>1, <1>2, <1>3, <1>4, <1>5, <1>6, Zenon

LEMMA TextSensorChain ==
  /\ DOMAIN Chain["text_sensor"] = {1, 2, 3}
  /\ IsRule(Chain["text_sensor"][1], "caps_features", <<"caps", "_", "features">>)
  /\ IsRule(Chain["text_sensor"][2], "mode", <<"mode">>)
  /\ IsRule(Chain["text_sensor"][3], "inputs", <<"inputs">>)
<1>0. DOMAIN Chain["text_sensor"] = 1..3
  BY DEF Chain
<1>1. IsRule(Chain["text_sensor"][1], "caps_features", <<"caps", "_", "features">>)
  BY DEF Chain, IsRule
<1>2. IsRule(Chain["text_sensor"][2], "mode", <<"mode">>)
  BY DEF Chain, IsRule
<1>3. IsRule(Chain["text_sensor"][3], "inputs", <<"inputs">>)
  BY DEF Chain, IsRule
<1>4. 1..3 = {1, 2, 3}
  OBVIOUS
<1>5. QED
  BY <1>0, <1>1, <1>2, <1>3, <1>4, Zenon

\* Where the rule is not the one for the interval, the id has to end as the pattern.
LEMMA PlainRule ==
  ASSUME NEW rule, NEW field, NEW pattern, IsRule(rule, field, pattern), field # "interval"
  PROVE  \A id : Takes(id, rule) <=> IsSuffix(pattern, id)
BY Zenon DEF IsRule, Takes

\* An entity is named for a field of a channel: in the field's domain, and the id of the
\* field is what its ids come to.
NamedFor(e, c, f) == e.domain = DomainOf(f) /\ OnlyId(e, NormalId(c, f))

\* A channel and its digit.
LEMMA ChannelPieces == \A c \in Channels : c \in Pieces
BY DEF Channels, Pieces

LEMMA AtLeastThree == 3 >= 3 /\ 5 >= 3 /\ 7 >= 3
OBVIOUS

\* An id of a channel that ends with a word.
EndsWith(id, c, w) == IsIdOf(id, c) /\ id[Len(id)] = w

LEMMA IdOfThree ==
  ASSUME NEW c \in Channels, NEW w \in Pieces, NEW id, id = <<c, "_", w>>
  PROVE  EndsWith(id, c, w)
<1>1. c \in Pieces /\ "_" \in Pieces
  BY ChannelPieces, Zenon DEF Pieces
<1>2. id \in Seq(Pieces) /\ Len(id) = 3 /\ id[1] = c /\ id[2] = "_" /\ id[Len(id)] = w
  BY <1>1, ThreePieces, Zenon
<1>4. QED
  BY <1>2, AtLeastThree, Zenon DEF EndsWith, IsIdOf

LEMMA IdOfFive ==
  ASSUME NEW c \in Channels, NEW x \in Pieces, NEW y \in Pieces, NEW w \in Pieces,
         NEW id, id = <<c, "_", x, y, w>>
  PROVE  EndsWith(id, c, w) /\ IsSuffix(<<x, y, w>>, id)
<1>1. c \in Pieces /\ "_" \in Pieces
  BY ChannelPieces, Zenon DEF Pieces
<1>2. IsFive(id, c, "_", x, y, w)
  BY <1>1, FivePieces, Zenon
<1>4. QED
  BY <1>2, AtLeastThree, Zenon DEF EndsWith, IsIdOf, IsFive

LEMMA IdOfSeven ==
  ASSUME NEW c \in Channels, NEW u \in Pieces, NEW v \in Pieces, NEW x \in Pieces,
         NEW y \in Pieces, NEW w \in Pieces, NEW id, id = <<c, "_", u, v, x, y, w>>
  PROVE  EndsWith(id, c, w) /\ IsSuffix(<<u, v, x, y, w>>, id) /\ contains(id, <<x>>)
<1>1. c \in Pieces /\ "_" \in Pieces
  BY ChannelPieces, Zenon DEF Pieces
<1>2. IsSeven(id, c, "_", u, v, x, y, w)
  BY <1>1, SevenPieces, Zenon
<1>4. QED
  BY <1>2, AtLeastThree, Zenon DEF EndsWith, IsIdOf, IsSeven

\* A rule takes the ids that end as it does.
LEMMA RulesByEnd ==
  ASSUME NEW c, NEW w, NEW id, EndsWith(id, c, w)
  PROVE  /\ \A a \in Pieces : IsSuffix(<<a>>, id) <=> a = w
         /\ \A a, b, d \in Pieces : IsSuffix(<<a, b, d>>, id) => d = w
         /\ \A a, b, d, x, y \in Pieces : IsSuffix(<<a, b, d, x, y>>, id) => y = w
<1>1. id \in Seq(Pieces) /\ id[Len(id)] = w
  BY Zenon DEF EndsWith, IsIdOf
<1>2. Len(id) >= 1
  <2>1. id \in Seq(Pieces) /\ Len(id) >= 3
    BY Zenon DEF EndsWith, IsIdOf
  <2>2. QED
    BY <2>1
<1>3. \A a \in Pieces : IsSuffix(<<a>>, id) <=> a = w
  BY <1>1, <1>2, LastWord, Zenon
<1>4. ASSUME NEW a \in Pieces, NEW b \in Pieces, NEW d \in Pieces, IsSuffix(<<a, b, d>>, id)
      PROVE  d = w
  <2> DEFINE s == <<a, b, d>>
  <2>1. s \in Seq(Pieces) /\ Len(s) >= 1 /\ s[Len(s)] = d
    OBVIOUS
  <2> HIDE DEF s
  <2>2. IsSuffix(s, id)
    BY <1>4 DEF s
  <2>3. QED
    BY <1>1, <1>2, <2>1, <2>2, LastWord, Zenon
<1>5. ASSUME NEW a \in Pieces, NEW b \in Pieces, NEW d \in Pieces, NEW x \in Pieces,
             NEW y \in Pieces, IsSuffix(<<a, b, d, x, y>>, id)
      PROVE  y = w
  <2> DEFINE s == <<a, b, d, x, y>>
  <2>1. s \in Seq(Pieces) /\ Len(s) >= 1 /\ s[Len(s)] = y
    OBVIOUS
  <2> HIDE DEF s
  <2>2. IsSuffix(s, id)
    BY <1>5 DEF s
  <2>3. QED
    BY <1>1, <1>2, <2>1, <2>2, LastWord, Zenon
<1>6. QED
  BY <1>3, <1>4, <1>5

\* The rules take an id that ends with a word, or pass it over.
LEMMA RulesTake ==
  ASSUME NEW c, NEW w, NEW id, EndsWith(id, c, w)
  PROVE  /\ Takes(id, Chain["text"][1]) <=> "command" = w
         /\ Takes(id, Chain["sensor"][1]) => "count" = w
         /\ Takes(id, Chain["sensor"][2]) => "count" = w
         /\ Takes(id, Chain["sensor"][3]) <=> "bearing" = w
         /\ Takes(id, Chain["sensor"][4]) <=> "input" = w
         /\ Takes(id, Chain["text_sensor"][1]) => "features" = w
         /\ Takes(id, Chain["text_sensor"][2]) <=> "mode" = w
         /\ Takes(id, Chain["text_sensor"][3]) <=> "inputs" = w
<1>1. {"_", "command", "bearing", "input", "mode", "inputs", "caps", "count", "circle",
       "features"} \subseteq Pieces
  BY DEF Pieces
<1>3. /\ \A a \in Pieces : IsSuffix(<<a>>, id) <=> a = w
      /\ \A a, b, d \in Pieces : IsSuffix(<<a, b, d>>, id) => d = w
      /\ \A a, b, d, x, y \in Pieces : IsSuffix(<<a, b, d, x, y>>, id) => y = w
  BY RulesByEnd
<1>4. /\ IsSuffix(<<"command">>, id) <=> "command" = w
      /\ IsSuffix(<<"bearing">>, id) <=> "bearing" = w
      /\ IsSuffix(<<"input">>, id) <=> "input" = w
      /\ IsSuffix(<<"mode">>, id) <=> "mode" = w
      /\ IsSuffix(<<"inputs">>, id) <=> "inputs" = w
  BY <1>1, <1>3, Zenon
<1>5. IsSuffix(<<"caps", "_", "features">>, id) => "features" = w
  BY <1>1, <1>3, Zenon
<1>6. /\ IsSuffix(<<"caps", "_", "input", "_", "count">>, id) => "count" = w
      /\ IsSuffix(<<"caps", "_", "circle", "_", "count">>, id) => "count" = w
  BY <1>1, <1>3, Zenon
<1>7. Takes(id, Chain["text"][1]) <=> IsSuffix(<<"command">>, id)
  BY TextChain, PlainRule, Zenon
<1>8. /\ Takes(id, Chain["sensor"][1]) <=> IsSuffix(<<"caps", "_", "input", "_", "count">>, id)
      /\ Takes(id, Chain["sensor"][2]) <=> IsSuffix(<<"caps", "_", "circle", "_", "count">>, id)
  BY SensorChain, PlainRule, Zenon
<1>9. /\ Takes(id, Chain["sensor"][3]) <=> IsSuffix(<<"bearing">>, id)
      /\ Takes(id, Chain["sensor"][4]) <=> IsSuffix(<<"input">>, id)
  BY SensorChain, PlainRule, Zenon
<1>10. /\ Takes(id, Chain["text_sensor"][1]) <=> IsSuffix(<<"caps", "_", "features">>, id)
       /\ Takes(id, Chain["text_sensor"][2]) <=> IsSuffix(<<"mode">>, id)
       /\ Takes(id, Chain["text_sensor"][3]) <=> IsSuffix(<<"inputs">>, id)
  BY TextSensorChain, PlainRule, Zenon
<1>11. QED
  BY <1>4, <1>5, <1>6, <1>7, <1>8, <1>9, <1>10, Zenon

\* The first rule of a domain, the second and so on.
LEMMA CountOfRules ==
  /\ {1, 2, 3, 4, 5} \subseteq Nat /\ \A j \in {1, 2, 3, 4, 5} : ~(j < 1)
  /\ \A j \in {1, 2, 3, 4, 5} : j < 2 => j = 1
  /\ \A j \in {1, 2, 3, 4, 5} : j < 3 => j \in {1, 2}
  /\ \A j \in {1, 2, 3, 4, 5} : j < 4 => j \in {1, 2, 3}
  /\ \A j \in {1, 2, 3, 4, 5} : j < 5 => j \in {1, 2, 3, 4}
OBVIOUS

LEMMA TextField ==
  ASSUME NEW c \in Channels, NEW e, NamedFor(e, c, "command")
  PROVE  IsFor(e, c, "command")
<1> DEFINE id == <<c, "_", "command">>
<1>1. id = NormalId(c, "command") /\ DomainOf("command") = "text"
  BY DEF NormalId, DomainOf
<1>2. EndsWith(id, c, "command")
  BY IdOfThree, Zenon DEF Pieces
<1> HIDE DEF id
<1>3. Takes(id, Chain["text"][1])
  BY <1>2, RulesTake, Zenon
<1>4. FirstToTake(id, "text", 1)
  BY <1>3, TextChain, CountOfRules, Zenon DEF FirstToTake
<1>5. QED
  BY <1>1, <1>2, <1>4, TextChain, OwnHit, Zenon DEF NamedFor, EndsWith

LEMMA NumberField ==
  ASSUME NEW c \in Channels, NEW e, NamedFor(e, c, "angle_offset")
  PROVE  IsFor(e, c, "angle_offset")
<1> DEFINE id == <<c, "_", "angle", "_", "offset">>
<1>1. id = NormalId(c, "angle_offset") /\ DomainOf("angle_offset") = "number"
  BY DEF NormalId, DomainOf
<1>2. EndsWith(id, c, "offset") /\ IsSuffix(<<"angle", "_", "offset">>, id)
  <2>1. "angle" \in Pieces /\ "_" \in Pieces /\ "offset" \in Pieces
    BY Zenon DEF Pieces
  <2>2. QED
    BY <2>1, IdOfFive, Zenon
<1> HIDE DEF id
<1>3. Takes(id, Chain["number"][1])
  BY <1>2, NumberChain, PlainRule, Zenon
<1>4. FirstToTake(id, "number", 1)
  BY <1>3, NumberChain, CountOfRules, Zenon DEF FirstToTake
<1>5. QED
  BY <1>1, <1>2, <1>4, NumberChain, OwnHit, Zenon DEF NamedFor, EndsWith

LEMMA TextSensorField ==
  ASSUME NEW c \in Channels, NEW e, NEW f \in {"caps_features", "mode", "inputs"},
         NamedFor(e, c, f)
  PROVE  IsFor(e, c, f)
<1> DEFINE id == NormalId(c, f)
<1>1. DomainOf(f) = "text_sensor"
  BY DEF DomainOf
<1>2. CASE f = "caps_features"
  <2>1. id = <<c, "_", "caps", "_", "features">>
    BY <1>2 DEF NormalId
  <2>2. "_" \in Pieces /\ "caps" \in Pieces /\ "features" \in Pieces
    BY Zenon DEF Pieces
  <2> HIDE DEF id
  <2>3. EndsWith(id, c, "features") /\ IsSuffix(<<"caps", "_", "features">>, id)
    BY <2>1, <2>2, IdOfFive, Zenon
  <2>4. Takes(id, Chain["text_sensor"][1])
    BY <2>3, TextSensorChain, PlainRule, Zenon
  <2>5. FirstToTake(id, "text_sensor", 1)
    BY <2>4, TextSensorChain, CountOfRules, Zenon DEF FirstToTake
  <2>6. QED
    BY <1>1, <1>2, <2>3, <2>5, TextSensorChain, OwnHit, Zenon DEF NamedFor, EndsWith, id
<1>3. CASE f = "mode"
  <2>1. id = <<c, "_", "status", "_", "mode">>
    BY <1>3 DEF NormalId
  <2>2. "_" \in Pieces /\ "status" \in Pieces /\ "mode" \in Pieces
    BY Zenon DEF Pieces
  <2> HIDE DEF id
  <2>3. EndsWith(id, c, "mode")
    BY <2>1, <2>2, IdOfFive, Zenon
  <2>4. Takes(id, Chain["text_sensor"][2])
    BY <2>3, RulesTake, Zenon
  <2>5. ~Takes(id, Chain["text_sensor"][1])
    BY <2>3, RulesTake, Zenon
  <2>6. FirstToTake(id, "text_sensor", 2)
    BY <2>4, <2>5, TextSensorChain, CountOfRules, Zenon DEF FirstToTake
  <2>7. QED
    BY <1>1, <1>3, <2>3, <2>6, TextSensorChain, OwnHit, Zenon DEF NamedFor, EndsWith, id
<1>4. CASE f = "inputs"
  <2>1. id = <<c, "_", "status", "_", "inputs">>
    BY <1>4 DEF NormalId
  <2>2. "_" \in Pieces /\ "status" \in Pieces /\ "inputs" \in Pieces
    BY Zenon DEF Pieces
  <2> HIDE DEF id
  <2>3. EndsWith(id, c, "inputs")
    BY <2>1, <2>2, IdOfFive, Zenon
  <2>4. Takes(id, Chain["text_sensor"][3])
    BY <2>3, RulesTake, Zenon
  <2>5. ~Takes(id, Chain["text_sensor"][1]) /\ ~Takes(id, Chain["text_sensor"][2])
    BY <2>3, RulesTake, Zenon
  <2>6. FirstToTake(id, "text_sensor", 3)
    BY <2>4, <2>5, TextSensorChain, CountOfRules, Zenon DEF FirstToTake
  <2>7. QED
    BY <1>1, <1>4, <2>3, <2>6, TextSensorChain, OwnHit, Zenon DEF NamedFor, EndsWith, id
<1>5. QED
  BY <1>2, <1>3, <1>4

LEMMA SensorField ==
  ASSUME NEW c \in Channels, NEW e,
         NEW f \in {"caps_input_count", "caps_circle_count", "bearing", "input", "interval"},
         NamedFor(e, c, f)
  PROVE  IsFor(e, c, f)
<1> DEFINE id == NormalId(c, f)
<1>1. DomainOf(f) = "sensor"
  BY DEF DomainOf
<1>2. CASE f = "caps_input_count"
  <2>1. id = <<c, "_", "caps", "_", "input", "_", "count">>
    BY <1>2 DEF NormalId
  <2>2. "_" \in Pieces /\ "caps" \in Pieces /\ "input" \in Pieces /\ "count" \in Pieces
    BY Zenon DEF Pieces
  <2> HIDE DEF id
  <2>3. EndsWith(id, c, "count") /\ IsSuffix(<<"caps", "_", "input", "_", "count">>, id)
    BY <2>1, <2>2, IdOfSeven, Zenon
  <2>4. Takes(id, Chain["sensor"][1])
    BY <2>3, SensorChain, PlainRule, Zenon
  <2>5. FirstToTake(id, "sensor", 1)
    BY <2>4, SensorChain, CountOfRules, Zenon DEF FirstToTake
  <2>6. QED
    BY <1>1, <1>2, <2>3, <2>5, SensorChain, OwnHit, Zenon DEF NamedFor, EndsWith, id
<1>3. CASE f = "caps_circle_count"
  <2>1. id = <<c, "_", "caps", "_", "circle", "_", "count">>
    BY <1>3 DEF NormalId
  <2>2. "_" \in Pieces /\ "caps" \in Pieces /\ "circle" \in Pieces /\ "count" \in Pieces
    BY Zenon DEF Pieces
  <2> HIDE DEF id
  <2>3. EndsWith(id, c, "count") /\ IsSuffix(<<"caps", "_", "circle", "_", "count">>, id)
    BY <2>1, <2>2, IdOfSeven, Zenon
  <2>4. Takes(id, Chain["sensor"][2])
    BY <2>3, SensorChain, PlainRule, Zenon
  <2>5. ~Takes(id, Chain["sensor"][1])
    <3>1. "circle" # "input" /\ "circle" \in Pieces /\ "input" \in Pieces /\ id \in Seq(Pieces)
      BY <2>3, Zenon DEF Pieces, EndsWith, IsIdOf
    <3>2. ~IsSuffix(<<"caps", "_", "input", "_", "count">>, id)
      BY <2>2, <2>3, <3>1, SameMiddle, Zenon
    <3>3. QED
      BY <3>2, SensorChain, PlainRule, Zenon
  <2>6. FirstToTake(id, "sensor", 2)
    BY <2>4, <2>5, SensorChain, CountOfRules, Zenon DEF FirstToTake
  <2>7. QED
    BY <1>1, <1>3, <2>3, <2>6, SensorChain, OwnHit, Zenon DEF NamedFor, EndsWith, id
<1>4. CASE f = "bearing"
  <2>1. id = <<c, "_", "status", "_", "bearing">>
    BY <1>4 DEF NormalId
  <2>2. "_" \in Pieces /\ "status" \in Pieces /\ "bearing" \in Pieces
    BY Zenon DEF Pieces
  <2> HIDE DEF id
  <2>3. EndsWith(id, c, "bearing")
    BY <2>1, <2>2, IdOfFive, Zenon
  <2>4. Takes(id, Chain["sensor"][3])
    BY <2>3, RulesTake, Zenon
  <2>5. ~Takes(id, Chain["sensor"][1]) /\ ~Takes(id, Chain["sensor"][2])
    BY <2>3, RulesTake, Zenon
  <2>6. FirstToTake(id, "sensor", 3)
    BY <2>4, <2>5, SensorChain, CountOfRules, Zenon DEF FirstToTake
  <2>7. QED
    BY <1>1, <1>4, <2>3, <2>6, SensorChain, OwnHit, Zenon DEF NamedFor, EndsWith, id
<1>5. CASE f = "input"
  <2>1. id = <<c, "_", "status", "_", "input">>
    BY <1>5 DEF NormalId
  <2>2. "_" \in Pieces /\ "status" \in Pieces /\ "input" \in Pieces
    BY Zenon DEF Pieces
  <2> HIDE DEF id
  <2>3. EndsWith(id, c, "input")
    BY <2>1, <2>2, IdOfFive, Zenon
  <2>4. Takes(id, Chain["sensor"][4])
    BY <2>3, RulesTake, Zenon
  <2>5. /\ ~Takes(id, Chain["sensor"][1])
        /\ ~Takes(id, Chain["sensor"][2])
        /\ ~Takes(id, Chain["sensor"][3])
    BY <2>3, RulesTake, Zenon
  <2>6. FirstToTake(id, "sensor", 4)
    BY <2>4, <2>5, SensorChain, CountOfRules, Zenon DEF FirstToTake
  <2>7. QED
    BY <1>1, <1>5, <2>3, <2>6, SensorChain, OwnHit, Zenon DEF NamedFor, EndsWith, id
<1>6. CASE f = "interval"
  <2>1. id = <<c, "_", "status", "_", "interval", "_", "us">>
    BY <1>6 DEF NormalId
  <2>2. "_" \in Pieces /\ "status" \in Pieces /\ "interval" \in Pieces /\ "us" \in Pieces
    BY Zenon DEF Pieces
  <2> HIDE DEF id
  <2>3. EndsWith(id, c, "us") /\ contains(id, <<"interval">>)
    BY <2>1, <2>2, IdOfSeven, Zenon
  <2>4. Takes(id, Chain["sensor"][5])
    BY <2>3, SensorChain, Zenon DEF Takes, IsRule
  <2>5. /\ ~Takes(id, Chain["sensor"][1])
        /\ ~Takes(id, Chain["sensor"][2])
        /\ ~Takes(id, Chain["sensor"][3])
        /\ ~Takes(id, Chain["sensor"][4])
    BY <2>3, RulesTake, Zenon
  <2>6. FirstToTake(id, "sensor", 5)
    BY <2>4, <2>5, SensorChain, CountOfRules, Zenon DEF FirstToTake
  <2>7. QED
    BY <1>1, <1>6, <2>3, <2>6, SensorChain, OwnHit, Zenon DEF NamedFor, EndsWith, id
<1>7. QED
  BY <1>2, <1>3, <1>4, <1>5, <1>6

LEMMA NamedIsFor ==
  ASSUME NEW c \in Channels, NEW f \in Fields, NEW e, NamedFor(e, c, f)
  PROVE  IsFor(e, c, f)
<1>1. \/ f = "command" \/ f = "angle_offset" \/ f \in {"caps_features", "mode", "inputs"}
      \/ f \in {"caps_input_count", "caps_circle_count", "bearing", "input", "interval"}
  BY DEF Fields, Required
<1>2. QED
  BY <1>1, TextField, NumberField, TextSensorField, SensorField, Zenon

\* Each entity is named for the field it is there for, or is there for nothing and no
\* pattern takes it.
IdsNormal ==
  \A e \in Published :
    \/ \E c \in Channels, f \in Fields : e.role = <<c, f>> /\ NamedFor(e, c, f)
    \/ /\ e.role = <<>>
       /\ \A c \in Channels : \A i \in DOMAIN Chain[e.domain] :
            ~Matches(normalized_ids(e), c, Chain[e.domain][i])

\* The ids of the manual are told apart: where each entity's ids come to the one of its
\* field, in the domain of the field, or to one that no pattern takes, what the patterns
\* make of an entity is what it is there for: `1_caps_input_count` is taken neither for the
\* input nor for the circles, and by channel 1 only.
THEOREM NormalIdsTell == IdsNormal => IdsTell
<1> SUFFICES ASSUME IdsNormal, NEW e \in Published, NEW c \in Channels, NEW f \in Fields
             PROVE  f \in FieldsOf(e, c) <=> e.role = <<c, f>>
  BY DEF IdsTell
<1>1. CASE \E d \in Channels, g \in Fields : e.role = <<d, g>> /\ NamedFor(e, d, g)
  <2>1. PICK d \in Channels, g \in Fields : e.role = <<d, g>> /\ NamedFor(e, d, g)
    BY <1>1
  <2>2. IsFor(e, d, g)
    BY <2>1, NamedIsFor
  <2>3. f \in FieldsOf(e, c) <=> c = d /\ f = g
    BY <2>2 DEF IsFor
  <2>4. QED
    BY <2>1, <2>3
<1>2. CASE /\ e.role = <<>>
           /\ \A d \in Channels : \A i \in DOMAIN Chain[e.domain] :
                ~Matches(normalized_ids(e), d, Chain[e.domain][i])
  <2>1. FieldsOf(e, c) = {}
    BY <1>2, NoHit
  <2>2. e.role # <<c, f>>
    BY <1>2
  <2>3. QED
    BY <2>1, <2>2
<1>3. QED
  BY <1>1, <1>2 DEF IdsNormal
================================================================================
