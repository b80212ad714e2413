--------------------------- MODULE EntityDiscovery ---------------------------
(***************************************************************************)
(* How the client finds its entities (discover() in src/src/client.cpp):   *)
(* the ids a device may spell in three ways, normalized to one             *)
(* (src/src/capabilities.cpp), matched against each channel's patterns,    *)
(* kept over the sessions of a switcher and routed back by key.            *)
(*                                                                         *)
(* An id is a sequence of digits, words and separators.  The device and    *)
(* the entity registry of the ESPHome client are external.                 *)
(***************************************************************************)
EXTENDS Naturals, SequencesExt

CONSTANTS
  Devices,      \* the firmwares: sets of entities, see IsEntity
  Orders,       \* orders in which the registry may list keys, as ranks
  MaxSessions,  \* bound: how many connect() calls a switcher sees
  nullopt       \* a key that was not found

Domains  == {"text", "number", "sensor", "text_sensor"}
Channels == {"1", "2"}
Required == {"command", "angle_offset", "bearing", "input", "interval", "mode", "inputs"}
Fields   == Required \cup {"caps_input_count", "caps_circle_count", "caps_features"}

\* An entity's key is its own over all domains and firmwares.  `role` is what it is there for: a
\* channel and a field, or nothing.
IsEntity(e) ==
  /\ e.domain \in Domains /\ e.role \in (Channels \X Fields) \cup {<<>>}
  /\ e.object_id \in Seq(STRING) /\ e.name \in Seq(STRING)

ASSUME DevicesAssumption ==
  /\ MaxSessions \in Nat
  /\ \A D \in Devices : \A e, f \in D : IsEntity(e) /\ (e.key = f.key => e = f) /\ e.key # nullopt
  /\ \A e, f \in UNION Devices : e.key = f.key => e.domain = f.domain /\ e.role = f.role
  /\ \A order \in Orders : \A D \in Devices : \A e \in D : order[e.key] \in Nat

VARIABLES
  phase, session,         \* where the session stands, how many there were
  device, registry,       \* what the device publishes, what client.entities() holds
  list_done,              \* Impl::list_done, which no session clears
  ent, key_field,         \* Impl::ent, Impl::key_field
  discover_err,           \* whether connect() throws
  full, seen              \* history: the list was complete; all that was published so far

vars == <<phase, session, device, registry, list_done, ent, key_field, discover_err, full, seen>>

-----------------------------------------------------------------------------
(* Ids *)

Separators == {"#", " ", "bullet", "_"}

\* The words that are spelled with a capital.
Capitals ==
  [Command |-> "command", Angle |-> "angle", Offset |-> "offset", Status |-> "status",
   Bearing |-> "bearing", Input |-> "input", Interval |-> "interval", Mode |-> "mode",
   Caps |-> "caps", Count |-> "count", Circle |-> "circle", Features |-> "features"]

to_ascii_lower(piece) == IF piece \in DOMAIN Capitals THEN Capitals[piece] ELSE piece

\* Runs of separators become one `_`, those at either end nothing.
normalize_entity_id(raw) ==
  FoldLeft(LAMBDA acc, piece :
             IF piece \in Separators THEN [acc EXCEPT !.pending = TRUE]
             ELSE [out |-> acc.out \o (IF acc.pending /\ acc.out # <<>> THEN <<"_">> ELSE <<>>)
                             \o <<to_ascii_lower(piece)>>,
                   pending |-> FALSE],
           [out |-> <<>>, pending |-> FALSE], raw).out

normalized_ids(e) == {normalize_entity_id(e.object_id), normalize_entity_id(e.name)}

contains(id, needle) ==
  \E i \in 0..Len(id) - Len(needle) : SubSeq(id, i + 1, i + Len(needle)) = needle

\* Mutant: the prefix of a channel is its digit.
id_matches_digit(ids, channel, suffix) ==
  \E id \in ids : IsPrefix(<<channel>>, id) /\ IsSuffix(suffix, id)

id_matches(ids, channel, suffix) ==
  \E id \in ids : IsPrefix(<<channel, "_">>, id) /\ IsSuffix(suffix, id)

id_contains(ids, channel, needle) ==
  \E id \in ids : IsPrefix(<<channel, "_">>, id) /\ contains(id, needle)

\* The patterns of a domain in the order they are tried, and their fields.
Chain ==
  [text        |-> <<<<"command", <<"command">>>>>>,
   number      |-> <<<<"angle_offset", <<"angle", "_", "offset">>>>>>,
   sensor      |-> <<<<"caps_input_count", <<"caps", "_", "input", "_", "count">>>>,
                     <<"caps_circle_count", <<"caps", "_", "circle", "_", "count">>>>,
                     <<"bearing", <<"bearing">>>>, <<"input", <<"input">>>>,
                     <<"interval", <<"interval">>>>>>,
   text_sensor |-> <<<<"caps_features", <<"caps", "_", "features">>>>, <<"mode", <<"mode">>>>,
                     <<"inputs", <<"inputs">>>>>>]

Matches(ids, channel, rule) ==
  IF rule[1] = "interval" THEN id_contains(ids, channel, rule[2])
  ELSE id_matches(ids, channel, rule[2])

\* The fields of a channel an entity can be: the first pattern that matches, or none.
FieldsOf(e, channel) ==
  LET chain == Chain[e.domain]
      ids   == normalized_ids(e)
      hits  == {i \in DOMAIN chain : Matches(ids, channel, chain[i])}
  IN  {chain[i][1] : i \in {j \in hits : \A k \in hits : j <= k}}

\* The entities of the registry that can be a field of a channel, by key.
Candidates(channel, field) == {e.key : e \in {x \in registry : field \in FieldsOf(x, channel)}}

\* A key once found is kept; else the first that the registry lists is taken.
Resolve(channel, field, order) ==
  LET keys == Candidates(channel, field)
  IN  IF ent[channel][field] # nullopt THEN ent[channel][field]
      ELSE IF keys = {} THEN nullopt
      ELSE CHOOSE k \in keys : \A j \in keys : order[k] <= order[j]

\* The order in which register_key() is called for each channel.
StateFields ==
  <<"angle_offset", "bearing", "input", "interval", "mode", "inputs", "caps_input_count",
    "caps_circle_count", "caps_features">>

\* The key of each field that reports states; the last registration of a key counts.
register_keys(found, channel, known) ==
  LET keys    == {found[channel][StateFields[i]] : i \in DOMAIN StateFields} \ {nullopt}
      last(k) == Max({i \in DOMAIN StateFields : found[channel][StateFields[i]] = k})
  IN  [k \in DOMAIN known \cup keys |->
         IF k \in keys THEN <<channel, StateFields[last(k)]>> ELSE known[k]]

\* Mutant: a missing bearing is let pass.
VerifyLax(found) == \A c \in Channels : \A f \in Required \ {"bearing"} : found[c][f] # nullopt

\* verify_discovery() does not throw.
Verified(found) == \A c \in Channels : \A f \in Required : found[c][f] # nullopt

-----------------------------------------------------------------------------
Init ==
  /\ phase = "closed" /\ session = 0
  /\ device \in Devices /\ registry = {} /\ list_done = FALSE
  /\ ent = [c \in Channels |-> [f \in Fields |-> nullopt]] /\ key_field = [k \in {} |-> <<>>]
  /\ discover_err = FALSE /\ full = FALSE /\ seen = device

Connect ==
  /\ phase = "closed" /\ session < MaxSessions
  /\ phase' = "listing" /\ session' = session + 1
  /\ UNCHANGED <<device, registry, list_done, ent, key_field, discover_err, full, seen>>

\* The device has listed its entities; one with a known key replaces the old one.
ListDone ==
  /\ phase = "listing"
  /\ phase' = "listed" /\ list_done' = TRUE
  /\ registry' = {e \in registry : \A f \in device : e.key # f.key} \cup device
  /\ UNCHANGED <<session, device, ent, key_field, discover_err, full, seen>>

\* discover() and verify_discovery().  A session after one that got its list does
\* not wait for its own.
Discover(order) ==
  /\ phase \in {"listing", "listed"} /\ list_done
  /\ phase' = "discovered"
  /\ ent' = [c \in Channels |-> [f \in Fields |-> Resolve(c, f, order)]]
  /\ key_field' = register_keys(ent', "2", register_keys(ent', "1", key_field))
  /\ discover_err' = ~Verified(ent')
  /\ full' = (device \subseteq registry)
  /\ UNCHANGED <<session, device, registry, list_done, seen>>

\* The session ends, and the device may run another firmware when the next begins.
\* Whether the client forgets the entities of a session is its own affair.
Close ==
  /\ phase # "closed"
  /\ phase' = "closed"
  /\ device' \in {device} \cup Devices
  /\ registry' \in {registry, {}}
  /\ seen' = seen \cup device'
  /\ UNCHANGED <<session, list_done, ent, key_field, discover_err, full>>

Next == Connect \/ ListDone \/ (\E order \in Orders : Discover(order)) \/ Close

Spec == Init /\ [][Next]_vars

-----------------------------------------------------------------------------
(* Properties *)

\* The keys of the entities of D that are there to be a field of a channel.
KeysOf(D, channel, field) == {e.key : e \in {x \in D : x.role = <<channel, field>>}}

\* However an id is spelled, whatever else the device publishes and in whatever
\* order it is listed, each field is resolved to an entity that is or was there for
\* it, one that is there is found if the list was complete, and its states are
\* routed to this field and to no other; over sessions and firmwares as well.
KeysAreRight ==
  phase = "discovered" => \A c \in Channels : \A f \in Fields :
    /\ ent[c][f] # nullopt => ent[c][f] \in KeysOf(seen, c, f)
    /\ full /\ KeysOf(device, c, f) # {} => ent[c][f] # nullopt
    /\ f # "command" =>
         \A k \in DOMAIN key_field : (key_field[k] = <<c, f>>) <=> (ent[c][f] = k)
    /\ f # "command" /\ ent[c][f] # nullopt => ent[c][f] \in DOMAIN key_field

Complete(D) == \A c \in Channels : \A f \in Required : KeysOf(D, c, f) # {}

\* connect() throws for a device that never published one of the seven entities of
\* a channel, the compass included, and for none that has them all: the capability
\* entities may be missing.
VerifiedIffComplete ==
  phase = "discovered" =>
    /\ ~discover_err => Complete(seen)
    /\ full /\ Complete(device) => ~discover_err
=============================================================================
