-------------------------- MODULE ConfigStoreProofs --------------------------
(***************************************************************************)
(* Proofs about ConfigStore, for any invocations, names and starting file. *)
(***************************************************************************)
EXTENDS ConfigStore, WellFoundedInduction, TLAPS

USE DEF historyVars

-----------------------------------------------------------------------------
(* Operators *)

LEMMA NatMin ==
  ASSUME NEW T \in SUBSET Nat, T # {}
  PROVE  Min(T) \in T /\ \A y \in T : Min(T) <= y
<1> DEFINE R == {r \in Nat \X Nat : r[1] < r[2]}
<1>1. IsWellFoundedOn(R, Nat)
  BY NatLessThanWellFounded DEF OpToRel
<1>2. \A x, y \in Nat : y < x => <<y, x>> \in R
  BY SMT
<1> HIDE DEF R
<1>3. PICK x \in T : \A y \in T : <<y, x>> \notin R
  BY <1>1, WFMin
<1>4. \A y \in T : ~(y < x)
  BY <1>2, <1>3, Zenon
<1>5. \A y \in T : x <= y
  BY <1>4, SMT
<1>6. QED
  BY <1>5 DEF Min

\* What is saved of a record is read back unchanged.
LEMMA RecordRoundTrip ==
  ASSUME NEW rec \in Records
  PROVE  record_from_json(record_to_json(rec)) = rec
  BY DEF Records, record_to_json, record_from_json

LEMMA ConfigFields ==
  ASSUME NEW c \in Configs
  PROVE  /\ c.devices \in DeviceMaps /\ c.save_keys \in BOOLEAN /\ c.warned \in BOOLEAN
         /\ c = [devices |-> c.devices, save_keys |-> c.save_keys, warned |-> c.warned]
         /\ DOMAIN c.devices \subseteq Hosts
         /\ \A h \in DOMAIN c.devices : c.devices[h] \in Records
  BY DEF Configs, DeviceMaps

LEMMA WrittenFields ==
  ASSUME NEW c \in Configs
  PROVE  Written(c) = [devices |-> [h \in DOMAIN c.devices |-> record_to_json(c.devices[h])],
                       save_keys |-> c.save_keys, warned |-> c.warned]
  BY DEF Written, Configs

\* What is saved of a Config is loaded unchanged.
LEMMA ConfigRoundTrip ==
  ASSUME NEW c \in Configs
  PROVE  Loaded(Written(c)) = c
<1> DEFINE A == [h \in DOMAIN c.devices |-> record_to_json(c.devices[h])]
           B == [h \in DOMAIN A |-> record_from_json(A[h])]
           j == [devices |-> A, save_keys |-> c.save_keys, warned |-> c.warned]
<1>1. Written(c) = j
  BY WrittenFields
<1>2. Loaded(j) = [devices |-> B, save_keys |-> c.save_keys, warned |-> c.warned]
  <2>1. Loaded(j) = [j EXCEPT !.devices = B]
    BY DEF Loaded
  <2> HIDE DEF A, B
  <2>2. [j EXCEPT !.devices = B] = [devices |-> B, save_keys |-> c.save_keys, warned |-> c.warned]
    OBVIOUS
  <2>3. QED
    BY <2>1, <2>2
<1>3. B = [h \in DOMAIN c.devices |-> c.devices[h]]
  BY ConfigFields, RecordRoundTrip
<1>4. [h \in DOMAIN c.devices |-> c.devices[h]] = c.devices
  BY ConfigFields DEF DeviceMaps
<1>5. QED
  BY <1>1, <1>2, <1>3, <1>4, ConfigFields

-----------------------------------------------------------------------------
(* Resolving a name *)

LEMMA ResolveKey ==
  ASSUME NEW d \in DeviceMaps, NEW h \in Hosts, Known(d, h)
  PROVE  /\ resolve_key(d, h) \in Matching(d, h)
         /\ resolve_key(d, h) \in DOMAIN d
         /\ resolve_key(d, h) \in Hosts
         /\ find(d, h) \in Records
<1>1. Matching(d, h) \subseteq DOMAIN d
  BY DEF Matching
<1>2. DOMAIN d \subseteq Hosts /\ \A k \in DOMAIN d : d[k] \in Records
  BY DEF DeviceMaps
<1>3. Matching(d, h) \in SUBSET Nat /\ Matching(d, h) # {}
  BY <1>1, <1>2, HostsAssumption DEF Known
<1>4. resolve_key(d, h) \in Matching(d, h)
  BY <1>3, NatMin DEF resolve_key
<1>5. QED
  BY <1>1, <1>2, <1>4 DEF find

LEMMA ResolveOptions ==
  ASSUME NEW d \in DeviceMaps, NEW h \in Hosts, NEW given \in Keys
  PROVE  /\ resolve_options(d, h, given) \in [address : Hosts, psk : Keys]
         /\ \/ resolve_options(d, h, given).psk \in {given, NoKey}
            \/ \E k \in DOMAIN d : resolve_options(d, h, given).psk = d[k].psk
<1>1. CASE Known(d, h)
  BY <1>1, ResolveKey, HostsAssumption DEF resolve_options, Records, find
<1>2. CASE ~Known(d, h)
  BY <1>2, HostsAssumption DEF resolve_options, Keys
<1>3. QED
  BY <1>1, <1>2

LEMMA DesiredRecord ==
  ASSUME NEW d \in DeviceMaps, NEW h \in Hosts, NEW o \in [address : Hosts, psk : Keys],
         NEW save \in BOOLEAN
  PROVE  Desired(d, h, o, save) \in Records
  BY ResolveKey DEF Desired, StoredKey, Records, Keys

\* The key that remember() stores under.
KeyFor(d, h) == IF Known(d, h) THEN resolve_key(d, h) ELSE h

LEMMA Remember ==
  ASSUME NEW c \in Configs, NEW h \in Hosts, NEW rec \in Records, NEW save \in BOOLEAN
  PROVE  LET key == KeyFor(c.devices, h)
             stored == [rec EXCEPT !.psk = StoredKey(rec.psk, save)]
             n == remember(c, h, rec, save)
         IN  /\ n \in Configs /\ n.save_keys = c.save_keys
             /\ n.devices = [k \in DOMAIN c.devices \cup {key} |->
                               IF k = key THEN stored ELSE c.devices[k]]
             /\ key \in Hosts /\ stored \in Records
<1> DEFINE key == KeyFor(c.devices, h)
           psk == StoredKey(rec.psk, save)
           stored == [rec EXCEPT !.psk = psk]
           D == [k \in DOMAIN c.devices \cup {key} |-> IF k = key THEN stored ELSE c.devices[k]]
           warned == c.warned \/ (save /\ psk # NoKey)
<1>1. key \in Hosts
  BY ConfigFields, ResolveKey DEF KeyFor
<1>2. stored \in Records
  BY DEF Records, StoredKey, Keys
<1>3. D \in DeviceMaps
  <2>1. DOMAIN c.devices \cup {key} \in SUBSET Hosts
    BY <1>1, ConfigFields
  <2>2. D \in [DOMAIN c.devices \cup {key} -> Records]
    BY <1>2, ConfigFields
  <2>3. QED
    BY <2>1, <2>2 DEF DeviceMaps
<1>4. remember(c, h, rec, save) = [c EXCEPT !.devices = D, !.warned = warned]
  BY DEF remember, KeyFor
<1>5. warned \in BOOLEAN
  BY ConfigFields
<1> HIDE DEF D, warned
<1>6. [c EXCEPT !.devices = D, !.warned = warned] \in Configs
  BY <1>3, <1>5 DEF Configs
<1>7. /\ [c EXCEPT !.devices = D, !.warned = warned].devices = D
      /\ [c EXCEPT !.devices = D, !.warned = warned].save_keys = c.save_keys
  BY DEF Configs
<1>8. QED
  BY <1>1, <1>2, <1>4, <1>6, <1>7 DEF D

LEMMA Forgets ==
  ASSUME NEW c \in Configs, NEW h \in Hosts
  PROVE  /\ forget(c, h) \in Configs /\ forget(c, h).save_keys = c.save_keys
         /\ \A k \in DOMAIN forget(c, h).devices :
              k \in DOMAIN c.devices /\ forget(c, h).devices[k] = c.devices[k]
<1> DEFINE D == [k \in DOMAIN c.devices \ {resolve_key(c.devices, h)} |-> c.devices[k]]
<1>1. forget(c, h) = [c EXCEPT !.devices = D]
  BY DEF forget
<1>2. D \in DeviceMaps
  <2>1. DOMAIN c.devices \ {resolve_key(c.devices, h)} \in SUBSET Hosts
    BY ConfigFields
  <2>2. D \in [DOMAIN c.devices \ {resolve_key(c.devices, h)} -> Records]
    BY ConfigFields
  <2>3. QED
    BY <2>1, <2>2 DEF DeviceMaps
<1>3. /\ [c EXCEPT !.devices = D] \in Configs /\ [c EXCEPT !.devices = D].devices = D
      /\ [c EXCEPT !.devices = D].save_keys = c.save_keys
  <2> HIDE DEF D
  <2>1. QED
    BY <1>2 DEF Configs
<1>4. QED
  BY <1>1, <1>3

\* What is stored under the key that a name resolves to is found under that name,
\* also when the record had no address, or had matched by its name or address.
LEMMA StoredIsFound ==
  ASSUME NEW d \in DeviceMaps, NEW h \in Hosts, NEW rec \in Records,
         rec.address = resolve_options(d, h, NoKey).address,
         Known(d, h) => rec.name = find(d, h).name,
         NEW e, e = [k \in DOMAIN d \cup {KeyFor(d, h)} |-> IF k = KeyFor(d, h) THEN rec ELSE d[k]]
  PROVE  Known(e, h) /\ find(e, h) = rec
<1> DEFINE key == KeyFor(d, h)
<1>1. DOMAIN e = DOMAIN d \cup {key} /\ e[key] = rec /\ key \in DOMAIN e
  OBVIOUS
<1>2. \A k \in DOMAIN d : k # key => e[k] = d[k]
  OBVIOUS
<1>3. key \in Hosts
  BY ResolveKey DEF KeyFor
<1>4. Known(d, h) => key \in Matching(d, h) /\ key \in DOMAIN d /\ rec.name = d[key].name
  BY ResolveKey DEF KeyFor, find
<1> HIDE DEF key
<1>5. Matching(e, h) = {key} \/ (Matching(e, h) = Matching(d, h) /\ Known(d, h))
  <2>1. CASE h \in DOMAIN d
    <3>1. Matching(d, h) = {h}
      BY <2>1 DEF Matching
    <3>2. key = h
      BY <1>4, <3>1 DEF Known
    <3>3. QED
      BY <1>1, <3>2 DEF Matching
  <2>2. CASE h \notin DOMAIN d /\ \E k \in DOMAIN d : d[k].address = h
    <3>1. Matching(d, h) = {k \in DOMAIN d : d[k].address = h}
      BY <2>2 DEF Matching
    <3>2. Known(d, h) /\ key \in DOMAIN d /\ d[key].address = h
      BY <1>4, <2>2, <3>1 DEF Known
    <3>3. find(d, h) = d[key]
      BY <3>2 DEF find, key, KeyFor
    <3>4. rec.address = h
      BY <3>2, <3>3, HostsAssumption DEF resolve_options
    <3>5. \A k \in DOMAIN e : e[k].address = h <=> d[k].address = h
      BY <1>1, <1>2, <3>2, <3>4
    <3>6. DOMAIN e = DOMAIN d
      BY <1>1, <3>2
    <3>7. Matching(e, h) = {k \in DOMAIN e : e[k].address = h}
      BY <2>2, <3>5, <3>6, ZenonT(30) DEF Matching
    <3>8. QED
      BY <3>1, <3>2, <3>5, <3>6, <3>7, ZenonT(30)
  <2>3. CASE /\ h \notin DOMAIN d /\ \A k \in DOMAIN d : d[k].address # h
             /\ \E k \in DOMAIN d : d[k].name = h
    <3>1. Matching(d, h) = {k \in DOMAIN d : d[k].name = h}
      BY <2>3 DEF Matching
    <3>2. Known(d, h) /\ key \in DOMAIN d /\ rec.name = h
      BY <1>4, <2>3, <3>1 DEF Known
    <3>3. DOMAIN e = DOMAIN d
      BY <1>1, <3>2
    <3>4. CASE rec.address = h
      <4>1. {k \in DOMAIN e : e[k].address = h} = {key}
        BY <1>1, <1>2, <2>3, <3>3, <3>4
      <4>2. QED
        BY <2>3, <3>3, <4>1, ZenonT(30) DEF Matching
    <3>5. CASE rec.address # h
      <4>1. \A k \in DOMAIN e : e[k].address # h
        BY <1>1, <1>2, <2>3, <3>3, <3>5
      <4>2. \A k \in DOMAIN e : e[k].name = h <=> d[k].name = h
        BY <1>1, <1>2, <1>4, <3>2, <3>3
      <4>3. Matching(e, h) = {k \in DOMAIN e : e[k].name = h}
        BY <2>3, <3>3, <4>1, ZenonT(30) DEF Matching
      <4>4. QED
        BY <3>1, <3>2, <3>3, <4>2, <4>3
    <3>6. QED
      BY <3>4, <3>5
  <2>4. CASE h \notin DOMAIN d /\ \A k \in DOMAIN d : d[k].address # h /\ d[k].name # h
    <3>1. ~Known(d, h)
      BY <2>4 DEF Known, Matching
    <3>2. key = h
      BY <3>1 DEF key, KeyFor
    <3>3. QED
      BY <1>1, <3>2 DEF Matching
  <2>5. QED
    BY <2>1, <2>2, <2>3, <2>4
<1>6. resolve_key(e, h) = key
  <2>1. CASE Matching(e, h) = {key}
    <3>1. {key} \in SUBSET Nat
      BY <1>3, HostsAssumption
    <3>2. Min({key}) \in {key}
      BY <3>1, NatMin
    <3>3. QED
      BY <2>1, <3>2 DEF resolve_key
  <2>2. CASE Matching(e, h) = Matching(d, h) /\ Known(d, h)
    BY <2>2 DEF resolve_key, key, KeyFor
  <2>3. QED
    BY <1>5, <2>1, <2>2
<1>7. QED
  BY <1>1, <1>5, <1>6 DEF Known, find

\* What persist_connection() makes of a Config, whether or not it has to save it.
Persisted(c, h, given, save, moved) ==
  LET rec == Desired(c.devices, h, resolve_options(c.devices, h, given), save)
  IN  IF Changed(c.devices, h, rec, moved) THEN remember(c, h, rec, save) ELSE c

LEMMA ConnectStores ==
  ASSUME NEW c \in Configs, NEW h \in Hosts, NEW given \in Keys, NEW save \in BOOLEAN,
         NEW moved \in BOOLEAN
  PROVE  LET o == resolve_options(c.devices, h, given)
             n == Persisted(c, h, given, save, moved)
         IN
         /\ n \in Configs /\ n.save_keys = c.save_keys
         /\ Known(n.devices, h)
         /\ find(n.devices, h).address = o.address
         /\ find(n.devices, h).psk = StoredKey(o.psk, save)
         /\ \A k \in DOMAIN n.devices :
              \/ n.devices[k].psk = NoKey
              \/ save /\ n.devices[k].psk = given
              \/ \E i \in DOMAIN c.devices : n.devices[k].psk = c.devices[i].psk
<1> DEFINE d == c.devices
           o == resolve_options(d, h, given)
           rec == Desired(d, h, o, save)
           n == Persisted(c, h, given, save, moved)
           stored == [rec EXCEPT !.psk = StoredKey(rec.psk, save)]
<1>1. SUFFICES /\ n \in Configs /\ n.save_keys = c.save_keys
               /\ Known(n.devices, h)
               /\ find(n.devices, h).address = o.address
               /\ find(n.devices, h).psk = StoredKey(o.psk, save)
               /\ \A k \in DOMAIN n.devices :
                    \/ n.devices[k].psk = NoKey
                    \/ save /\ n.devices[k].psk = given
                    \/ \E i \in DOMAIN d : n.devices[k].psk = d[i].psk
  OBVIOUS
<1>2. d \in DeviceMaps
  BY ConfigFields
<1>3. o \in [address : Hosts, psk : Keys]
  BY <1>2, ResolveOptions
<1>4. rec \in Records
  BY <1>2, <1>3, DesiredRecord
<1>5. /\ rec.address = o.address /\ rec.psk = StoredKey(o.psk, save)
      /\ Known(d, h) => rec.name = find(d, h).name
  BY DEF Desired
<1>6. rec.address = resolve_options(d, h, NoKey).address
  BY <1>5 DEF resolve_options
<1> HIDE DEF o, rec, n
<1>7. stored = rec
  <2>1. StoredKey(rec.psk, save) = rec.psk
    BY <1>5 DEF StoredKey
  <2>2. QED
    BY <1>4, <2>1 DEF Records
<1>8. CASE ~Changed(d, h, rec, moved)
  <2>1. n = c /\ Known(d, h) /\ find(d, h) = rec
    BY <1>8 DEF Changed, n, Persisted, rec, o
  <2>2. QED
    BY <1>5, <2>1
<1>9. CASE Changed(d, h, rec, moved)
  <2>1. n = remember(c, h, rec, save)
    BY <1>9 DEF n, Persisted, rec, o
  <2>2. /\ n \in Configs /\ n.save_keys = c.save_keys
        /\ n.devices = [k \in DOMAIN d \cup {KeyFor(d, h)} |->
                          IF k = KeyFor(d, h) THEN rec ELSE d[k]]
    BY <1>4, <1>7, <2>1, Remember
  <2>3. Known(n.devices, h) /\ find(n.devices, h) = rec
    <3>1. \A e : e = [k \in DOMAIN d \cup {KeyFor(d, h)} |-> IF k = KeyFor(d, h) THEN rec ELSE d[k]]
                => Known(e, h) /\ find(e, h) = rec
      BY <1>2, <1>4, <1>5, <1>6, StoredIsFound
    <3>2. QED
      BY <2>2, <3>1
  <2>4. \/ rec.psk = NoKey
        \/ save /\ rec.psk = given
        \/ \E i \in DOMAIN d : rec.psk = d[i].psk
    BY <1>2, <1>5, ResolveOptions DEF StoredKey, o
  <2>5. QED
    BY <1>5, <2>2, <2>3, <2>4
<1>10. QED
  BY <1>8, <1>9

-----------------------------------------------------------------------------
(* The invocations *)

Over == {"connected", "over"}

\* What a file that is whole was written from: a Config that was there to start
\* from, or that of an invocation which has come to its end and changes it no more.
FileFrom ==
  \/ file \in {Missing, Cut}
  \/ \E c \in Edited : file = Whole(Written(c))
  \/ \E q \in Runs : pc[q] \in Over /\ file = Whole(Written(cfg[q]))

\* No key in d was given to an invocation that may not save it, or that has still to
\* learn from the file whether it may.
Clean(d) ==
  \A k \in DOMAIN d : d[k].psk \in Runs => pc[d[k].psk] # "start" /\ MaySave(d[k].psk)

\* What makes a step leave every clean Config clean: who has loaded the file has its
\* settings for good.
SettingsStay ==
  /\ UNCHANGED task
  /\ \A p \in Runs : pc[p] # "start" =>
       pc'[p] # "start" /\ cfg'[p].save_keys = cfg[p].save_keys

\* Configs are clean before they are written, and so are the files they come from.
CleanRuns == \A p \in Runs : Clean(cfg[p].devices)

Found(p) ==
  task[p].verb = "connect" /\ pc[p] \in {"truncate", "write", "connected"} =>
    /\ Known(cfg[p].devices, task[p].host)
    /\ find(cfg[p].devices, task[p].host).address = opt[p].address
    /\ find(cfg[p].devices, task[p].host).psk = StoredKey(opt[p].psk, Saves(p))

ConfigInv == RunTypeOK /\ FileFrom /\ CleanRuns /\ \A p \in Runs : Found(p)

LEMMA FileConfig ==
  ASSUME ConfigInv, file.state = "whole"
  PROVE  \E c \in Configs : file = Whole(Written(c)) /\ Clean(c.devices) /\ Loaded(file.json) = c
<1>1. file \notin {Missing, Cut}
  BY DEF Missing, Cut
<1>2. \E c \in Configs : file = Whole(Written(c)) /\ Clean(c.devices)
  <2>1. \A c \in Edited : c \in Configs /\ Clean(c.devices)
    BY EditedAssumption, KeysAssumption DEF Clean
  <2>2. \A q \in Runs : cfg[q] \in Configs /\ Clean(cfg[q].devices)
    BY DEF ConfigInv, RunTypeOK, CleanRuns
  <2>3. QED
    BY <1>1, <2>1, <2>2 DEF ConfigInv, FileFrom
<1>3. QED
  BY <1>2, ConfigRoundTrip DEF Whole

\* The Configs stay clean if the step's invocation gets a clean one.
LEMMA CleanRunsStay ==
  ASSUME ConfigInv, SettingsStay, NEW p \in Runs, NEW c, Clean(c.devices),
         cfg' = [cfg EXCEPT ![p] = c]
  PROVE  CleanRuns'
<1>1. \A d : Clean(d) =>
        \A k \in DOMAIN d : d[k].psk \in Runs =>
          /\ pc'[d[k].psk] # "start"
          /\ \/ task'[d[k].psk].flag = "yes"
             \/ task'[d[k].psk].flag = "unset" /\ cfg'[d[k].psk].save_keys
  BY DEF SettingsStay, Clean, MaySave
<1>2. cfg'[p] = c /\ \A q \in Runs : q # p => cfg'[q] = cfg[q]
  BY DEF ConfigInv, RunTypeOK
<1>3. \A q \in Runs : Clean(cfg[q].devices)
  BY DEF ConfigInv, CleanRuns
<1>4. \A q \in Runs : Clean(cfg'[q].devices)
  BY <1>2, <1>3
<1>5. QED
  BY <1>1, <1>4 DEF CleanRuns, Clean, MaySave

LEMMA ConfigInit == Init => ConfigInv
<1> SUFFICES ASSUME Init PROVE ConfigInv
  OBVIOUS
<1> DEFINE none == [devices |-> NoDevices, save_keys |-> TRUE, warned |-> FALSE]
<1>1. none \in Configs
  <2>1. NoDevices \in [{} -> Records] /\ {} \in SUBSET Hosts
    BY DEF NoDevices
  <2>2. NoDevices \in DeviceMaps
    BY <2>1 DEF DeviceMaps
  <2>3. QED
    BY <2>2 DEF Configs
<1>2. task \in [Runs -> [verb : {"connect", "forget"}, host : Hosts, key : BOOLEAN,
                        flag : {"unset", "yes", "no"}]]
  BY DEF Init
<1>3. RunTypeOK
  BY <1>1, <1>2 DEF Init, RunTypeOK, Keys
<1>4. FileFrom
  BY DEF Init, FileFrom
<1>5. CleanRuns
  BY DEF Init, CleanRuns, Clean, NoDevices
<1>6. \A p \in Runs : Found(p)
  BY DEF Init, Found
<1>7. QED
  BY <1>3, <1>4, <1>5, <1>6 DEF ConfigInv

LEMMA LoadStep == ASSUME ConfigInv, NEW p \in Runs, Load(p) PROVE ConfigInv'
<1>1. PICK c \in Configs : Clean(c.devices) /\ cfg' = [cfg EXCEPT ![p] = c]
  <2>1. CASE file.state = "whole"
    BY <2>1, FileConfig DEF Load
  <2>2. CASE file.state # "whole"
    <3>1. cfg' = [cfg EXCEPT ![p] = cfg[p]]
      BY <2>2 DEF Load, ConfigInv, RunTypeOK
    <3>2. QED
      BY <3>1 DEF ConfigInv, RunTypeOK, CleanRuns
  <2>3. QED
    BY <2>1, <2>2
<1>2. pc[p] = "start" /\ pc' = [pc EXCEPT ![p] = "loaded"]
      /\ lost' \in BOOLEAN /\ unsaved' \in BOOLEAN
      /\ UNCHANGED <<file, task, opt, notices>>
  BY DEF Load, Goto, ConfigInv, RunTypeOK
<1>3. RunTypeOK'
  BY <1>1, <1>2 DEF ConfigInv, RunTypeOK
<1>4. FileFrom'
  BY <1>1, <1>2 DEF ConfigInv, RunTypeOK, FileFrom, Over
<1>5. CleanRuns'
  <2>1. SettingsStay
    BY <1>1, <1>2 DEF SettingsStay, ConfigInv, RunTypeOK
  <2>2. QED
    BY <1>1, <2>1, CleanRunsStay
<1>6. ASSUME NEW q \in Runs PROVE Found(q)'
  BY <1>1, <1>2 DEF ConfigInv, RunTypeOK, Found, Saves
<1>7. QED
  BY <1>3, <1>4, <1>5, <1>6 DEF ConfigInv

\* What a successful connection does: the Config becomes what persist_connection()
\* makes of it, to be saved if it changed.
LEMMA ConnectEffect ==
  ASSUME ConfigInv, NEW p \in Runs, Connect(p)
  PROVE  \E moved \in BOOLEAN :
         LET c == cfg[p]
             n == Persisted(c, task[p].host, Given(p), Saves(p), moved)
         IN
         /\ pc[p] = "loaded" /\ task[p].verb = "connect" /\ UNCHANGED <<file, task, historyVars>>
         /\ opt' = [opt EXCEPT ![p] = resolve_options(c.devices, task[p].host, Given(p))]
         /\ cfg' = [cfg EXCEPT ![p] = n]
         /\ \/ /\ pc' = [pc EXCEPT ![p] = "truncate"]
               /\ notices' = IF n.warned # c.warned THEN notices + 1 ELSE notices
            \/ pc' = [pc EXCEPT ![p] = "connected"] /\ n = c /\ UNCHANGED notices
<1> DEFINE c == cfg[p]
           h == task[p].host
           o == resolve_options(c.devices, h, Given(p))
           rec == Desired(c.devices, h, o, Saves(p))
           m == remember(c, h, rec, Saves(p))
<1>1. cfg \in [Runs -> Configs]
  BY DEF ConfigInv, RunTypeOK
<1>2. PICK moved \in BOOLEAN :
        /\ opt' = [opt EXCEPT ![p] = o]
        /\ IF Changed(c.devices, h, rec, moved)
           THEN /\ cfg' = [cfg EXCEPT ![p] = m]
                /\ notices' = IF cfg'[p].warned # c.warned THEN notices + 1 ELSE notices
                /\ Goto(p, "truncate")
           ELSE Goto(p, "connected") /\ UNCHANGED <<cfg, notices>>
  BY DEF Connect
<1>3. pc[p] = "loaded" /\ task[p].verb = "connect" /\ UNCHANGED <<file, task, historyVars>>
  BY DEF Connect
<1> DEFINE n == Persisted(c, h, Given(p), Saves(p), moved)
<1> SUFFICES /\ cfg' = [cfg EXCEPT ![p] = n]
             /\ \/ /\ pc' = [pc EXCEPT ![p] = "truncate"]
                   /\ notices' = IF n.warned # c.warned THEN notices + 1 ELSE notices
                \/ pc' = [pc EXCEPT ![p] = "connected"] /\ n = c /\ UNCHANGED notices
  BY <1>2, <1>3
<1>4. CASE Changed(c.devices, h, rec, moved)
  <2>1. n = m
    BY <1>4 DEF Persisted
  <2>2. /\ cfg' = [cfg EXCEPT ![p] = m] /\ pc' = [pc EXCEPT ![p] = "truncate"]
        /\ notices' = IF cfg'[p].warned # c.warned THEN notices + 1 ELSE notices
    BY <1>2, <1>4 DEF Goto
  <2> HIDE DEF n, m
  <2>3. cfg'[p] = n
    BY <1>1, <2>1, <2>2
  <2>4. QED
    BY <2>1, <2>2, <2>3
<1>5. CASE ~Changed(c.devices, h, rec, moved)
  <2>1. n = cfg[p] /\ UNCHANGED <<cfg, notices>> /\ pc' = [pc EXCEPT ![p] = "connected"]
    BY <1>2, <1>5 DEF Persisted, Goto
  <2> HIDE DEF n
  <2>2. cfg' = [cfg EXCEPT ![p] = n]
    BY <1>1, <2>1
  <2>3. QED
    BY <2>1, <2>2
<1>6. QED
  BY <1>4, <1>5

LEMMA ConnectStep == ASSUME ConfigInv, NEW p \in Runs, Connect(p) PROVE ConfigInv'
<1>0. PICK moved \in BOOLEAN :
        LET c == cfg[p]
            n == Persisted(c, task[p].host, Given(p), Saves(p), moved)
        IN
        /\ pc[p] = "loaded" /\ task[p].verb = "connect" /\ UNCHANGED <<file, task, historyVars>>
        /\ opt' = [opt EXCEPT ![p] = resolve_options(c.devices, task[p].host, Given(p))]
        /\ cfg' = [cfg EXCEPT ![p] = n]
        /\ \/ /\ pc' = [pc EXCEPT ![p] = "truncate"]
              /\ notices' = IF n.warned # c.warned THEN notices + 1 ELSE notices
           \/ pc' = [pc EXCEPT ![p] = "connected"] /\ n = c /\ UNCHANGED notices
  BY ConnectEffect, Zenon
<1> DEFINE c == cfg[p]
           h == task[p].host
           o == resolve_options(c.devices, h, Given(p))
           n == Persisted(c, h, Given(p), Saves(p), moved)
<1>1. c \in Configs /\ h \in Hosts /\ Given(p) \in Keys /\ Saves(p) \in BOOLEAN
  BY ConfigFields DEF ConfigInv, RunTypeOK, Given, Keys, Saves
<1>2. /\ n \in Configs /\ n.save_keys = c.save_keys
      /\ Known(n.devices, h)
      /\ find(n.devices, h).address = o.address
      /\ find(n.devices, h).psk = StoredKey(o.psk, Saves(p))
      /\ \A k \in DOMAIN n.devices :
           \/ n.devices[k].psk = NoKey
           \/ Saves(p) /\ n.devices[k].psk = Given(p)
           \/ \E i \in DOMAIN c.devices : n.devices[k].psk = c.devices[i].psk
  BY <1>1, ConnectStores
<1>3. o \in [address : Hosts, psk : Keys]
  BY <1>1, ConfigFields, ResolveOptions
<1>4. Clean(n.devices)
  <2>1. Saves(p) /\ Given(p) \in Runs => Given(p) = p /\ MaySave(p) /\ pc[p] # "start"
    BY <1>0, KeysAssumption DEF Given, Saves, MaySave, ConfigInv, RunTypeOK
  <2>2. Clean(c.devices)
    BY DEF ConfigInv, CleanRuns
  <2>3. QED
    BY <1>2, <2>1, <2>2, KeysAssumption DEF Clean
<1>5. /\ pc[p] = "loaded" /\ UNCHANGED <<file, task, historyVars>>
      /\ opt' = [opt EXCEPT ![p] = o]
      /\ cfg' = [cfg EXCEPT ![p] = n]
      /\ \E label \in {"truncate", "connected"} : pc' = [pc EXCEPT ![p] = label]
      /\ notices' \in Nat
  <2>1. notices \in Nat
    BY DEF ConfigInv, RunTypeOK
  <2> HIDE DEF n, o
  <2>2. QED
    BY <1>0, <2>1 DEF n, o
<1> HIDE DEF n, o
<1>6. RunTypeOK'
  BY <1>2, <1>3, <1>5 DEF ConfigInv, RunTypeOK
<1>7. FileFrom'
  BY <1>5 DEF ConfigInv, RunTypeOK, FileFrom, Over
<1>8. CleanRuns'
  <2>1. SettingsStay
    BY <1>2, <1>5 DEF SettingsStay, ConfigInv, RunTypeOK
  <2>2. QED
    BY <1>4, <1>5, <2>1, CleanRunsStay
<1>9. ASSUME NEW q \in Runs PROVE Found(q)'
  BY <1>2, <1>3, <1>5 DEF ConfigInv, RunTypeOK, Found, Saves
<1>10. QED
  BY <1>6, <1>7, <1>8, <1>9 DEF ConfigInv

LEMMA ForgetStep == ASSUME ConfigInv, NEW p \in Runs, Forget(p) PROVE ConfigInv'
<1>1. PICK c \in Configs : /\ cfg' = [cfg EXCEPT ![p] = c] /\ Clean(c.devices)
                           /\ c.save_keys = cfg[p].save_keys
  <2>1. CASE Known(cfg[p].devices, task[p].host)
    <3>1. cfg[p] \in Configs /\ task[p].host \in Hosts /\ Clean(cfg[p].devices)
      BY DEF ConfigInv, RunTypeOK, CleanRuns
    <3>2. /\ forget(cfg[p], task[p].host) \in Configs
          /\ Clean(forget(cfg[p], task[p].host).devices)
          /\ forget(cfg[p], task[p].host).save_keys = cfg[p].save_keys
      BY <3>1, Forgets DEF Clean
    <3>3. QED
      BY <2>1, <3>2 DEF Forget
  <2>2. CASE ~Known(cfg[p].devices, task[p].host)
    <3>1. cfg' = [cfg EXCEPT ![p] = cfg[p]]
      BY <2>2 DEF Forget, ConfigInv, RunTypeOK
    <3>2. QED
      BY <3>1 DEF ConfigInv, RunTypeOK, CleanRuns
  <2>3. QED
    BY <2>1, <2>2
<1>2. /\ pc[p] = "loaded" /\ task[p].verb = "forget"
      /\ UNCHANGED <<file, task, opt, notices, historyVars>>
      /\ \E label \in {"truncate", "over"} : pc' = [pc EXCEPT ![p] = label]
  BY DEF Forget, Goto
<1>3. RunTypeOK'
  BY <1>1, <1>2 DEF ConfigInv, RunTypeOK
<1>4. FileFrom'
  BY <1>1, <1>2 DEF ConfigInv, RunTypeOK, FileFrom, Over
<1>5. CleanRuns'
  <2>1. SettingsStay
    BY <1>1, <1>2 DEF SettingsStay, ConfigInv, RunTypeOK
  <2>2. QED
    BY <1>1, <2>1, CleanRunsStay
<1>6. ASSUME NEW q \in Runs PROVE Found(q)'
  BY <1>1, <1>2 DEF ConfigInv, RunTypeOK, Found, Saves
<1>7. QED
  BY <1>3, <1>4, <1>5, <1>6 DEF ConfigInv

\* A step that changes no Config and starts no invocation anew leaves them clean.
LEMMA CleanRunsKept ==
  ASSUME ConfigInv, NEW p \in Runs, UNCHANGED <<task, cfg>>, pc[p] # "start",
         NEW l, l # "start", pc' = [pc EXCEPT ![p] = l]
  PROVE  CleanRuns'
<1>1. cfg' = [cfg EXCEPT ![p] = cfg[p]] /\ Clean(cfg[p].devices)
  BY DEF ConfigInv, RunTypeOK, CleanRuns
<1>2. SettingsStay
  BY DEF SettingsStay, ConfigInv, RunTypeOK
<1>3. QED
  BY <1>1, <1>2, CleanRunsStay

LEMMA ConnectFailsStep == ASSUME ConfigInv, NEW p \in Runs, ConnectFails(p) PROVE ConfigInv'
<1>1. /\ pc[p] = "loaded" /\ pc' = [pc EXCEPT ![p] = "over"]
      /\ UNCHANGED <<file, task, cfg, opt, notices, historyVars>>
  BY DEF ConnectFails, Goto
<1>2. RunTypeOK' /\ CleanRuns'
  BY <1>1, CleanRunsKept DEF ConfigInv, RunTypeOK
<1>3. FileFrom'
  BY <1>1 DEF ConfigInv, RunTypeOK, FileFrom, Over
<1>4. ASSUME NEW q \in Runs PROVE Found(q)'
  BY <1>1 DEF ConfigInv, RunTypeOK, Found, Saves
<1>5. QED
  BY <1>2, <1>3, <1>4 DEF ConfigInv

LEMMA TruncateStep == ASSUME ConfigInv, NEW p \in Runs, Truncate(p) PROVE ConfigInv'
<1>1. /\ pc[p] = "truncate" /\ UNCHANGED <<task, cfg, opt, notices>>
      /\ lost' \in BOOLEAN /\ unsaved' \in BOOLEAN
      /\ file' = Cut \/ UNCHANGED file
      /\ \E label \in {"write", "over"} : pc' = [pc EXCEPT ![p] = label]
  BY DEF Truncate, Goto, ConfigInv, RunTypeOK
<1>2. RunTypeOK' /\ CleanRuns'
  BY <1>1, CleanRunsKept DEF ConfigInv, RunTypeOK
<1>3. FileFrom'
  BY <1>1 DEF ConfigInv, RunTypeOK, FileFrom, Over
<1>4. ASSUME NEW q \in Runs PROVE Found(q)'
  BY <1>1 DEF ConfigInv, RunTypeOK, Found, Saves
<1>5. QED
  BY <1>2, <1>3, <1>4 DEF ConfigInv

LEMMA WriteStep == ASSUME ConfigInv, NEW p \in Runs, Write(p) PROVE ConfigInv'
<1>1. /\ pc[p] = "write" /\ UNCHANGED <<task, cfg, opt, notices>>
      /\ lost' \in BOOLEAN /\ unsaved' \in BOOLEAN
      /\ file' = Cut \/ file' = Whole(Written(cfg[p]))
      /\ \E label \in Over : pc' = [pc EXCEPT ![p] = label]
  BY DEF Write, Goto, Over, ConfigInv, RunTypeOK
<1>2. pc'[p] \in Over
  BY <1>1 DEF Over, ConfigInv, RunTypeOK
<1>3. RunTypeOK' /\ CleanRuns'
  BY <1>1, CleanRunsKept DEF ConfigInv, RunTypeOK, Over
<1>4. FileFrom'
  BY <1>1, <1>2 DEF FileFrom
<1>5. ASSUME NEW q \in Runs PROVE Found(q)'
  BY <1>1 DEF ConfigInv, RunTypeOK, Found, Saves
<1>6. QED
  BY <1>3, <1>4, <1>5 DEF ConfigInv

LEMMA DieStep == ASSUME ConfigInv, NEW p \in Runs, Die(p) PROVE ConfigInv'
<1>1. /\ pc[p] \in {"loaded", "truncate", "write"} /\ pc' = [pc EXCEPT ![p] = "over"]
      /\ lost' \in BOOLEAN /\ unsaved' \in BOOLEAN
      /\ UNCHANGED <<file, task, cfg, opt, notices>>
  BY DEF Die, Active, Goto, ConfigInv, RunTypeOK
<1>2. RunTypeOK' /\ CleanRuns'
  BY <1>1, CleanRunsKept DEF ConfigInv, RunTypeOK
<1>3. FileFrom'
  BY <1>1 DEF ConfigInv, RunTypeOK, FileFrom, Over
<1>4. ASSUME NEW q \in Runs PROVE Found(q)'
  BY <1>1 DEF ConfigInv, RunTypeOK, Found, Saves
<1>5. QED
  BY <1>2, <1>3, <1>4 DEF ConfigInv

LEMMA ConfigStutter == ASSUME ConfigInv, UNCHANGED vars PROVE ConfigInv'
<1>1. UNCHANGED <<file, pc, task, cfg, opt, notices, historyVars>>
  BY DEF vars
<1>2. RunTypeOK' /\ CleanRuns'
  BY <1>1 DEF ConfigInv, RunTypeOK, CleanRuns, Clean, MaySave
<1>3. FileFrom'
  BY <1>1 DEF ConfigInv, FileFrom
<1>4. ASSUME NEW q \in Runs PROVE Found(q)'
  BY <1>1 DEF ConfigInv, Found, Saves
<1>5. QED
  BY <1>2, <1>3, <1>4 DEF ConfigInv

LEMMA ConfigStep == ConfigInv /\ [Next]_vars => ConfigInv'
<1> SUFFICES ASSUME ConfigInv, [Next]_vars PROVE ConfigInv'
  OBVIOUS
<1>1. ASSUME NEW p \in Runs, Load(p) PROVE ConfigInv'
  BY <1>1, LoadStep
<1>2. ASSUME NEW p \in Runs, Connect(p) PROVE ConfigInv'
  BY <1>2, ConnectStep
<1>3. ASSUME NEW p \in Runs, ConnectFails(p) PROVE ConfigInv'
  BY <1>3, ConnectFailsStep
<1>4. ASSUME NEW p \in Runs, Forget(p) PROVE ConfigInv'
  BY <1>4, ForgetStep
<1>5. ASSUME NEW p \in Runs, Truncate(p) PROVE ConfigInv'
  BY <1>5, TruncateStep
<1>6. ASSUME NEW p \in Runs, Write(p) PROVE ConfigInv'
  BY <1>6, WriteStep
<1>7. ASSUME NEW p \in Runs, Die(p) PROVE ConfigInv'
  BY <1>7, DieStep
<1>8. CASE UNCHANGED vars
  BY <1>8, ConfigStutter
<1>9. CASE AllOver
  BY <1>9, ConfigStutter DEF AllOver
<1>10. QED
  BY <1>1, <1>2, <1>3, <1>4, <1>5, <1>6, <1>7, <1>8, <1>9 DEF Next

LEMMA ConfigAlways == Spec => []ConfigInv
  BY ConfigInit, ConfigStep, PTL DEF Spec

-----------------------------------------------------------------------------
(* Theorems *)

\* However invocations overlap, fail or die, the file is missing, cut short, or what
\* one of them (or the user) left there, and none connects to an empty address.
THEOREM TypeCorrect == Spec => []TypeOK
<1>1. ConfigInv => TypeOK
  BY DEF ConfigInv, FileFrom, TypeOK
<1>2. QED
  BY <1>1, ConfigAlways, PTL

\* A key given to an invocation that may not save it, by its flag or by the file it has
\* loaded, never reaches the disk, in whatever order any number of invocations load the
\* file, change it and write it back.
THEOREM UnsavedKeysStayOff == Spec => []NoKeyLeaks
<1>1. ConfigInv => NoKeyLeaks
  <2> SUFFICES ASSUME ConfigInv, file.state = "whole",
                      NEW h \in DOMAIN file.json.devices,
                      record_from_json(file.json.devices[h]).psk \in Runs
               PROVE  MaySave(record_from_json(file.json.devices[h]).psk)
    BY DEF NoKeyLeaks
  <2>1. PICK c \in Configs : /\ file = Whole(Written(c)) /\ Clean(c.devices)
                             /\ Loaded(file.json) = c
    BY FileConfig
  <2>2. file.json.devices = [k \in DOMAIN c.devices |-> record_to_json(c.devices[k])]
    BY <2>1, WrittenFields DEF Whole
  <2>3. h \in DOMAIN c.devices /\ c.devices[h] \in Records
    BY <2>2, ConfigFields
  <2>4. record_from_json(file.json.devices[h]) = c.devices[h]
    BY <2>2, <2>3, RecordRoundTrip
  <2>5. QED
    BY <2>1, <2>3, <2>4 DEF Clean
<1>2. QED
  BY <1>1, ConfigAlways, PTL

\* Whatever records a file holds, with or without a name, an address or a key, what
\* persist_connection() stores after a connection is what the same name resolves to.
THEOREM ConnectionFound == Spec => []ConnectionIsFound
<1>1. ConfigInv => ConnectionIsFound
  BY DEF ConfigInv, Found, ConnectionIsFound
<1>2. QED
  BY <1>1, ConfigAlways, PTL

-----------------------------------------------------------------------------
(* Invocations that do not overlap: what one keeps of the others *)

\* A document resolves names as the Config it was written from.
LEMMA DocumentFinds ==
  ASSUME NEW c \in Configs, NEW h \in Hosts
  PROVE  /\ Known(Written(c).devices, h) <=> Known(c.devices, h)
         /\ Known(c.devices, h) =>
              find(Written(c).devices, h).address = find(c.devices, h).address
         /\ Written(c).warned = c.warned
<1> DEFINE d == c.devices
           j == Written(c).devices
<1>1. /\ j = [k \in DOMAIN d |-> record_to_json(d[k])]
      /\ Written(c).warned = c.warned
  BY WrittenFields
<1>2. DOMAIN j = DOMAIN d /\ \A k \in DOMAIN d : j[k] = record_to_json(d[k])
  BY <1>1
<1>3. \A r \in Records : record_to_json(r).name = r.name /\ record_to_json(r).address = r.address
  BY DEF Records, record_to_json
<1>4. \A k \in DOMAIN d : j[k].name = d[k].name /\ j[k].address = d[k].address
  BY <1>2, <1>3, ConfigFields
<1> HIDE DEF j
<1>5. Matching(j, h) = Matching(d, h)
  BY <1>2, <1>4 DEF Matching
<1>6. Known(d, h) => resolve_key(d, h) \in DOMAIN d
  BY ConfigFields, ResolveKey
<1>7. QED
  BY <1>1, <1>4, <1>5, <1>6 DEF Known, resolve_key, find, j

\* What is stored for one name leaves every other name with an address where it was.
LEMMA OthersStay ==
  ASSUME NEW d \in DeviceMaps, NEW h \in Hosts, NEW rec \in Records,
         rec.address = resolve_options(d, h, NoKey).address,
         rec.name = (IF Known(d, h) THEN find(d, h).name ELSE 0),
         NEW e, e = [k \in DOMAIN d \cup {KeyFor(d, h)} |-> IF k = KeyFor(d, h) THEN rec ELSE d[k]],
         NEW g \in Hosts, g # h, Known(d, g), find(d, g).address # 0
  PROVE  Known(e, g) /\ find(e, g).address = find(d, g).address
<1> DEFINE key == KeyFor(d, h)
<1>1. /\ DOMAIN e = DOMAIN d \cup {key} /\ e[key] = rec
      /\ \A k \in DOMAIN d : k # key => e[k] = d[k]
  OBVIOUS
<1>2. g # 0 /\ h # 0
  BY HostsAssumption
<1>3. resolve_key(d, g) \in DOMAIN d /\ d[resolve_key(d, g)].address # 0
  BY ResolveKey DEF find
<1>4. CASE Known(d, h)
  <2>1. key = resolve_key(d, h) /\ key \in DOMAIN d /\ find(d, h) = d[key]
    BY <1>4, ResolveKey DEF KeyFor, find
  <2>2. /\ e[key].name = d[key].name
        /\ d[key].address # 0 => e[key].address = d[key].address
        /\ d[key].address = 0 => e[key].address = h
    BY <1>1, <1>4, <2>1 DEF resolve_options
  <2> HIDE DEF key
  <2>3. /\ DOMAIN e = DOMAIN d
        /\ \A k \in DOMAIN d : e[k].name = d[k].name /\ (e[k].address = g <=> d[k].address = g)
    BY <1>1, <1>2, <2>1, <2>2
  <2>4. Matching(e, g) = Matching(d, g)
    <3>1. /\ {k \in DOMAIN e : k = g} = {k \in DOMAIN d : k = g}
          /\ {k \in DOMAIN e : e[k].address = g} = {k \in DOMAIN d : d[k].address = g}
          /\ {k \in DOMAIN e : e[k].name = g} = {k \in DOMAIN d : d[k].name = g}
      BY <2>3
    <3>2. QED
      BY <3>1 DEF Matching
  <2>5. e[resolve_key(d, g)].address = d[resolve_key(d, g)].address
    BY <1>1, <1>3, <2>2
  <2>6. QED
    BY <2>4, <2>5 DEF Known, resolve_key, find
<1>5. CASE ~Known(d, h)
  <2>1. key = h /\ h \notin DOMAIN d
    BY <1>5 DEF KeyFor, Known, Matching
  <2>2. e[h].address = h /\ e[h].name = 0
    BY <1>1, <1>2, <1>5, <2>1 DEF resolve_options
  <2> HIDE DEF key
  <2>3. Matching(e, g) = Matching(d, g)
    <3>1. \A k \in DOMAIN e : k \in DOMAIN d \/ k = h
      BY <1>1, <2>1
    <3>2. \A k \in DOMAIN d : e[k] = d[k] /\ k \in DOMAIN e
      BY <1>1, <2>1
    <3>3. /\ {k \in DOMAIN e : k = g} = {k \in DOMAIN d : k = g}
          /\ {k \in DOMAIN e : e[k].address = g} = {k \in DOMAIN d : d[k].address = g}
          /\ {k \in DOMAIN e : e[k].name = g} = {k \in DOMAIN d : d[k].name = g}
      BY <1>2, <2>2, <3>1, <3>2
    <3>4. QED
      BY <3>3 DEF Matching
  <2>4. e[resolve_key(d, g)] = d[resolve_key(d, g)]
    BY <1>1, <1>3, <2>1
  <2>5. QED
    BY <2>3, <2>4 DEF Known, resolve_key, find
<1>6. QED
  BY <1>4, <1>5

\* A connection keeps every name that is found with an address, and the mark that the
\* notice was printed.
LEMMA ConnectKeeps ==
  ASSUME NEW c \in Configs, NEW h \in Hosts, NEW given \in Keys, NEW save \in BOOLEAN,
         NEW moved \in BOOLEAN
  PROVE  LET n == Persisted(c, h, given, save, moved)
         IN
         /\ c.warned => n.warned
         /\ \A g \in Hosts : Known(c.devices, g) /\ find(c.devices, g).address # 0 =>
              Known(n.devices, g) /\ find(n.devices, g).address = find(c.devices, g).address
<1> DEFINE d == c.devices
           o == resolve_options(d, h, given)
           rec == Desired(d, h, o, save)
           n == Persisted(c, h, given, save, moved)
<1>1. d \in DeviceMaps
  BY ConfigFields
<1>2. o \in [address : Hosts, psk : Keys] /\ rec \in Records
  BY <1>1, ResolveOptions, DesiredRecord
<1>3. /\ rec.address = resolve_options(d, h, NoKey).address
      /\ rec.name = (IF Known(d, h) THEN find(d, h).name ELSE 0)
      /\ rec.psk = StoredKey(o.psk, save)
  BY DEF Desired, resolve_options
<1>4. CASE ~Changed(d, h, rec, moved)
  BY <1>4 DEF Persisted
<1>5. CASE Changed(d, h, rec, moved)
  <2>1. n = remember(c, h, rec, save)
    BY <1>5 DEF Persisted
  <2>2. [rec EXCEPT !.psk = StoredKey(rec.psk, save)] = rec
    <3>1. StoredKey(rec.psk, save) = rec.psk
      BY <1>3 DEF StoredKey
    <3> HIDE DEF rec
    <3>2. QED
      BY <1>2, <3>1 DEF Records
  <2>3. n.devices = [k \in DOMAIN d \cup {KeyFor(d, h)} |-> IF k = KeyFor(d, h) THEN rec ELSE d[k]]
    <3> HIDE DEF rec, n
    <3>1. QED
      BY <1>2, <2>1, <2>2, Remember
  <2>4. c.warned => n.warned
    <3> HIDE DEF rec
    <3>1. QED
      BY <2>1, ConfigFields DEF remember, n, Configs
  <2>5. ASSUME NEW g \in Hosts, Known(d, g), find(d, g).address # 0
        PROVE  Known(n.devices, g) /\ find(n.devices, g).address = find(d, g).address
    <3>1. CASE g # h
      <4> HIDE DEF rec, n, d
      <4>1. QED
        BY <1>1, <1>2, <1>3, <2>3, <2>5, <3>1, OthersStay
    <3>2. CASE g = h
      <4>1. o.address = find(d, h).address
        BY <2>5, <3>2 DEF resolve_options
      <4>2. QED
        BY <3>2, <4>1, ConnectStores
    <3>3. QED
      BY <3>1, <3>2
  <2>6. QED
    BY <2>4, <2>5
<1>6. QED
  BY <1>4, <1>5

-----------------------------------------------------------------------------
(* Invocations that do not overlap: the invariant *)

Default == [devices |-> NoDevices, save_keys |-> TRUE, warned |-> FALSE]
ReadFrom(f) == IF f.state = "whole" THEN Loaded(f.json) ELSE Default
Saving == {"truncate", "write"}

\* One invocation at a time; the file is cut short only while it is being written; and
\* what an invocation has loaded is still what the file holds.
Serial ==
  /\ \A p, q \in Runs : Active(p) /\ Active(q) => p = q
  /\ file.state = "cut" => \E p \in Runs : pc[p] = "write"
  /\ \A p \in Runs : pc[p] = "loaded" => cfg[p] = ReadFrom(file)

\* Once the notice was printed, whoever comes next will see that it was: from the file
\* or, while the file is being written, from the Config that is written.
Noticed ==
  /\ notices <= 1
  /\ notices = 1 =>
       /\ \A p \in Runs : pc[p] \in Saving => cfg[p].warned
       /\ (\A p \in Runs : pc[p] \notin Saving) => file.state = "whole" /\ file.json.warned

\* d resolves the host of p to the address that p connected to.
Remembers(d, p) == Known(d, task[p].host) /\ find(d, task[p].host).address = opt[p].address

\* While nothing is forgotten, each name that was connected to is in the Config on its
\* way to the file, and in the file as long as that has not been opened for writing.
Remembering ==
  (\A p \in Runs : task[p].verb = "connect") =>
    \A p \in Runs : pc[p] = "connected" =>
      /\ \A q \in Runs : pc[q] \in Saving => Remembers(cfg[q].devices, p)
      /\ (\A q \in Runs : pc[q] # "write") =>
           file.state = "whole" /\ Remembers(file.json.devices, p)

\* An invocation that ends before it has opened the file takes only its own connection
\* with it, and that the notice was printed.
SerialInv ==
  /\ \A p \in Runs : pc[p] = "start" => cfg[p] = Default
  /\ ~lost => Serial /\ Remembering /\ (~unsaved => Noticed)

LEMMA SerialInit == Init => SerialInv
<1> SUFFICES ASSUME Init PROVE SerialInv
  OBVIOUS
<1>1. \A p \in Runs : pc[p] = "start" /\ cfg[p] = Default
  BY DEF Init, Default
<1>2. file.state # "cut" /\ notices = 0
  BY DEF Init, Missing, Whole
<1>3. Serial
  BY <1>1, <1>2 DEF Serial, Active
<1>4. QED
  BY <1>1, <1>2, <1>3 DEF SerialInv, Noticed, Remembering

\* A file that is whole is what was written of the Config it is read as.
LEMMA FileIsWritten ==
  ASSUME ConfigInv, file.state = "whole"
  PROVE  ReadFrom(file) \in Configs /\ file.json = Written(ReadFrom(file))
<1>1. PICK c \in Configs : file = Whole(Written(c)) /\ Loaded(file.json) = c
  BY FileConfig
<1>2. QED
  BY <1>1 DEF Whole, ReadFrom

LEMMA SerialLoad == ASSUME ConfigInv, SerialInv, NEW p \in Runs, Load(p) PROVE SerialInv'
<1>1. /\ pc[p] = "start" /\ pc' = [pc EXCEPT ![p] = "loaded"]
      /\ lost' = (lost \/ \E q \in Runs : Active(q))
      /\ UNCHANGED <<file, task, opt, notices, unsaved>>
      /\ pc \in [Runs -> {"start", "loaded", "truncate", "write", "connected", "over"}]
      /\ cfg \in [Runs -> Configs]
  BY DEF Load, Goto, ConfigInv, RunTypeOK
<1>2. cfg' = [cfg EXCEPT ![p] = ReadFrom(file)]
  <2>1. CASE file.state = "whole"
    BY <2>1 DEF Load, ReadFrom
  <2>2. CASE file.state # "whole"
    <3>1. cfg' = cfg /\ cfg[p] = Default
      BY <1>1, <2>2 DEF Load, SerialInv
    <3>2. QED
      BY <1>1, <2>2, <3>1 DEF ReadFrom
  <2>3. QED
    BY <2>1, <2>2
<1>3. \A q \in Runs : pc'[q] = "start" => cfg'[q] = Default
  BY <1>1, <1>2 DEF SerialInv
<1>4. ASSUME ~lost' PROVE Serial' /\ Remembering' /\ (~unsaved' => Noticed')
  <2>1. /\ ~lost /\ (\A q \in Runs : ~Active(q))
        /\ Serial /\ Remembering /\ (~unsaved => Noticed)
    BY <1>1, <1>4 DEF SerialInv
  <2>2. \A q \in Runs : q # p => pc'[q] = pc[q] /\ cfg'[q] = cfg[q]
    BY <1>1, <1>2
  <2>3. pc'[p] = "loaded" /\ cfg'[p] = ReadFrom(file)
    BY <1>1, <1>2
  <2>4. \A q \in Runs : pc[q] \notin Saving /\ pc'[q] \notin Saving
    BY <2>1, <2>2, <2>3 DEF Active, Saving
  <2>5. Serial'
    BY <1>1, <2>1, <2>2, <2>3 DEF Serial, Active
  <2>6. ~unsaved' => Noticed'
    BY <1>1, <2>1, <2>4 DEF Noticed
  <2>7. Remembering'
    BY <1>1, <2>1, <2>2, <2>3, <2>4 DEF Remembering, Remembers, Saving
  <2>8. QED
    BY <2>5, <2>6, <2>7
<1>5. QED
  BY <1>3, <1>4 DEF SerialInv

LEMMA SerialConnect == ASSUME ConfigInv, SerialInv, NEW p \in Runs, Connect(p) PROVE SerialInv'
<1>0. PICK moved \in BOOLEAN :
        LET c == cfg[p]
            n == Persisted(c, task[p].host, Given(p), Saves(p), moved)
        IN
        /\ pc[p] = "loaded" /\ task[p].verb = "connect" /\ UNCHANGED <<file, task, historyVars>>
        /\ opt' = [opt EXCEPT ![p] = resolve_options(c.devices, task[p].host, Given(p))]
        /\ cfg' = [cfg EXCEPT ![p] = n]
        /\ \/ /\ pc' = [pc EXCEPT ![p] = "truncate"]
              /\ notices' = IF n.warned # c.warned THEN notices + 1 ELSE notices
           \/ pc' = [pc EXCEPT ![p] = "connected"] /\ n = c /\ UNCHANGED notices
  BY ConnectEffect, Zenon
<1> DEFINE c == cfg[p]
           h == task[p].host
           n == Persisted(c, h, Given(p), Saves(p), moved)
<1>1. /\ c \in Configs /\ h \in Hosts /\ Given(p) \in Keys /\ Saves(p) \in BOOLEAN
      /\ \A q \in Runs : task[q].host \in Hosts /\ opt[q].address \in Hosts
      /\ pc \in [Runs -> {"start", "loaded", "truncate", "write", "connected", "over"}]
      /\ cfg \in [Runs -> Configs] /\ opt \in [Runs -> [address : Hosts, psk : Keys]]
      /\ notices \in Nat
  BY ConfigFields DEF ConfigInv, RunTypeOK, Given, Keys, Saves
<1>2. /\ pc[p] = "loaded" /\ UNCHANGED <<file, task, historyVars>>
      /\ cfg' = [cfg EXCEPT ![p] = n]
      /\ \A q \in Runs : q # p => opt'[q] = opt[q]
      /\ \/ /\ pc' = [pc EXCEPT ![p] = "truncate"]
            /\ notices' = IF n.warned # c.warned THEN notices + 1 ELSE notices
         \/ pc' = [pc EXCEPT ![p] = "connected"] /\ n = c /\ UNCHANGED notices
  <2> HIDE DEF n
  <2>1. QED
    BY <1>0, <1>1 DEF n
<1>3. /\ n \in Configs
      /\ c.warned => n.warned
      /\ \A g \in Hosts : Known(c.devices, g) /\ find(c.devices, g).address # 0 =>
           Known(n.devices, g) /\ find(n.devices, g).address = find(c.devices, g).address
  <2>1. n \in Configs
    BY <1>1, ConnectStores
  <2>2. /\ c.warned => n.warned
        /\ \A g \in Hosts : Known(c.devices, g) /\ find(c.devices, g).address # 0 =>
             Known(n.devices, g) /\ find(n.devices, g).address = find(c.devices, g).address
    BY <1>1, ConnectKeeps
  <2>3. QED
    BY <2>1, <2>2
<1>4. n.warned \in BOOLEAN /\ c.warned \in BOOLEAN
  BY <1>1, <1>3, ConfigFields
<1>5. ConfigInv'
  BY ConnectStep
<1> HIDE DEF n
<1>6. \A q \in Runs : q # p => pc'[q] = pc[q] /\ cfg'[q] = cfg[q]
  BY <1>1, <1>2
<1>7. pc'[p] \in {"truncate", "connected"} /\ cfg'[p] = n
  BY <1>1, <1>2
<1>8. \A q \in Runs : pc'[q] = "start" => cfg'[q] = Default
  BY <1>6, <1>7 DEF SerialInv
<1>9. ASSUME ~lost' PROVE Serial' /\ Remembering' /\ (~unsaved' => Noticed')
  <2>1. Serial /\ Remembering /\ (~unsaved' => Noticed)
    BY <1>2, <1>9 DEF SerialInv
  <2>2. \A q \in Runs : q # p => ~Active(q) /\ pc[q] \notin Saving
    BY <1>2, <2>1 DEF Serial, Active, Saving
  <2>3. /\ \A q \in Runs : pc[q] \notin Saving /\ pc[q] # "write"
        /\ file.state # "cut" /\ c = ReadFrom(file)
    BY <1>2, <2>1, <2>2 DEF Serial, Saving
  <2>4. Serial'
    BY <1>2, <1>6, <1>7, <2>2, <2>3 DEF Serial, Active, Saving
  <2>5. ASSUME Noticed
        PROVE  notices = 1 => file.state = "whole" /\ file.json.warned /\ c.warned
    <3>1. notices = 1 => file.state = "whole" /\ file.json.warned
      BY <2>3, <2>5 DEF Noticed
    <3>2. file.state = "whole" => file.json.warned = c.warned
      BY <2>3, FileIsWritten, DocumentFinds, WrittenFields
    <3>3. QED
      BY <3>1, <3>2
  <2>6. ASSUME Noticed PROVE Noticed'
    <3>1. CASE pc' = [pc EXCEPT ![p] = "truncate"]
                 /\ notices' = IF n.warned # c.warned THEN notices + 1 ELSE notices
      <4>1. notices' = notices \/ (notices' = notices + 1 /\ ~c.warned /\ n.warned)
        BY <1>3, <1>4, <3>1
      <4>2. notices' <= 1 /\ (notices' = 1 => n.warned)
        BY <1>1, <1>3, <2>5, <2>6, <4>1 DEF Noticed
      <4>3. pc'[p] = "truncate"
        BY <1>1, <3>1
      <4>4. \A q \in Runs : pc'[q] \in Saving => q = p
        BY <1>6, <2>2
      <4>5. QED
        BY <1>7, <4>2, <4>3, <4>4 DEF Noticed, Saving
    <3>2. CASE pc' = [pc EXCEPT ![p] = "connected"] /\ n = c /\ UNCHANGED notices
      <4>1. \A q \in Runs : pc'[q] \notin Saving
        BY <1>1, <1>6, <2>2, <3>2 DEF Saving
      <4>2. QED
        BY <1>2, <2>5, <2>6, <3>2, <4>1 DEF Noticed
    <3>3. QED
      BY <1>2, <3>1, <3>2
  <2>7. Remembering'
    <3> SUFFICES ASSUME \A r \in Runs : task[r].verb = "connect",
                        NEW q \in Runs, pc'[q] = "connected"
                 PROVE  /\ \A r \in Runs : pc'[r] \in Saving => Remembers(cfg[r].devices, q)'
                        /\ (\A r \in Runs : pc'[r] # "write") =>
                             file'.state = "whole" /\ Remembers(file.json.devices, q)'
      BY <1>2 DEF Remembering
    <3>1. CASE q # p
      <4>1. file.state = "whole" /\ Remembers(file.json.devices, q)
        BY <1>6, <2>1, <2>3, <3>1 DEF Remembering
      <4>2. Remembers(c.devices, q)
        BY <1>1, <2>3, <4>1, FileIsWritten, DocumentFinds DEF Remembers
      <4>3. Known(n.devices, task[q].host) /\ find(n.devices, task[q].host).address = opt[q].address
        BY <1>1, <1>3, <4>2, HostsAssumption DEF Remembers
      <4>4. \A r \in Runs : pc'[r] \in Saving => Remembers(cfg[r].devices, q)'
        BY <1>2, <1>6, <1>7, <2>2, <3>1, <4>3 DEF Remembers
      <4>5. QED
        BY <1>2, <3>1, <4>1, <4>4 DEF Remembers
    <3>2. CASE q = p
      <4>1. pc'[p] = "connected" /\ n = c
        BY <1>1, <1>2, <3>2
      <4>2. \A r \in Runs : pc'[r] \notin Saving
        BY <1>6, <2>2, <4>1 DEF Saving
      <4>3. Known(n.devices, h) /\ find(n.devices, h).address = opt'[p].address
        BY <1>2, <1>5, <1>7, <3>2 DEF ConfigInv, Found
      <4>4. file.state = "whole"
        <5>1. DOMAIN c.devices # {}
          BY <4>1, <4>3 DEF Known, Matching
        <5>2. QED
          BY <2>3, <5>1 DEF ReadFrom, Default, NoDevices
      <4>5. Known(file.json.devices, h) /\ find(file.json.devices, h).address = opt'[p].address
        BY <1>1, <2>3, <4>1, <4>3, <4>4, FileIsWritten, DocumentFinds
      <4>6. QED
        BY <1>2, <3>2, <4>2, <4>4, <4>5 DEF Remembers
    <3>3. QED
      BY <3>1, <3>2
  <2>8. QED
    BY <2>1, <2>4, <2>6, <2>7
<1>10. QED
  BY <1>8, <1>9 DEF SerialInv

LEMMA SerialForget == ASSUME ConfigInv, SerialInv, NEW p \in Runs, Forget(p) PROVE SerialInv'
<1>1. /\ pc[p] = "loaded" /\ task[p].verb = "forget"
      /\ UNCHANGED <<file, task, opt, notices, historyVars>>
      /\ pc \in [Runs -> {"start", "loaded", "truncate", "write", "connected", "over"}]
      /\ cfg \in [Runs -> Configs] /\ notices \in Nat
      /\ \/ pc' = [pc EXCEPT ![p] = "over"] /\ UNCHANGED cfg
         \/ /\ pc' = [pc EXCEPT ![p] = "truncate"]
            /\ cfg' = [cfg EXCEPT ![p] = forget(cfg[p], task[p].host)]
  BY DEF Forget, Goto, ConfigInv, RunTypeOK
<1>2. forget(cfg[p], task[p].host).warned = cfg[p].warned
  BY <1>1 DEF forget, Configs
<1>3. \A q \in Runs : q # p => pc'[q] = pc[q] /\ cfg'[q] = cfg[q]
  BY <1>1
<1>4. pc'[p] \in {"over", "truncate"} /\ cfg'[p].warned = cfg[p].warned
  BY <1>1, <1>2
<1>5. \A q \in Runs : pc'[q] = "start" => cfg'[q] = Default
  BY <1>3, <1>4 DEF SerialInv
<1>6. ASSUME ~lost' PROVE Serial' /\ Remembering' /\ (~unsaved' => Noticed')
  <2>1. Serial /\ (~unsaved' => Noticed)
    BY <1>1, <1>6 DEF SerialInv
  <2>2. \A q \in Runs : q # p => ~Active(q) /\ pc[q] \notin Saving
    BY <1>1, <2>1 DEF Serial, Active, Saving
  <2>3. /\ \A q \in Runs : pc[q] \notin Saving /\ pc[q] # "write"
        /\ file.state # "cut" /\ cfg[p] = ReadFrom(file)
    BY <1>1, <2>1, <2>2 DEF Serial, Saving
  <2>4. Serial'
    BY <1>1, <1>3, <1>4, <2>2, <2>3 DEF Serial, Active, Saving
  <2>5. ASSUME Noticed
        PROVE  notices = 1 => file.state = "whole" /\ file.json.warned /\ cfg[p].warned
    <3>1. notices = 1 => file.state = "whole" /\ file.json.warned
      BY <2>3, <2>5 DEF Noticed
    <3>2. file.state = "whole" => file.json.warned = cfg[p].warned
      BY <2>3, FileIsWritten, DocumentFinds, WrittenFields
    <3>3. QED
      BY <3>1, <3>2
  <2>6. ASSUME Noticed PROVE Noticed'
    BY <1>1, <1>3, <1>4, <2>2, <2>5, <2>6 DEF Noticed
  <2>7. Remembering'
    BY <1>1 DEF Remembering
  <2>8. QED
    BY <2>1, <2>4, <2>6, <2>7
<1>7. QED
  BY <1>5, <1>6 DEF SerialInv

\* An invocation that ends before it has opened the file leaves what the file holds; if
\* it was on its way to save it, what it had to save is gone.
LEMMA SerialEnds ==
  ASSUME ConfigInv, SerialInv, NEW p \in Runs,
         pc[p] \in {"loaded", "truncate"}, pc' = [pc EXCEPT ![p] = "over"],
         UNCHANGED <<file, task, cfg, opt, notices, lost>>,
         unsaved' = (unsaved \/ pc[p] = "truncate")
  PROVE  SerialInv'
<1>1. \A q \in Runs : (q # p => pc'[q] = pc[q]) /\ pc'[p] = "over"
  BY DEF ConfigInv, RunTypeOK
<1>2. \A q \in Runs : /\ pc'[q] = "write" <=> pc[q] = "write"
                     /\ pc'[q] \in Saving => pc[q] \in Saving
  BY <1>1 DEF Saving
<1>3. Serial => Serial'
  BY <1>1 DEF Serial, Active
<1>4. ASSUME ~unsaved', Noticed PROVE Noticed'
  <2>1. \A q \in Runs : pc'[q] \in Saving <=> pc[q] \in Saving
    BY <1>1, <1>4 DEF Saving
  <2>2. QED
    BY <1>4, <2>1 DEF Noticed
<1>5. Remembering => Remembering'
  BY <1>1, <1>2 DEF Remembering, Remembers
<1>6. QED
  BY <1>1, <1>3, <1>4, <1>5 DEF SerialInv

LEMMA SerialConnectFails ==
  ASSUME ConfigInv, SerialInv, NEW p \in Runs, ConnectFails(p) PROVE SerialInv'
<1>1. /\ pc[p] = "loaded" /\ pc' = [pc EXCEPT ![p] = "over"]
      /\ UNCHANGED <<file, task, cfg, opt, notices, lost, unsaved>>
  BY DEF ConnectFails, Goto
<1>2. unsaved' = (unsaved \/ pc[p] = "truncate")
  BY <1>1 DEF ConfigInv, RunTypeOK
<1>3. QED
  BY <1>1, <1>2, SerialEnds

LEMMA SerialTruncate == ASSUME ConfigInv, SerialInv, NEW p \in Runs, Truncate(p) PROVE SerialInv'
<1>1. /\ pc[p] = "truncate" /\ UNCHANGED <<task, cfg, opt, notices, lost>>
      /\ pc \in [Runs -> {"start", "loaded", "truncate", "write", "connected", "over"}]
  BY DEF Truncate, ConfigInv, RunTypeOK
<1>2. CASE file' = Cut /\ Goto(p, "write") /\ UNCHANGED unsaved
  <2>1. /\ \A q \in Runs : q # p => pc'[q] = pc[q]
        /\ pc'[p] = "write" /\ file'.state = "cut" /\ unsaved' = unsaved
    BY <1>1, <1>2 DEF Goto, Cut
  <2>2. \A q \in Runs : pc'[q] \in Saving <=> pc[q] \in Saving
    BY <1>1, <2>1 DEF Saving
  <2>3. ASSUME ~lost' PROVE Serial' /\ Remembering' /\ (~unsaved' => Noticed')
    <3>1. Serial /\ Remembering /\ (~unsaved' => Noticed)
      BY <1>1, <2>1, <2>3 DEF SerialInv
    <3>2. \A q \in Runs : q # p => ~Active(q)
      BY <1>1, <3>1 DEF Serial, Active
    <3>3. Serial'
      BY <1>1, <2>1, <3>2 DEF Serial, Active
    <3>4. p \in Runs /\ pc'[p] \in Saving
      BY <2>1 DEF Saving
    <3>5. ~unsaved' => Noticed'
      BY <1>1, <2>2, <3>1, <3>4 DEF Noticed
    <3>6. Remembering'
      BY <1>1, <2>1, <2>2, <3>1, <3>4 DEF Remembering, Remembers
    <3>7. QED
      BY <3>3, <3>5, <3>6
  <2>4. QED
    BY <1>1, <2>1, <2>3 DEF SerialInv
<1>3. CASE Goto(p, "over") /\ unsaved' = TRUE /\ UNCHANGED file
  BY <1>1, <1>3, SerialEnds DEF Goto
<1>4. QED
  BY <1>2, <1>3 DEF Truncate

LEMMA SerialWrite == ASSUME ConfigInv, SerialInv, NEW p \in Runs, Write(p) PROVE SerialInv'
<1>1. /\ pc[p] = "write" /\ UNCHANGED <<task, cfg, opt, notices, unsaved>>
      /\ pc \in [Runs -> {"start", "loaded", "truncate", "write", "connected", "over"}]
      /\ \A q \in Runs : cfg[q] \in Configs /\ task[q].host \in Hosts
      /\ task[p].verb = "connect" => Found(p)
  BY DEF Write, Goto, ConfigInv, RunTypeOK
<1>2. PICK l \in {"connected", "over"} :
        pc' = [pc EXCEPT ![p] = l] /\ (l = "connected" => task[p].verb = "connect")
  BY DEF Write, Goto
<1>3. (\A q \in Runs : q # p => pc'[q] = pc[q]) /\ pc'[p] = l
  BY <1>1, <1>2
<1>4. \A q \in Runs : pc'[q] = "start" => cfg'[q] = Default
  BY <1>1, <1>2, <1>3 DEF SerialInv
<1>5. CASE file' = Whole(Written(cfg[p])) /\ UNCHANGED lost
  <2>1. file'.state = "whole" /\ file'.json = Written(cfg[p])
    BY <1>5 DEF Whole
  <2>2. ASSUME ~lost' PROVE Serial' /\ Remembering' /\ (~unsaved' => Noticed')
    <3>1. Serial /\ Remembering /\ (~unsaved' => Noticed)
      BY <1>1, <1>5, <2>2 DEF SerialInv
    <3>2. \A q \in Runs : q # p => ~Active(q)
      BY <1>1, <3>1 DEF Serial, Active
    <3>3. \A q \in Runs : ~Active(q)' /\ pc'[q] \notin Saving /\ pc'[q] # "loaded"
      BY <1>2, <1>3, <3>2 DEF Active, Saving
    <3>4. Serial'
      BY <2>1, <3>3 DEF Serial
    <3>5. ASSUME ~unsaved' PROVE Noticed'
      <4>1. notices = 1 => cfg[p].warned
        BY <1>1, <3>1, <3>5 DEF Noticed, Saving
      <4>2. file'.json.warned = cfg[p].warned
        BY <1>1, <2>1, WrittenFields
      <4>3. QED
        BY <1>1, <2>1, <3>1, <3>3, <3>5, <4>1, <4>2 DEF Noticed
    <3>6. Remembering'
      <4> SUFFICES ASSUME \A r \in Runs : task[r].verb = "connect",
                          NEW q \in Runs, pc'[q] = "connected"
                   PROVE  Remembers(file.json.devices, q)'
        BY <1>1, <2>1, <3>3 DEF Remembering
      <4>1. Remembers(cfg[p].devices, q)
        <5>1. CASE q = p
          BY <1>1, <5>1 DEF Found, Remembers
        <5>2. CASE q # p
          BY <1>1, <1>3, <3>1, <5>2 DEF Remembering, Saving
        <5>3. QED
          BY <5>1, <5>2
      <4>2. QED
        BY <1>1, <2>1, <4>1, DocumentFinds DEF Remembers
    <3>7. QED
      BY <3>4, <3>5, <3>6
  <2>3. QED
    BY <1>4, <2>2 DEF SerialInv
<1>6. CASE file' = Cut /\ lost' = TRUE
  BY <1>4, <1>6 DEF SerialInv
<1>7. QED
  BY <1>5, <1>6 DEF Write

LEMMA SerialDie == ASSUME ConfigInv, SerialInv, NEW p \in Runs, Die(p) PROVE SerialInv'
<1>1. /\ pc[p] \in {"loaded", "truncate", "write"} /\ pc' = [pc EXCEPT ![p] = "over"]
      /\ lost' = (lost \/ pc[p] = "write") /\ unsaved' = (unsaved \/ pc[p] = "truncate")
      /\ UNCHANGED <<file, task, cfg, opt, notices>>
      /\ pc \in [Runs -> {"start", "loaded", "truncate", "write", "connected", "over"}]
  BY DEF Die, Active, Goto, ConfigInv, RunTypeOK
<1>2. CASE pc[p] = "write"
  <2>1. \A q \in Runs : pc'[q] = "start" => pc[q] = "start"
    BY <1>1
  <2>2. QED
    BY <1>1, <1>2, <2>1 DEF SerialInv
<1>3. CASE pc[p] # "write"
  <2>1. pc[p] \in {"loaded", "truncate"} /\ lost' = lost
    BY <1>1, <1>3 DEF ConfigInv, RunTypeOK
  <2>2. QED
    BY <1>1, <2>1, SerialEnds
<1>4. QED
  BY <1>2, <1>3

LEMMA SerialStutter == ASSUME SerialInv, UNCHANGED vars PROVE SerialInv'
BY ZenonT(30)
DEF vars, SerialInv, Serial, Noticed, Remembering, Remembers, Active, ReadFrom, Saving, Default

LEMMA SerialStep == ConfigInv /\ SerialInv /\ [Next]_vars => SerialInv'
<1> SUFFICES ASSUME ConfigInv, SerialInv, [Next]_vars PROVE SerialInv'
  OBVIOUS
<1>1. ASSUME NEW p \in Runs,
             \/ Load(p) \/ Connect(p) \/ ConnectFails(p) \/ Forget(p)
             \/ Truncate(p) \/ Write(p) \/ Die(p)
      PROVE  SerialInv'
  BY <1>1, SerialLoad, SerialConnect, SerialConnectFails, SerialForget, SerialTruncate,
     SerialWrite, SerialDie
<1>2. CASE AllOver
  BY <1>2, SerialStutter DEF AllOver
<1>3. CASE UNCHANGED vars
  BY <1>3, SerialStutter
<1>4. QED
  BY <1>1, <1>2, <1>3 DEF Next

LEMMA SerialAlways == Spec => []SerialInv
<1>1. Spec => []ConfigInv
  BY ConfigAlways
<1>2. QED
  BY <1>1, SerialInit, SerialStep, PTL DEF Spec

\* However many invocations run one after the other, on whatever file, the notice that
\* keys are stored in plaintext is printed at most once, if each saves what it has.
THEOREM NoticeShownOnce == Spec => []NoticeOnce
<1>1. SerialInv => NoticeOnce
  BY DEF SerialInv, Noticed, NoticeOnce
<1>2. QED
  BY <1>1, SerialAlways, PTL

\* However many invocations run one after the other, every device that was connected to
\* and saved is found in the file by the name it was connected with, at the address it was
\* then at, also if others failed or were killed before they had opened the file.
THEOREM NothingForgotten == Spec => []SerialRunsRemember
<1>1. SerialInv => SerialRunsRemember
  BY DEF SerialInv, Remembering, Remembers, SerialRunsRemember, Active, Saving
<1>2. QED
  BY <1>1, SerialAlways, PTL
================================================================================
