------------------------------ MODULE ConfigStore ------------------------------
(***************************************************************************)
(* The saved devices of the command-line tool (src/bin/cli/config.cpp,     *)
(* options.cpp): one JSON file that several invocations load, change in    *)
(* memory and write back, each on its own, and any of which may fail or be *)
(* killed in between.                                                      *)
(*                                                                         *)
(* Host names, addresses and aliases are numbers, ordered as the map       *)
(* orders its keys, and 0 is the empty string.  Of the port a record has   *)
(* only whether an invocation brings another one is kept, and of the       *)
(* defaults only save_keys: the others are carried along and nothing here  *)
(* looks at them.                                                          *)
(***************************************************************************)
EXTENDS Integers, FiniteSetsExt

CONSTANTS
  Runs,        \* the invocations of the tool
  Hosts,       \* what a user may name a device by
  NoKey,       \* no encryption key
  OldKey,      \* a key saved before these invocations
  Edited       \* files to start from, as a user may have edited them

ASSUME HostsAssumption == Hosts \subseteq Nat \ {0}
ASSUME KeysAssumption == NoKey # OldKey /\ {NoKey, OldKey} \cap Runs = {}

VARIABLES
  file,        \* what is on disk
  pc, task,    \* each invocation: where it is, and what it was asked to do
  cfg, opt,    \* its Config; the address and key it connects with
  notices,     \* how often the plaintext notice was printed
  lost,        \* history: did two overlap, or one leave the file cut short
  unsaved      \* history: did one end before it opened the file to save what it had

historyVars == <<lost, unsaved>>
vars == <<file, pc, task, cfg, opt, notices, historyVars>>

\* The key an invocation brings is its own, so that it can be told from any other.
Keys == Runs \cup {NoKey, OldKey}
Records == [name : Hosts \cup {0}, address : Hosts \cup {0}, psk : Keys]
DeviceMaps == UNION {[D -> Records] : D \in SUBSET Hosts}
Configs == [devices : DeviceMaps, save_keys : BOOLEAN, warned : BOOLEAN]
NoDevices == [h \in {} |-> 0]

ASSUME EditedAssumption ==
  /\ Edited \subseteq Configs
  /\ \A c \in Edited : \A h \in DOMAIN c.devices : c.devices[h].psk \in {NoKey, OldKey}

\* A record in the file: an empty key is left out, and read back as empty.
record_to_json(rec) ==
  IF rec.psk = NoKey THEN [name |-> rec.name, address |-> rec.address] ELSE rec

record_from_json(j) ==
  [name |-> j.name, address |-> j.address,
   psk |-> IF "psk" \in DOMAIN j THEN j.psk ELSE NoKey]

\* Mutant: plaintext_warned_ is not written.
WrittenUnwarned(c) ==
  [devices |-> [h \in DOMAIN c.devices |-> record_to_json(c.devices[h])],
   save_keys |-> c.save_keys, warned |-> FALSE]

\* The document that save() writes of a Config, and the Config that load() makes of it.
Written(c) == [c EXCEPT !.devices = [h \in DOMAIN @ |-> record_to_json(@[h])]]
Loaded(j) == [j EXCEPT !.devices = [h \in DOMAIN @ |-> record_from_json(@[h])]]

\* The file: absent, or cut short, or what one save() wrote.
Missing == [state |-> "missing"]
Cut == [state |-> "cut"]
Whole(j) == [state |-> "whole", json |-> j]

Init ==
  /\ file \in {Missing} \cup {Whole(Written(c)) : c \in Edited}
  /\ pc = [p \in Runs |-> "start"]
  /\ task \in [Runs -> [verb : {"connect"}, host : Hosts, key : BOOLEAN,
                        flag : {"unset", "yes", "no"}]
                       \cup [verb : {"forget"}, host : Hosts, key : {FALSE}, flag : {"unset"}]]
  /\ cfg = [p \in Runs |-> [devices |-> NoDevices, save_keys |-> TRUE, warned |-> FALSE]]
  /\ opt = [p \in Runs |-> [address |-> task[p].host, psk |-> NoKey]]
  /\ notices = 0 /\ lost = FALSE /\ unsaved = FALSE

-----------------------------------------------------------------------------
(* Config and persist_connection(), on one Config *)

\* resolve_key(): by key, else the first by address, else the first by name.
Matching(d, h) ==
  LET by_key == {k \in DOMAIN d : k = h}
      by_address == {k \in DOMAIN d : d[k].address = h}
      by_name == {k \in DOMAIN d : d[k].name = h}
  IN  IF by_key # {} THEN by_key ELSE IF by_address # {} THEN by_address ELSE by_name

Known(d, h) == Matching(d, h) # {}
resolve_key(d, h) == Min(Matching(d, h))
find(d, h) == d[resolve_key(d, h)]

\* Mutant: the record's address is taken although it is empty.
resolve_options_unchecked(d, h, given) ==
  IF Known(d, h)
  THEN [address |-> find(d, h).address,
        psk |-> IF given # NoKey THEN given ELSE find(d, h).psk]
  ELSE [address |-> h, psk |-> given]

\* resolve_options(): flag before record before default.
resolve_options(d, h, given) ==
  LET rec == IF Known(d, h) THEN find(d, h) ELSE [name |-> 0, address |-> 0, psk |-> NoKey]
  IN  [address |-> IF rec.address # 0 THEN rec.address ELSE h,
       psk |-> IF given # NoKey THEN given ELSE rec.psk]

\* What is kept of a key; persist_connection() and remember() both apply it.
StoredKey(key, save) == IF save THEN key ELSE NoKey

\* Mutant: an address once recorded is left alone, also an empty one.
DesiredSameAddress(d, h, o, save) ==
  [name |-> IF Known(d, h) THEN find(d, h).name ELSE 0,
   address |-> IF Known(d, h) THEN find(d, h).address ELSE o.address,
   psk |-> StoredKey(o.psk, save)]

\* The record persist_connection() wants.
Desired(d, h, o, save) ==
  [name |-> IF Known(d, h) THEN find(d, h).name ELSE 0,
   address |-> o.address,
   psk |-> StoredKey(o.psk, save)]

\* Mutant: a record that has lost its address, or never had one, counts as up to date.
ChangedKeyOnly(d, h, rec, moved) == Known(d, h) => moved \/ find(d, h).psk # rec.psk

\* Does the record differ from what is stored, be it only in the port (`moved`), so
\* that it is worth a save()?
Changed(d, h, rec, moved) == Known(d, h) => moved \/ find(d, h) # rec

\* remember(): under the key that already resolves, else under the host as given.
remember(c, h, rec, save) ==
  LET psk == StoredKey(rec.psk, save)
      key == IF Known(c.devices, h) THEN resolve_key(c.devices, h) ELSE h
  IN  [c EXCEPT !.devices = [k \in DOMAIN @ \cup {key} |->
                               IF k = key THEN [rec EXCEPT !.psk = psk] ELSE @[k]],
                !.warned = @ \/ (save /\ psk # NoKey)]

forget(c, h) ==
  [c EXCEPT !.devices = [k \in DOMAIN @ \ {resolve_key(@, h)} |-> @[k]]]

\* The key the invocation was given.
Given(p) == IF task[p].key THEN p ELSE NoKey

\* Mutant: what the file says of saving keys is not looked at.
SavesUnlessRefused(p) == task[p].flag # "no"

\* save_keys(): --save-keys or --no-save-keys, else what the file says.
Saves(p) == IF task[p].flag = "unset" THEN cfg[p].save_keys ELSE task[p].flag = "yes"

-----------------------------------------------------------------------------
(* One invocation *)

Active(p) == pc[p] \in {"loaded", "truncate", "write"}
Goto(p, label) == pc' = [pc EXCEPT ![p] = label]

\* Config::load(): a file that is absent or does not parse reads as the defaults.
Load(p) ==
  /\ pc[p] = "start"
  /\ cfg' = IF file.state = "whole" THEN [cfg EXCEPT ![p] = Loaded(file.json)] ELSE cfg
  /\ lost' = (lost \/ \E q \in Runs : Active(q))
  /\ Goto(p, "loaded")
  /\ UNCHANGED <<file, task, opt, notices, unsaved>>

\* connect() succeeded: persist_connection() up to save(), which is not called
\* when the record is already as desired.  The port it was given may be another one
\* than the record's.
Connect(p) ==
  /\ pc[p] = "loaded" /\ task[p].verb = "connect"
  /\ \E moved \in BOOLEAN :
       LET c == cfg[p]
           h == task[p].host
           o == resolve_options(c.devices, h, Given(p))
           rec == Desired(c.devices, h, o, Saves(p))
       IN  /\ opt' = [opt EXCEPT ![p] = o]
           /\ IF Changed(c.devices, h, rec, moved)
              THEN /\ cfg' = [cfg EXCEPT ![p] = remember(c, h, rec, Saves(p))]
                   /\ notices' = IF cfg'[p].warned # c.warned THEN notices + 1 ELSE notices
                   /\ Goto(p, "truncate")
              ELSE Goto(p, "connected") /\ UNCHANGED <<cfg, notices>>
  /\ UNCHANGED <<file, task, historyVars>>

\* connect() failed: the configuration is left alone.
ConnectFails(p) ==
  /\ pc[p] = "loaded" /\ task[p].verb = "connect"
  /\ Goto(p, "over")
  /\ UNCHANGED <<file, task, cfg, opt, notices, historyVars>>

\* run_config(): forget the device and save, or say that there is none.
Forget(p) ==
  /\ pc[p] = "loaded" /\ task[p].verb = "forget"
  /\ IF Known(cfg[p].devices, task[p].host)
     THEN cfg' = [cfg EXCEPT ![p] = forget(@, task[p].host)] /\ Goto(p, "truncate")
     ELSE Goto(p, "over") /\ UNCHANGED cfg
  /\ UNCHANGED <<file, task, opt, notices, historyVars>>

\* save(): the file is opened, which empties it, or cannot be.  Then save() throws,
\* which persist_connection() catches and run_config() lets end the tool: the
\* invocation is over, and has saved nothing.
Truncate(p) ==
  /\ pc[p] = "truncate"
  /\ \/ file' = Cut /\ Goto(p, "write") /\ UNCHANGED unsaved
     \/ Goto(p, "over") /\ unsaved' = TRUE /\ UNCHANGED file
  /\ UNCHANGED <<task, cfg, opt, notices, lost>>

\* save(): written and closed.  Nobody looks at the stream's state, so a full disk
\* leaves the file cut short and goes unnoticed.  What a longer text left behind the
\* end of a shorter one is not read: operator>> stops where the value ends.
Write(p) ==
  /\ pc[p] = "write"
  /\ \/ /\ file' = Whole(Written(cfg[p])) /\ UNCHANGED lost
        /\ Goto(p, IF task[p].verb = "connect" THEN "connected" ELSE "over")
     \/ file' = Cut /\ lost' = TRUE /\ Goto(p, "over")
  /\ UNCHANGED <<task, cfg, opt, notices, unsaved>>

\* The invocation is killed: while it writes, the file stays cut short.
Die(p) ==
  /\ Active(p)
  /\ lost' = (lost \/ pc[p] = "write")
  /\ unsaved' = (unsaved \/ pc[p] = "truncate")
  /\ Goto(p, "over")
  /\ UNCHANGED <<file, task, cfg, opt, notices>>

AllOver == (\A p \in Runs : pc[p] \in {"connected", "over"}) /\ UNCHANGED vars

Next ==
  \/ \E p \in Runs :
       Load(p) \/ Connect(p) \/ ConnectFails(p) \/ Forget(p) \/ Truncate(p) \/ Write(p) \/ Die(p)
  \/ AllOver

Spec == Init /\ [][Next]_vars

-----------------------------------------------------------------------------
(* Properties *)

RunTypeOK ==
  /\ pc \in [Runs -> {"start", "loaded", "truncate", "write", "connected", "over"}]
  /\ task \in [Runs -> [verb : {"connect", "forget"}, host : Hosts, key : BOOLEAN,
                       flag : {"unset", "yes", "no"}]]
  /\ cfg \in [Runs -> Configs]
  /\ opt \in [Runs -> [address : Hosts, psk : Keys]]
  /\ notices \in Nat /\ lost \in BOOLEAN /\ unsaved \in BOOLEAN

\* The values each variable can take: among them, that the file is what some
\* invocation's save() wrote, and that no connection is tried without an address.
TypeOK ==
  /\ file \in {Missing, Cut} \cup {Whole(Written(c)) : c \in {cfg[p] : p \in Runs} \cup Edited}
  /\ RunTypeOK

\* Whatever record the host resolved to and whatever it held, after a successful
\* connection the same name resolves, in this Config, to what was connected with.
ConnectionIsFound ==
  \A p \in Runs : task[p].verb = "connect" /\ pc[p] \in {"truncate", "write", "connected"} =>
    /\ Known(cfg[p].devices, task[p].host)
    /\ LET rec == find(cfg[p].devices, task[p].host) IN
         rec.address = opt[p].address /\ rec.psk = StoredKey(opt[p].psk, Saves(p))

\* Did the user let p save its key: by --save-keys or, if p was given neither flag, by
\* the save_keys of the file that p loaded?
MaySave(p) ==
  \/ task[p].flag = "yes"
  \/ task[p].flag = "unset" /\ cfg[p].save_keys

\* A key given to an invocation that may not save it, because of its flag or of the
\* file, is never on disk, in whatever order the invocations load and write the file.
NoKeyLeaks ==
  file.state = "whole" =>
    \A h \in DOMAIN file.json.devices :
      LET psk == record_from_json(file.json.devices[h]).psk
      IN  psk \in Runs => MaySave(psk)

\* The notice that keys are stored in plaintext is printed once for all invocations,
\* unless two overlap, one leaves the file cut short or one cannot save.
NoticeOnce == ~lost /\ ~unsaved => notices <= 1

\* Every device that was connected to and saved is found in the file, with its
\* address, until one is forgotten: also after invocations that failed or were killed,
\* unless two overlap or one is stopped while it writes the file.
SerialRunsRemember ==
  ~lost /\ (\A p \in Runs : task[p].verb = "connect" /\ ~Active(p)) =>
    \A p \in Runs : pc[p] = "connected" =>
      /\ file.state = "whole"
      /\ Known(file.json.devices, task[p].host)
      /\ find(file.json.devices, task[p].host).address = opt[p].address
=============================================================================
