# Verification of cpp-antenna-switcher-client

The repository holds a C++ library that drives a two-channel antenna switcher over the ESPHome
native API (`include/antenna_switcher/`, `src/*.cpp`) and a command-line tool built on it (`bin/`).
Beside it stand these TLA+ modules: eight models of its parts, the TLC configurations that check
them on small instances, and theorems about them that TLAPS checks for every value of the constants.

Paths below are those of the repository.

## The system

### Components

| component | state it keeps | operations | interacts with |
|---|---|---|---|
| connection life cycle (`src/client.cpp`) | `running`, `worker`, the five flags behind `connect_mtx`, `connected` | `connect()`, `disconnect()`, `shutdown_worker()`, the destructor, the handlers installed on the loop | the ESPHome client's loop, run by `worker`; the callers' threads |
| channel (`src/client.cpp`) | `states`, `ent` and `key_field`, `callback` | `state()`, `capabilities()`, the actions, `onStateChanged()`, `on_entity_state()`, `discover()` | the loop thread writes, callers read and post commands |
| entity discovery (`src/client.cpp`) | `ent`, `key_field`, kept over sessions | `discover()`, `register_key()`, `verify_discovery()`, `caps_settled()` | the client's entity store |
| command grammar (`src/commands.cpp`) | none | `build_*` | the actions, the parsers of the tool |
| capability codecs (`src/capabilities.cpp`) | none | `parse_feature_flags`, `format_feature_flags`, `decode_features`, `normalize_entity_id` | discovery, channel, output |
| CLI actions (`bin/cli/commands.cpp`, `signal.cpp`) | locals shared with the callback, `g_stop` | `run_set` … `run_offset` (through `run_action`), `run_state`, `run_watch`, `run_config` | library, configuration, standard output |
| panel (`bin/cli/interactive.cpp`) | `states_`, `prompt_shown_`, two mutexes | `seed_states`, `on_state`, `repaint`, `print_panel`, `repl` | library, terminal, user |
| configuration store (`bin/cli/config.cpp`, `options.cpp`) | one JSON file | `load`, `save`, `remember`, `forget`, `resolve_options`, `persist_connection` | the file system, other invocations |
| entry point (`bin/main.cpp`), output (`bin/cli/output.cpp`) | none | argument parsing, exit codes, formatting | the rest of the tool |

### How they interact

`connect()` starts the worker thread, posts a set-up task to its loop, and waits in three bounded
steps for flags which the loop's handlers set: handshake resolved, entity list ended, discovery done.
A fourth bounded wait lets the capabilities settle. Discovery is itself posted, with a reference to a
local of `connect()`. `shutdown_worker()` posts a task that stops the loop, and joins it. Every action
of a channel validates against a copy of the capabilities on the caller's thread and posts the write.
Every state update runs `on_entity_state()` on the loop: it updates the snapshot under `state_mtx`,
copies the listener under `cb_mtx`, copies the snapshot again, and calls the listener under no lock.

The tool has one main thread per invocation. Its listeners run on the library's loop: they set a flag
the main thread waits for (`run_action`), print (`run_watch`), or repaint the panel. Invocations share
nothing but the configuration file.

### What is hard

- `running` is a plain `bool`, tested and set without a lock; flags of one session survive into the next.
- Tasks posted to the loop outlive the call that posted them: a late `discover` task, a second `stop`.
- References to locals handed to another thread: `discover_err`, and the tool's `mtx`, `cv`, `updated`.
- Timed waits that give up at the moment the flag is set.
- Capabilities arrive one field at a time, before, during or after the checks of a request.
- Three mutexes in the panel, taken in different nestings by two threads, and a terminal on which the
  place of the rows depends on what was printed since.
- The same request read in two ways, at the shell and at the prompt, then held against a shape that may
  change before the call, and written in a text that leaves out what the board is believed to know.
- Ids that come in three spellings, in no order, and keys that are kept over sessions and firmwares.
- Load, change and save of one file by processes that may overlap, fail to write, or be killed.

`PROJECT.json` lists each such place with its line and the properties that cover it.

### What makes each part correct

- Life cycle: `connect()` returns only when this attempt is ready; nothing runs after `disconnect()`;
  no frame is written after it is left; every call returns; no settle signal is missed.
- Channel: the snapshot takes in every value of a discovered entity; listeners see the current state;
  a command that leaves was valid as a whole for one shape of the board; commands are not reordered or lost.
- Discovery: each field gets an entity that is there for it, its states are routed to this field alone, and
  `connect()` throws exactly when a required entity is missing.
- Requests: what the user typed is what is asked, the text tells it from every other request, it goes out
  exactly when the shape published so far serves it, and that shape is what is printed of the channel.
- CLI actions: exit codes tell what was sent; `watch` has no gap; callbacks never outlive the frame; the tool ends.
- Panel: rows follow the channels; repaints hit the rows until the input ends; no thread blocks for good.
- Configuration: a name connected to is found again; a key not to be saved, by flag or by file, is not saved;
  nothing is forgotten unless invocations overlap or one is stopped while it writes.

## The modules

| module | models | proofs |
|---|---|---|
| `Lifecycle` | `connect()`, `disconnect()`, destructor, loop tasks and handlers, the network | `LifecycleProofs` |
| `ConnectContract` | what the first connect/disconnect cycle promises; `Lifecycle` implements it | `LifecycleProofs` |
| `Channel` | snapshot, seeding, listener, validation, posted commands | `ChannelProofs` |
| `CliSession` | one `action`, `state` or `watch` invocation around one connection | `CliSessionProofs` |
| `InteractivePanel` | the interactive session on both threads, and the terminal | `InteractivePanelProofs` |
| `ConfigStore` | several invocations on one configuration file | `ConfigStoreProofs` |
| `FeatureWord` | the 64-bit capability word: text, word, names | `FeatureWordProofs` |
| `CommandPath` | a request from the typed words to the text sent; EXTENDS `FeatureWord` | `CommandPathProofs` |
| `EntityDiscovery` | ids, patterns, the key map, over sessions and firmwares | `EntityDiscoveryProofs` |
| `MCLifecycle`, `MCChannel`, `MCConfigStore`, `MCCommandPath`, `MCEntityDiscovery` | constants and symmetry for TLC | |

`CliSession` and `InteractivePanel` are layered on the library: they use it through what `Lifecycle`
and `Channel` show of it (`connect()` returns after discovery or throws with the loop joined;
`disconnect()` joins; updates come in order, each followed by its callback). `CliSession` takes what
`persist_connection()` does from `ConfigStore`: it changes nothing the session looks at.

Definitions called `Mutant` are not part of the models: each is a form that a plausible mistake would
give one action or helper, and the property it breaks shows that the property depends on the code.

### Lifecycle

Variables named after members of `Impl` are those members. `queue` is the loop's task queue, `stopped`
tells that `stop()` was called on it; `link`, `handshake`, `listing`, `registry` and `stored` are the
client's part: socket, calls in flight, entity list, capability states that have a value. `found` and
`found_caps` are what discovery resolved. `pc` is where each caller stands in `connect()`
or `shutdown_worker()`, one label per step at which another thread can come between; `after` is what
follows the shutdown (an exception, a return, the end of the object). `attempt`, `reached`, `opened`,
`result` and `terminated` are history, read by properties only (`terminated` also stops everything).

Time is left out: a timed wait may give up whenever its predicate is false, and none gives up when it
is true, as `wait_for` with a predicate behaves. What a stopped `io_context` does when run again is
up to the external client, so `Spawn` allows both outcomes. A `join()` of a thread that another caller
joined meanwhile is undefined behaviour: it returns or throws.

### Channel

One channel stands for both: they share the loop, the queue and the listener, and no state that the
properties relate. `store` is what the client last heard of each entity, `known` the entities whose
keys `discover()` resolved, `st` is `states[ch]`. A float is an integer number of quarters, which is
what `std::lround` needs; texts that do not parse are the value `Garbled`, on which `parse_csv` throws
and the feature parser gives up. `Adopt` is `update_field()` over a set of fields; the order of
seeding is immaterial because each field writes components of its own. `at` is where
`on_entity_state()` stands between its locks. `inforce` collects the capabilities each call in progress
could have read; `log` is what was run, `late` counts calls of a replaced listener.

### CliSession

A channel's state is the number of its updates. `pc` follows the main thread through `run_action`,
`run_state` or `run_watch`; `at` and `event` the loop thread. `locals` tells whether the frame the
callback refers to still exists; the destructor of `dev` and that of the locals are separate steps,
in the order of declaration. `device` and `confirm` record what became of the command and which update
shows its effect. `lines` is the output stream with the thread that wrote each line. An interrupt kills
the process unless `run_watch` has installed its handlers.

### InteractivePanel

Starts where `connect()` has returned. Each mutex is a variable, and a lock is a guard and an assignment
of its own wherever code runs between lock and unlock that another thread can observe. Of the terminal
the model keeps which state each row shows, whether the program printed below the prompt (`covered`),
whether the user's Enter did (`echoed`), and whether a repaint hit the wrong lines (`torn`). `eof` is the
end of the input: `repl()` leaves its loop with the prompt still marked as shown, and prints a line feed.

### ConfigStore

Host names, addresses and aliases are numbers in the order of the map's keys; 0 is the empty string.
A file is missing, cut short, or a document; `record_to_json` leaves an empty key out and
`record_from_json` puts it back. `save()` is two steps, for opening the file empties it. An invocation
brings a key of its own, so that each key on disk can be traced. Its `flag` is --save-keys, --no-save-keys or
neither, and `Saves` is the `value_or` that then asks the file; `MaySave` states the user's permission
apart from it. Of ports only `moved` is kept, that another one than the record's was given, which alone is
worth a save. `lost` remembers that two invocations overlapped or that one was stopped while it wrote, so
that the file is cut short: then nothing can be promised of the devices. `unsaved` remembers that one ended
before it opened the file: it takes its own connection with it and no other.
`Matching` is the three passes of `resolve_key()`, `Desired`, `Changed` and `remember` are
`persist_connection()`.

### FeatureWord and CommandPath

A text that the device publishes is a sequence of ASCII codes and a word the sequence of its hex digits,
because here the characters matter: what is trimmed, how many digits fit, which leave the word. `Spelled`
and `WordAt` say what a spelling is without the parser's steps; boards publish spellings or texts that are
none (`IsBoard`).

A typed word is a sequence of items, each with the integer it begins with and what follows it: that is
all that `parse_int` (the whole word), `std::stoi` (its beginning), the list of inputs and the steps of a
plan tell apart. A text sent is its fields, each its parts: a mark, a number, a unit. Characters, the
sign and white space inside a word, and an integer that fits no `int` (such a word does not begin with
one) are left out. What a line asks for is not read off the parsers: `Wishes` are requests, and `Says(l, w)`
holds if line `l` spells the request `w` by the manual (`CliSays` for the options of the shell,
`ReplSays` for the words of the prompt). `Holds` says what a list of items is without skipping: the
numerals, or the steps as the manual spells them, in their order, with nothing but fillers among them. A word
in a place where the verb has none, or an option of another subcommand, spells nothing. `MCCommandPath` writes each line beside the request it is meant for, or
none, and TLC checks in the assumption `SamplesSay` that the grammar agrees. `form` tells the shell from the
prompt; a shell line is read before `connect()`, a prompt line after it, and `Hear` delivers one capability
of one channel at any point from then on. `shape` is history: what each channel had published when the line
was served.
What the text of a plan or a cycle means to the board is `Means`: a cycle without a list goes through all
inputs. `Requests` are what the operations of a channel can be asked, each with its own operands only:
that the parsers make nothing else is part of `TypeOK`. `Keep` drops what the parsers skip; it is
defined by places and not by recursion, so that the theorems can unfold it.

### EntityDiscovery

An id is a sequence of digits, words and separators. `Chain` holds the patterns of each domain in the order of
the `if` chains; `FieldsOf` takes the first that matches, which is what the `else if` does. The order in
which the registry lists entities is an input of `Discover`. `list_done` is the flag that no session
clears, so a later session may run discovery before its own list has come. Between sessions the device
may get another firmware, and the registry may keep or lose what it knew. A key stands for one role in
every firmware (`DevicesAssumption`); ESPHome derives keys from names, and two entities of different
domains with one key would share a place in `key_field`. `full` and `seen` are history.

## The runs

| run | question | constants | states |
|---|---|---|---|
| `lifecycle_one` | one thread, every failure point, two sessions and the destructor: honest first connect, live frames, no missed settle, quiet after disconnect, every call returns; the first session implements `ConnectContract` | 1 caller, 2 capabilities, 2 attempts | 58 212 |
| `lifecycle_reconnect` (violated) | does a second `connect()` wait for its own milestones? | 1 caller, 2 attempts | |
| `lifecycle_race` (violated) | may two threads call `connect()`? | 2 callers, 2 attempts | |
| `channel_calls` | capabilities that change while requests are validated and posted | 1 caller, 2 calls, old and new firmware | 281 083 |
| `channel_live` | values before, during and after discovery; listeners replaced at any point | 2 listeners, no caller | 128 988 |
| `cli_session` | action, state and watch with lost links and signals | 2 channels, 2 updates each | 36 298 |
| `cli_unconfirmed` (violated) | does an action print the state its command brought about? | as above | |
| `panel` | two threads, three mutexes, a user who may end the input | 2 channels, 2 updates, 2 lines | 91 464 |
| `panel_stale` (violated) | does an idle panel show what the session has? | as above | |
| `config_runs` | two invocations, every overlapping name, each flag, four starting files | 2 runs, 3 hosts | 219 744 |
| `command_path` | is what the user typed what the board is asked, at the shell and at the prompt, with capabilities that come late? | 16 digits, 2 channels, 15 boards, 59 lines at the shell, 83 at the prompt, 27 requests | 111 120 |
| `entity_discovery` | does every field get its entity, however it is spelled and listed? | 2 sessions, 27 firmwares, 2 orders | 75 112 |

### The bounds and why they are enough

- `MaxAttempts = 2`: a second session meets everything a first can leave behind (flags, tasks, keys, a
  stopped loop), and what it leaves is of the same kind. Two capabilities tell "some" from "all".
- `MaxCalls = 2`, one caller in `channel_calls`: callers share only the queue, and the order promised is
  that of one thread; two calls are what an order needs. The counts 8 and 64 lie on either side of the
  requests' inputs, and 1 quarter rounds to zero.
- `MaxUpdates = 2`: an update before and one after any point in question. The history of a channel
  beyond the last two updates is in no variable.
- `MaxLines = 2`: a line entered while another is being processed.
- Two invocations: the file holds what one of them wrote, whoever the others were. Three hosts with the
  edited files give each of the three passes of `resolve_key()` a match, a tie, and a match that
  another pass hides.

- `command_path`: the boards have none to three inputs, words with bits at both ends and reserved ones, every
  kind of spelling and of text that is none; the other channel always has another shape. The lines hold
  every verb, every spelling of an option, requests at both sides of each bound, and lines that are one
  word away from a request. The prompt goes on for ever: nothing of a line is kept but the target.
- `entity_discovery`: each of the three spellings for each role, each entity missing alone, pairs and all
  capability entities missing together, with and without strangers that come close to a pattern. Two
  sessions, since `ent` is all that a session leaves behind; two orders, since at most two entities of a
  device compete for a field.

Deadlock is checked in every run but `entity_discovery`, which ends when its sessions are used up. Where
another system stops, a named action (`Halted`, `Exited`, `AllOver`) says so.

### Fairness

Liveness is asked only of threads the program or its platform schedules. A caller inside a call, the
main thread, and a handler that has begun are weakly fair. The loop's queue is first in, first out and
served between network events, so a posted task has its turn however many updates come: strong fairness
of the task in `Channel`, `CliSession` and `InteractivePanel`, whose updates could otherwise be preferred
for ever; in `Lifecycle` weak fairness suffices, no handler disables a posted task. A timed wait ends
because the deadline does, which is the weak fairness of the step that may give up. Nothing is
assumed of the user, the network or the device: they may stop for good at any point.

### Disagreements with the documentation

Four runs end in a counterexample, each to a sentence of the repository's own text, quoted in
`PROJECT.json`:

1. `lifecycle_reconnect`: `connect_resolved`, `list_done` and `discover_done` are never cleared, so a
   `connect()` after an earlier session returns before its own handshake, list and discovery
   (`client.hpp:129` "Blocks until ready"). The stale flags also let it leave its frame while the
   discover task that refers to it is still queued; `DiscoverFrameAlive` is therefore stated for the
   first attempt only.
2. `lifecycle_race`: two threads in `connect()` both assign to `worker`, which ends the process
   (`client.hpp:115` "safe to call from any thread").
3. `cli_unconfirmed`: any update of the channel ends the wait of an action, one that came before the
   command was sent included (`bin/README.md:112` "wait … for the channel to confirm the new state").
4. `panel_stale`: an update between the copy of the rows and the prompt is not painted until the next event
   (`bin/README.md:235` "repaints in place as updates arrive").

Two more are in the models, and stated beside the property whose scope they bound:

- At the end of the input (Ctrl-D) `repl()` leaves its loop with `prompt_shown_` still set (`interactive.cpp:53`),
  and prints a line feed below the prompt (line 64). Until `disconnect()` has joined the loop, an update
  is painted one row off, against "repaints in place as updates arrive" (`bin/README.md:235`). `PromptIsLast`
  excepts it by name (`eof`); without that, TLC comes to `Draw` with `prompt_shown` and `covered` both true.
- A `connect()` that finds `running` set returns at once (`client.cpp:527`), also when another thread's is
  still waiting, or when an earlier one set it and its thread could not be started: nothing is ready
  then, against "Blocks until ready; throws … on failure" (`client.hpp:129`). `FirstConnectIsReady` speaks of the
  call that makes the first attempt, and of no such call.

Met while reading, and not given a run: constructing a switcher starts no thread (`README.md:66` says it
does); after `connect()` a snapshot need not be known (`README.md:307`), for discovery seeds from a store
that may be empty; `reported` is true as soon as one capability was said, with the others still the
fallback (`bin/README.md:323`); `--inputs` is described for ten inputs whatever the board has
(`bin/README.md:153`); "timed out enumerating entities" contains none of the words
`report_connect_error` looks for, so such a timeout exits with 5 and not 4 (`bin/README.md:346`);
the snapshot of `watch` may follow a newer event of the same channel (`bin/README.md:221`, "up front");
the prompt takes `set 2x` as `set 2`, `auto 250us` as 250 milliseconds and the last of two lists, where
"Invalid commands … print an `error:` line" (`bin/README.md:255`); "the first match wins
deterministically" (`client.cpp:226`), but which entity comes first is up to an unordered map, and after
a change of firmware a key of an entity that is gone satisfies `verify_discovery()`
("Throw if any expected entity is missing after discovery", `client.cpp:476`).

## The proofs

All hold for every value of the constants: any callers, channels, invocations, hosts, firmwares, lines, readings
and bounds. The assumptions are the named ones in the modules, which TLC evaluates in the runs. Two theorems
of `LifecycleProofs` assume in addition `SingleCaller`, that one thread uses the switcher, and
`lifecycle_race` shows that they need it; two of `EntityDiscoveryProofs` assume `IdsTell`, of which below.

| theorem | property | invariant behind it |
|---|---|---|
| `LifecycleProofs!TypeCorrect` | `TypeOK` | itself |
| `LifecycleProofs!SettleNeverMissed` | `NoMissedSettle` | itself, with `TypeOK` |
| `LifecycleProofs!FirstConnectReady` | `FirstConnectIsReady` | `FirstInv` |
| `LifecycleProofs!FrameOutlivesTask` | `DiscoverFrameAlive` | `FrameInv`, `FirstInv` |
| `LifecycleProofs!ContractImplemented` | `ImplementsContract` | `FirstInv` |
| `LifecycleProofs!JoinsAreAnswered` | a loop that is joined has a stop before it | `JoinInv` |
| `LifecycleProofs!DisconnectQuiet` | `DisconnectedIsQuiet` | `OwnedInv`, single caller |
| `LifecycleProofs!OneCallerNeverTerminates` | `NeverTerminates` | `OwnedInv`, single caller |
| `ChannelProofs!TypeCorrect` | `TypeOK` | itself |
| `ChannelProofs!NothingIsMissed` | `SnapshotTracksStore` | `Tracking` |
| `ChannelProofs!LegacyUntilReported` | `UnreportedIsLegacy` | itself |
| `ChannelProofs!ListenerSeesCurrent` | `CallbackSeesCurrent` | itself |
| `ChannelProofs!ReplacedCalledOnce` | `LateCallOnce` | `LateInv` |
| `ChannelProofs!OrderKept` | `WireOrder` | `Ordering` |
| `ChannelProofs!SentIsValidated` | `SentWasValidated` | `Validation` |
| `CliSessionProofs!TypeCorrect` | `TypeOK` | itself |
| `CliSessionProofs!TargetsAlive` | `CallbackTargetsAlive` | `FrameHeld` |
| `CliSessionProofs!ExitIsHonest` | `ExitTellsDelivery` | `Posting` |
| `CliSessionProofs!WatchHasNoGap` | `WatchMissesNothing` | `Streaming` |
| `InteractivePanelProofs!TypeCorrect` | `TypeOK` with `MutexOK` | itself |
| `InteractivePanelProofs!RowsFollow` | `SessionFollowsChannel` | `Following` |
| `InteractivePanelProofs!PromptStaysLast` | `PromptIsLast` | `PromptPlace` |
| `InteractivePanelProofs!SessionIsAlive` | `SessionOutlivesLoop` | `LoopJoined` |
| `InteractivePanelProofs!NoWaitCloses` | no two threads wait for each other | `TypeOK` with `MutexOK` |
| `ConfigStoreProofs!TypeCorrect` | `TypeOK` | `ConfigInv` |
| `ConfigStoreProofs!ConnectionFound` | `ConnectionIsFound` | `ConfigInv` |
| `ConfigStoreProofs!UnsavedKeysStayOff` | `NoKeyLeaks` | `ConfigInv` |
| `ConfigStoreProofs!NoticeShownOnce` | `NoticeOnce` | `SerialInv`, `ConfigInv` |
| `ConfigStoreProofs!NothingForgotten` | `SerialRunsRemember` | `SerialInv`, `ConfigInv` |
| `FeatureWordProofs!SpellingParses`, `OnlySpellingsParse` | what the parser accepts and returns | |
| `FeatureWordProofs!PrintedWordReadsBack` | printing and reading are inverse | |
| `CommandPathProofs!ServesWhatIsPublished` | `ServedExactly` | `HeardInv`, `LineInv` |
| `CommandPathProofs!WordsSurvive` | `WordSurvives` | `HeardInv` |
| `CommandPathProofs!TypeCorrect` | `TypeOK` | itself, with `HeardInv` |
| `CommandPathProofs!TextsTell` | `TextTellsRequest` | `SentInv`, `TypeOK` |
| `CommandPathProofs!WishesAreRead` | `RequestIsWish` | itself, with `FormInv`, `LineInv` |
| `EntityDiscoveryProofs!KeysRight` | `KeysAreRight` | `DiscoveryInv`, ids that tell |
| `EntityDiscoveryProofs!VerifiedTells` | `VerifiedIffComplete` | `DiscoveryInv`, ids that tell |
| `EntityDiscoveryProofs!NormalIdsTell` | the ids of the manual tell | |

**`FirstInv`.** `FirstConnectIsReady` speaks of the moment `connect()` returns and says nothing of how it got
there. The invariant ties each flag to the milestone it stands for (`FlagsTell`), each position to the
flags its thread has seen (`PositionTells`), and each queued discover task to the one thread that can have
posted it (`TasksTell`). It needs `OneConnecting`, that in the first attempt one thread at most is
past the claim, and `Fresh`, that before the first attempt no flag is set. It holds with any number of
threads, though a second one may be past the test of `running`: its claim makes a second attempt, of
which nothing is said. A call that finds `running` set makes none, and returns with nothing promised.

**`FrameInv`.** A thread leaves `connect()` in its first attempt only after it has seen `discover_done`, which the
task sets as the last thing it does with the frame, or after it has joined the loop. The invariant says, for
each position of the thread, whether a discover task of the first attempt can still be in the queue, and
that a resolved flag, once seen, rules out a second one. `lifecycle_reconnect` shows why no more than
the first attempt can be covered.

**`JoinInv`.** No more threads wait for the loop to end, or are about to, than there are stops in its queue, plus one if
it has exited: each has posted a stop, the loop takes one and exits by it, and the thread that has joined
waits no longer. So a loop that runs while a thread waits has a stop before it. That it then comes to it is
liveness, and TLC's (`ShutdownReturns`). The count of stops in a sequence is a cardinality; `StopsAppend` and
`StopsTail` say how it changes.

**The contract.** `Contract` maps the phase to open while the first attempt runs, and its milestones to those
reached in it. Each action of `Lifecycle` advances one milestone, opens, gets ready, closes, or leaves the
mapped variables alone; that ready is entered with all milestones is `FirstInv`. It holds for any number of
threads: a second one makes a second attempt.

**Reading feature words.** `SpellingParses` splits at the prefix: `Trim` finds the first and the last
character that is not white space (`TrimIs`), `Unprefix` drops 0x (`UnprefixIs`), and the digits left fill the word
from its end (`DigitsParse`). For the converse, a text that is accepted has a first and a last solid
character (`FirstExists`, `LastExists`), and the same lemmas name its digits.

**`RequestIsWish`.** The parsers skip what is empty and look only at what a word begins with; the manual says which
words are whole. Both are compared by ranks: `Keep` returns the items that are not skipped, the
n-th of them being the one with n - 1 of them before it, and a list `Holds` items at increasing
places with only fillers at the others. `HeldIsKept` and `KeptIsHeld` lead from one to the other, `NothingDropped` and
`SomethingDropped` treat lists in which every item counts, or one does not, and `SpeltIsRead`, `ReadIsSpelt`
do the same for the steps of a plan. At the shell both directions hold: a line that spells a request is read as it
(`CliHearsWish`), and what is read as a request spells it (`CliHearsNoOther`). At the prompt the
first only (`ReplHearsWish`), since it takes more than the manual allows (`set 2x`, see above).

**`HeardInv`.** A channel's capabilities are at every moment what it has published so far, field by field, with
the legacy value for the others; a text that spells a word is read as it by the theorems above.
`AdmissibleIsServed` shows that the two checks of the client ask for what the manual promises and for no
more; `LineInv` adds what the parsers have already refused.

**`OwnedInv`.** With one caller, the worker exists exactly between `spawn` and `clear`, and link and handshake
live only while it runs. Two callers break it, as the race does.

**`Tracking`.** The property compares the snapshot with what `update_field()` makes of it: for each discovered
entity, taking its stored state again changes nothing. `Agrees` says the same component by component, which
is what a step disturbs: an update sets the components of one field, and discovery those of every field it
found. `FixedAgrees` and `AgreesFixed` show that the two are the same.

**`LateInv`.** `late` counts the calls of a replaced listener since the last replacement. Once it is 1, the loop holds no
listener any more, or the one in place: it copies `callback` anew for each event.

**`Ordering`.** A task in the queue or in the log is older than what its thread is doing now; within
the queue, within the log, and from the log to the queue, tasks of one thread are in the order of its calls.

**`Validation`.** A call that stands between its check and its post holds capabilities that were in force since it
began; every task in the queue or in the log was made from such a shape and valid for it as a whole.
`CommandMeans` adds that an auto command whose list was left out means the list that was asked for.

**`Posting`.** The queue of an invocation holds at most the text and one stop, in that order; with the position
of the main thread and of the loop this determines whether the text was run by the time the loop is joined.

**`Streaming`.** Of each channel that is watched, the snapshot is still to be read, or a line of the main thread shows
one from which on every update was printed or is being printed. Between the reading of a snapshot and its
line, everything newer than what was read is reported: the listener was installed before.

**`Following`.** What the session holds, or what seeding has read so far, differs from the channel's state at most
in the channel of the event whose store is still to come. The state lock around seeding makes it
inductive: without it a callback's store could be overwritten (the mutant `SeedUnlocked`).

**`PromptPlace`.** Until the input ends, `prompt_shown` is set only where the main thread waits for a line or has
just been given one; `eof` is set only on the way out. So what the program prints finds the mark cleared.

**`ConfigInv`.** A whole file was written from a starting file or from the Config of an invocation that is over
and will not change it (`FileFrom`), no Config in memory holds a key of an invocation that may not save it, or
has not yet loaded the file that says whether it may (`CleanRuns`), and each connected name is found
(`Found`). The property speaks of `MaySave`, and a step of `Saves`; that both mean the settings an
invocation loaded, which no step changes afterwards, is `SettingsStay`. The lemmas it rests on are about the operators:
what is written is read back (`RecordRoundTrip`, `ConfigRoundTrip`), and what is stored under the key a
name resolves to is what the name resolves to afterwards, in each of the three passes
(`StoredIsFound`).

**`SerialInv`.** While no two invocations have overlapped and none was stopped in writing (`~lost`), one at most is at
work, what it has loaded is what the file holds, and the file is cut short only while it is written
(`Serial`). Each name connected to is in the Config on its way to the file, and in the file until that is
opened (`Remembering`): so an invocation that fails or is killed before that leaves the others' devices
there. The notice that was printed is there likewise (`Noticed`), but such an invocation takes it
with it, and the next prints it again: hence `~unsaved`. The lemmas of `ConfigInv` carry a name over another name's `remember()`.

**`DiscoveryInv`.** What `ent` holds is the key of an entity that some firmware seen so far has for that field
(`Rightful`, `Sources`), `key_field` maps it back to this field (`Routed`), and an outcome tells
which fields were found (`Outcome`). Keys stand for one role, so no two fields share one (`KeyTellsField`).
Two theorems assume `IdsTell`: the patterns take an entity for a field exactly if it is there for it. The step from
`normalize_entity_id()` to that, whose text is a fold, cannot be unfolded; `NormalIdsTell` proves it from
the normal forms: ids that come to those of the manual are told apart by the chains of patterns.
TLC computes the normal forms themselves for every spelling in the firmwares of the run, and strangers
with ids close to a pattern, when it checks `KeysAreRight`.

**`TextTellsRequest`.** `SentInv` says that what goes out is the text of the request in the shape published by then.
Two requests of the same text have the same verb (their first parts differ otherwise), the same
operands, and lists of the same length with the same items; an auto cycle without a list is, by
`covers_all_in_order`, one over all inputs, the only case in which two requests share a text, and then
`Means` is the same. That the parsers yield nothing but such requests is `CliReads` and `ReplReads`, for which
`KeptIsSeq` shows that what `Keep` returns is a sequence of what was there, by the least place that
is missing.

### Only model-checked

- Liveness (`ConnectReturns`, `ShutdownReturns`, `PostedGetsRun`, `Finishes`, `PromptReturns`,
  `UpdatesGetThrough`): the prover does not reason about fairness and `ENABLED`.
- Each run that ends in a counterexample, and what it says of the documentation.
- What folds compute: the normal form of an id.

## Not modelled

- The ESPHome client (protocol, encryption, sockets, its event loop): external, only what `client.cpp`
  relies on. Whether an exception from a handler ends the process is left open in `Channel`.
- CLI11's splitting of arguments into options and operands, the environment, formatting and layout, colours,
  logging; `config list` and `config path`, which change nothing.
- What the ranges of an interval and of a delay should be: the code checks neither, and the manual gives none.
- Integer width: readings are unbounded integers; a float beyond the range of `long` is not represented.
- Interleaving inside one line of output, and inside the text of one `save()`: a line and a document
  are written in one step, which holds for documents below the stream's buffer.
- Of ports, all but whether an invocation was given another one than the record's; of the default settings
  all but `save_keys`: carried along, never looked at.
- The example, tests, packaging and build files.

## Plan

Done: `Lifecycle` with its contract and race, `Channel`, `CliSession`, `InteractivePanel`, `ConfigStore`,
`FeatureWord`, `CommandPath` and `EntityDiscovery`, and a theorem for every invariant that a passing run
checks and for `ImplementsContract`. Left:

1. The order of the lines of `watch`, and the exit code of each way to fail, if a run can be freed for them.
2. Two channels in `Channel`, if a property that relates them is found; a configuration that is
   loaded while another invocation writes part of it.
