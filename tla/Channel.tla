------------------------------- MODULE Channel -------------------------------
(***************************************************************************)
(* One channel of AntennaSwitcher once its loop runs (src/src/client.cpp): *)
(* the snapshot that the loop thread writes and every thread reads, the    *)
(* state callback, and the commands that callers validate on their own     *)
(* thread and marshal onto the loop.                                       *)
(*                                                                         *)
(* The two channels share the loop, the queue and the callback, and no     *)
(* other state that matters here, so one stands for both.  The client's    *)
(* entity store is external: `store` is what it last heard of each entity. *)
(* A float reading is an integer number of quarters.                       *)
(***************************************************************************)
EXTENDS Integers, Sequences, FiniteSets

CONSTANTS
  Callers,      \* application threads
  Callbacks,    \* the listeners that may be registered
  NoCallback,   \* no listener
  NoReading,    \* an entity without a usable value: no state, missing, not finite
  Garbled,      \* a text that does not parse
  Readings,     \* what the device may publish, for each field
  Requests,     \* the requests callers make
  Offers,       \* the sets of entities a device may list
  MaxCalls      \* bound: how many requests each caller makes

Features == {"magnetometer", "auto", "plan", "off", "echo", "led"}
Modes    == {"manual", "auto", "plan", "unknown"}
Verbs    == {"set", "auto", "plan", "stop", "off", "angle"}

CapsFields == {"caps_input_count", "caps_circle_count", "caps_features"}
Fields == {"bearing", "input", "interval", "angle_offset", "mode", "inputs"} \cup CapsFields
Numbers == Fields \ {"mode", "inputs", "caps_features"}

IsReading(f, r) ==
  \/ r = NoReading
  \/ f \in Numbers /\ r \in Int
  \/ f = "mode" /\ r \in STRING
  \/ f = "inputs" /\ (r = Garbled \/ r \in Seq(Int))
  \/ f = "caps_features" /\ (r = Garbled \/ r \in SUBSET Features)

ASSUME ReadingsAssumption ==
  /\ DOMAIN Readings = Fields
  /\ \A f \in Fields : \A r \in Readings[f] : IsReading(f, r)
ASSUME RequestsAssumption ==
  Requests # {} /\ \A q \in Requests : q.verb \in Verbs /\ q.inputs \in Seq(Int)
ASSUME MarkersAssumption ==
  /\ NoCallback \notin Callbacks
  /\ NoReading \notin Int /\ Garbled \notin Int
ASSUME ChannelAssumption ==
  /\ \A o \in Offers : o \subseteq Fields \cup {"command"}
  /\ MaxCalls \in Nat

VARIABLES
  offered, store,            \* the device's entity list; the client's entity store
  known,                     \* the keys discover() resolved: Impl::ent, Impl::key_field
  st,                        \* Impl::states[ch]
  callback,                  \* Impl::callback
  serving, posted,           \* does the loop run; its task queue
  at, cb, snapshot,          \* where the loop thread is in on_entity_state, its locals
  pc, request, caps_seen,    \* each caller's position and locals
  terminated,                \* an exception left the loop thread
  calls, inforce, log, late  \* history, read by properties only

deviceVars == <<offered, store>>
loopVars   == <<serving, posted>>
eventVars  == <<at, cb, snapshot>>
callerVars == <<pc, request, caps_seen>>
vars == <<deviceVars, known, st, callback, loopVars, eventVars, callerVars, terminated,
          calls, inforce, log, late>>

legacy_capabilities ==
  [inputCount |-> 10, circleCount |-> 8,
   features |-> {"magnetometer", "auto", "plan", "echo"}, reported |-> FALSE]

initial_state ==
  [bearing |-> 0, activeInput |-> 0, angleOffset |-> 0, intervalUs |-> 0,
   mode |-> "unknown", inputState |-> "unknown", activeInputs |-> <<>>,
   capabilities |-> legacy_capabilities]

Init ==
  /\ offered \in Offers /\ store = [f \in Fields |-> NoReading]
  /\ known = {} /\ st = initial_state /\ callback = NoCallback
  /\ serving = FALSE /\ posted = <<>>
  /\ at = "idle" /\ cb = NoCallback /\ snapshot = initial_state
  /\ pc = [c \in Callers |-> "idle"]
  /\ request = [c \in Callers |-> CHOOSE q \in Requests : TRUE]
  /\ caps_seen = [c \in Callers |-> legacy_capabilities]
  /\ terminated = FALSE
  /\ calls = [c \in Callers |-> 0] /\ inforce = [c \in Callers |-> {}] /\ log = <<>> /\ late = 0

-----------------------------------------------------------------------------
(* Reading the store into the snapshot *)

\* std::lround: to the nearest integer, halves away from zero.
Lround(q) == IF q >= 0 THEN (q + 2) \div 4 ELSE -((2 - q) \div 4)

parse_mode(s) == IF s \in Modes THEN s ELSE "unknown"

\* Mutant: a count of zero is taken at its word.
UsableZero(f, r) == r \notin {NoReading, Garbled}

\* Does update_field take this reading of a capability entity?  A count of zero
\* and a word that does not parse leave the fallback in place.
Usable(f, r) ==
  /\ r \notin {NoReading, Garbled}
  /\ f # "caps_features" => Lround(r) > 0

\* Mutant: only the input count marks the capabilities reported.
ReportsInputCount(F, r) ==
  "caps_input_count" \in F /\ Usable("caps_input_count", r["caps_input_count"])

\* Does adopting F set `reported`?
Reports(F, r) == \E f \in F \cap CapsFields : Usable(f, r[f])

\* update_field() over the fields in F: each writes its own components only, so
\* the order in which discover() seeds them does not matter.
Adopt(s, F, r) ==
  LET has(f) == f \in F /\ r[f] \notin {NoReading, Garbled}
      num(f, old) == IF has(f) THEN Lround(r[f]) ELSE old
      count(f, old) == IF f \in F /\ Usable(f, r[f]) THEN Lround(r[f]) ELSE old
      caps == s.capabilities
  IN  [bearing |-> num("bearing", s.bearing),
       activeInput |-> num("input", s.activeInput),
       angleOffset |-> num("angle_offset", s.angleOffset),
       intervalUs |-> num("interval", s.intervalUs),
       mode |-> IF has("mode") THEN parse_mode(r["mode"]) ELSE s.mode,
       inputState |-> IF ~has("input") THEN s.inputState
                      ELSE IF Lround(r["input"]) = 0 THEN "isolated" ELSE "selected",
       activeInputs |-> IF has("inputs") THEN r["inputs"] ELSE s.activeInputs,
       capabilities |->
         [inputCount |-> count("caps_input_count", caps.inputCount),
          circleCount |-> count("caps_circle_count", caps.circleCount),
          features |-> IF has("caps_features") THEN r["caps_features"] ELSE caps.features,
          reported |-> caps.reported \/ Reports(F, r)]]

\* The capabilities every call in progress could still have read.
Observe(s) ==
  inforce' = [c \in Callers |->
                IF pc[c] = "idle" THEN inforce[c] ELSE inforce[c] \cup {s.capabilities}]

-----------------------------------------------------------------------------
(* The loop thread *)

\* The loop is between two handlers and takes the next thing to do.
Ready == serving /\ at = "idle" /\ ~terminated

\* connect() and the end of a session, as far as the loop goes; what callers
\* posted meanwhile stays in the queue.
StartLoop ==
  /\ ~serving /\ ~terminated
  /\ serving' = TRUE
  /\ UNCHANGED <<deviceVars, known, st, callback, posted, eventVars, callerVars, terminated,
                 calls, inforce, log, late>>

StopLoop ==
  /\ Ready
  /\ serving' = FALSE
  /\ UNCHANGED <<deviceVars, known, st, callback, posted, eventVars, callerVars, terminated,
                 calls, inforce, log, late>>

\* Mutant: the keys are registered and the values already stored left alone.
discoverUnseeded ==
  /\ Ready
  /\ known' = known \cup offered
  /\ UNCHANGED <<deviceVars, st, callback, loopVars, eventVars, callerVars, terminated,
                 calls, inforce, log, late>>

\* discover(): resolve and register what the device lists, then seed the
\* snapshot from the store.  No callback is made.
discover ==
  /\ Ready
  /\ known' = known \cup offered
  /\ st' = Adopt(st, Fields \cap known', store)
  /\ Observe(st')
  /\ UNCHANGED <<deviceVars, callback, loopVars, eventVars, callerVars, terminated,
                 calls, log, late>>

\* A state arrives: the client stores it and calls on_entity_state(), which
\* ignores unknown keys and reads known ones into the snapshot.
Receive(f, r) ==
  /\ Ready /\ f \in offered
  /\ store' = [store EXCEPT ![f] = r]
  /\ IF f \in known /\ ~(f = "inputs" /\ r = Garbled)
     THEN at' = "copy" /\ st' = Adopt(st, {f}, store') /\ Observe(st')
     ELSE UNCHANGED <<at, st, inforce>>
  \* parse_csv() throws on the loop thread: the client's loop catches it or not.
  /\ terminated' \in IF f \in known /\ f = "inputs" /\ r = Garbled THEN BOOLEAN ELSE {FALSE}
  /\ UNCHANGED <<offered, known, callback, loopVars, cb, snapshot, callerVars, calls, log, late>>

\* Mutant: the listener is fetched once and kept.
CopyCallbackCached ==
  /\ at = "copy"
  /\ cb' = IF cb = NoCallback THEN callback ELSE cb
  /\ at' = IF cb' = NoCallback THEN "idle" ELSE "snapshot"
  /\ UNCHANGED <<deviceVars, known, st, callback, loopVars, snapshot, callerVars, terminated,
                 calls, inforce, log, late>>

CopyCallback ==
  /\ at = "copy"
  /\ cb' = callback
  /\ at' = IF callback = NoCallback THEN "idle" ELSE "snapshot"
  /\ UNCHANGED <<deviceVars, known, st, callback, loopVars, snapshot, callerVars, terminated,
                 calls, inforce, log, late>>

\* Mutant: the snapshot of the previous event is delivered again.
TakeSnapshotOld ==
  /\ at = "snapshot"
  /\ at' = "invoke"
  /\ UNCHANGED <<deviceVars, known, st, callback, loopVars, cb, snapshot, callerVars, terminated,
                 calls, inforce, log, late>>

TakeSnapshot ==
  /\ at = "snapshot"
  /\ snapshot' = st
  /\ at' = "invoke"
  /\ UNCHANGED <<deviceVars, known, st, callback, loopVars, cb, callerVars, terminated,
                 calls, inforce, log, late>>

\* cb(channel, snapshot), possibly after the listener was replaced.
Invoke ==
  /\ at = "invoke"
  /\ at' = "idle"
  /\ late' = IF cb = callback THEN late ELSE late + 1
  /\ UNCHANGED <<deviceVars, known, st, callback, loopVars, cb, snapshot, callerVars,
                 terminated, calls, inforce, log>>

\* The entity a request is written to.
EntityOf(q) == IF q.verb = "angle" THEN "angle_offset" ELSE "command"

\* Mutant: the newest task first.
RunCommandLast ==
  /\ Ready /\ posted # <<>>
  /\ posted' = SubSeq(posted, 1, Len(posted) - 1)
  /\ log' = Append(log, [task |-> posted[Len(posted)], sent |-> TRUE])
  /\ UNCHANGED <<deviceVars, known, st, callback, serving, eventVars, callerVars, terminated,
                 calls, inforce, late>>

\* Mutant: a command waits for its entity instead of going nowhere.
RunCommandWhenKnown ==
  /\ Ready /\ posted # <<>> /\ EntityOf(Head(posted).request) \in known
  /\ posted' = Tail(posted)
  /\ log' = Append(log, [task |-> Head(posted), sent |-> TRUE])
  /\ UNCHANGED <<deviceVars, known, st, callback, serving, eventVars, callerVars, terminated,
                 calls, inforce, late>>

\* The posted half of send_command(): the text goes out if discovery found the
\* entity, and nowhere otherwise.
RunCommand ==
  /\ Ready /\ posted # <<>>
  /\ posted' = Tail(posted)
  /\ log' = Append(log, [task |-> Head(posted), sent |-> EntityOf(Head(posted).request) \in known])
  /\ UNCHANGED <<deviceVars, known, st, callback, serving, eventVars, callerVars, terminated,
                 calls, inforce, late>>

-----------------------------------------------------------------------------
(* The callers' threads *)

\* The feature a verb needs; set, stop and angle need none.
Needs == [auto |-> "auto", plan |-> "plan", off |-> "off"]

\* check_feature() and check_input() over one copy of the capabilities.
Admissible(q, caps) ==
  /\ q.verb \in DOMAIN Needs => Needs[q.verb] \in caps.features
  /\ \A i \in DOMAIN q.inputs : q.inputs[i] \in 1..caps.inputCount

\* 1, 2, ..., n, the list that auto: leaves unsaid.
AllInputs(n) == [i \in 1..n |-> i]

covers_all_in_order(list, n) == n > 0 /\ list = AllInputs(n)

\* build_*(): what goes on the wire.  auto: over every input carries no list.
Command(q, caps) ==
  [verb |-> q.verb,
   inputs |-> IF q.verb = "auto" /\ covers_all_in_order(q.inputs, caps.inputCount)
              THEN <<>> ELSE q.inputs]

\* A call starts by copying the capabilities, under state_mtx.
Request(c, q) ==
  /\ ~terminated
  /\ pc[c] = "idle" /\ calls[c] < MaxCalls
  /\ calls' = [calls EXCEPT ![c] = @ + 1]
  /\ pc' = [pc EXCEPT ![c] = "check"]
  /\ request' = [request EXCEPT ![c] = q]
  /\ caps_seen' = [caps_seen EXCEPT ![c] = st.capabilities]
  /\ inforce' = [inforce EXCEPT ![c] = {st.capabilities}]
  /\ UNCHANGED <<deviceVars, known, st, callback, loopVars, eventVars, terminated, log, late>>

\* It throws UnsupportedRequest, or builds the command, posts it and returns it.
Reject(c) ==
  /\ ~terminated
  /\ pc[c] = "check" /\ ~Admissible(request[c], caps_seen[c])
  /\ pc' = [pc EXCEPT ![c] = "idle"]
  /\ UNCHANGED <<deviceVars, known, st, callback, loopVars, eventVars, request, caps_seen,
                 terminated, calls, inforce, log, late>>

\* Mutant: the inputs are checked against the capabilities of a later moment.
PostRechecked(c) ==
  /\ ~terminated
  /\ pc[c] = "check"
  /\ Admissible([request[c] EXCEPT !.inputs = <<>>], caps_seen[c])
  /\ Admissible([request[c] EXCEPT !.verb = "set"], st.capabilities)
  /\ posted' = Append(posted,
       [caller |-> c, number |-> calls[c], request |-> request[c], inforce |-> inforce[c],
        command |-> Command(request[c], caps_seen[c])])
  /\ pc' = [pc EXCEPT ![c] = "idle"]
  /\ UNCHANGED <<deviceVars, known, st, callback, serving, eventVars, request, caps_seen,
                 terminated, calls, inforce, log, late>>

Post(c) ==
  /\ ~terminated
  /\ pc[c] = "check" /\ Admissible(request[c], caps_seen[c])
  /\ posted' = Append(posted,
       [caller |-> c, number |-> calls[c], request |-> request[c], inforce |-> inforce[c],
        command |-> Command(request[c], caps_seen[c])])
  /\ pc' = [pc EXCEPT ![c] = "idle"]
  /\ UNCHANGED <<deviceVars, known, st, callback, serving, eventVars, request, caps_seen,
                 terminated, calls, inforce, log, late>>

\* onStateChanged(): replace the listener, under cb_mtx.
onStateChanged(l) ==
  /\ ~terminated
  /\ callback' = l
  /\ late' = IF l = callback THEN late ELSE 0
  /\ UNCHANGED <<deviceVars, known, st, loopVars, eventVars, callerVars, terminated,
                 calls, inforce, log>>

-----------------------------------------------------------------------------
\* The exception that left the loop thread ended the process.
Halted == terminated /\ UNCHANGED vars

Handler == CopyCallback \/ TakeSnapshot \/ Invoke

Next ==
  \/ StartLoop \/ StopLoop \/ discover \/ Handler \/ RunCommand
  \/ \E f \in Fields : \E r \in Readings[f] : Receive(f, r)
  \/ \E c \in Callers : Reject(c) \/ Post(c) \/ \E q \in Requests : Request(c, q)
  \/ \E l \in Callbacks \cup {NoCallback} : onStateChanged(l)
  \/ Halted

Spec == Init /\ [][Next]_vars

\* The loop finishes a handler it began; its queue is first-in first-out, so a
\* stream of state updates does not keep a posted task waiting for ever.
FairSpec == Spec /\ WF_vars(Handler) /\ SF_vars(RunCommand)

-----------------------------------------------------------------------------
(* Properties *)

CapsType == [inputCount : Nat \ {0}, circleCount : Nat \ {0},
             features : SUBSET Features, reported : BOOLEAN]

StateType ==
  [bearing : Int, activeInput : Int, angleOffset : Int, intervalUs : Int, mode : Modes,
   inputState : {"unknown", "isolated", "selected"}, activeInputs : Seq(Int),
   capabilities : CapsType]

CommandType == [verb : Verbs, inputs : Seq(Int)]

TaskType == [caller : Callers, number : Nat, request : Requests,
             inforce : SUBSET CapsType, command : CommandType]

DeviceTypeOK ==
  /\ offered \in Offers
  /\ store = [f \in Fields |-> store[f]]
  /\ \A f \in Fields : IsReading(f, store[f])
  /\ known \subseteq Fields \cup {"command"}

LoopTypeOK ==
  /\ serving \in BOOLEAN /\ terminated \in BOOLEAN /\ posted \in Seq(TaskType)
  /\ at \in {"idle", "copy", "snapshot", "invoke"}
  /\ cb \in Callbacks \cup {NoCallback} /\ callback \in Callbacks \cup {NoCallback}
  /\ snapshot \in StateType

CallerTypeOK ==
  /\ pc \in [Callers -> {"idle", "check"}]
  /\ request \in [Callers -> Requests]
  /\ caps_seen \in [Callers -> CapsType]

HistoryTypeOK ==
  /\ calls \in [Callers -> Nat] /\ inforce \in [Callers -> SUBSET CapsType]
  /\ log \in Seq([task : TaskType, sent : BOOLEAN]) /\ late \in Nat

\* The values each variable can take.  Whatever the device publishes, a count of
\* inputs is never zero or negative: a zero would make every request impossible.
TypeOK ==
  DeviceTypeOK /\ st \in StateType /\ LoopTypeOK /\ CallerTypeOK /\ HistoryTypeOK

\* The snapshot has taken in every usable value the store holds of a discovered
\* entity, those that arrived before discovery included.
SnapshotTracksStore == Adopt(st, known \cap Fields, store) = st

\* Until `reported` is set, the capabilities are the legacy shape as a whole.
UnreportedIsLegacy == ~st.capabilities.reported => st.capabilities = legacy_capabilities

\* What a listener is handed is the channel's state at the time of the call.
CallbackSeesCurrent == at = "invoke" => snapshot = st

\* A listener that was replaced can still be called, once: by the event that
\* had already fetched it.
LateCallOnce == late <= 1

\* The commands of one thread leave in the order the thread made the calls.
WireOrder ==
  \A i, j \in DOMAIN log :
    i < j /\ log[i].task.caller = log[j].task.caller =>
      log[i].task.number < log[j].task.number

\* The inputs that an auto command makes a board with n inputs cycle through.
Cycle(list, n) == IF list = <<>> THEN AllInputs(n) ELSE list

\* A command that goes out was, as a whole, acceptable to one shape the channel
\* had during the call, and means on that shape what was asked for.
SentWasValidated ==
  \A i \in DOMAIN log : log[i].sent => LET t == log[i].task IN
    \E caps \in t.inforce :
      /\ Admissible(t.request, caps)
      /\ t.command.verb = t.request.verb
      /\ IF t.request.verb = "auto"
         THEN Cycle(t.command.inputs, caps.inputCount) = Cycle(t.request.inputs, caps.inputCount)
         ELSE t.command.inputs = t.request.inputs

Queued(c, n) == \E i \in DOMAIN posted : posted[i].caller = c /\ posted[i].number = n

\* A posted command is run, unless the session ends first.
PostedGetsRun ==
  \A c \in Callers, n \in 1..MaxCalls :
    Queued(c, n) ~> ~Queued(c, n) \/ ~serving \/ terminated
=============================================================================
