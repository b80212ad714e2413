----------------------------- MODULE ChannelProofs -----------------------------
(***************************************************************************)
(* Proofs about Channel, for any callers, listeners, readings, requests,   *)
(* entity lists and number of calls.                                       *)
(***************************************************************************)
EXTENDS Channel, SequenceTheorems, TLAPS

-----------------------------------------------------------------------------
(* Reading the store into the snapshot *)

\* Every field of r holds something its entity can be in.
Reads(r) == \A f \in Fields : IsReading(f, r[f])

\* The snapshot has every usable value that r holds of the fields in F.
Agrees(s, F, r) ==
  LET has(f) == f \in F /\ r[f] \notin {NoReading, Garbled}
      usable(f) == f \in F /\ Usable(f, r[f])
      caps == s.capabilities
  IN  /\ has("bearing") => s.bearing = Lround(r["bearing"])
      /\ has("input") =>
           /\ s.activeInput = Lround(r["input"])
           /\ s.inputState = IF Lround(r["input"]) = 0 THEN "isolated" ELSE "selected"
      /\ has("angle_offset") => s.angleOffset = Lround(r["angle_offset"])
      /\ has("interval") => s.intervalUs = Lround(r["interval"])
      /\ has("mode") => s.mode = parse_mode(r["mode"])
      /\ has("inputs") => s.activeInputs = r["inputs"]
      /\ usable("caps_input_count") => caps.inputCount = Lround(r["caps_input_count"])
      /\ usable("caps_circle_count") => caps.circleCount = Lround(r["caps_circle_count"])
      /\ has("caps_features") => caps.features = r["caps_features"]
      /\ Reports(F, r) => caps.reported

LEMMA RoundInt == \A q \in Int : Lround(q) \in Int
  BY DEF Lround

\* What a snapshot is after reading is a snapshot, whatever was read.
LEMMA AdoptType ==
  ASSUME NEW s \in StateType, NEW F \in SUBSET Fields, NEW r, Reads(r)
  PROVE  Adopt(s, F, r) \in StateType
<1>1. \A f \in Numbers : r[f] \notin {NoReading, Garbled} => r[f] \in Int /\ Lround(r[f]) \in Int
  BY RoundInt DEF Reads, IsReading, Numbers
<1>2. \A f \in CapsFields \ {"caps_features"} :
        Usable(f, r[f]) => Lround(r[f]) \in Nat \ {0}
  <2>1. CapsFields \ {"caps_features"} \subseteq Numbers
    BY DEF CapsFields, Numbers, Fields
  <2>2. QED
    BY <1>1, <2>1 DEF Usable
<1>3. r["caps_features"] \notin {NoReading, Garbled} => r["caps_features"] \in SUBSET Features
  BY DEF Reads, IsReading, Numbers, Fields, CapsFields
<1>4. r["inputs"] \notin {NoReading, Garbled} => r["inputs"] \in Seq(Int)
  BY DEF Reads, IsReading, Numbers, Fields, CapsFields
<1>5. \A x : parse_mode(x) \in Modes
  BY DEF parse_mode, Modes
<1>6. \A f \in {"bearing", "input", "angle_offset", "interval"} : f \in Numbers
  BY DEF Numbers, Fields, CapsFields
<1>7. Reports(F, r) \in BOOLEAN
  BY DEF Reports
<1>8. Adopt(s, F, r).capabilities \in CapsType
  BY <1>2, <1>3, <1>7 DEF Adopt, StateType, CapsType, CapsFields
<1>9. QED
  BY <1>1, <1>4, <1>5, <1>6, <1>8 DEF Adopt, StateType

\* Reading is idempotent: what was read agrees, and what agrees is left alone.
LEMMA AdoptAgrees ==
  ASSUME NEW s \in StateType, NEW F \in SUBSET Fields, NEW r
  PROVE  Agrees(Adopt(s, F, r), F, r)
  BY DEF Adopt, Agrees, Usable

LEMMA AgreesFixed ==
  ASSUME NEW s \in StateType, NEW F \in SUBSET Fields, NEW r, Agrees(s, F, r)
  PROVE  Adopt(s, F, r) = s
<1>1. Adopt(s, F, r).capabilities = s.capabilities
  BY DEF Adopt, Agrees, Usable, StateType, CapsType
<1>2. QED
  BY <1>1 DEF Adopt, Agrees, StateType

LEMMA FixedAgrees ==
  ASSUME NEW s \in StateType, NEW F \in SUBSET Fields, NEW r, Adopt(s, F, r) = s
  PROVE  Agrees(s, F, r)
  BY AdoptAgrees

\* A reading of a field outside F does not matter, a list that does not parse
\* neither, and any other reading of a field in F is taken in.
LEMMA StoredElsewhere ==
  ASSUME NEW s, NEW F \in SUBSET Fields, NEW r, NEW f \in Fields, NEW v,
         r = [g \in Fields |-> r[g]], Agrees(s, F, r),
         f \notin F \/ (f = "inputs" /\ v = Garbled)
  PROVE  Agrees(s, F, [r EXCEPT ![f] = v])
<1> DEFINE n == [r EXCEPT ![f] = v]
<1>1. \A g \in Fields : n[g] = IF g = f THEN v ELSE r[g]
  OBVIOUS
<1>2. \A g \in F : n[g] = r[g] \/ (g = "inputs" /\ n[g] = Garbled)
  BY <1>1
<1>3. Reports(F, n) => Reports(F, r)
  BY <1>2 DEF Reports, CapsFields
<1> HIDE DEF n
<1>4. Agrees(s, F, n)
  BY <1>2, <1>3 DEF Agrees, Usable
<1>5. QED
  BY <1>4 DEF n

LEMMA StoredKnown ==
  ASSUME NEW s \in StateType, NEW F \in SUBSET Fields, NEW r, NEW f \in F, NEW v,
         r = [g \in Fields |-> r[g]], Agrees(s, F, r)
  PROVE  Agrees(Adopt(s, {f}, [r EXCEPT ![f] = v]), F, [r EXCEPT ![f] = v])
<1> DEFINE n == [r EXCEPT ![f] = v]
           t == Adopt(s, {f}, n)
<1>1. \A g \in F : g # f => n[g] = r[g]
  OBVIOUS
<1>2. Agrees(t, {f}, n)
  BY AdoptAgrees
<1>3. Reports(F, n) => Reports(F, r) \/ Reports({f}, n)
  BY <1>1 DEF Reports
<1>4. t.capabilities.reported <=> s.capabilities.reported \/ Reports({f}, n)
  BY DEF Adopt
<1>5. Reports(F, n) => t.capabilities.reported
  BY <1>3, <1>4 DEF Agrees
<1> HIDE DEF n
<1> DEFINE has(g) == g \in F /\ n[g] \notin {NoReading, Garbled}
           usable(g) == g \in F /\ Usable(g, n[g])
           caps == t.capabilities
<1>6. Agrees(t, F, n)
  <2>1. has("bearing") => t.bearing = Lround(n["bearing"])
    BY <1>1, <1>2 DEF Agrees, Adopt, t
  <2>2. has("input") =>
          /\ t.activeInput = Lround(n["input"])
          /\ t.inputState = IF Lround(n["input"]) = 0 THEN "isolated" ELSE "selected"
    BY <1>1, <1>2 DEF Agrees, Adopt, t
  <2>3. has("angle_offset") => t.angleOffset = Lround(n["angle_offset"])
    BY <1>1, <1>2 DEF Agrees, Adopt, t
  <2>4. has("interval") => t.intervalUs = Lround(n["interval"])
    BY <1>1, <1>2 DEF Agrees, Adopt, t
  <2>5. has("mode") => t.mode = parse_mode(n["mode"])
    BY <1>1, <1>2 DEF Agrees, Adopt, t
  <2>6. has("inputs") => t.activeInputs = n["inputs"]
    BY <1>1, <1>2 DEF Agrees, Adopt, t
  <2>7. usable("caps_input_count") => caps.inputCount = Lround(n["caps_input_count"])
    BY <1>1, <1>2 DEF Agrees, Adopt, t
  <2>8. usable("caps_circle_count") => caps.circleCount = Lround(n["caps_circle_count"])
    BY <1>1, <1>2 DEF Agrees, Adopt, t
  <2>9. has("caps_features") => caps.features = n["caps_features"]
    BY <1>1, <1>2 DEF Agrees, Adopt, t
  <2>10. QED
    BY <1>5, <2>1, <2>2, <2>3, <2>4, <2>5, <2>6, <2>7, <2>8, <2>9 DEF Agrees
<1>7. QED
  BY <1>6 DEF n, t

-----------------------------------------------------------------------------
(* Types *)

LEMMA InitialState ==
  /\ legacy_capabilities \in CapsType /\ initial_state \in StateType
  /\ \A r : Agrees(initial_state, {}, r)
<1>1. legacy_capabilities \in CapsType
  BY DEF legacy_capabilities, CapsType, Features
<1>2. initial_state \in StateType
  BY <1>1 DEF initial_state, StateType, Modes
<1>3. \A r : Agrees(initial_state, {}, r)
  BY DEF Agrees, Reports
<1>4. QED
  BY <1>1, <1>2, <1>3

LEMMA TypeInit == Init => TypeOK
<1> SUFFICES ASSUME Init PROVE TypeOK
  OBVIOUS
<1>1. DeviceTypeOK
  BY DEF Init, DeviceTypeOK, IsReading
<1>2. st \in StateType /\ LoopTypeOK
  <2>1. posted \in Seq(TaskType)
    BY DEF Init
  <2>2. st \in StateType /\ snapshot \in StateType
    BY InitialState DEF Init
  <2>3. QED
    BY <2>1, <2>2 DEF Init, LoopTypeOK
<1>3. CallerTypeOK
  BY InitialState, RequestsAssumption DEF Init, CallerTypeOK
<1>4. HistoryTypeOK
  BY DEF Init, HistoryTypeOK
<1>5. QED
  BY <1>1, <1>2, <1>3, <1>4 DEF TypeOK

\* What an observed shape adds to the shapes of a call.
LEMMA ObserveType ==
  ASSUME inforce \in [Callers -> SUBSET CapsType], NEW s \in StateType, Observe(s)
  PROVE  inforce' \in [Callers -> SUBSET CapsType]
<1>1. s.capabilities \in CapsType
  BY DEF StateType
<1>2. QED
  BY <1>1 DEF Observe

LEMMA ReceiveType ==
  ASSUME TypeOK, NEW f \in Fields, NEW r \in Readings[f], Receive(f, r)
  PROVE  /\ Reads(store') /\ store' = [g \in Fields |-> store'[g]]
         /\ st' \in StateType
<1>1. IsReading(f, r)
  BY ReadingsAssumption
<1>2. store' = [store EXCEPT ![f] = r] /\ store = [g \in Fields |-> store[g]]
      /\ \A g \in Fields : IsReading(g, store[g])
  BY DEF TypeOK, DeviceTypeOK, Receive
<1>3. store' = [g \in Fields |-> IF g = f THEN r ELSE store[g]]
  BY <1>2
<1>4. Reads(store') /\ store' = [g \in Fields |-> store'[g]]
  BY <1>1, <1>2, <1>3 DEF Reads
<1>5. st' = Adopt(st, {f}, store') \/ st' = st
  BY DEF Receive
<1>6. QED
  BY <1>4, <1>5, AdoptType DEF TypeOK

LEMMA DiscoverType ==
  ASSUME TypeOK, discover
  PROVE  /\ known' \subseteq Fields \cup {"command"}
         /\ st' = Adopt(st, Fields \cap known', store) /\ st' \in StateType
<1>1. known' = known \cup offered
  BY DEF discover
<1>2. known' \subseteq Fields \cup {"command"}
  BY <1>1, ChannelAssumption DEF TypeOK, DeviceTypeOK
<1>3. Reads(store)
  BY DEF TypeOK, DeviceTypeOK, Reads
<1>4. st' = Adopt(st, Fields \cap known', store)
  BY DEF discover
<1>5. QED
  BY <1>2, <1>3, <1>4, AdoptType DEF TypeOK

\* The task that a call posts.
Task(c) ==
  [caller |-> c, number |-> calls[c], request |-> request[c], inforce |-> inforce[c],
   command |-> Command(request[c], caps_seen[c])]

LEMMA TaskIsTask == ASSUME TypeOK, NEW c \in Callers PROVE Task(c) \in TaskType
<1>1. request[c] \in Requests /\ calls[c] \in Nat /\ inforce[c] \in SUBSET CapsType
  BY DEF TypeOK, CallerTypeOK, HistoryTypeOK
<1>2. request[c].verb \in Verbs /\ request[c].inputs \in Seq(Int)
  BY <1>1, RequestsAssumption
<1>3. Command(request[c], caps_seen[c]) \in CommandType
  <2>1. <<>> \in Seq(Int)
    OBVIOUS
  <2>2. QED
    BY <1>2, <2>1 DEF Command, CommandType
<1>4. QED
  BY <1>1, <1>3 DEF Task, TaskType

LEMMA RunType ==
  ASSUME TypeOK, RunCommand
  PROVE  /\ posted' \in Seq(TaskType)
         /\ log' \in Seq([task : TaskType, sent : BOOLEAN])
<1>1. posted \in Seq(TaskType) /\ posted # <<>> /\ log \in Seq([task : TaskType, sent : BOOLEAN])
  BY DEF TypeOK, LoopTypeOK, HistoryTypeOK, RunCommand
<1>2. Head(posted) \in TaskType /\ Tail(posted) \in Seq(TaskType)
  BY <1>1, HeadTailProperties
<1>3. [task |-> Head(posted), sent |-> EntityOf(Head(posted).request) \in known]
        \in [task : TaskType, sent : BOOLEAN]
  BY <1>2
<1>4. QED
  BY <1>1, <1>2, <1>3, AppendProperties DEF RunCommand

LEMMA DeviceTypeStep == TypeOK /\ [Next]_vars => DeviceTypeOK'
<1> SUFFICES ASSUME TypeOK, [Next]_vars PROVE DeviceTypeOK'
  OBVIOUS
<1>1. DeviceTypeOK
  BY DEF TypeOK
<1>2. CASE discover
  BY <1>1, <1>2, DiscoverType DEF discover, DeviceTypeOK, deviceVars
<1>3. ASSUME NEW f \in Fields, NEW r \in Readings[f], Receive(f, r) PROVE DeviceTypeOK'
  BY <1>1, <1>3, ReceiveType DEF Receive, DeviceTypeOK, Reads
<1>4. CASE UNCHANGED <<offered, store, known>>
  BY <1>1, <1>4 DEF DeviceTypeOK
<1>5. QED
  BY <1>2, <1>3, <1>4
  DEF Next, StartLoop, StopLoop, Handler, CopyCallback, TakeSnapshot, Invoke, RunCommand, Request,
      Reject, Post, onStateChanged, Halted, vars, deviceVars

LEMMA StateTypeStep == TypeOK /\ [Next]_vars => st' \in StateType
<1> SUFFICES ASSUME TypeOK, [Next]_vars PROVE st' \in StateType
  OBVIOUS
<1>1. CASE discover
  BY <1>1, DiscoverType
<1>2. ASSUME NEW f \in Fields, NEW r \in Readings[f], Receive(f, r) PROVE st' \in StateType
  BY <1>2, ReceiveType
<1>3. CASE UNCHANGED st
  BY <1>3 DEF TypeOK
<1>4. QED
  BY <1>1, <1>2, <1>3
  DEF Next, StartLoop, StopLoop, Handler, CopyCallback, TakeSnapshot, Invoke, RunCommand, Request,
      Reject, Post, onStateChanged, Halted, vars

LEMMA LoopTypeStep == TypeOK /\ [Next]_vars => LoopTypeOK'
<1> SUFFICES ASSUME TypeOK, [Next]_vars PROVE LoopTypeOK'
  OBVIOUS
<1>1. LoopTypeOK /\ st \in StateType
  BY DEF TypeOK
<1> USE DEF LoopTypeOK, loopVars, eventVars
<1>2. CASE StartLoop
  BY <1>1, <1>2 DEF StartLoop
<1>3. CASE StopLoop
  BY <1>1, <1>3 DEF StopLoop
<1>4. CASE discover
  BY <1>1, <1>4 DEF discover
<1>5. CASE CopyCallback
  BY <1>1, <1>5 DEF CopyCallback
<1>6. CASE TakeSnapshot
  BY <1>1, <1>6 DEF TakeSnapshot
<1>7. CASE Invoke
  BY <1>1, <1>7 DEF Invoke
<1>8. CASE RunCommand
  BY <1>1, <1>8, RunType DEF RunCommand
<1>9. ASSUME NEW f \in Fields, NEW r \in Readings[f], Receive(f, r) PROVE LoopTypeOK'
  BY <1>1, <1>9 DEF Receive
<1>10. ASSUME NEW c \in Callers, Reject(c) PROVE LoopTypeOK'
  BY <1>1, <1>10 DEF Reject
<1>11. ASSUME NEW c \in Callers, Post(c) PROVE LoopTypeOK'
  <2>1. posted' \in Seq(TaskType)
    BY <1>1, <1>11, TaskIsTask, AppendProperties DEF Post, Task
  <2>2. QED
    BY <1>1, <1>11, <2>1 DEF Post
<1>12. ASSUME NEW c \in Callers, NEW q \in Requests, Request(c, q) PROVE LoopTypeOK'
  BY <1>1, <1>12 DEF Request
<1>13. ASSUME NEW l \in Callbacks \cup {NoCallback}, onStateChanged(l) PROVE LoopTypeOK'
  BY <1>1, <1>13 DEF onStateChanged
<1>14. CASE UNCHANGED vars
  BY <1>1, <1>14 DEF vars
<1>15. QED
  BY <1>2, <1>3, <1>4, <1>5, <1>6, <1>7, <1>8, <1>9, <1>10, <1>11, <1>12, <1>13, <1>14
  DEF Next, Handler, Halted

LEMMA CallerTypeStep == TypeOK /\ [Next]_vars => CallerTypeOK'
<1> SUFFICES ASSUME TypeOK, [Next]_vars PROVE CallerTypeOK'
  OBVIOUS
<1>1. CallerTypeOK /\ st.capabilities \in CapsType
  BY DEF TypeOK, StateType
<1>2. ASSUME NEW c \in Callers, Reject(c) PROVE CallerTypeOK'
  BY <1>1, <1>2 DEF Reject, CallerTypeOK
<1>3. ASSUME NEW c \in Callers, Post(c) PROVE CallerTypeOK'
  BY <1>1, <1>3 DEF Post, CallerTypeOK
<1>4. ASSUME NEW c \in Callers, NEW q \in Requests, Request(c, q) PROVE CallerTypeOK'
  BY <1>1, <1>4 DEF Request, CallerTypeOK
<1>5. CASE UNCHANGED callerVars
  BY <1>1, <1>5 DEF CallerTypeOK, callerVars
<1>6. QED
  BY <1>2, <1>3, <1>4, <1>5
  DEF Next, StartLoop, StopLoop, discover, Receive, Handler, CopyCallback, TakeSnapshot, Invoke,
      RunCommand, onStateChanged, Halted, vars

LEMMA HistoryTypeStep == TypeOK /\ [Next]_vars => HistoryTypeOK'
<1> SUFFICES ASSUME TypeOK, [Next]_vars PROVE HistoryTypeOK'
  OBVIOUS
<1>1. HistoryTypeOK /\ st \in StateType
  BY DEF TypeOK
<1>2. CASE discover
  BY <1>1, <1>2, ObserveType, DiscoverType DEF discover, HistoryTypeOK
<1>3. ASSUME NEW f \in Fields, NEW r \in Readings[f], Receive(f, r) PROVE HistoryTypeOK'
  <2>1. inforce' \in [Callers -> SUBSET CapsType]
    BY <1>1, <1>3, ObserveType, ReceiveType DEF Receive, HistoryTypeOK
  <2>2. QED
    BY <1>1, <1>3, <2>1 DEF Receive, HistoryTypeOK
<1>4. CASE RunCommand
  BY <1>1, <1>4, RunType DEF RunCommand, HistoryTypeOK
<1>5. ASSUME NEW c \in Callers, NEW q \in Requests, Request(c, q) PROVE HistoryTypeOK'
  <2>1. {st.capabilities} \in SUBSET CapsType
    BY <1>1 DEF StateType
  <2>2. QED
    BY <1>1, <1>5, <2>1 DEF Request, HistoryTypeOK
<1>6. CASE Invoke
  BY <1>1, <1>6 DEF Invoke, HistoryTypeOK
<1>7. ASSUME NEW l \in Callbacks \cup {NoCallback}, onStateChanged(l) PROVE HistoryTypeOK'
  BY <1>1, <1>7 DEF onStateChanged, HistoryTypeOK
<1>8. CASE UNCHANGED <<calls, inforce, log, late>>
  BY <1>1, <1>8 DEF HistoryTypeOK
<1>9. QED
  BY <1>2, <1>3, <1>4, <1>5, <1>6, <1>7, <1>8
  DEF Next, StartLoop, StopLoop, Handler, CopyCallback, TakeSnapshot, Reject, Post, Halted, vars

LEMMA TypeStep == TypeOK /\ [Next]_vars => TypeOK'
  BY DeviceTypeStep, StateTypeStep, LoopTypeStep, CallerTypeStep, HistoryTypeStep DEF TypeOK

\* Whatever a device publishes, the snapshot is well formed in every reachable state:
\* a count of inputs or circles is never zero, and a mode is one of the four.
THEOREM TypeCorrect == Spec => []TypeOK
  BY TypeInit, TypeStep, PTL DEF Spec

-----------------------------------------------------------------------------
(* The snapshot and the store *)

\* The snapshot has taken in what the store holds of the entities discovery found.
\* Said of each field, so that a step that reads one field shows what becomes of the
\* others; SnapshotTracksStore says the same of the snapshot as a whole.
Tracking == Agrees(st, known \cap Fields, store)

LEMMA TrackingIsTracks == TypeOK => (Tracking <=> SnapshotTracksStore)
<1>1. TypeOK => st \in StateType /\ known \cap Fields \in SUBSET Fields
  BY DEF TypeOK
<1>2. QED
  BY <1>1, AgreesFixed, FixedAgrees DEF Tracking, SnapshotTracksStore

LEMMA TrackingStep == TypeOK /\ Tracking /\ [Next]_vars => Tracking'
<1> SUFFICES ASSUME TypeOK, Tracking, [Next]_vars PROVE Tracking'
  OBVIOUS
<1> DEFINE F == known \cap Fields
<1>1. st \in StateType /\ F \in SUBSET Fields /\ store = [g \in Fields |-> store[g]]
  BY DEF TypeOK, DeviceTypeOK
<1>2. CASE discover
  <2>1. st' = Adopt(st, known' \cap Fields, store) /\ store' = store
    <3>1. Fields \cap known' = known' \cap Fields
      OBVIOUS
    <3>2. QED
      BY <1>2, <3>1, DiscoverType DEF discover, deviceVars
  <2>2. QED
    BY <1>1, <2>1, AdoptAgrees DEF Tracking
<1>3. ASSUME NEW f \in Fields, NEW r \in Readings[f], Receive(f, r) PROVE Tracking'
  <2>1. store' = [store EXCEPT ![f] = r] /\ known' = known
    BY <1>3 DEF Receive
  <2>2. CASE f \in known /\ ~(f = "inputs" /\ r = Garbled)
    <3>1. st' = Adopt(st, {f}, store')
      BY <1>3, <2>2 DEF Receive
    <3>2. Agrees(Adopt(st, {f}, store'), F, store')
      BY <1>1, <2>1, <2>2, StoredKnown DEF Tracking
    <3>3. QED
      BY <2>1, <3>1, <3>2 DEF Tracking
  <2>3. CASE f \notin known \/ (f = "inputs" /\ r = Garbled)
    <3>1. st' = st
      BY <1>3, <2>3 DEF Receive
    <3>2. Agrees(st, F, store')
      BY <1>1, <2>1, <2>3, StoredElsewhere DEF Tracking
    <3>3. QED
      BY <2>1, <3>1, <3>2 DEF Tracking
  <2>4. QED
    BY <2>2, <2>3
<1>4. CASE UNCHANGED <<store, known, st>>
  BY <1>4 DEF Tracking
<1>5. QED
  BY <1>2, <1>3, <1>4
  DEF Next, StartLoop, StopLoop, Handler, CopyCallback, TakeSnapshot, Invoke, RunCommand, Request,
      Reject, Post, onStateChanged, Halted, vars, deviceVars

\* Whichever of an entity's states arrive before discovery, between its steps or
\* after it, no usable value of a discovered entity is missing from the snapshot.
THEOREM NothingIsMissed == Spec => []SnapshotTracksStore
<1>1. Init => Tracking
  <2>1. {} \cap Fields = {}
    OBVIOUS
  <2>2. QED
    BY <2>1, InitialState DEF Init, Tracking
<1>2. QED
  BY <1>1, TrackingStep, TrackingIsTracks, TypeCorrect, PTL DEF Spec

\* Reading keeps the legacy shape whole until it sets `reported`.
LEMMA AdoptReports ==
  ASSUME NEW s \in StateType, NEW F \in SUBSET Fields, NEW r,
         ~Adopt(s, F, r).capabilities.reported
  PROVE  ~s.capabilities.reported /\ Adopt(s, F, r).capabilities = s.capabilities
<1>1. ~s.capabilities.reported /\ ~Reports(F, r)
  BY DEF Adopt
<1>2. \A f \in CapsFields : ~(f \in F /\ Usable(f, r[f]))
  BY <1>1 DEF Reports
<1>3. QED
  BY <1>1, <1>2 DEF Adopt, Usable, CapsFields, StateType, CapsType

LEMMA LegacyStep == TypeOK /\ UnreportedIsLegacy /\ [Next]_vars => UnreportedIsLegacy'
<1> SUFFICES ASSUME TypeOK, UnreportedIsLegacy, [Next]_vars PROVE UnreportedIsLegacy'
  OBVIOUS
<1>1. st \in StateType
  BY DEF TypeOK
<1>2. CASE discover
  <2>1. st' = Adopt(st, Fields \cap known', store) /\ Fields \cap known' \in SUBSET Fields
    BY <1>2, DiscoverType
  <2>2. QED
    BY <1>1, <2>1, AdoptReports DEF UnreportedIsLegacy
<1>3. ASSUME NEW f \in Fields, NEW r \in Readings[f], Receive(f, r) PROVE UnreportedIsLegacy'
  <2>1. st' = st \/ st' = Adopt(st, {f}, store')
    BY <1>3 DEF Receive
  <2>2. QED
    BY <1>1, <2>1, AdoptReports DEF UnreportedIsLegacy
<1>4. CASE UNCHANGED st
  BY <1>4 DEF UnreportedIsLegacy
<1>5. QED
  BY <1>2, <1>3, <1>4
  DEF Next, StartLoop, StopLoop, Handler, CopyCallback, TakeSnapshot, Invoke, RunCommand, Request,
      Reject, Post, onStateChanged, Halted, vars

\* Capabilities that nobody has reported are the legacy shape in every component:
\* `reported` is set by the first that is taken, whichever of the three it is.
THEOREM LegacyUntilReported == Spec => []UnreportedIsLegacy
<1>1. Init => UnreportedIsLegacy
  BY DEF Init, UnreportedIsLegacy, initial_state
<1>2. QED
  BY <1>1, LegacyStep, TypeCorrect, PTL DEF Spec

-----------------------------------------------------------------------------
(* The listener *)

LEMMA CurrentStep == CallbackSeesCurrent /\ [Next]_vars => CallbackSeesCurrent'
<1> SUFFICES ASSUME CallbackSeesCurrent, [Next]_vars PROVE CallbackSeesCurrent'
  OBVIOUS
<1>1. CASE discover
  BY <1>1 DEF discover, Ready, eventVars, CallbackSeesCurrent
<1>2. ASSUME NEW f \in Fields, NEW r \in Readings[f], Receive(f, r) PROVE CallbackSeesCurrent'
  BY <1>2 DEF Receive, Ready, CallbackSeesCurrent
<1>3. CASE Handler
  BY <1>3 DEF Handler, CopyCallback, TakeSnapshot, Invoke, CallbackSeesCurrent
<1>4. CASE UNCHANGED <<at, snapshot, st>>
  BY <1>4 DEF CallbackSeesCurrent
<1>5. QED
  BY <1>1, <1>2, <1>3, <1>4
  DEF Next, StartLoop, StopLoop, RunCommand, Request, Reject, Post, onStateChanged, Halted, vars,
      eventVars

\* What a listener is handed is the state at the time of the call, though the lock is
\* released between the copy and the call: only the calling thread writes the state.
THEOREM ListenerSeesCurrent == Spec => []CallbackSeesCurrent
<1>1. Init => CallbackSeesCurrent
  BY DEF Init, CallbackSeesCurrent
<1>2. QED
  BY <1>1, CurrentStep, PTL DEF Spec

\* Once the replaced listener was called, the loop holds the new one or will fetch it.
LateInv == late \in {0, 1} /\ (late = 1 => at \in {"idle", "copy"} \/ cb = callback)

LEMMA LateStep == TypeOK /\ LateInv /\ [Next]_vars => LateInv'
<1> SUFFICES ASSUME TypeOK, LateInv, [Next]_vars PROVE LateInv'
  OBVIOUS
<1>1. CASE CopyCallback
  BY <1>1 DEF CopyCallback, LateInv
<1>2. CASE TakeSnapshot
  BY <1>2 DEF TakeSnapshot, LateInv
<1>3. CASE Invoke
  BY <1>3 DEF Invoke, LateInv
<1>4. ASSUME NEW f \in Fields, NEW r \in Readings[f], Receive(f, r) PROVE LateInv'
  BY <1>4 DEF Receive, Ready, LateInv
<1>5. ASSUME NEW l \in Callbacks \cup {NoCallback}, onStateChanged(l) PROVE LateInv'
  BY <1>5 DEF onStateChanged, eventVars, LateInv
<1>6. CASE UNCHANGED <<late, at, cb, callback>>
  BY <1>6 DEF LateInv
<1>7. QED
  BY <1>1, <1>2, <1>3, <1>4, <1>5, <1>6
  DEF Next, StartLoop, StopLoop, discover, Handler, RunCommand, Request, Reject, Post, Halted,
      vars, eventVars

\* However often listeners are replaced and by whom, a replaced one is called once
\* more at most.
THEOREM ReplacedCalledOnce == Spec => []LateCallOnce
<1>1. Init => LateInv
  BY DEF Init, LateInv
<1>2. LateInv => LateCallOnce
  BY DEF LateInv, LateCallOnce
<1>3. QED
  BY <1>1, <1>2, LateStep, TypeCorrect, PTL DEF Spec

-----------------------------------------------------------------------------
(* Commands: the order on the wire *)

\* Of one caller, every task is older than those behind it, and all are older than
\* the call in progress, which is yet to post its own.
Older(t, c, n, label) ==
  t.caller = c => t.number <= n /\ (label = "check" => t.number < n)

Before(t, u) == t.caller = u.caller => t.number < u.number

Ordering ==
  /\ \A c \in Callers : /\ \A i \in DOMAIN posted : Older(posted[i], c, calls[c], pc[c])
                        /\ \A i \in DOMAIN log : Older(log[i].task, c, calls[c], pc[c])
  /\ \A i, j \in DOMAIN posted : i < j => Before(posted[i], posted[j])
  /\ \A i, j \in DOMAIN log : i < j => Before(log[i].task, log[j].task)
  /\ \A i \in DOMAIN log : \A j \in DOMAIN posted : Before(log[i].task, posted[j])

\* What running the first task does to the queue and to the log.
LEMMA RunMoves ==
  ASSUME TypeOK, RunCommand
  PROVE  /\ 1 \in DOMAIN posted
         /\ DOMAIN posted' = 1 .. Len(posted) - 1 /\ DOMAIN posted = 1 .. Len(posted)
         /\ Len(posted) \in Nat /\ Len(log) \in Nat
         /\ \A i \in DOMAIN posted' : posted'[i] = posted[i + 1] /\ i + 1 \in DOMAIN posted
         /\ DOMAIN log = 1 .. Len(log) /\ DOMAIN log' = 1 .. Len(log) + 1
         /\ \A i \in DOMAIN log : log'[i] = log[i]
         /\ log'[Len(log) + 1].task = posted[1]
<1> DEFINE e == [task |-> Head(posted), sent |-> EntityOf(Head(posted).request) \in known]
<1>1. posted \in Seq(TaskType) /\ posted # <<>> /\ log \in Seq([task : TaskType, sent : BOOLEAN])
  BY DEF TypeOK, LoopTypeOK, HistoryTypeOK, RunCommand
<1>2. /\ Len(posted) \in Nat /\ Len(log) \in Nat /\ Len(posted) >= 1
      /\ DOMAIN posted = 1 .. Len(posted) /\ DOMAIN log = 1 .. Len(log)
  BY <1>1, LenProperties, EmptySeq
<1>3. Head(posted) = posted[1] /\ posted[1] \in TaskType
  BY <1>1, <1>2
<1>4. /\ posted' = Tail(posted) /\ DOMAIN posted' = 1 .. Len(posted) - 1
      /\ \A i \in DOMAIN posted' : posted'[i] = posted[i + 1]
  <2>1. posted' = Tail(posted)
    BY DEF RunCommand
  <2>2. Tail(posted) \in Seq(TaskType) /\ Len(Tail(posted)) = Len(posted) - 1
        /\ \A i \in 1 .. Len(Tail(posted)) : Tail(posted)[i] = posted[i + 1]
    BY <1>1, HeadTailProperties
  <2>3. QED
    BY <2>1, <2>2, LenProperties
<1>5. /\ log' = Append(log, e) /\ DOMAIN log' = 1 .. Len(log) + 1
      /\ \A i \in DOMAIN log : log'[i] = log[i]
      /\ log'[Len(log) + 1] = e
  <2>1. e \in [task : TaskType, sent : BOOLEAN]
    BY <1>3
  <2>2. log' = Append(log, e)
    BY DEF RunCommand
  <2> HIDE DEF e
  <2>3. QED
    BY <1>1, <1>2, <2>1, <2>2, AppendProperties, LenProperties
<1>6. QED
  BY <1>2, <1>3, <1>4, <1>5

\* What posting a task does to the queue.
LEMMA PostAppends ==
  ASSUME TypeOK, NEW c \in Callers, Post(c)
  PROVE  /\ DOMAIN posted = 1 .. Len(posted) /\ DOMAIN posted' = 1 .. Len(posted) + 1
         /\ Len(posted) \in Nat
         /\ \A i \in DOMAIN posted : posted'[i] = posted[i]
         /\ posted'[Len(posted) + 1] = Task(c)
<1>1. posted \in Seq(TaskType) /\ posted' = Append(posted, Task(c))
  BY DEF TypeOK, LoopTypeOK, Post, Task
<1>2. QED
  BY <1>1, TaskIsTask, AppendProperties, LenProperties

LEMMA ItemOfSeq ==
  ASSUME NEW S, NEW s \in Seq(S)
  PROVE  \A i \in DOMAIN s : s[i] \in S
OBVIOUS

\* Every task there is has a caller, and a number that can be compared.
LEMMA TaskNumbers ==
  ASSUME TypeOK
  PROVE  /\ \A i \in DOMAIN posted : posted[i].number \in Nat /\ posted[i].caller \in Callers
         /\ \A i \in DOMAIN log : log[i].task.number \in Nat /\ log[i].task.caller \in Callers
         /\ \A c \in Callers : calls[c] \in Nat
<1>1. posted \in Seq(TaskType) /\ log \in Seq([task : TaskType, sent : BOOLEAN])
      /\ calls \in [Callers -> Nat]
  BY DEF TypeOK, LoopTypeOK, HistoryTypeOK
<1>2. \A i \in DOMAIN posted : posted[i] \in TaskType
  BY <1>1
<1>3. \A i \in DOMAIN log : log[i].task \in TaskType
  <2>1. \A i \in DOMAIN log : log[i] \in [task : TaskType, sent : BOOLEAN]
    BY <1>1, ItemOfSeq
  <2>2. QED
    BY <2>1
<1>4. QED
  BY <1>1, <1>2, <1>3 DEF TaskType

LEMMA OrderingStep == TypeOK /\ Ordering /\ [Next]_vars => Ordering'
<1> SUFFICES ASSUME TypeOK, Ordering, [Next]_vars PROVE Ordering'
  OBVIOUS
<1>1. calls \in [Callers -> Nat] /\ pc \in [Callers -> {"idle", "check"}]
  BY DEF TypeOK, CallerTypeOK, HistoryTypeOK
<1>2. CASE RunCommand
  <2>1. UNCHANGED <<calls, pc>>
    BY <1>2 DEF RunCommand, callerVars
  <2>2. \A j \in DOMAIN posted' : posted'[j] = posted[j + 1] /\ 1 < j + 1
    BY <1>2, RunMoves
  <2>3. \A i \in DOMAIN log' : \/ i \in DOMAIN log /\ log'[i] = log[i]
                               \/ i = Len(log) + 1 /\ log'[i].task = posted[1]
    <3>1. \A i \in DOMAIN log' : i \in DOMAIN log \/ i = Len(log) + 1
      BY <1>2, RunMoves
    <3>2. \A i \in DOMAIN log : log'[i] = log[i]
      BY <1>2, RunMoves
    <3>3. log'[Len(log) + 1].task = posted[1]
      BY <1>2, RunMoves
    <3>4. QED
      BY <3>1, <3>2, <3>3
  <2>4. \A c \in Callers :
          /\ \A i \in DOMAIN posted' : Older(posted'[i], c, calls'[c], pc'[c])
          /\ \A i \in DOMAIN log' : Older(log'[i].task, c, calls'[c], pc'[c])
    BY <1>2, <2>1, <2>2, <2>3, RunMoves DEF Ordering
  <2>5. \A i, j \in DOMAIN posted' : i < j => Before(posted'[i], posted'[j])
    BY <1>2, <2>2, RunMoves DEF Ordering
  <2>6. \A i, j \in DOMAIN log' : i < j => Before(log'[i].task, log'[j].task)
    BY <1>2, <2>3, RunMoves DEF Ordering
  <2>7. \A i \in DOMAIN log' : \A j \in DOMAIN posted' : Before(log'[i].task, posted'[j])
    BY <1>2, <2>2, <2>3, RunMoves DEF Ordering
  <2>8. QED
    BY <2>4, <2>5, <2>6, <2>7 DEF Ordering
<1>3. ASSUME NEW c \in Callers, Post(c) PROVE Ordering'
  <2>1. pc[c] = "check" /\ pc' = [pc EXCEPT ![c] = "idle"] /\ UNCHANGED <<calls, log>>
    BY <1>3 DEF Post
  <2>2. Task(c).caller = c /\ Task(c).number = calls[c]
    BY DEF Task
  <2>3. \A i \in DOMAIN posted' : \/ i \in DOMAIN posted /\ posted'[i] = posted[i]
                                  \/ i = Len(posted) + 1 /\ posted'[i] = Task(c)
    <3>1. \A i \in DOMAIN posted' : i \in DOMAIN posted \/ i = Len(posted) + 1
      BY <1>3, PostAppends
    <3>2. \A i \in DOMAIN posted : posted'[i] = posted[i]
      BY <1>3, PostAppends
    <3>3. posted'[Len(posted) + 1] = Task(c)
      BY <1>3, PostAppends
    <3>4. QED
      BY <3>1, <3>2, <3>3
  <2>4. \A i \in DOMAIN posted : Before(posted[i], Task(c))
    BY <2>1, <2>2 DEF Ordering, Older, Before
  <2>5. \A i \in DOMAIN log : Before(log[i].task, Task(c))
    BY <2>1, <2>2 DEF Ordering, Older, Before
  <2>6. \A d \in Callers :
          /\ \A i \in DOMAIN posted' : Older(posted'[i], d, calls'[d], pc'[d])
          /\ \A i \in DOMAIN log' : Older(log'[i].task, d, calls'[d], pc'[d])
    <3>1. Older(Task(c), c, calls'[c], pc'[c])
      BY <1>1, <2>1, <2>2 DEF Older
    <3>2. \A d \in Callers : \A t : Older(t, d, calls[d], pc[d]) => Older(t, d, calls'[d], pc'[d])
      BY <1>1, <2>1 DEF Older
    <3>3. \A d \in Callers : Older(Task(c), d, calls'[d], pc'[d])
      BY <2>2, <3>1 DEF Older
    <3>4. QED
      BY <2>1, <2>3, <3>2, <3>3 DEF Ordering
  <2>7. \A i, j \in DOMAIN posted' : i < j => Before(posted'[i], posted'[j])
    BY <1>3, <2>3, <2>4, PostAppends DEF Ordering
  <2>8. \A i \in DOMAIN log' : \A j \in DOMAIN posted' : Before(log'[i].task, posted'[j])
    BY <2>1, <2>3, <2>5 DEF Ordering
  <2>9. QED
    BY <2>1, <2>6, <2>7, <2>8 DEF Ordering
<1>4. ASSUME NEW c \in Callers, NEW q \in Requests, Request(c, q) PROVE Ordering'
  <2>1. /\ calls' = [calls EXCEPT ![c] = @ + 1] /\ pc' = [pc EXCEPT ![c] = "check"]
        /\ UNCHANGED <<posted, log>>
    BY <1>4 DEF Request, loopVars
  <2>2. \A d \in Callers : \A t :
          t.number \in Nat /\ Older(t, d, calls[d], pc[d]) => Older(t, d, calls'[d], pc'[d])
    BY <1>1, <2>1 DEF Older
  <2>3. QED
    BY <2>1, <2>2, TaskNumbers DEF Ordering
<1>5. ASSUME NEW c \in Callers, Reject(c) PROVE Ordering'
  <2>1. pc' = [pc EXCEPT ![c] = "idle"] /\ UNCHANGED <<calls, posted, log>>
    BY <1>5 DEF Reject, loopVars
  <2>2. \A d \in Callers : \A t : Older(t, d, calls[d], pc[d]) => Older(t, d, calls'[d], pc'[d])
    BY <1>1, <2>1 DEF Older
  <2>3. QED
    BY <2>1, <2>2 DEF Ordering
<1>6. CASE UNCHANGED <<calls, pc, posted, log>>
  BY <1>6 DEF Ordering, Older
<1>7. QED
  BY <1>2, <1>3, <1>4, <1>5, <1>6
  DEF Next, StartLoop, StopLoop, discover, Receive, Handler, CopyCallback, TakeSnapshot, Invoke,
      onStateChanged, Halted, vars, callerVars, loopVars

\* Any number of threads may call at once, and the loop may be stopped and started in
\* between: what one thread asked for first leaves first.
THEOREM OrderKept == Spec => []WireOrder
<1>1. Init => Ordering
  BY DEF Init, Ordering
<1>2. Ordering => WireOrder
  BY DEF Ordering, Before, WireOrder
<1>3. QED
  BY <1>1, <1>2, OrderingStep, TypeCorrect, PTL DEF Spec

-----------------------------------------------------------------------------
(* Commands: what they were validated against *)

\* The command of a task was acceptable, as a whole, to one shape that the channel had
\* during the call, and asks of a board of that shape what the caller asked for.
Validated(t) ==
  \E caps \in t.inforce :
    /\ Admissible(t.request, caps)
    /\ t.command.verb = t.request.verb
    /\ IF t.request.verb = "auto"
       THEN Cycle(t.command.inputs, caps.inputCount) = Cycle(t.request.inputs, caps.inputCount)
       ELSE t.command.inputs = t.request.inputs

\* A call in progress checks against a shape of its own time; what was posted is valid.
Validation ==
  /\ \A c \in Callers : pc[c] = "check" => caps_seen[c] \in inforce[c]
  /\ \A i \in DOMAIN posted : Validated(posted[i])
  /\ \A i \in DOMAIN log : Validated(log[i].task)

\* An auto command over every input, which carries no list, means what the list meant.
LEMMA CommandMeans ==
  ASSUME NEW q, NEW caps
  PROVE  /\ Command(q, caps).verb = q.verb
         /\ IF q.verb = "auto"
            THEN Cycle(Command(q, caps).inputs, caps.inputCount) = Cycle(q.inputs, caps.inputCount)
            ELSE Command(q, caps).inputs = q.inputs
<1>1. CASE q.verb = "auto" /\ covers_all_in_order(q.inputs, caps.inputCount)
  <2>1. q.inputs = AllInputs(caps.inputCount) /\ Command(q, caps).inputs = <<>>
    BY <1>1 DEF Command, covers_all_in_order
  <2>2. QED
    BY <1>1, <2>1 DEF Command, Cycle
<1>2. CASE ~(q.verb = "auto" /\ covers_all_in_order(q.inputs, caps.inputCount))
  BY <1>2 DEF Command
<1>3. QED
  BY <1>1, <1>2

LEMMA ValidationStep == TypeOK /\ Validation /\ [Next]_vars => Validation'
<1> SUFFICES ASSUME TypeOK, Validation, [Next]_vars PROVE Validation'
  OBVIOUS
<1>1. /\ pc \in [Callers -> {"idle", "check"}] /\ caps_seen \in [Callers -> CapsType]
      /\ inforce \in [Callers -> SUBSET CapsType]
  BY DEF TypeOK, CallerTypeOK, HistoryTypeOK
<1>2. ASSUME NEW s, Observe(s), UNCHANGED <<pc, caps_seen, posted, log>> PROVE Validation'
  <2>1. \A c \in Callers : inforce[c] \subseteq inforce'[c]
    BY <1>1, <1>2 DEF Observe
  <2>2. QED
    BY <1>2, <2>1 DEF Validation
<1>3. CASE discover
  BY <1>2, <1>3 DEF discover, callerVars, loopVars
<1>4. ASSUME NEW f \in Fields, NEW r \in Readings[f], Receive(f, r) PROVE Validation'
  <2>1. Observe(st') \/ UNCHANGED inforce
    BY <1>4 DEF Receive
  <2>2. UNCHANGED <<pc, caps_seen, posted, log>>
    BY <1>4 DEF Receive, callerVars, loopVars
  <2>3. CASE UNCHANGED inforce
    BY <2>2, <2>3 DEF Validation
  <2>4. QED
    BY <1>2, <2>1, <2>2, <2>3
<1>5. CASE RunCommand
  <2>1. UNCHANGED <<pc, caps_seen, inforce>>
    BY <1>5 DEF RunCommand, callerVars
  <2>2. \A i \in DOMAIN posted' : Validated(posted'[i])
    BY <1>5, RunMoves DEF Validation
  <2>3. \A i \in DOMAIN log' : Validated(log'[i].task)
    <3>1. \A i \in DOMAIN log' : i \in DOMAIN log \/ i = Len(log) + 1
      BY <1>5, RunMoves
    <3>2. QED
      BY <1>5, <3>1, RunMoves DEF Validation
  <2>4. QED
    BY <2>1, <2>2, <2>3 DEF Validation
<1>6. ASSUME NEW c \in Callers, Post(c) PROVE Validation'
  <2>1. /\ pc' = [pc EXCEPT ![c] = "idle"] /\ UNCHANGED <<caps_seen, inforce, log>>
        /\ caps_seen[c] \in inforce[c] /\ Admissible(request[c], caps_seen[c])
    BY <1>6 DEF Post, Validation
  <2>2. Validated(Task(c))
    BY <2>1, CommandMeans DEF Validated, Task
  <2>3. \A i \in DOMAIN posted' : Validated(posted'[i])
    <3>1. \A i \in DOMAIN posted' : i \in DOMAIN posted \/ i = Len(posted) + 1
      BY <1>6, PostAppends
    <3>2. QED
      BY <1>6, <2>2, <3>1, PostAppends DEF Validation
  <2>4. QED
    BY <1>1, <2>1, <2>3 DEF Validation
<1>7. ASSUME NEW c \in Callers, NEW q \in Requests, Request(c, q) PROVE Validation'
  <2>1. /\ caps_seen' = [caps_seen EXCEPT ![c] = st.capabilities]
        /\ inforce' = [inforce EXCEPT ![c] = {st.capabilities}]
        /\ pc' = [pc EXCEPT ![c] = "check"] /\ UNCHANGED <<posted, log>>
    BY <1>7 DEF Request, loopVars
  <2>2. QED
    BY <1>1, <2>1 DEF Validation
<1>8. ASSUME NEW c \in Callers, Reject(c) PROVE Validation'
  BY <1>1, <1>8 DEF Reject, loopVars, Validation
<1>9. CASE UNCHANGED <<pc, caps_seen, inforce, posted, log>>
  BY <1>9 DEF Validation
<1>10. QED
  BY <1>3, <1>4, <1>5, <1>6, <1>7, <1>8, <1>9
  DEF Next, StartLoop, StopLoop, Handler, CopyCallback, TakeSnapshot, Invoke, onStateChanged,
      Halted, vars, callerVars, loopVars

\* Capabilities may change at any point of a call, and of its way through the queue:
\* no command leaves that mixes the shapes of two moments.
THEOREM SentIsValidated == Spec => []SentWasValidated
<1>1. Init => Validation
  BY DEF Init, Validation
<1>2. Validation => SentWasValidated
  BY DEF Validation, Validated, SentWasValidated
<1>3. QED
  BY <1>1, <1>2, ValidationStep, TypeCorrect, PTL DEF Spec
================================================================================
