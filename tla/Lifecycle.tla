------------------------------ MODULE Lifecycle ------------------------------
(***************************************************************************)
(* The connection life cycle of AntennaSwitcher (src/src/client.cpp):      *)
(* application threads that call connect(), disconnect() and the           *)
(* destructor, the worker thread that runs the ESPHome event loop, and the *)
(* flags and condition variable through which the two meet.                *)
(*                                                                         *)
(* The esphome::api client is external.  Its part here is what client.cpp  *)
(* relies on: a FIFO of posted tasks run by the thread inside run(), a     *)
(* handshake that resolves at most once, the end of the entity list, state *)
(* updates, and a link that may drop.  Time is abstracted: a timed wait    *)
(* may give up whenever its predicate is false.                            *)
(***************************************************************************)
EXTENDS Naturals, Sequences

CONSTANTS
  Callers,       \* the application threads that share one AntennaSwitcher
  Caps,          \* the capability entities a device may publish
  MaxAttempts    \* bound: how many connect() calls get past the running test

ASSUME LifecycleAssumption ==
  /\ Callers # {}
  /\ MaxAttempts \in Nat

VARIABLES
  running, worker, queue, stopped,             \* Impl::running, Impl::worker, the loop
  connect_resolved, connect_error,             \* the flags behind connect_mtx
  list_done, discover_done, caps_done,
  connected,                                   \* Impl::connected
  link, handshake, listing, registry, stored,  \* the client: link, calls in flight, store
  found, found_caps,                           \* Impl::ent: required keys, capability keys
  pc, after, discover_err,                     \* each caller's position and locals
  device,                                      \* what the device publishes
  attempt, reached, opened, result, terminated \* history, read by properties only

flagVars   == <<connect_resolved, connect_error, list_done, discover_done, caps_done>>
loopVars   == <<running, worker, queue, stopped>>
clientVars == <<connected, link, handshake, listing, registry, stored, found, found_caps>>
callerVars == <<pc, after, discover_err>>
ghostVars  == <<attempt, reached, opened, result, terminated>>
vars == <<flagVars, loopVars, clientVars, callerVars, device, ghostVars>>

Milestones == {"resolved", "listed", "discovered"}

\* Where a caller stands inside connect(), and inside shutdown_worker().
ConnectSteps == {"claim", "spawn", "post_setup", "await_resolved", "await_list",
                 "post_discover", "await_discover", "check_discover", "await_caps"}
ShutdownSteps == {"shutdown", "post_stop", "join", "joining", "clear"}

Tasks == [kind : {"setup", "stop"}] \cup [kind : {"discover"}, frame : Callers]

Goto(c, label) == pc' = [pc EXCEPT ![c] = label]
Returns(c, r) == result' = [result EXCEPT ![c] = r]

Init ==
  /\ running = FALSE /\ worker = "none" /\ queue = <<>> /\ stopped = FALSE
  /\ connect_resolved = FALSE /\ connect_error = FALSE
  /\ list_done = FALSE /\ discover_done = FALSE /\ caps_done = FALSE
  /\ connected = FALSE /\ link = "down" /\ handshake = FALSE /\ listing = FALSE
  /\ registry = FALSE /\ stored = {} /\ found = FALSE /\ found_caps = {}
  /\ pc = [c \in Callers |-> "idle"]
  /\ after = [c \in Callers |-> "return"]
  /\ discover_err = [c \in Callers |-> FALSE]
  /\ device \in [complete : BOOLEAN, caps : SUBSET Caps]
  /\ attempt = 0 /\ reached = {} /\ opened = FALSE /\ terminated = FALSE
  /\ result = [c \in Callers |-> "none"]

-----------------------------------------------------------------------------
(* connect(), on the calling thread *)

\* The destructor has begun: no other call may start.
Destroying == \E c \in Callers : after[c] = "destroy"

\* connect() up to the test of `running`, which is neither atomic nor locked.
CallConnect(c) ==
  /\ pc[c] = "idle" /\ ~Destroying
  /\ \/ /\ running
        /\ Returns(c, "already")
        /\ UNCHANGED pc
     \/ /\ ~running /\ attempt < MaxAttempts
        /\ Goto(c, "claim")
        /\ Returns(c, "none")
  /\ UNCHANGED <<flagVars, loopVars, clientVars, after, discover_err, device,
                 attempt, reached, opened, terminated>>

Claim(c) ==
  /\ pc[c] = "claim"
  /\ running' = TRUE
  /\ attempt' = attempt + 1
  /\ reached' = {}
  /\ opened' = FALSE
  /\ Goto(c, "spawn")
  /\ UNCHANGED <<flagVars, worker, queue, stopped, clientVars, after, discover_err,
                 device, result, terminated>>

\* worker = std::thread(run).  Assigning over a joinable thread terminates the
\* process.  run() on a loop that was stopped serves tasks again or returns at once.
Spawn(c) ==
  /\ pc[c] = "spawn"
  /\ \/ /\ worker # "none"
        /\ terminated' = TRUE
        /\ UNCHANGED <<worker, pc>>
     \/ /\ worker = "none"
        /\ worker' \in {"running"} \cup (IF stopped THEN {"exited"} ELSE {})
        /\ Goto(c, "post_setup")
        /\ UNCHANGED terminated
  /\ UNCHANGED <<flagVars, running, queue, stopped, clientVars, after, discover_err,
                 device, attempt, reached, opened, result>>

\* The thread constructor throws: connect() unwinds and `running` stays set.
SpawnFails(c) ==
  /\ pc[c] = "spawn"
  /\ Goto(c, "idle")
  /\ Returns(c, "failed")
  /\ UNCHANGED <<flagVars, loopVars, clientVars, after, discover_err, device,
                 attempt, reached, opened, terminated>>

PostSetup(c) ==
  /\ pc[c] = "post_setup"
  /\ queue' = Append(queue, [kind |-> "setup"])
  /\ Goto(c, "await_resolved")
  /\ UNCHANGED <<flagVars, running, worker, stopped, clientVars, after, discover_err,
                 device, ghostVars>>

\* Enter shutdown_worker(); k says what the caller does once it returns.
BeginShutdown(c, k) ==
  /\ Goto(c, "shutdown")
  /\ after' = [after EXCEPT ![c] = k]

\* A timed wait that ends with its predicate still false: tear down and throw.
TimesOut(c, predicate) == ~predicate /\ BeginShutdown(c, "throw")

AwaitResolved(c) ==
  /\ pc[c] = "await_resolved"
  /\ \/ TimesOut(c, connect_resolved)
     \/ connect_resolved /\ connect_error /\ BeginShutdown(c, "throw")
     \/ connect_resolved /\ ~connect_error /\ Goto(c, "await_list") /\ UNCHANGED after
  /\ UNCHANGED <<flagVars, loopVars, clientVars, discover_err, device, ghostVars>>

\* Mutant: a wait without its deadline.
AwaitListForever(c) ==
  /\ pc[c] = "await_list"
  /\ list_done /\ Goto(c, "post_discover") /\ UNCHANGED after
  /\ UNCHANGED <<flagVars, loopVars, clientVars, discover_err, device, ghostVars>>

AwaitList(c) ==
  /\ pc[c] = "await_list"
  /\ \/ TimesOut(c, list_done)
     \/ list_done /\ Goto(c, "post_discover") /\ UNCHANGED after
  /\ UNCHANGED <<flagVars, loopVars, clientVars, discover_err, device, ghostVars>>

\* discover_err is a local of connect(); the posted task holds a reference to it.
PostDiscover(c) ==
  /\ pc[c] = "post_discover"
  /\ discover_err' = [discover_err EXCEPT ![c] = FALSE]
  /\ queue' = Append(queue, [kind |-> "discover", frame |-> c])
  /\ Goto(c, "await_discover")
  /\ UNCHANGED <<flagVars, running, worker, stopped, clientVars, after, device, ghostVars>>

\* Mutant: the timeout throws without stopping the worker first.
AwaitDiscoverDetached(c) ==
  /\ pc[c] = "await_discover"
  /\ Goto(c, IF discover_done THEN "check_discover" ELSE "idle")
  /\ UNCHANGED <<flagVars, loopVars, clientVars, after, discover_err, device, ghostVars>>

AwaitDiscover(c) ==
  /\ pc[c] = "await_discover"
  /\ \/ TimesOut(c, discover_done)
     \/ discover_done /\ Goto(c, "check_discover") /\ UNCHANGED after
  /\ UNCHANGED <<flagVars, loopVars, clientVars, discover_err, device, ghostVars>>

\* Mutant: the exception caught on the loop thread is not rethrown.
CheckDiscoverIgnored(c) ==
  /\ pc[c] = "check_discover"
  /\ Goto(c, "await_caps")
  /\ UNCHANGED <<flagVars, loopVars, clientVars, after, discover_err, device, ghostVars>>

CheckDiscover(c) ==
  /\ pc[c] = "check_discover"
  /\ \/ discover_err[c] /\ BeginShutdown(c, "throw")
     \/ ~discover_err[c] /\ Goto(c, "await_caps") /\ UNCHANGED after
  /\ UNCHANGED <<flagVars, loopVars, clientVars, discover_err, device, ghostVars>>

\* The settle wait is bounded and non-fatal: connect() returns either way.
AwaitCaps(c) ==
  /\ pc[c] = "await_caps"
  /\ opened' = TRUE
  /\ Returns(c, "opened")
  /\ Goto(c, "idle")
  /\ UNCHANGED <<flagVars, loopVars, clientVars, after, discover_err, device,
                 attempt, reached, terminated>>

-----------------------------------------------------------------------------
(* shutdown_worker(), disconnect() and the destructor *)

CallDisconnect(c) ==
  /\ pc[c] = "idle" /\ ~Destroying
  /\ BeginShutdown(c, "return")
  /\ Returns(c, "none")
  /\ UNCHANGED <<flagVars, loopVars, clientVars, discover_err, device,
                 attempt, reached, opened, terminated>>

\* An object is destroyed by one thread, when no other is inside a call.
CallDestroy(c) ==
  /\ \A d \in Callers : pc[d] = "idle"
  /\ BeginShutdown(c, "destroy")
  /\ Returns(c, "none")
  /\ UNCHANGED <<flagVars, loopVars, clientVars, discover_err, device,
                 attempt, reached, opened, terminated>>

\* Mutant: the continuation is taken for the position it leads to.
LeaveShutdownMixedUp(c) ==
  /\ Goto(c, after[c])
  /\ Returns(c, IF after[c] = "throw" THEN "failed" ELSE "closed")
  /\ terminated' = (after[c] = "destroy" /\ worker # "none")

\* What follows shutdown_worker(): the pending exception, the return of
\* disconnect(), or the end of the members, where a joinable thread terminates.
LeaveShutdown(c) ==
  /\ Goto(c, IF after[c] = "destroy" THEN "destroyed" ELSE "idle")
  /\ Returns(c, IF after[c] = "throw" THEN "failed" ELSE "closed")
  /\ terminated' = (after[c] = "destroy" /\ worker # "none")

\* Mutant: the early return tests the link instead of the worker.
ShutdownEnterIfConnected(c) ==
  /\ pc[c] = "shutdown"
  /\ \/ ~connected /\ LeaveShutdown(c)
     \/ connected /\ Goto(c, "post_stop") /\ UNCHANGED <<result, terminated>>
  /\ UNCHANGED <<flagVars, loopVars, clientVars, after, discover_err, device,
                 attempt, reached, opened>>

ShutdownEnter(c) ==
  /\ pc[c] = "shutdown"
  /\ \/ ~running /\ LeaveShutdown(c)
     \/ running /\ Goto(c, "post_stop") /\ UNCHANGED <<result, terminated>>
  /\ UNCHANGED <<flagVars, loopVars, clientVars, after, discover_err, device,
                 attempt, reached, opened>>

\* Mutant: the loop is never told to stop.
PostStopForgotten(c) ==
  /\ pc[c] = "post_stop"
  /\ Goto(c, "join")
  /\ UNCHANGED <<flagVars, loopVars, clientVars, after, discover_err, device, ghostVars>>

PostStop(c) ==
  /\ pc[c] = "post_stop"
  /\ queue' = Append(queue, [kind |-> "stop"])
  /\ Goto(c, "join")
  /\ UNCHANGED <<flagVars, running, worker, stopped, clientVars, after, discover_err,
                 device, ghostVars>>

\* Mutant: the worker is told to stop and not waited for.
JoinSkipped(c) ==
  /\ pc[c] = "join"
  /\ Goto(c, "clear")
  /\ UNCHANGED <<flagVars, loopVars, clientVars, after, discover_err, device, ghostVars>>

Join(c) ==
  /\ pc[c] = "join"
  /\ Goto(c, IF worker = "none" THEN "clear" ELSE "joining")
  /\ UNCHANGED <<flagVars, loopVars, clientVars, after, discover_err, device, ghostVars>>

\* join() blocks until the loop returned.  Joining a thread that another caller
\* has joined meanwhile is undefined: it returns, or it throws out of the call.
Joining(c) ==
  /\ pc[c] = "joining"
  /\ \/ worker \in {"exited", "none"} /\ worker' = "none" /\ Goto(c, "clear") /\ UNCHANGED result
     \/ /\ worker = "none" /\ after[c] # "destroy"
        /\ Goto(c, "idle")
        /\ Returns(c, "failed")
        /\ UNCHANGED worker
  /\ UNCHANGED <<flagVars, running, queue, stopped, clientVars, after, discover_err,
                 device, attempt, reached, opened, terminated>>

Clear(c) ==
  /\ pc[c] = "clear"
  /\ running' = FALSE
  /\ connected' = FALSE
  /\ opened' = FALSE
  /\ LeaveShutdown(c)
  /\ UNCHANGED <<flagVars, worker, queue, stopped, link, handshake, listing, registry,
                 stored, found, found_caps, after, discover_err, device, attempt, reached>>

CallerStep(c) ==
  \/ Claim(c) \/ Spawn(c) \/ SpawnFails(c) \/ PostSetup(c) \/ AwaitResolved(c)
  \/ AwaitList(c) \/ PostDiscover(c) \/ AwaitDiscover(c) \/ CheckDiscover(c)
  \/ AwaitCaps(c) \/ ShutdownEnter(c) \/ PostStop(c) \/ Join(c) \/ Joining(c) \/ Clear(c)

-----------------------------------------------------------------------------
(* The worker thread: posted tasks *)

\* The loop takes the oldest posted task, which has to be of this kind.
Takes(kind) ==
  /\ worker = "running"
  /\ queue # <<>> /\ Head(queue).kind = kind
  /\ queue' = Tail(queue)

\* Register the handlers and start the handshake.
RunSetup ==
  /\ Takes("setup")
  /\ link' = "connecting"
  /\ handshake' = TRUE
  /\ UNCHANGED <<flagVars, running, worker, stopped, connected, listing, registry, stored,
                 found, found_caps, callerVars, device, ghostVars>>

\* Keys the registry offers are added to those found before; none is dropped.
DiscoveredCaps == IF registry THEN found_caps \cup device.caps ELSE found_caps
DiscoveredAll  == found \/ (registry /\ device.complete)

\* discover(), verify_discovery() and caps_settled(), then the two flags.
\* discover() may also throw midway, on a list of inputs that does not parse:
\* it then has registered some of the keys.
RunDiscover ==
  /\ Takes("discover")
  /\ LET frame == Head(queue).frame IN
       \/ /\ found' = DiscoveredAll /\ found_caps' = DiscoveredCaps
          /\ discover_err' = [discover_err EXCEPT ![frame] = ~DiscoveredAll]
          /\ reached' = IF DiscoveredAll THEN reached \cup {"discovered"} ELSE reached
       \/ /\ registry
          /\ found' \in {found, DiscoveredAll}
          /\ found_caps' \in {found_caps \cup S : S \in SUBSET device.caps}
          /\ discover_err' = [discover_err EXCEPT ![frame] = TRUE]
          /\ UNCHANGED reached
  /\ discover_done' = TRUE
  /\ caps_done' = (found_caps' \subseteq stored)
  /\ UNCHANGED <<connect_resolved, connect_error, list_done, running, worker, stopped,
                 connected, link, handshake, listing, registry, stored, pc, after, device,
                 attempt, opened, result, terminated>>

\* client.disconnect() and client.stop().  A handshake in flight is aborted, or
\* its handler is dropped with the loop.
RunStop ==
  /\ Takes("stop")
  /\ link' = "down" /\ connected' = FALSE /\ handshake' = FALSE /\ listing' = FALSE
  /\ worker' = "exited" /\ stopped' = TRUE
  /\ \/ UNCHANGED <<connect_resolved, connect_error>>
     \/ handshake /\ connect_resolved' = TRUE /\ connect_error' = TRUE
  /\ UNCHANGED <<list_done, discover_done, caps_done, running, registry, stored, found,
                 found_caps, callerVars, device, ghostVars>>

RunTask == RunSetup \/ RunDiscover \/ RunStop

-----------------------------------------------------------------------------
(* The worker thread: what the network and the device bring *)

LinkUp ==
  /\ worker = "running" /\ link = "connecting"
  /\ link' = "up" /\ connected' = TRUE
  /\ UNCHANGED <<flagVars, loopVars, handshake, listing, registry, stored, found,
                 found_caps, callerVars, device, ghostVars>>

\* The async_connect handler without an error: subscribe, ask for the entity
\* list, then publish the outcome.
HandshakeOk ==
  /\ worker = "running" /\ link = "up" /\ handshake
  /\ handshake' = FALSE /\ listing' = TRUE
  /\ connect_error' = FALSE /\ connect_resolved' = TRUE
  /\ reached' = reached \cup {"resolved"}
  /\ UNCHANGED <<list_done, discover_done, caps_done, loopVars, connected, link, registry,
                 stored, found, found_caps, callerVars, device,
                 attempt, opened, result, terminated>>

\* The link fails or drops; a handshake in flight resolves with the error.
LinkDown ==
  /\ worker = "running" /\ link \in {"connecting", "up"}
  /\ link' = "down" /\ connected' = FALSE /\ handshake' = FALSE /\ listing' = FALSE
  /\ \/ handshake /\ connect_resolved' = TRUE /\ connect_error' = TRUE
     \/ ~handshake /\ UNCHANGED <<connect_resolved, connect_error>>
  /\ UNCHANGED <<list_done, discover_done, caps_done, loopVars, registry, stored, found,
                 found_caps, callerVars, device, ghostVars>>

\* The ListEntitiesDoneResponse handler.
ListDone ==
  /\ worker = "running" /\ link = "up" /\ listing
  /\ listing' = FALSE /\ registry' = TRUE /\ list_done' = TRUE
  /\ reached' = reached \cup {"listed"}
  /\ UNCHANGED <<connect_resolved, connect_error, discover_done, caps_done, loopVars,
                 connected, link, handshake, stored, found, found_caps, callerVars, device,
                 attempt, opened, result, terminated>>

\* Mutant: only discovery marks the capabilities settled.
CapsStateUnmarked(k) ==
  /\ worker = "running" /\ link = "up" /\ ~handshake
  /\ stored' \in {stored \cup {k}, stored \ {k}}
  /\ UNCHANGED <<flagVars, loopVars, connected, link, handshake, listing, registry,
                 found, found_caps, callerVars, device, ghostVars>>

\* A capability state reaches the store, usable or flagged missing, and
\* on_entity_state runs: a key discover() has not registered is ignored.
CapsState(k) ==
  /\ worker = "running" /\ link = "up" /\ ~handshake
  /\ stored' \in {stored \cup {k}, stored \ {k}}
  /\ caps_done' = (caps_done \/ (k \in found_caps /\ found_caps \subseteq stored'))
  /\ UNCHANGED <<connect_resolved, connect_error, list_done, discover_done, loopVars,
                 connected, link, handshake, listing, registry, found, found_caps,
                 callerVars, device, ghostVars>>

Device ==
  \/ LinkUp \/ HandshakeOk \/ LinkDown \/ ListDone
  \/ \E k \in device.caps : CapsState(k)

-----------------------------------------------------------------------------
\* The process is gone, or the object is: nothing is left to run.
Halted ==
  /\ terminated \/ \E c \in Callers : pc[c] = "destroyed"
  /\ UNCHANGED vars

Call(c) == CallConnect(c) \/ CallDisconnect(c) \/ CallDestroy(c)

Next ==
  \/ ~terminated /\ \E c \in Callers : Call(c) \/ CallerStep(c)
  \/ ~terminated /\ RunTask
  \/ ~terminated /\ Device
  \/ Halted

Spec == Init /\ [][Next]_vars

\* A thread inside a call is scheduled and its timed waits expire; the loop
\* serves its queue.  Nothing is asked of the user, the network or the device.
Fairness ==
  /\ \A c \in Callers : WF_vars(~terminated /\ CallerStep(c))
  /\ WF_vars(~terminated /\ RunTask)

FairSpec == Spec /\ Fairness

-----------------------------------------------------------------------------
(* Properties *)

LoopTypeOK ==
  /\ running \in BOOLEAN /\ stopped \in BOOLEAN
  /\ worker \in {"none", "running", "exited"}
  /\ queue \in Seq(Tasks)

FlagTypeOK ==
  /\ connect_resolved \in BOOLEAN /\ connect_error \in BOOLEAN
  /\ list_done \in BOOLEAN /\ discover_done \in BOOLEAN /\ caps_done \in BOOLEAN

ClientTypeOK ==
  /\ connected \in BOOLEAN /\ link \in {"down", "connecting", "up"}
  /\ handshake \in BOOLEAN /\ listing \in BOOLEAN /\ registry \in BOOLEAN
  /\ stored \subseteq Caps /\ found \in BOOLEAN /\ found_caps \subseteq Caps
  /\ device \in [complete : BOOLEAN, caps : SUBSET Caps]

CallerTypeOK ==
  /\ pc \in [Callers -> ConnectSteps \cup ShutdownSteps \cup {"idle", "destroyed"}]
  /\ after \in [Callers -> {"return", "throw", "destroy"}]
  /\ discover_err \in [Callers -> BOOLEAN]

HistoryTypeOK ==
  /\ attempt \in Nat /\ reached \subseteq Milestones
  /\ opened \in BOOLEAN /\ terminated \in BOOLEAN
  /\ result \in [Callers -> {"none", "already", "opened", "failed", "closed"}]

\* The values each variable can take.
TypeOK == LoopTypeOK /\ FlagTypeOK /\ ClientTypeOK /\ CallerTypeOK /\ HistoryTypeOK

\* When connect() returns normally, the handshake, the entity list and the
\* discovery of this very attempt are complete ("Blocks until ready").
ConnectIsReady == opened => reached = Milestones

\* The same promise for the first attempt of an object's life, whose flags no
\* earlier attempt can have left set.  Calls that find `running` set and so make no
\* attempt, a second thread's among them, return with nothing promised.
FirstConnectIsReady == attempt = 1 => ConnectIsReady

\* The discover task writes through a reference to a local of connect(); while
\* the loop can still run the task, that frame must not have been left.  The
\* first attempt keeps this, through its wait and through the join on timeout.
DiscoverFrameAlive ==
  attempt = 1 /\ worker = "running" =>
    \A i \in DOMAIN queue : queue[i].kind = "discover" =>
      LET c == queue[i].frame IN
        \/ pc[c] \in {"await_discover", "check_discover"}
        \/ pc[c] \in ShutdownSteps /\ after[c] = "throw"

\* No missed settle signal: whichever comes last, discovery or a capability
\* state, caps_done is set once every discovered capability has a value.
NoMissedSettle == discover_done /\ found_caps \subseteq stored => caps_done

SingleCaller == \A c, d \in Callers : c = d

\* Used by a single thread, a switcher that is not running is quiet: there is no
\* loop thread that could still invoke a callback, no link, no pending handshake.
DisconnectedIsQuiet ==
  ~running => /\ worker = "none"
              /\ link = "down" /\ ~connected /\ ~handshake

\* The C++ runtime never has to terminate the process over the worker thread:
\* it is never overwritten or destroyed while joinable.
NeverTerminates == ~terminated

\* A thread that enters connect() leaves it, with or without an exception,
\* however the network behaves: every wait is bounded and the join is answered.
ConnectReturns ==
  \A c \in Callers : pc[c] \in ConnectSteps ~> pc[c] = "idle"

\* disconnect() and the destructor return: the stop task always reaches the loop.
ShutdownReturns ==
  \A c \in Callers : pc[c] \in ShutdownSteps ~> pc[c] \in {"idle", "destroyed"}

\* What connect() and disconnect() promise, as an abstract machine: the first cycle
\* of an object keeps the promise; the later ones, which start from the flags of
\* the one before, do not (ConnectIsReady), so they are left out.
Contract == INSTANCE ConnectContract WITH
  phase <- IF ~running \/ attempt # 1 THEN "closed" ELSE IF opened THEN "open" ELSE "opening",
  milestones <- IF running /\ attempt = 1 THEN reached ELSE {}

ImplementsContract == Contract!Spec
=============================================================================
