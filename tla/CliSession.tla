------------------------------ MODULE CliSession ------------------------------
(***************************************************************************)
(* One invocation of the command-line tool that talks to a device          *)
(* (src/bin/cli/commands.cpp): run_action, run_state and run_watch.  The   *)
(* main thread connects, acts or prints, and disconnects; the library's    *)
(* loop thread runs the state callback, which reaches locals of the main   *)
(* thread's frame and prints to the same stream.                           *)
(*                                                                         *)
(* The library is used through what Lifecycle and Channel establish of it. *)
(* A channel's state is the number of updates it has had since discovery.  *)
(***************************************************************************)
EXTENDS Integers, Sequences

CONSTANTS
  Channels,     \* the channels, as numbers
  Target,       \* the channel an action is for
  MaxUpdates    \* bound: how many updates a channel gets

ASSUME CliAssumption ==
  /\ Channels \subseteq Nat /\ Target \in Channels
  /\ MaxUpdates \in Nat

VARIABLES
  command, wanted,              \* the sub-command, the channels it is about
  pc, after, code,              \* main thread: position, what follows a shutdown, exit code
  updated, expired, todo, line, \* its locals
  locals,                       \* are the locals the callback reaches still alive
  handling, stop_req,           \* signal handlers installed, g_stop
  running, loop, queue,         \* Impl::running, the loop thread, its tasks
  connected, discovered, st,    \* link, discovery done, updates per channel
  at, event,                    \* where the loop is in on_entity_state
  device, confirm,              \* the command at the device; the update that reports its effect
  lines                         \* what was printed, and by whom

mainVars == <<pc, after, code, updated, expired, todo, line, locals, handling>>
loopVars == <<running, loop, queue>>
deviceVars == <<connected, discovered, st, at, event, device, confirm>>
vars == <<command, wanted, mainVars, stop_req, loopVars, deviceVars, lines>>

Commands == {"action", "state", "watch"}

Init ==
  /\ command \in Commands
  /\ wanted \in IF command = "action" THEN {{Target}}
                ELSE {Channels} \cup {{c} : c \in Channels}
  /\ pc = "connect" /\ after = "unwind" /\ code = 0
  /\ updated = FALSE /\ expired = FALSE /\ todo = {} /\ line = [ch |-> Target, ver |-> 0]
  /\ locals = "alive" /\ handling = FALSE /\ stop_req = FALSE
  /\ running = FALSE /\ loop = "off" /\ queue = <<>>
  /\ connected = FALSE /\ discovered = FALSE /\ st = [c \in Channels |-> 0]
  /\ at = "idle" /\ event = [ch |-> Target, ver |-> 0]
  /\ device = "none" /\ confirm = 0 /\ lines = <<>>

Prints(by, l) == lines' = Append(lines, [by |-> by, ch |-> l.ch, ver |-> l.ver])

-----------------------------------------------------------------------------
(* The main thread *)

\* dev.connect(): the loop is started; it returns once discovery is done, or
\* throws after it has stopped the loop again.
Connect ==
  /\ pc = "connect"
  /\ pc' = "connecting" /\ running' = TRUE /\ loop' = "running"
  /\ UNCHANGED <<command, wanted, after, code, updated, expired, todo, line, locals,
                 handling, stop_req, queue, deviceVars, lines>>

ConnectReturns ==
  /\ pc = "connecting" /\ discovered
  /\ pc' = "persist"
  /\ UNCHANGED <<command, wanted, after, code, updated, expired, todo, line, locals,
                 handling, stop_req, loopVars, deviceVars, lines>>

\* Enter shutdown_worker(), in connect(), disconnect() or the destructor.
BeginShutdown(next) == pc' = "shutdown" /\ after' = next

\* The outer handler's report_connect_error() turns the exception into 3, 4 or 5.
ConnectThrows ==
  /\ pc = "connecting"
  /\ BeginShutdown("unwind")
  /\ code' \in 3..5
  /\ UNCHANGED <<command, wanted, updated, expired, todo, line, locals, handling,
                 stop_req, loopVars, deviceVars, lines>>

\* Mutant: the channel filter of watch is not applied to the snapshots.
PersistAllChannels ==
  /\ pc = "persist"
  /\ IF command = "action" THEN pc' = "act" /\ UNCHANGED todo
     ELSE pc' = "snapshot" /\ todo' = Channels
  /\ UNCHANGED <<command, wanted, after, code, updated, expired, line, locals, handling,
                 stop_req, loopVars, deviceVars, lines>>

\* persist_connection(), which catches what save() throws.
Persist ==
  /\ pc = "persist"
  /\ IF command = "action" THEN pc' = "act" /\ UNCHANGED todo
     ELSE pc' = "snapshot" /\ todo' = wanted
  /\ UNCHANGED <<command, wanted, after, code, updated, expired, line, locals, handling,
                 stop_req, loopVars, deviceVars, lines>>

\* action(dev, ch) throws and the inner handler returns 2, or the command is
\* posted onto the loop.
Act ==
  /\ pc = "act"
  /\ \/ pc' = "unwind" /\ code' = 2 /\ UNCHANGED queue
     \/ pc' = "settle" /\ queue' = Append(queue, "text") /\ UNCHANGED code
  /\ UNCHANGED <<command, wanted, after, updated, expired, todo, line, locals, handling,
                 stop_req, running, loop, deviceVars, lines>>

\* cv.wait_for() on `updated`: it ends on an update or at the deadline.
Settle ==
  /\ pc = "settle"
  /\ expired' = ~updated
  /\ pc' = "report"
  /\ UNCHANGED <<command, wanted, after, code, updated, todo, line, locals, handling,
                 stop_req, loopVars, deviceVars, lines>>

\* dev.state(ch), out.emit(): in run_action nobody else prints.
Report ==
  /\ pc = "report"
  /\ Prints("main", [ch |-> Target, ver |-> st[Target]])
  /\ BeginShutdown("unwind")
  /\ UNCHANGED <<command, wanted, code, updated, expired, todo, line, locals, handling,
                 stop_req, loopVars, deviceVars>>

\* Read the next channel's snapshot; after the last one run_watch installs the
\* signal handlers and polls, and run_state disconnects.
Snapshot ==
  /\ pc = "snapshot"
  /\ \/ /\ \E c \in todo :
             (\A d \in todo : c <= d) /\ line' = [ch |-> c, ver |-> st[c]]
        /\ pc' = "print" /\ UNCHANGED <<after, handling>>
     \/ /\ todo = {} /\ command = "watch"
        /\ pc' = "watch" /\ handling' = TRUE /\ UNCHANGED <<after, line>>
     \/ /\ todo = {} /\ command = "state"
        /\ BeginShutdown("unwind") /\ UNCHANGED <<handling, line>>
  /\ UNCHANGED <<command, wanted, code, updated, expired, todo, locals, stop_req, loopVars,
                 deviceVars, lines>>

\* run_state prints after its last read; nobody else prints then, so printing
\* each snapshot as it is read comes to the same.
PrintSnapshot ==
  /\ pc = "print"
  /\ Prints("main", line)
  /\ todo' = todo \ {line.ch}
  /\ pc' = "snapshot"
  /\ UNCHANGED <<command, wanted, after, code, updated, expired, line, locals, handling,
                 stop_req, loopVars, deviceVars>>

\* Mutant: only the signal ends the polling loop.
StopWatchingOnSignal ==
  /\ pc = "watch" /\ stop_req
  /\ BeginShutdown("unwind")
  /\ UNCHANGED <<command, wanted, code, updated, expired, todo, line, locals, handling,
                 stop_req, loopVars, deviceVars, lines>>

\* The polling loop ends on a signal or when the link is down.
StopWatching ==
  /\ pc = "watch" /\ (stop_req \/ ~connected)
  /\ BeginShutdown("unwind")
  /\ UNCHANGED <<command, wanted, code, updated, expired, todo, line, locals, handling,
                 stop_req, loopVars, deviceVars, lines>>

\* Mutant: the stop overtakes what was posted before it.
ShutdownAtOnce ==
  /\ pc = "shutdown"
  /\ \/ ~running /\ pc' = after /\ UNCHANGED queue
     \/ running /\ pc' = "join" /\ queue' = <<"stop">> \o queue
  /\ UNCHANGED <<command, wanted, after, code, updated, expired, todo, line, locals,
                 handling, stop_req, running, loop, deviceVars, lines>>

\* shutdown_worker(): nothing if not running, else post the stop and join.
Shutdown ==
  /\ pc = "shutdown"
  /\ \/ ~running /\ pc' = after /\ UNCHANGED queue
     \/ running /\ pc' = "join" /\ queue' = Append(queue, "stop")
  /\ UNCHANGED <<command, wanted, after, code, updated, expired, todo, line, locals,
                 handling, stop_req, running, loop, deviceVars, lines>>

Join ==
  /\ pc = "join" /\ loop = "exited"
  /\ loop' = "off" /\ running' = FALSE /\ connected' = FALSE
  /\ pc' = after
  /\ UNCHANGED <<command, wanted, after, code, updated, expired, todo, line, locals,
                 handling, stop_req, queue, discovered, st, at, event, device, confirm, lines>>

\* Mutant: mtx, cv and updated declared after dev, so destroyed before it.
UnwindLocalsFirst ==
  /\ pc = "unwind"
  /\ BeginShutdown("locals")
  /\ locals' = "gone"
  /\ UNCHANGED <<command, wanted, code, updated, expired, todo, line, handling, stop_req,
                 loopVars, deviceVars, lines>>

\* The scope ends: dev was declared last, so its destructor runs first.
Unwind ==
  /\ pc = "unwind"
  /\ BeginShutdown("locals")
  /\ UNCHANGED <<command, wanted, code, updated, expired, todo, line, locals, handling,
                 stop_req, loopVars, deviceVars, lines>>

DropLocals ==
  /\ pc = "locals"
  /\ locals' = "gone"
  /\ pc' = "exited"
  /\ UNCHANGED <<command, wanted, after, code, updated, expired, todo, line, handling,
                 stop_req, loopVars, deviceVars, lines>>

Main ==
  \/ Connect \/ ConnectReturns \/ ConnectThrows \/ Persist \/ Act \/ Settle \/ Report
  \/ Snapshot \/ PrintSnapshot \/ StopWatching \/ Shutdown \/ Join \/ Unwind \/ DropLocals

-----------------------------------------------------------------------------
(* The loop thread, the device and the user *)

Idle == loop = "running" /\ at = "idle"

\* t->set(cmd) reaches the device only over a link.
RunText ==
  /\ Idle /\ queue # <<>> /\ Head(queue) = "text"
  /\ queue' = Tail(queue)
  /\ device' = IF connected THEN "received" ELSE "lost"
  /\ UNCHANGED <<command, wanted, mainVars, stop_req, running, loop, connected, discovered,
                 st, at, event, confirm, lines>>

RunStop ==
  /\ Idle /\ queue # <<>> /\ Head(queue) = "stop"
  /\ queue' = Tail(queue) /\ loop' = "exited" /\ connected' = FALSE
  /\ UNCHANGED <<command, wanted, mainVars, stop_req, running, discovered, st, at, event,
                 device, confirm, lines>>

\* The handshake, the list and discovery, which connect() waits for.
LinkUp ==
  /\ Idle /\ pc = "connecting" /\ ~connected /\ ~discovered
  /\ connected' = TRUE
  /\ UNCHANGED <<command, wanted, mainVars, stop_req, loopVars, discovered, st, at, event,
                 device, confirm, lines>>

Discover ==
  /\ Idle /\ pc = "connecting" /\ connected /\ ~discovered
  /\ discovered' = TRUE
  /\ UNCHANGED <<command, wanted, mainVars, stop_req, loopVars, connected, st, at, event,
                 device, confirm, lines>>

LinkDown ==
  /\ Idle /\ connected
  /\ connected' = FALSE
  /\ UNCHANGED <<command, wanted, mainVars, stop_req, loopVars, discovered, st, at, event,
                 device, confirm, lines>>

\* A state update of channel c is taken into the snapshot; on the target it may
\* be the one that shows the command's effect, or one that has nothing to do with it.
Update(c) ==
  /\ Idle /\ connected /\ discovered /\ st[c] < MaxUpdates
  /\ st' = [st EXCEPT ![c] = @ + 1]
  /\ at' = "call" /\ event' = [ch |-> c, ver |-> st'[c]]
  /\ \/ UNCHANGED <<device, confirm>>
     \/ c = Target /\ device = "received" /\ device' = "applied" /\ confirm' = st'[c]
  /\ UNCHANGED <<command, wanted, mainVars, stop_req, loopVars, connected, discovered, lines>>

\* Mutant: run_watch registers its callback after the initial snapshots.
HearsLate(c) == command # "state" /\ c \in wanted /\ (command = "watch" => handling)

\* Does the callback take this channel?  run_state registers none.
Hears(c) == command # "state" /\ c \in wanted

\* The callback: run_action's marks `updated` and notifies, run_watch's prints.
Callback ==
  /\ loop = "running" /\ at = "call"
  /\ at' = "idle"
  /\ updated' = (updated \/ (command = "action" /\ Hears(event.ch)))
  /\ IF command = "watch" /\ Hears(event.ch) THEN Prints("loop", event) ELSE UNCHANGED lines
  /\ UNCHANGED <<command, wanted, pc, after, code, expired, todo, line, locals, handling,
                 stop_req, loopVars, connected, discovered, st, event, device, confirm>>

\* SIGINT: run_watch's handler, once installed; the default kills the process.
Interrupt ==
  /\ pc # "exited"
  /\ IF handling
     THEN stop_req' = TRUE /\ UNCHANGED <<pc, code, loop>>
     ELSE pc' = "exited" /\ code' = 130 /\ loop' = "off" /\ UNCHANGED stop_req
  /\ UNCHANGED <<command, wanted, after, updated, expired, todo, line, locals, handling,
                 running, queue, deviceVars, lines>>

Exited == pc = "exited" /\ UNCHANGED vars

Next ==
  \/ Main \/ RunText \/ RunStop \/ LinkUp \/ Discover \/ LinkDown \/ Callback
  \/ (\E c \in Channels : Update(c)) \/ Interrupt \/ Exited

Spec == Init /\ [][Next]_vars

\* Every wait of the main thread is bounded; the loop finishes a callback and,
\* its queue being first-in first-out, comes to every task.
FairSpec == Spec /\ WF_vars(Main) /\ WF_vars(Callback) /\ SF_vars(RunText \/ RunStop)

-----------------------------------------------------------------------------
(* Properties *)

Lines == [by : {"main", "loop"}, ch : Channels, ver : Nat]

MainTypeOK ==
  /\ command \in Commands /\ wanted \subseteq Channels /\ todo \subseteq wanted
  /\ pc \in {"connect", "connecting", "persist", "act", "settle", "report", "snapshot", "print",
             "watch", "shutdown", "join", "unwind", "locals", "exited"}
  /\ after \in {"unwind", "locals"} /\ code \in {0, 2, 3, 4, 5, 130}
  /\ updated \in BOOLEAN /\ expired \in BOOLEAN /\ locals \in {"alive", "gone"}
  /\ handling \in BOOLEAN /\ stop_req \in BOOLEAN
  /\ line \in [ch : Channels, ver : Nat]

LoopTypeOK ==
  /\ running \in BOOLEAN /\ loop \in {"off", "running", "exited"}
  /\ connected \in BOOLEAN /\ discovered \in BOOLEAN /\ st \in [Channels -> Nat]
  /\ at \in {"idle", "call"} /\ event \in [ch : Channels, ver : Nat]
  /\ device \in {"none", "received", "lost", "applied"} /\ confirm \in Nat

\* The values each variable can take.
TypeOK ==
  /\ MainTypeOK /\ LoopTypeOK
  /\ queue \in Seq({"text", "stop"})
  /\ lines \in Seq(Lines)

\* The callback captures mtx, cv and updated by reference: on every way out of
\* the frame, error returns included, the loop is gone before they are.
CallbackTargetsAlive == loop = "running" => locals = "alive"

\* The exit code tells what became of the command: 0 means that the loop handed
\* it to the client before it stopped, any error code that nothing was sent.
ExitTellsDelivery ==
  pc = "exited" /\ command = "action" =>
    /\ code = 0 => device # "none"
    /\ code \in {2, 3, 4, 5} => device = "none"

\* watch loses no update between the snapshot it prints and the stream: what was
\* printed for a channel goes from the snapshot to the current state without a gap.
WatchMissesNothing ==
  pc = "watch" /\ at = "idle" =>
    \A c \in wanted : \E i \in DOMAIN lines :
      /\ lines[i].by = "main" /\ lines[i].ch = c
      /\ \A v \in lines[i].ver .. st[c] :
           \E j \in DOMAIN lines : lines[j].ch = c /\ lines[j].ver = v

\* The tool ends: an action and a state query always, a watch on a signal or
\* when the link is lost.
Finishes ==
  (command # "watch" \/ stop_req \/ (pc = "watch" /\ ~connected)) ~> pc = "exited"

\* An action that did not time out prints a state that reflects its command.
PrintedIsConfirmed ==
  pc = "exited" /\ command = "action" /\ code = 0 /\ ~expired =>
    confirm # 0 /\ lines[1].ver >= confirm
=============================================================================
