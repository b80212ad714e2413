--------------------------- MODULE InteractivePanel ---------------------------
(***************************************************************************)
(* The interactive panel (src/bin/cli/interactive.cpp) from the return of  *)
(* connect() on: the main thread's read-eval-print loop and the library's  *)
(* loop thread, which share the session's state rows, the terminal and     *)
(* three mutexes: the session's state_mtx_ and out_mtx_ and the library's  *)
(* own state_mtx.                                                          *)
(*                                                                         *)
(* A channel's state is the number of updates it has had.  Of the terminal *)
(* the model keeps which state each row of the panel shows, and whether    *)
(* anything was printed or echoed below the prompt since it was drawn.     *)
(***************************************************************************)
EXTENDS Naturals

CONSTANTS
  Channels,     \* the channels, one row of the panel each
  MaxUpdates,   \* bound: how many updates a channel gets
  MaxLines      \* bound: how many lines the user enters

ASSUME PanelAssumption == MaxUpdates \in Nat /\ MaxLines \in Nat

VARIABLES
  st, lib_mtx,                  \* Impl::states, Impl::state_mtx
  states, state_mtx,            \* Session::states_, Session::state_mtx_
  out_mtx, prompt_shown,        \* Session::out_mtx_, Session::prompt_shown_
  session,                      \* is the Session object alive
  pc, todo, main_rows,          \* the main thread and its locals
  loop, stopping,               \* the loop thread; is its stop task posted
  at, event, loop_rows,         \* where it is in a state callback, its locals
  entered, typed, eof,          \* lines waiting in std::cin, entered so far; did it end
  shows, covered, echoed, torn  \* the terminal: rows, output below the prompt, damage

sessionVars == <<states, state_mtx, out_mtx, prompt_shown, session>>
mainVars == <<pc, todo, main_rows>>
loopVars == <<loop, stopping, at, event, loop_rows>>
inputVars == <<entered, typed, eof>>
screenVars == <<shows, covered, echoed, torn>>
vars == <<st, lib_mtx, sessionVars, mainVars, loopVars, inputVars, screenVars>>

Rows == [Channels -> Nat]

\* connect() has returned; states_ holds what callbacks during connect() left there.
Init ==
  /\ st \in [Channels -> 0..1]
  /\ states \in {f \in [Channels -> 0..1] : \A c \in Channels : f[c] <= st[c]}
  /\ lib_mtx = "free" /\ state_mtx = "free" /\ out_mtx = "free"
  /\ prompt_shown = FALSE /\ session = "alive"
  /\ pc = "seed" /\ todo = Channels /\ main_rows = [c \in Channels |-> 0]
  /\ loop = "running" /\ stopping = FALSE /\ at = "idle"
  /\ event \in {[ch |-> c, ver |-> 0] : c \in Channels}
  /\ loop_rows = [c \in Channels |-> 0]
  /\ entered = 0 /\ typed = 0 /\ eof = FALSE
  /\ shows = [c \in Channels |-> 0] /\ covered = FALSE /\ echoed = FALSE /\ torn = FALSE

Goto(label) == pc' = label

-----------------------------------------------------------------------------
(* The main thread: seed_states(), print_caps(), the loop of repl() *)

\* Mutant: the rows are seeded without the lock.
SeedUnlocked ==
  /\ pc = "seed"
  /\ Goto("seed_read")
  /\ UNCHANGED <<st, lib_mtx, sessionVars, todo, main_rows, loopVars, inputVars, screenVars>>

Seed ==
  /\ pc = "seed" /\ state_mtx = "free"
  /\ state_mtx' = "main"
  /\ Goto("seed_read")
  /\ UNCHANGED <<st, lib_mtx, states, out_mtx, prompt_shown, session, todo, main_rows, loopVars,
                 inputVars, screenVars>>

\* dev_.state() of one channel, under the library's mutex.
SeedRead ==
  /\ pc = "seed_read" /\ lib_mtx = "free"
  /\ \E c \in todo :
       /\ main_rows' = [main_rows EXCEPT ![c] = st[c]]
       /\ todo' = todo \ {c}
  /\ Goto(IF todo' = {} THEN "seed_store" ELSE "seed_read")
  /\ UNCHANGED <<st, lib_mtx, sessionVars, loopVars, inputVars, screenVars>>

SeedStore ==
  /\ pc = "seed_store"
  /\ states' = main_rows
  /\ state_mtx' = "free"
  /\ Goto("message")
  /\ UNCHANGED <<st, lib_mtx, out_mtx, prompt_shown, session, todo, main_rows, loopVars, inputVars,
                 screenVars>>

\* print_msg(): a line below whatever is on the terminal.
Message ==
  /\ pc = "message" /\ out_mtx = "free"
  /\ covered' = TRUE
  /\ Goto("panel")
  /\ UNCHANGED <<st, lib_mtx, sessionVars, todo, main_rows, loopVars, inputVars,
                 shows, echoed, torn>>

\* print_panel(): copy the rows, take the terminal, print them and the prompt,
\* which reads the capabilities under the library's mutex.
Panel ==
  /\ pc = "panel" /\ state_mtx = "free"
  /\ main_rows' = states
  /\ Goto("panel_out")
  /\ UNCHANGED <<st, lib_mtx, sessionVars, todo, loopVars, inputVars, screenVars>>

PanelOut ==
  /\ pc = "panel_out" /\ out_mtx = "free"
  /\ out_mtx' = "main"
  /\ Goto("prompt")
  /\ UNCHANGED <<st, lib_mtx, states, state_mtx, prompt_shown, session, todo, main_rows, loopVars,
                 inputVars, screenVars>>

\* Mutant: the terminal is kept while the user thinks.
PromptHolding ==
  /\ pc = "prompt" /\ lib_mtx = "free"
  /\ shows' = main_rows /\ covered' = FALSE /\ echoed' = FALSE /\ torn' = FALSE
  /\ prompt_shown' = TRUE
  /\ Goto("getline")
  /\ UNCHANGED <<st, lib_mtx, states, state_mtx, out_mtx, session, todo, main_rows, loopVars,
                 inputVars>>

Prompt ==
  /\ pc = "prompt" /\ lib_mtx = "free"
  /\ shows' = main_rows /\ covered' = FALSE /\ echoed' = FALSE /\ torn' = FALSE
  /\ prompt_shown' = TRUE /\ out_mtx' = "free"
  /\ Goto("getline")
  /\ UNCHANGED <<st, lib_mtx, states, state_mtx, session, todo, main_rows, loopVars, inputVars>>

\* std::getline: a line, or the end of the input (Ctrl-D), which leaves the loop with
\* the prompt still marked as shown.
Getline ==
  /\ pc = "getline"
  /\ \/ entered > 0 /\ entered' = entered - 1 /\ Goto("taken") /\ UNCHANGED eof
     \/ entered = 0 /\ eof' = TRUE /\ Goto("quit") /\ UNCHANGED entered
  /\ UNCHANGED <<st, lib_mtx, sessionVars, todo, main_rows, loopVars, typed, screenVars>>

\* Mutant: the prompt is not marked as gone.
TakeUnmarked ==
  /\ pc = "taken" /\ out_mtx = "free"
  /\ Goto("process")
  /\ UNCHANGED <<st, lib_mtx, sessionVars, todo, main_rows, loopVars, inputVars, screenVars>>

Take ==
  /\ pc = "taken" /\ out_mtx = "free"
  /\ prompt_shown' = FALSE
  /\ Goto("process")
  /\ UNCHANGED <<st, lib_mtx, states, state_mtx, out_mtx, session, todo, main_rows, loopVars,
                 inputVars, screenVars>>

\* process(): quit, or a line that prints something (an answer, an error, help,
\* the capabilities), or one that does not.  Commands read the capabilities.
Process ==
  /\ pc = "process" /\ lib_mtx = "free"
  /\ \E next \in {"quit", "message", "panel"} : Goto(next)
  /\ UNCHANGED <<st, lib_mtx, sessionVars, todo, main_rows, loopVars, inputVars, screenVars>>

\* The end of repl(): a line feed.
Quit ==
  /\ pc = "quit" /\ out_mtx = "free"
  /\ covered' = TRUE
  /\ Goto("disconnect")
  /\ UNCHANGED <<st, lib_mtx, sessionVars, todo, main_rows, loopVars, inputVars,
                 shows, echoed, torn>>

\* Mutant: the connection is left to the destructor of dev.
DisconnectForgotten ==
  /\ pc = "disconnect"
  /\ stopping' = TRUE
  /\ Goto("leave")
  /\ UNCHANGED <<st, lib_mtx, sessionVars, todo, main_rows, loop, at, event, loop_rows, inputVars,
                 screenVars>>

\* dev.disconnect() posts the stop and joins.
Disconnect ==
  /\ pc = "disconnect"
  /\ stopping' = TRUE
  /\ Goto("join")
  /\ UNCHANGED <<st, lib_mtx, sessionVars, todo, main_rows, loop, at, event, loop_rows, inputVars,
                 screenVars>>

Join ==
  /\ pc = "join" /\ loop = "exited"
  /\ Goto("leave")
  /\ UNCHANGED <<st, lib_mtx, sessionVars, todo, main_rows, loopVars, inputVars, screenVars>>

\* run_interactive() returns: the session, declared after dev, is destroyed before it.
Leave ==
  /\ pc = "leave"
  /\ session' = "gone"
  /\ Goto("exited")
  /\ UNCHANGED <<st, lib_mtx, states, state_mtx, out_mtx, prompt_shown, todo, main_rows, loopVars,
                 inputVars, screenVars>>

\* What the main thread does without the user: everything but Getline.
Main ==
  \/ Seed \/ SeedRead \/ SeedStore \/ Message \/ Panel \/ PanelOut \/ Prompt \/ Take
  \/ Process \/ Quit \/ Disconnect \/ Join \/ Leave

-----------------------------------------------------------------------------
(* The loop thread: a state update and the session's callback *)

\* on_entity_state() takes the library's mutex to update the snapshot.
Receive(c) ==
  /\ loop = "running" /\ at = "idle" /\ lib_mtx = "free" /\ st[c] < MaxUpdates
  /\ lib_mtx' = "loop"
  /\ event' = [ch |-> c, ver |-> st[c] + 1]
  /\ at' = "update"
  /\ UNCHANGED <<st, sessionVars, mainVars, loop, stopping, loop_rows, inputVars, screenVars>>

Update ==
  /\ at = "update"
  /\ st' = [st EXCEPT ![event.ch] = event.ver]
  /\ lib_mtx' = "free"
  /\ at' = "store"
  /\ UNCHANGED <<sessionVars, mainVars, loop, stopping, event, loop_rows, inputVars, screenVars>>

\* Mutant: on_state() repaints with the state lock still held.
StoreHolding ==
  /\ at = "store" /\ state_mtx = "free"
  /\ states' = [states EXCEPT ![event.ch] = event.ver]
  /\ state_mtx' = "loop"
  /\ at' = "copy"
  /\ UNCHANGED <<st, lib_mtx, out_mtx, prompt_shown, session, mainVars, loop, stopping,
                 event, loop_rows, inputVars, screenVars>>

\* on_state(): the new row, under the state lock.
Store ==
  /\ at = "store" /\ state_mtx = "free"
  /\ states' = [states EXCEPT ![event.ch] = event.ver]
  /\ at' = "copy"
  /\ UNCHANGED <<st, lib_mtx, state_mtx, out_mtx, prompt_shown, session, mainVars, loop, stopping,
                 event, loop_rows, inputVars, screenVars>>

\* repaint(): copy the rows under the state lock, then draw under the output lock.
Copy ==
  /\ at = "copy" /\ state_mtx = "free"
  /\ loop_rows' = states
  /\ at' = "draw"
  /\ UNCHANGED <<st, lib_mtx, sessionVars, mainVars, loop, stopping, event, inputVars, screenVars>>

\* The rows are found by going up from the cursor, so anything below the prompt
\* shifts them.
Draw ==
  /\ at = "draw" /\ out_mtx = "free"
  /\ IF ~prompt_shown THEN UNCHANGED <<shows, torn>>
     ELSE IF covered \/ echoed THEN torn' = TRUE /\ UNCHANGED shows
     ELSE shows' = loop_rows /\ UNCHANGED torn
  /\ at' = "idle"
  /\ UNCHANGED <<st, lib_mtx, sessionVars, mainVars, loop, stopping, event, loop_rows, inputVars,
                 covered, echoed>>

RunStop ==
  /\ loop = "running" /\ at = "idle" /\ stopping
  /\ loop' = "exited"
  /\ UNCHANGED <<st, lib_mtx, sessionVars, mainVars, stopping, at, event, loop_rows, inputVars,
                 screenVars>>

Loop == Update \/ Store \/ Copy \/ Draw

\* The user: a line may be entered at any time; the terminal echoes the line feed.
Enter ==
  /\ pc # "exited" /\ typed < MaxLines
  /\ typed' = typed + 1 /\ entered' = entered + 1
  /\ echoed' = TRUE
  /\ UNCHANGED <<eof, st, lib_mtx, sessionVars, mainVars, loopVars, shows, covered, torn>>

Exited == pc = "exited" /\ UNCHANGED vars

Next == Main \/ Getline \/ (\E c \in Channels : Receive(c)) \/ Loop \/ RunStop \/ Enter \/ Exited

Spec == Init /\ [][Next]_vars

\* Both threads are scheduled, and the stop task has its turn between updates.
\* Nothing is asked of the user or the device.
FairSpec == Spec /\ WF_vars(Main) /\ WF_vars(Loop) /\ SF_vars(RunStop)

-----------------------------------------------------------------------------
(* Properties *)

\* Where each mutex can be held across steps.
MutexOK ==
  /\ lib_mtx = IF at = "update" THEN "loop" ELSE "free"
  /\ state_mtx = IF pc \in {"seed_read", "seed_store"} THEN "main" ELSE "free"
  /\ out_mtx = IF pc = "prompt" THEN "main" ELSE "free"

\* The values each variable can take, and who holds a mutex where.
TypeOK ==
  /\ MutexOK
  /\ st \in Rows /\ states \in Rows /\ main_rows \in Rows /\ loop_rows \in Rows /\ shows \in Rows
  /\ prompt_shown \in BOOLEAN /\ session \in {"alive", "gone"}
  /\ pc \in {"seed", "seed_read", "seed_store", "message", "panel", "panel_out", "prompt",
             "getline", "taken", "process", "quit", "disconnect", "join", "leave", "exited"}
  /\ todo \subseteq Channels
  /\ loop \in {"running", "exited"} /\ stopping \in BOOLEAN
  /\ at \in {"idle", "update", "store", "copy", "draw"}
  /\ event \in [ch : Channels, ver : Nat]
  /\ entered \in 0..typed /\ typed \in 0..MaxLines /\ eof \in BOOLEAN
  /\ covered \in BOOLEAN /\ echoed \in BOOLEAN /\ torn \in BOOLEAN

\* Between callbacks the session's rows are the channels' states: seeding never
\* puts an older state over one that a callback has brought.
SessionFollowsChannel ==
  at = "idle" /\ pc \notin {"seed", "seed_read", "seed_store"} => states = st

\* As long as the input has not ended, nothing that the program prints is below a
\* prompt that counts as shown, the end of a session by `quit` included, and a repaint
\* misses the panel's rows only because the user has pressed Enter.  The end of the input
\* (Ctrl-D) is excepted, for there it does not hold: the prompt stays marked as shown,
\* repl() prints a line feed below it, and until disconnect() has joined the loop an
\* update is painted one row off.
PromptIsLast ==
  /\ prompt_shown /\ covered => eof
  /\ torn => echoed \/ eof

\* The callback reaches the session, which is destroyed before the switcher: by
\* then the loop is gone.
SessionOutlivesLoop == loop = "running" => session = "alive"

\* The three mutexes never block the main thread for good: each line entered is
\* followed by a new prompt or the end.
PromptReturns == pc \notin {"getline", "exited"} ~> pc \in {"getline", "exited"}

\* A state update gets through however long the user takes over a line.
UpdatesGetThrough == at # "idle" ~> at = "idle"

\* While the user looks at an intact panel and no update is under way, it shows
\* the state the session has.
PanelIsCurrent ==
  pc = "getline" /\ entered = 0 /\ at = "idle" /\ ~torn => shows = states
=============================================================================
