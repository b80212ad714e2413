------------------------ MODULE InteractivePanelProofs ------------------------
(***************************************************************************)
(* Proofs about InteractivePanel, for any set of channels and any bounds.  *)
(***************************************************************************)
EXTENDS InteractivePanel, TLAPS

Seeding == {"seed", "seed_read", "seed_store"}

\* The update of channel c that is in the library's snapshot and not yet in the
\* session: there is one such channel at most, for the loop handles one event at a time.
Behind(c) == at = "store" /\ event.ch = c

\* Why the rows follow: what seeding has read, and after it what the session
\* holds, lags behind by the one event whose store is still to come.
Following ==
  /\ at = "store" => st[event.ch] = event.ver
  /\ pc \notin Seeding => \A c \in Channels : states[c] = st[c] \/ Behind(c)
  /\ pc \in {"seed_read", "seed_store"} =>
       \A c \in Channels \ todo : main_rows[c] = st[c] \/ Behind(c)
  /\ pc = "seed" => todo = Channels
  /\ pc = "seed_store" => todo = {}

\* Where the prompt may be marked as shown: past the loop of repl() only after the end
\* of the input.
PromptPlace ==
  /\ prompt_shown => pc \in {"getline", "taken"} \/ eof
  /\ eof => pc \in {"quit", "disconnect", "join", "leave", "exited"}
  /\ PromptIsLast

\* The loop is gone before run_interactive() returns.
LoopJoined ==
  /\ pc \in {"leave", "exited"} => loop = "exited"
  /\ session = "gone" => pc = "exited"

-----------------------------------------------------------------------------
(* Types and mutexes *)

LEMMA TypeInit == Init => TypeOK
<1> SUFFICES ASSUME Init PROVE TypeOK
  OBVIOUS
<1>1. st \in Rows /\ states \in Rows
  BY SMT DEF Init, Rows
<1>2. MutexOK
  BY DEF Init, MutexOK
<1>3. event \in [ch : Channels, ver : Nat]
  BY SMT DEF Init
<1>4. entered \in 0..typed /\ typed \in 0..MaxLines
  BY PanelAssumption, SMT DEF Init
<1>5. main_rows \in Rows /\ loop_rows \in Rows /\ shows \in Rows
  BY SMT DEF Init, Rows
<1>6. QED
  BY <1>1, <1>2, <1>3, <1>4, <1>5 DEF Init, TypeOK

LEMMA TypeStep == TypeOK /\ [Next]_vars => TypeOK'
<1> SUFFICES ASSUME TypeOK, [Next]_vars PROVE TypeOK'
  OBVIOUS
<1> USE PanelAssumption DEF TypeOK, MutexOK, Rows, Goto, sessionVars, mainVars, loopVars,
                            inputVars, screenVars
<1>1. CASE Seed
  BY <1>1 DEF Seed
<1>2. CASE SeedRead
  BY <1>2 DEF SeedRead
<1>3. CASE SeedStore
  BY <1>3 DEF SeedStore
<1>4. CASE Message
  BY <1>4 DEF Message
<1>5. CASE Panel
  BY <1>5 DEF Panel
<1>6. CASE PanelOut
  BY <1>6 DEF PanelOut
<1>7. CASE Prompt
  BY <1>7 DEF Prompt
<1>8. CASE Getline
  <2>1. /\ pc' \in {"taken", "quit"} /\ pc = "getline" /\ eof' \in BOOLEAN
        /\ typed' = typed
        /\ UNCHANGED <<st, lib_mtx, sessionVars, todo, main_rows, loopVars, screenVars>>
    BY <1>8 DEF Getline
  <2>2. entered \in 0..typed /\ typed \in Nat
    OBVIOUS
  <2>3. (entered > 0 /\ entered' = entered - 1) \/ entered' = entered
    BY <1>8 DEF Getline
  <2>4. entered' \in 0..typed'
    BY <2>1, <2>2, <2>3
  <2>5. QED
    BY <2>1, <2>4
<1>9. CASE Take
  BY <1>9 DEF Take
<1>10. CASE Process
  BY <1>10 DEF Process
<1>11. CASE Quit
  BY <1>11 DEF Quit
<1>12. CASE Disconnect
  BY <1>12 DEF Disconnect
<1>13. CASE Join
  BY <1>13 DEF Join
<1>14. CASE Leave
  BY <1>14 DEF Leave
<1>15. ASSUME NEW c \in Channels, Receive(c) PROVE TypeOK'
  BY <1>15 DEF Receive
<1>16. CASE Update
  BY <1>16 DEF Update
<1>17. CASE Store
  BY <1>17 DEF Store
<1>18. CASE Copy
  BY <1>18 DEF Copy
<1>19. CASE Draw
  <2>1. shows' \in {shows, loop_rows} /\ torn' \in {torn, TRUE} /\ at' = "idle"
    BY <1>19 DEF Draw
  <2>2. UNCHANGED <<st, lib_mtx, sessionVars, mainVars, loop, stopping, event, loop_rows,
                    inputVars, covered, echoed>>
    BY <1>19 DEF Draw
  <2>3. at = "draw"
    BY <1>19 DEF Draw
  <2>4. shows' \in [Channels -> Nat] /\ torn' \in BOOLEAN
    BY <2>1
  <2>5. MutexOK'
    BY <2>1, <2>2, <2>3
  <2> HIDE DEF MutexOK
  <2>6. QED
    BY <2>1, <2>2, <2>4, <2>5
<1>20. CASE RunStop
  BY <1>20 DEF RunStop
<1>21. CASE Enter
  BY <1>21 DEF Enter
<1>22. CASE UNCHANGED vars
  BY <1>22 DEF vars
<1>23. QED
  BY <1>1, <1>2, <1>3, <1>4, <1>5, <1>6, <1>7, <1>8, <1>9, <1>10, <1>11, <1>12, <1>13, <1>14,
     <1>15, <1>16, <1>17, <1>18, <1>19, <1>20, <1>21, <1>22
  DEF Next, Main, Loop, Exited

\* Every reachable state of the panel is well typed, and each of the three mutexes
\* is held across steps only at the positions MutexOK names.
THEOREM TypeCorrect == Spec => []TypeOK
<1>1. QED
  BY TypeInit, TypeStep, PTL DEF Spec

-----------------------------------------------------------------------------
(* The three mutexes *)

\* Where the main thread stands before a mutex that the loop holds, or before the join.
MainWaits ==
  \/ pc \in {"seed", "panel"} /\ state_mtx = "loop"
  \/ pc \in {"seed_read", "prompt", "process"} /\ lib_mtx = "loop"
  \/ pc \in {"message", "panel_out", "taken", "quit"} /\ out_mtx = "loop"
  \/ pc = "join" /\ loop = "running"

\* Where the loop stands before a mutex that the main thread holds.
LoopWaits ==
  \/ at = "idle" /\ lib_mtx = "main"
  \/ at \in {"store", "copy"} /\ state_mtx = "main"
  \/ at = "draw" /\ out_mtx = "main"

\* No thread waits for itself: where it takes a mutex it does not hold it already.
TakesOnce ==
  /\ pc \in {"seed", "panel"} => state_mtx # "main"
  /\ pc \in {"seed_read", "prompt", "process"} => lib_mtx # "main"
  /\ pc \in {"message", "panel_out", "taken", "quit"} => out_mtx # "main"
  /\ at = "idle" => lib_mtx # "loop"
  /\ at \in {"store", "copy"} => state_mtx # "loop"
  /\ at = "draw" => out_mtx # "loop"

\* No thread ever waits for a thread that waits, itself included: the library's mutex
\* is taken inside the session's two, and the loop, which takes all three, holds none of
\* them when it takes the next (seed_states() and print_panel() in interactive.cpp).
NoCircularWait == TakesOnce /\ ~(MainWaits /\ LoopWaits)

\* The two threads of the panel never wait for each other, neither over the session's
\* and the library's mutexes nor over the join of the loop.
THEOREM NoWaitCloses == Spec => []NoCircularWait
<1>1. ASSUME TypeOK PROVE TakesOnce
  BY <1>1 DEF TypeOK, MutexOK, TakesOnce
<1>2. ASSUME TypeOK, LoopWaits PROVE ~MainWaits
  <2>1. at # "update" /\ lib_mtx = "free" /\ pc \in {"seed_read", "seed_store", "prompt"}
    BY <1>2 DEF TypeOK, MutexOK, LoopWaits
  <2>2. QED
    BY <2>1 DEF MainWaits
<1>3. TypeOK => NoCircularWait
  BY <1>1, <1>2 DEF NoCircularWait
<1>4. QED
  BY <1>3, TypeCorrect, PTL

-----------------------------------------------------------------------------
(* The end of the session *)

LEMMA JoinedStep == TypeOK /\ LoopJoined /\ [Next]_vars => LoopJoined'
<1> SUFFICES ASSUME TypeOK, LoopJoined, [Next]_vars PROVE LoopJoined'
  OBVIOUS
<1> USE DEF LoopJoined, TypeOK, Goto, sessionVars, mainVars, loopVars, inputVars, screenVars
<1>1. CASE Seed
  BY <1>1 DEF Seed
<1>2. CASE SeedRead
  BY <1>2 DEF SeedRead
<1>3. CASE SeedStore
  BY <1>3 DEF SeedStore
<1>4. CASE Message
  BY <1>4 DEF Message
<1>5. CASE Panel
  BY <1>5 DEF Panel
<1>6. CASE PanelOut
  BY <1>6 DEF PanelOut
<1>7. CASE Prompt
  BY <1>7 DEF Prompt
<1>8. CASE Getline
  BY <1>8 DEF Getline
<1>9. CASE Take
  BY <1>9 DEF Take
<1>10. CASE Process
  BY <1>10 DEF Process
<1>11. CASE Quit
  BY <1>11 DEF Quit
<1>12. CASE Disconnect
  BY <1>12 DEF Disconnect
<1>13. CASE Join
  BY <1>13 DEF Join
<1>14. CASE Leave
  BY <1>14 DEF Leave
<1>15. ASSUME NEW c \in Channels, Receive(c) PROVE LoopJoined'
  BY <1>15 DEF Receive
<1>16. CASE Update
  BY <1>16 DEF Update
<1>17. CASE Store
  BY <1>17 DEF Store
<1>18. CASE Copy
  BY <1>18 DEF Copy
<1>19. CASE Draw
  BY <1>19 DEF Draw
<1>20. CASE RunStop
  BY <1>20 DEF RunStop
<1>21. CASE Enter
  BY <1>21 DEF Enter
<1>22. CASE UNCHANGED vars
  BY <1>22 DEF vars
<1>23. QED
  BY <1>1, <1>2, <1>3, <1>4, <1>5, <1>6, <1>7, <1>8, <1>9, <1>10, <1>11, <1>12, <1>13, <1>14,
     <1>15, <1>16, <1>17, <1>18, <1>19, <1>20, <1>21, <1>22
  DEF Next, Main, Loop, Exited

\* The callback never reaches a destroyed session: run_interactive() returns only
\* after disconnect() has joined the loop.
THEOREM SessionIsAlive == Spec => []SessionOutlivesLoop
<1>1. Init => LoopJoined
  BY DEF Init, LoopJoined
<1>2. TypeOK /\ LoopJoined => SessionOutlivesLoop
  BY DEF TypeOK, LoopJoined, SessionOutlivesLoop
<1>3. QED
  BY <1>1, <1>2, JoinedStep, TypeCorrect, PTL DEF Spec

-----------------------------------------------------------------------------
(* The prompt *)

LEMMA PromptStep == TypeOK /\ PromptPlace /\ [Next]_vars => PromptPlace'
<1> SUFFICES ASSUME TypeOK, PromptPlace, [Next]_vars PROVE PromptPlace'
  OBVIOUS
<1> USE DEF PromptPlace, PromptIsLast, TypeOK, Goto, sessionVars, mainVars, loopVars,
           inputVars, screenVars
<1>1. CASE Seed
  BY <1>1 DEF Seed
<1>2. CASE SeedRead
  BY <1>2 DEF SeedRead
<1>3. CASE SeedStore
  BY <1>3 DEF SeedStore
<1>4. CASE Message
  BY <1>4 DEF Message
<1>5. CASE Panel
  BY <1>5 DEF Panel
<1>6. CASE PanelOut
  BY <1>6 DEF PanelOut
<1>7. CASE Prompt
  BY <1>7 DEF Prompt
<1>8. CASE Getline
  BY <1>8 DEF Getline
<1>9. CASE Take
  BY <1>9 DEF Take
<1>10. CASE Process
  BY <1>10 DEF Process
<1>11. CASE Quit
  BY <1>11 DEF Quit
<1>12. CASE Disconnect
  BY <1>12 DEF Disconnect
<1>13. CASE Join
  BY <1>13 DEF Join
<1>14. CASE Leave
  BY <1>14 DEF Leave
<1>15. ASSUME NEW c \in Channels, Receive(c) PROVE PromptPlace'
  BY <1>15 DEF Receive
<1>16. CASE Update
  BY <1>16 DEF Update
<1>17. CASE Store
  BY <1>17 DEF Store
<1>18. CASE Copy
  BY <1>18 DEF Copy
<1>19. CASE Draw
  BY <1>19 DEF Draw
<1>20. CASE RunStop
  BY <1>20 DEF RunStop
<1>21. CASE Enter
  BY <1>21 DEF Enter
<1>22. CASE UNCHANGED vars
  BY <1>22 DEF vars
<1>23. QED
  BY <1>1, <1>2, <1>3, <1>4, <1>5, <1>6, <1>7, <1>8, <1>9, <1>10, <1>11, <1>12, <1>13, <1>14,
     <1>15, <1>16, <1>17, <1>18, <1>19, <1>20, <1>21, <1>22
  DEF Next, Main, Loop, Exited

\* Whatever lines the user types and whenever updates come, until the input ends the
\* program prints nothing below a prompt that counts as shown, and repaints miss the
\* panel's rows only after an Enter.  After the end of the input (Ctrl-D) neither holds.
THEOREM PromptStaysLast == Spec => []PromptIsLast
<1>1. Init => PromptPlace
  BY DEF Init, PromptPlace, PromptIsLast
<1>2. PromptPlace => PromptIsLast
  BY DEF PromptPlace
<1>3. QED
  BY <1>1, <1>2, PromptStep, TypeCorrect, PTL DEF Spec

-----------------------------------------------------------------------------
(* The rows *)

LEMMA FollowingStep == TypeOK /\ Following /\ [Next]_vars => Following'
<1> SUFFICES ASSUME TypeOK, Following, [Next]_vars PROVE Following'
  OBVIOUS
<1> USE DEF Following, Behind, Seeding, TypeOK, MutexOK, Rows, Goto, sessionVars,
           mainVars, loopVars, inputVars, screenVars
<1>1. CASE Seed
  BY <1>1 DEF Seed
<1>2. CASE SeedRead
  BY <1>2 DEF SeedRead
<1>3. CASE SeedStore
  BY <1>3 DEF SeedStore
<1>4. CASE Message
  BY <1>4 DEF Message
<1>5. CASE Panel
  BY <1>5 DEF Panel
<1>6. CASE PanelOut
  BY <1>6 DEF PanelOut
<1>7. CASE Prompt
  BY <1>7 DEF Prompt
<1>8. CASE Getline
  BY <1>8 DEF Getline
<1>9. CASE Take
  BY <1>9 DEF Take
<1>10. CASE Process
  BY <1>10 DEF Process
<1>11. CASE Quit
  BY <1>11 DEF Quit
<1>12. CASE Disconnect
  BY <1>12 DEF Disconnect
<1>13. CASE Join
  BY <1>13 DEF Join
<1>14. CASE Leave
  BY <1>14 DEF Leave
<1>15. ASSUME NEW c \in Channels, Receive(c) PROVE Following'
  BY <1>15 DEF Receive
<1>16. CASE Update
  BY <1>16 DEF Update
<1>17. CASE Store
  BY <1>17 DEF Store
<1>18. CASE Copy
  BY <1>18 DEF Copy
<1>19. CASE Draw
  BY <1>19 DEF Draw
<1>20. CASE RunStop
  BY <1>20 DEF RunStop
<1>21. CASE Enter
  BY <1>21 DEF Enter
<1>22. CASE UNCHANGED vars
  BY <1>22 DEF vars
<1>23. QED
  BY <1>1, <1>2, <1>3, <1>4, <1>5, <1>6, <1>7, <1>8, <1>9, <1>10, <1>11, <1>12, <1>13, <1>14,
     <1>15, <1>16, <1>17, <1>18, <1>19, <1>20, <1>21, <1>22
  DEF Next, Main, Loop, Exited

\* Seeding and callbacks, in whatever order they interleave, leave the session with
\* each channel's latest state.
THEOREM RowsFollow == Spec => []SessionFollowsChannel
<1>1. Init => Following
  BY DEF Init, Following, Seeding
<1>2. TypeOK /\ Following => SessionFollowsChannel
  BY DEF TypeOK, Rows, Following, Behind, Seeding, SessionFollowsChannel
<1>3. QED
  BY <1>1, <1>2, FollowingStep, TypeCorrect, PTL DEF Spec
===============================================================================
