--------------------------- MODULE CliSessionProofs ---------------------------
(***************************************************************************)
(* Proofs about CliSession, for any channels and any number of updates.    *)
(***************************************************************************)
EXTENDS CliSession, TLAPS

\* Why the callback's targets are alive: the loop is off before connect() and after
\* the join, and the locals go only after the last shutdown.
FrameHeld ==
  /\ ~running => loop = "off"
  /\ pc = "locals" => loop # "running"
  /\ locals = "gone" => pc = "exited" /\ loop # "running"

\* How far the queue of an action has come.  The text is posted before the stop,
\* and the stop once only, for the next shutdown finds nothing running.
HasText == queue = <<"text">> \/ queue = <<"text", "stop">>
HasStop == queue = <<"stop">> \/ queue = <<"text", "stop">>
Before == {"connect", "connecting", "persist", "act"}
After == {"unwind", "locals", "exited"}

Posting ==
  /\ queue = <<>> \/ HasText \/ HasStop
  /\ pc \notin {"join", "exited"} => ~HasStop /\ loop # "exited"
  /\ loop = "exited" => queue = <<>>
  /\ ~running /\ pc # "exited" => queue = <<>>
  /\ pc \in Before => code = 0
  /\ pc = "act" => command = "action"
  /\ pc \in {"connecting", "persist", "act"} => running
  /\ pc \in Before \/ code \in {3, 4, 5} \/ command # "action" =>
       device = "none" /\ ~HasText
  /\ code = 2 => device = "none" /\ ~HasText
  /\ command = "action" /\ code = 0 /\ pc \notin Before => HasText \/ device # "none"
  /\ command = "action" /\ code = 0 /\ pc \in After => device # "none"

-----------------------------------------------------------------------------
(* Types *)

LEMMA TypeInit == Init => TypeOK
<1> SUFFICES ASSUME Init PROVE TypeOK
  OBVIOUS
<1> USE CliAssumption DEF Init
<1>1. MainTypeOK
  BY DEF MainTypeOK, Commands
<1>2. LoopTypeOK
  BY DEF LoopTypeOK
<1>3. queue \in Seq({"text", "stop"}) /\ lines \in Seq(Lines)
  OBVIOUS
<1>4. QED
  BY <1>1, <1>2, <1>3 DEF TypeOK

LEMMA MainTypeStep == TypeOK /\ MainTypeOK /\ [Next]_vars => MainTypeOK'
<1> SUFFICES ASSUME TypeOK, MainTypeOK, [Next]_vars PROVE MainTypeOK'
  OBVIOUS
<1> USE CliAssumption DEF MainTypeOK, LoopTypeOK, TypeOK, Commands, Idle, BeginShutdown,
       loopVars, deviceVars, mainVars, Prints
<1>1. CASE Connect
  BY <1>1 DEF Connect
<1>2. CASE ConnectReturns
  BY <1>2 DEF ConnectReturns
<1>3. CASE ConnectThrows
  BY <1>3 DEF ConnectThrows
<1>4. CASE Persist
  BY <1>4, ZenonT(30) DEF Persist
<1>5. CASE Act
  BY <1>5, SMTT(30) DEF Act
<1>6. CASE Settle
  BY <1>6 DEF Settle
<1>7. CASE Report
  BY <1>7 DEF Report
<1>8. CASE Snapshot
  <2>1. line' \in [ch : Channels, ver : Nat]
    BY <1>8 DEF Snapshot
  <2>2. /\ pc' \in {"print", "watch", "shutdown"} /\ after' \in {"unwind", "locals"}
        /\ handling' \in BOOLEAN
        /\ UNCHANGED <<command, wanted, code, updated, expired, todo, locals, stop_req>>
    BY <1>8 DEF Snapshot
  <2>3. QED
    BY <2>1, <2>2
<1>9. CASE PrintSnapshot
  BY <1>9, ZenonT(30) DEF PrintSnapshot
<1>10. CASE StopWatching
  BY <1>10 DEF StopWatching
<1>11. CASE Shutdown
  BY <1>11 DEF Shutdown
<1>12. CASE Join
  BY <1>12 DEF Join
<1>13. CASE Unwind
  BY <1>13 DEF Unwind
<1>14. CASE DropLocals
  BY <1>14 DEF DropLocals
<1>15. CASE RunText
  BY <1>15 DEF RunText
<1>16. CASE RunStop
  BY <1>16 DEF RunStop
<1>17. CASE LinkUp
  BY <1>17 DEF LinkUp
<1>18. CASE Discover
  BY <1>18 DEF Discover
<1>19. CASE LinkDown
  BY <1>19 DEF LinkDown
<1>20. ASSUME NEW c \in Channels, Update(c) PROVE MainTypeOK'
  BY <1>20 DEF Update
<1>21. CASE Callback
  BY <1>21 DEF Callback
<1>22. CASE Interrupt
  <2>1. CASE handling
    BY <1>22, <2>1 DEF Interrupt
  <2>2. CASE ~handling
    BY <1>22, <2>2 DEF Interrupt
  <2>3. QED
    BY <2>1, <2>2
<1>23. CASE UNCHANGED vars
  BY <1>23 DEF vars
<1>24. QED
  BY <1>1, <1>2, <1>3, <1>4, <1>5, <1>6, <1>7, <1>8, <1>9, <1>10, <1>11, <1>12, <1>13, <1>14,
     <1>15, <1>16, <1>17, <1>18, <1>19, <1>20, <1>21, <1>22, <1>23
  DEF Next, Main, Exited

LEMMA LoopTypeStep == TypeOK /\ LoopTypeOK /\ [Next]_vars => LoopTypeOK'
<1> SUFFICES ASSUME TypeOK, LoopTypeOK, [Next]_vars PROVE LoopTypeOK'
  OBVIOUS
<1> USE CliAssumption DEF LoopTypeOK, TypeOK, Idle, BeginShutdown, loopVars, deviceVars,
       mainVars, Prints
<1>1. CASE Connect
  BY <1>1 DEF Connect
<1>2. CASE ConnectReturns
  BY <1>2 DEF ConnectReturns
<1>3. CASE ConnectThrows
  BY <1>3 DEF ConnectThrows
<1>4. CASE Persist
  BY <1>4 DEF Persist
<1>5. CASE Act
  BY <1>5 DEF Act
<1>6. CASE Settle
  BY <1>6 DEF Settle
<1>7. CASE Report
  BY <1>7 DEF Report
<1>8. CASE Snapshot
  BY <1>8 DEF Snapshot
<1>9. CASE PrintSnapshot
  BY <1>9 DEF PrintSnapshot
<1>10. CASE StopWatching
  BY <1>10 DEF StopWatching
<1>11. CASE Shutdown
  BY <1>11 DEF Shutdown
<1>12. CASE Join
  BY <1>12 DEF Join
<1>13. CASE Unwind
  BY <1>13 DEF Unwind
<1>14. CASE DropLocals
  BY <1>14 DEF DropLocals
<1>15. CASE RunText
  BY <1>15 DEF RunText
<1>16. CASE RunStop
  BY <1>16 DEF RunStop
<1>17. CASE LinkUp
  BY <1>17 DEF LinkUp
<1>18. CASE Discover
  BY <1>18 DEF Discover
<1>19. CASE LinkDown
  BY <1>19 DEF LinkDown
<1>20. ASSUME NEW c \in Channels, Update(c) PROVE LoopTypeOK'
  BY <1>20 DEF Update
<1>21. CASE Callback
  BY <1>21 DEF Callback
<1>22. CASE Interrupt
  BY <1>22 DEF Interrupt
<1>23. CASE UNCHANGED vars
  BY <1>23 DEF vars
<1>24. QED
  BY <1>1, <1>2, <1>3, <1>4, <1>5, <1>6, <1>7, <1>8, <1>9, <1>10, <1>11, <1>12, <1>13, <1>14,
     <1>15, <1>16, <1>17, <1>18, <1>19, <1>20, <1>21, <1>22, <1>23
  DEF Next, Main, Exited

LEMMA QueueTypeStep == TypeOK /\ [Next]_vars => (queue \in Seq({"text", "stop"}))'
<1>1. SUFFICES ASSUME TypeOK, [Next]_vars PROVE queue' \in Seq({"text", "stop"})
  OBVIOUS
<1>2. CASE Act
  BY <1>1, <1>2 DEF TypeOK, Act
<1>3. CASE Shutdown
  BY <1>1, <1>3 DEF TypeOK, Shutdown
<1>4. CASE RunText \/ RunStop
  BY <1>1, <1>4 DEF TypeOK, RunText, RunStop
<1>5. QED
  BY <1>1, <1>2, <1>3, <1>4
  DEF TypeOK, Next, Main, Connect, ConnectReturns, ConnectThrows, Persist, Settle, Report,
      Snapshot, PrintSnapshot, StopWatching, Join, Unwind, DropLocals, LinkUp, Discover, LinkDown,
      Update, Callback, Interrupt, Exited, vars, loopVars

LEMMA LinesTypeStep == TypeOK /\ [Next]_vars => (lines \in Seq(Lines))'
<1>1. SUFFICES ASSUME TypeOK, [Next]_vars PROVE lines' \in Seq(Lines)
  OBVIOUS
<1>2. ASSUME NEW by \in {"main", "loop"}, NEW l \in [ch : Channels, ver : Nat], Prints(by, l)
      PROVE  lines' \in Seq(Lines)
  BY <1>1, <1>2 DEF TypeOK, Prints, Lines
<1>3. CASE Report
  <2>1. [ch |-> Target, ver |-> st[Target]] \in [ch : Channels, ver : Nat]
    BY <1>1, CliAssumption DEF TypeOK, LoopTypeOK
  <2>2. QED
    BY <1>2, <1>3, <2>1 DEF Report
<1>4. CASE PrintSnapshot
  BY <1>1, <1>2, <1>4 DEF PrintSnapshot, TypeOK, MainTypeOK
<1>5. CASE Callback
  BY <1>1, <1>2, <1>5 DEF Callback, TypeOK, LoopTypeOK
<1>6. QED
  BY <1>1, <1>3, <1>4, <1>5
  DEF TypeOK, Next, Main, Connect, ConnectReturns, ConnectThrows, Persist, Act, Settle, Snapshot,
      StopWatching, Shutdown, Join, Unwind, DropLocals, RunText, RunStop, LinkUp, Discover,
      LinkDown, Update, Interrupt, Exited, vars

LEMMA TypeStep == TypeOK /\ [Next]_vars => TypeOK'
  BY MainTypeStep, LoopTypeStep, QueueTypeStep, LinesTypeStep DEF TypeOK

\* Every reachable state of an invocation is well typed.
THEOREM TypeCorrect == Spec => []TypeOK
<1>1. QED
  BY TypeInit, TypeStep, PTL DEF Spec

-----------------------------------------------------------------------------
(* The frame *)

LEMMA FrameStep == TypeOK /\ FrameHeld /\ [Next]_vars => FrameHeld'
<1> SUFFICES ASSUME TypeOK, FrameHeld, [Next]_vars PROVE FrameHeld'
  OBVIOUS
<1> USE CliAssumption DEF FrameHeld, TypeOK, MainTypeOK, LoopTypeOK, Idle, BeginShutdown,
       loopVars, deviceVars, mainVars, Prints
<1>1. CASE Connect
  BY <1>1 DEF Connect
<1>2. CASE ConnectReturns
  BY <1>2 DEF ConnectReturns
<1>3. CASE ConnectThrows
  BY <1>3 DEF ConnectThrows
<1>4. CASE Persist
  BY <1>4 DEF Persist
<1>5. CASE Act
  BY <1>5 DEF Act
<1>6. CASE Settle
  BY <1>6 DEF Settle
<1>7. CASE Report
  BY <1>7 DEF Report
<1>8. CASE Snapshot
  BY <1>8 DEF Snapshot
<1>9. CASE PrintSnapshot
  BY <1>9 DEF PrintSnapshot
<1>10. CASE StopWatching
  BY <1>10 DEF StopWatching
<1>11. CASE Shutdown
  BY <1>11 DEF Shutdown
<1>12. CASE Join
  BY <1>12 DEF Join
<1>13. CASE Unwind
  BY <1>13 DEF Unwind
<1>14. CASE DropLocals
  BY <1>14 DEF DropLocals
<1>15. CASE RunText
  BY <1>15 DEF RunText
<1>16. CASE RunStop
  BY <1>16 DEF RunStop
<1>17. CASE LinkUp
  BY <1>17 DEF LinkUp
<1>18. CASE Discover
  BY <1>18 DEF Discover
<1>19. CASE LinkDown
  BY <1>19 DEF LinkDown
<1>20. ASSUME NEW c \in Channels, Update(c) PROVE FrameHeld'
  BY <1>20 DEF Update
<1>21. CASE Callback
  BY <1>21 DEF Callback
<1>22. CASE Interrupt
  BY <1>22 DEF Interrupt
<1>23. CASE UNCHANGED vars
  BY <1>23 DEF vars
<1>24. QED
  BY <1>1, <1>2, <1>3, <1>4, <1>5, <1>6, <1>7, <1>8, <1>9, <1>10, <1>11, <1>12, <1>13, <1>14,
     <1>15, <1>16, <1>17, <1>18, <1>19, <1>20, <1>21, <1>22, <1>23
  DEF Next, Main, Exited

\* On every way out of run_action, run_state and run_watch, the error returns and
\* a second shutdown included, the loop thread is gone before the frame is.
THEOREM TargetsAlive == Spec => []CallbackTargetsAlive
<1>1. Init => FrameHeld
  BY DEF Init, FrameHeld
<1>2. TypeOK /\ FrameHeld => CallbackTargetsAlive
  BY DEF TypeOK, MainTypeOK, FrameHeld, CallbackTargetsAlive
<1>3. QED
  BY <1>1, <1>2, FrameStep, TypeCorrect, PTL DEF Spec

-----------------------------------------------------------------------------
(* The exit code *)

LEMMA Queues ==
  /\ <<>> # <<"text">> /\ <<>> # <<"stop">> /\ <<>> # <<"text", "stop">>
  /\ <<"text">> # <<"stop">> /\ <<"text">> # <<"text", "stop">> /\ <<"stop">> # <<"text", "stop">>
  /\ Append(<<>>, "text") = <<"text">> /\ Append(<<>>, "stop") = <<"stop">>
  /\ Append(<<"text">>, "stop") = <<"text", "stop">>
  /\ Head(<<"text">>) = "text" /\ Tail(<<"text">>) = <<>>
  /\ Head(<<"stop">>) = "stop" /\ Tail(<<"stop">>) = <<>>
  /\ Head(<<"text", "stop">>) = "text" /\ Tail(<<"text", "stop">>) = <<"stop">>
<1>1. \A q \in Seq({"text", "stop"}) : Len(q) = 2 => q = <<q[1], q[2]>>
  OBVIOUS
<1>2. LET q == Append(<<"text">>, "stop")
      IN  q \in Seq({"text", "stop"}) /\ Len(q) = 2 /\ q[1] = "text" /\ q[2] = "stop"
  OBVIOUS
<1>3. Append(<<"text">>, "stop") = <<"text", "stop">>
  BY <1>1, <1>2
<1>4. QED
  BY <1>3

LEMMA PostingStep == TypeOK /\ Posting /\ [Next]_vars => Posting'
<1> SUFFICES ASSUME TypeOK, Posting, [Next]_vars PROVE Posting'
  OBVIOUS
<1> USE CliAssumption DEF Posting, HasText, HasStop, Before, After, TypeOK, MainTypeOK,
       LoopTypeOK, Idle, BeginShutdown, loopVars, deviceVars, mainVars, Prints
<1>1. CASE Connect
  BY <1>1 DEF Connect
<1>2. CASE ConnectReturns
  BY <1>2 DEF ConnectReturns
<1>3. CASE ConnectThrows
  BY <1>3 DEF ConnectThrows
<1>4. CASE Persist
  BY <1>4 DEF Persist
<1>5. CASE Act
  <2>1. CASE pc' = "unwind"
    BY <1>5, <2>1 DEF Act
  <2>2. CASE queue' = Append(queue, "text") /\ pc' = "settle"
    <3>1. queue = <<>>
      BY <1>5 DEF Act
    <3>2. queue' = <<"text">>
      BY <2>2, <3>1, Queues
    <3>3. HasText'
      BY <3>2
    <3>4. ~HasStop'
      BY <3>2, Queues
    <3>5. code = 0 /\ command = "action" /\ running /\ loop # "exited"
      BY <1>5 DEF Act
    <3>6. code' = 0 /\ command' = "action" /\ running' /\ loop' # "exited"
      BY <1>5, <2>2, <3>5 DEF Act
    <3>7. (queue = <<>> \/ HasText \/ HasStop)'
      BY <3>3, Zenon
    <3>8. QED
      BY <2>2, <3>3, <3>4, <3>6, <3>7
  <2>3. QED
    BY <1>5, <2>1, <2>2 DEF Act
<1>6. CASE Settle
  BY <1>6 DEF Settle
<1>7. CASE Report
  BY <1>7 DEF Report
<1>8. CASE Snapshot
  BY <1>8 DEF Snapshot
<1>9. CASE PrintSnapshot
  BY <1>9 DEF PrintSnapshot
<1>10. CASE StopWatching
  BY <1>10 DEF StopWatching
<1>11. CASE Shutdown
  <2>1. CASE ~running
    BY <1>11, <2>1, Queues DEF Shutdown
  <2>2. CASE running
    <3>1. queue' = Append(queue, "stop") /\ pc' = "join"
      BY <1>11, <2>2 DEF Shutdown
    <3>2. CASE queue = <<>>
      <4>1. queue' = <<"stop">>
        BY <3>1, <3>2, Queues, Zenon
      <4>2. QED
        BY <1>11, <2>2, <3>1, <3>2, <4>1, Queues DEF Shutdown
    <3>3. CASE queue = <<"text">>
      <4>1. queue' = <<"text", "stop">>
        BY <3>1, <3>3, Queues, Zenon
      <4>2. QED
        BY <1>11, <2>2, <3>1, <3>3, <4>1, Queues DEF Shutdown
    <3>4. queue = <<>> \/ queue = <<"text">>
      BY <1>11 DEF Shutdown
    <3>5. QED
      BY <3>2, <3>3, <3>4
  <2>3. QED
    BY <2>1, <2>2
<1>12. CASE Join
  BY <1>12 DEF Join
<1>13. CASE Unwind
  BY <1>13 DEF Unwind
<1>14. CASE DropLocals
  BY <1>14 DEF DropLocals
<1>15. CASE RunText
  <2>1. queue' = Tail(queue) /\ Head(queue) = "text" /\ (HasText \/ HasStop)
    BY <1>15 DEF RunText
  <2>2. queue # <<"stop">>
    BY <2>1, Queues, Zenon
  <2>3. CASE queue = <<"text">>
    <3>1. queue' = <<>>
      BY <2>1, <2>3, Queues, Zenon
    <3>2. QED
      BY <1>15, <2>3, <3>1, Queues DEF RunText
  <2>4. CASE queue = <<"text", "stop">>
    <3>1. queue' = <<"stop">>
      BY <2>1, <2>4, Queues, Zenon
    <3>2. QED
      BY <1>15, <2>4, <3>1, Queues DEF RunText
  <2>5. QED
    BY <2>1, <2>2, <2>3, <2>4
<1>16. CASE RunStop
  <2>1. queue = <<"stop">> /\ queue' = <<>>
    BY <1>16 DEF RunStop
  <2>2. QED
    BY <1>16, <2>1 DEF RunStop
<1>17. CASE LinkUp
  BY <1>17 DEF LinkUp
<1>18. CASE Discover
  BY <1>18 DEF Discover
<1>19. CASE LinkDown
  BY <1>19 DEF LinkDown
<1>20. ASSUME NEW c \in Channels, Update(c) PROVE Posting'
  BY <1>20 DEF Update
<1>21. CASE Callback
  BY <1>21 DEF Callback
<1>22. CASE Interrupt
  BY <1>22 DEF Interrupt
<1>23. CASE UNCHANGED vars
  BY <1>23 DEF vars
<1>24. QED
  BY <1>1, <1>2, <1>3, <1>4, <1>5, <1>6, <1>7, <1>8, <1>9, <1>10, <1>11, <1>12, <1>13, <1>14,
     <1>15, <1>16, <1>17, <1>18, <1>19, <1>20, <1>21, <1>22, <1>23
  DEF Next, Main, Exited

\* Exit code 0 of an action: the loop handed the command over; 2 to 5: nothing was sent.
THEOREM ExitIsHonest == Spec => []ExitTellsDelivery
<1>1. Init => Posting
  BY DEF Init, Posting, HasText, HasStop, Before, After
<1>2. TypeOK /\ Posting => ExitTellsDelivery
  BY DEF TypeOK, LoopTypeOK, Posting, Before, After, ExitTellsDelivery
<1>3. QED
  BY <1>1, <1>2, PostingStep, TypeCorrect, PTL DEF Spec

-----------------------------------------------------------------------------
(* The stream of watch *)

\* Update v of channel c has been printed, or the callback is about to print it.
Reported(c, v) ==
  \/ \E j \in DOMAIN lines : lines[j].ch = c /\ lines[j].ver = v
  \/ at = "call" /\ event.ch = c /\ event.ver = v

\* Every update of channel c from the n-th on is reported.
ReportedFrom(c, n) == \A v \in Nat : n <= v /\ v <= st[c] => Reported(c, v)

\* The main thread has printed a snapshot of channel c, and all is reported since.
Shown(c) ==
  \E i \in DOMAIN lines :
    lines[i].by = "main" /\ lines[i].ch = c /\ ReportedFrom(c, lines[i].ver)

\* While watch prints its snapshots and then listens, each of its channels is still to
\* be read, or has been read and not yet printed, or is shown.  What the loop prints
\* between the reading and the printing is already there when the snapshot is printed.
Streaming ==
  /\ pc = "watch" => command = "watch" /\ todo = {}
  /\ command = "watch" /\ pc \in {"snapshot", "print", "watch"} =>
       \A c \in wanted : c \in todo \/ Shown(c)
  /\ command = "watch" /\ pc = "print" =>
       line.ch \in todo /\ ReportedFrom(line.ch, line.ver + 1)

\* What is printed stays, in its place.
LEMMA LinesStay ==
  ASSUME lines \in Seq(Lines), NEW by \in {"main", "loop"}, NEW l \in [ch : Channels, ver : Nat],
         Prints(by, l)
  PROVE  /\ \A i \in DOMAIN lines : i \in DOMAIN lines' /\ lines'[i] = lines[i]
         /\ \E i \in DOMAIN lines' :
              lines'[i].by = by /\ lines'[i].ch = l.ch /\ lines'[i].ver = l.ver
<1> DEFINE new == [by |-> by, ch |-> l.ch, ver |-> l.ver]
<1>1. new \in Lines /\ lines' = Append(lines, new)
  BY DEF Prints, Lines
<1> HIDE DEF new
<1>2. /\ Len(lines') = Len(lines) + 1 /\ lines' \in Seq(Lines)
      /\ lines'[Len(lines) + 1] = new
      /\ \A i \in 1..Len(lines) : lines'[i] = lines[i]
  BY <1>1
<1>3. DOMAIN lines = 1..Len(lines) /\ DOMAIN lines' = 1..(Len(lines) + 1) /\ Len(lines) \in Nat
  BY <1>2
<1>4. lines'[Len(lines) + 1].by = by /\ lines'[Len(lines) + 1].ch = l.ch
      /\ lines'[Len(lines) + 1].ver = l.ver
  BY <1>2 DEF new
<1>5. QED
  BY <1>2, <1>3, <1>4

\* A step that prints, or delivers to a callback, takes back nothing that was reported.
LEMMA ShownStays ==
  ASSUME UNCHANGED <<wanted, st>>,
         \A i \in DOMAIN lines : i \in DOMAIN lines' /\ lines'[i] = lines[i],
         NEW c, \A v \in Nat : Reported(c, v) => Reported(c, v)'
  PROVE  /\ \A n \in Nat : ReportedFrom(c, n) => ReportedFrom(c, n)'
         /\ TypeOK /\ Shown(c) => Shown(c)'
<1>1. \A n \in Nat : ReportedFrom(c, n) => ReportedFrom(c, n)'
  BY DEF ReportedFrom
<1>2. ASSUME TypeOK, Shown(c) PROVE Shown(c)'
  <2>1. PICK i \in DOMAIN lines :
               lines[i].by = "main" /\ lines[i].ch = c /\ ReportedFrom(c, lines[i].ver)
    BY <1>2 DEF Shown
  <2>2. lines[i] \in Lines
    BY <1>2 DEF TypeOK
  <2>3. lines[i].ver \in Nat
    BY <2>2 DEF Lines
  <2>4. ReportedFrom(c, lines[i].ver)'
    BY <1>1, <2>1, <2>3 DEF ReportedFrom
  <2>5. QED
    BY <2>1, <2>4 DEF Shown
<1>3. QED
  BY <1>1, <1>2

LEMMA StreamingSame ==
  ASSUME Streaming, UNCHANGED <<command, wanted, todo, line, st, at, event, lines>>,
         pc' = pc \/ pc' \notin {"snapshot", "print", "watch"}
  PROVE  Streaming'
BY DEF Streaming, Shown, ReportedFrom, Reported

LEMMA StreamingSnapshot == ASSUME TypeOK, Streaming, Snapshot PROVE Streaming'
<1>1. /\ pc = "snapshot" /\ UNCHANGED <<command, wanted, todo, st, at, event, lines>>
      /\ \/ pc' = "print" /\ line'.ver = st[line'.ch] /\ line'.ch \in todo
         \/ pc' = "watch" /\ todo = {} /\ command = "watch"
         \/ pc' = "shutdown"
  BY DEF Snapshot, BeginShutdown, deviceVars, TypeOK, MainTypeOK
<1>2. \A c \in wanted : Shown(c) => Shown(c)'
  BY <1>1 DEF Shown, ReportedFrom, Reported
<1>3. pc' = "print" => ReportedFrom(line.ch, line.ver + 1)'
  BY <1>1 DEF ReportedFrom, TypeOK, MainTypeOK, LoopTypeOK
<1>4. QED
  BY <1>1, <1>2, <1>3 DEF Streaming

LEMMA StreamingPrint == ASSUME TypeOK, Streaming, PrintSnapshot PROVE Streaming'
<1>1. /\ pc = "print" /\ pc' = "snapshot" /\ todo' = todo \ {line.ch}
      /\ UNCHANGED <<command, wanted, line, st, at, event>> /\ Prints("main", line)
      /\ line \in [ch : Channels, ver : Nat] /\ lines \in Seq(Lines)
  BY DEF PrintSnapshot, deviceVars, TypeOK, MainTypeOK
<1>2. /\ \A i \in DOMAIN lines : i \in DOMAIN lines' /\ lines'[i] = lines[i]
      /\ \E i \in DOMAIN lines' :
           lines'[i].by = "main" /\ lines'[i].ch = line.ch /\ lines'[i].ver = line.ver
  BY <1>1, LinesStay
<1>3. \A c : \A v \in Nat : Reported(c, v) => Reported(c, v)'
  BY <1>1, <1>2 DEF Reported
<1>4. \A c \in wanted : Shown(c) => Shown(c)'
  BY <1>1, <1>2, <1>3, ShownStays
<1>5. ASSUME command = "watch" PROVE Shown(line.ch)'
  <2>1. ReportedFrom(line.ch, line.ver + 1)'
    BY <1>1, <1>3, <1>5 DEF Streaming, ReportedFrom
  <2>2. Reported(line.ch, line.ver)'
    BY <1>1, <1>2 DEF Reported
  <2>3. ReportedFrom(line.ch, line.ver)'
    BY <1>1, <2>1, <2>2 DEF ReportedFrom
  <2>4. QED
    BY <1>1, <1>2, <2>3 DEF Shown
<1>6. QED
  BY <1>1, <1>4, <1>5 DEF Streaming

LEMMA StreamingUpdate ==
  ASSUME TypeOK, Streaming, NEW c \in Channels, Update(c) PROVE Streaming'
<1>1. /\ at = "idle" /\ at' = "call" /\ st' = [st EXCEPT ![c] = @ + 1]
      /\ event' = [ch |-> c, ver |-> st'[c]] /\ st \in [Channels -> Nat]
      /\ UNCHANGED <<command, wanted, pc, todo, line, lines>>
  BY DEF Update, Idle, mainVars, TypeOK, LoopTypeOK
<1>2. ASSUME NEW d \in Channels, NEW n \in Nat, ReportedFrom(d, n) PROVE ReportedFrom(d, n)'
  <2>1. \A v \in Nat : Reported(d, v) => Reported(d, v)'
    BY <1>1 DEF Reported
  <2>2. \A v \in Nat : v = st[c] + 1 => Reported(c, v)'
    BY <1>1 DEF Reported
  <2>3. CASE d = c
    BY <1>1, <1>2, <2>1, <2>2, <2>3 DEF ReportedFrom
  <2>4. CASE d # c
    BY <1>1, <1>2, <2>1, <2>4 DEF ReportedFrom
  <2>5. QED
    BY <2>3, <2>4
<1>3. ASSUME NEW d \in wanted, Shown(d) PROVE Shown(d)'
  <2>1. d \in Channels /\ \A i \in DOMAIN lines : lines[i] \in Lines
    BY DEF TypeOK, MainTypeOK
  <2>2. \A i \in DOMAIN lines : lines[i].ver \in Nat
    BY <2>1 DEF Lines
  <2>3. PICK i \in DOMAIN lines :
               lines[i].by = "main" /\ lines[i].ch = d /\ ReportedFrom(d, lines[i].ver)
    BY <1>3 DEF Shown
  <2>4. ReportedFrom(d, lines[i].ver)'
    BY <1>1, <1>2, <2>1, <2>2, <2>3 DEF ReportedFrom
  <2>5. QED
    BY <1>1, <2>3, <2>4 DEF Shown
<1>4. command = "watch" /\ pc = "print" => ReportedFrom(line.ch, line.ver + 1)'
  <2>1. \A d \in Channels : \A n \in Nat : ReportedFrom(d, n) =>
          \A v \in Nat : n <= v /\ v <= st'[d] => Reported(d, v)'
    BY <1>2 DEF ReportedFrom
  <2>2. line.ch \in Channels /\ line.ver + 1 \in Nat /\ line' = line
    BY <1>1 DEF TypeOK, MainTypeOK
  <2>3. command = "watch" /\ pc = "print" =>
          \A v \in Nat : line.ver + 1 <= v /\ v <= st'[line.ch] =>
            \/ \E j \in DOMAIN lines' : lines'[j].ch = line.ch /\ lines'[j].ver = v
            \/ at' = "call" /\ event'.ch = line.ch /\ event'.ver = v
    BY <2>1, <2>2 DEF Streaming, Reported
  <2>4. QED
    BY <2>2, <2>3 DEF ReportedFrom, Reported
<1>5. QED
  BY <1>1, <1>3, <1>4 DEF Streaming, ReportedFrom, Reported

LEMMA StreamingCallback == ASSUME TypeOK, Streaming, Callback PROVE Streaming'
<1>1. /\ at = "call" /\ at' = "idle" /\ UNCHANGED <<command, wanted, pc, todo, line, st, event>>
      /\ event \in [ch : Channels, ver : Nat] /\ lines \in Seq(Lines)
      /\ wanted \subseteq Channels /\ todo \subseteq wanted
  BY DEF Callback, TypeOK, MainTypeOK, LoopTypeOK
<1>2. CASE command = "watch" /\ event.ch \in wanted
  <2>1. Prints("loop", event)
    BY <1>2 DEF Callback, Hears
  <2>2. /\ \A i \in DOMAIN lines : i \in DOMAIN lines' /\ lines'[i] = lines[i]
        /\ \E i \in DOMAIN lines' : lines'[i].ch = event.ch /\ lines'[i].ver = event.ver
    BY <1>1, <2>1, LinesStay
  <2>3. \A c : \A v \in Nat : Reported(c, v) => Reported(c, v)'
    BY <1>1, <2>2 DEF Reported
  <2>4. /\ \A c \in wanted : Shown(c) => Shown(c)'
        /\ \A c : \A n \in Nat : ReportedFrom(c, n) => ReportedFrom(c, n)'
    BY <1>1, <2>2, <2>3, ShownStays
  <2>5. command = "watch" /\ pc = "print" => ReportedFrom(line.ch, line.ver + 1)'
    BY <1>1, <2>3 DEF Streaming, ReportedFrom, TypeOK, MainTypeOK
  <2>6. QED
    BY <1>1, <2>4, <2>5 DEF Streaming, ReportedFrom, Reported
<1>3. CASE command = "watch" /\ event.ch \notin wanted
  <2>1. lines' = lines
    BY <1>3 DEF Callback, Hears
  <2>2. \A c \in wanted : \A v \in Nat : Reported(c, v) => Reported(c, v)'
    BY <1>1, <1>3, <2>1 DEF Reported
  <2>3. /\ \A c \in wanted : Shown(c) => Shown(c)'
        /\ \A c \in wanted : \A n \in Nat : ReportedFrom(c, n) => ReportedFrom(c, n)'
    BY <1>1, <2>1, <2>2, ShownStays
  <2>4. pc = "print" => ReportedFrom(line.ch, line.ver + 1)'
    BY <1>1, <1>3, <2>2 DEF Streaming, ReportedFrom, TypeOK, MainTypeOK
  <2>5. QED
    BY <1>1, <2>3, <2>4 DEF Streaming, ReportedFrom, Reported
<1>4. CASE command # "watch"
  BY <1>1, <1>4 DEF Streaming
<1>5. QED
  BY <1>2, <1>3, <1>4

LEMMA StreamingStep == TypeOK /\ Streaming /\ [Next]_vars => Streaming'
<1> SUFFICES ASSUME TypeOK, Streaming, [Next]_vars PROVE Streaming'
  OBVIOUS
<1>1. CASE Persist
  <2>1. command = "watch" => pc' = "snapshot" /\ todo' = wanted
    BY <1>1 DEF Persist
  <2>2. command' = command /\ wanted' = wanted /\ pc' \in {"act", "snapshot"}
    BY <1>1 DEF Persist
  <2>3. QED
    BY <2>1, <2>2 DEF Streaming
<1>2. CASE Report
  BY <1>2 DEF Report, BeginShutdown, Streaming
<1>3. CASE Snapshot
  BY <1>3, StreamingSnapshot
<1>4. CASE PrintSnapshot
  BY <1>4, StreamingPrint
<1>5. ASSUME NEW c \in Channels, Update(c) PROVE Streaming'
  BY <1>5, StreamingUpdate
<1>6. CASE Callback
  BY <1>6, StreamingCallback
<1>7. CASE \/ Connect \/ ConnectReturns \/ ConnectThrows \/ Act \/ Settle \/ StopWatching
           \/ Shutdown \/ Join \/ Unwind \/ DropLocals
  <2>1. /\ UNCHANGED <<command, wanted, todo, line, st, at, event, lines>>
        /\ pc' \notin {"snapshot", "print", "watch"}
    BY <1>7 DEF Connect, ConnectReturns, ConnectThrows, Act, Settle, StopWatching, Shutdown, Join,
       Unwind, DropLocals, BeginShutdown, deviceVars, TypeOK, MainTypeOK
  <2>2. QED
    BY <2>1, StreamingSame
<1>8. CASE RunText \/ RunStop \/ LinkUp \/ Discover \/ LinkDown
  <2>1. UNCHANGED <<command, wanted, pc, todo, line, st, at, event, lines>>
    BY <1>8 DEF RunText, RunStop, LinkUp, Discover, LinkDown, mainVars
  <2>2. QED
    BY <2>1, StreamingSame
<1>9. CASE Interrupt
  <2>1. /\ UNCHANGED <<command, wanted, todo, line, st, at, event, lines>>
        /\ pc' = pc \/ pc' = "exited"
    BY <1>9 DEF Interrupt, deviceVars
  <2>2. QED
    BY <2>1, StreamingSame
<1>10. CASE UNCHANGED vars
  BY <1>10, StreamingSame DEF vars, mainVars, deviceVars
<1>11. QED
  BY <1>1, <1>2, <1>3, <1>4, <1>5, <1>6, <1>7, <1>8, <1>9, <1>10 DEF Next, Main, Exited

\* Whatever the loop thread prints before, between and after the snapshots, and however
\* late a snapshot that was read is printed, watch shows each channel without a gap from
\* its snapshot to its current state.
THEOREM WatchHasNoGap == Spec => []WatchMissesNothing
<1>1. Init => Streaming
  BY DEF Init, Streaming
<1>2. TypeOK /\ Streaming => WatchMissesNothing
  <2> SUFFICES ASSUME TypeOK, Streaming, pc = "watch", at = "idle", NEW c \in wanted
               PROVE  \E i \in DOMAIN lines :
                        /\ lines[i].by = "main" /\ lines[i].ch = c
                        /\ \A v \in lines[i].ver .. st[c] :
                             \E j \in DOMAIN lines : lines[j].ch = c /\ lines[j].ver = v
    BY DEF WatchMissesNothing
  <2>1. PICK i \in DOMAIN lines :
               lines[i].by = "main" /\ lines[i].ch = c /\ ReportedFrom(c, lines[i].ver)
    BY DEF Streaming, Shown
  <2>2. lines[i] \in Lines
    BY DEF TypeOK
  <2>3. lines[i].ver \in Nat /\ st[c] \in Nat
    BY <2>2 DEF Lines, TypeOK, MainTypeOK, LoopTypeOK
  <2>4. QED
    BY <2>1, <2>3 DEF ReportedFrom, Reported
<1>3. QED
  BY <1>1, <1>2, StreamingStep, TypeCorrect, PTL DEF Spec
================================================================================
