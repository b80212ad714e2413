--------------------------- MODULE LifecycleProofs ---------------------------
(***************************************************************************)
(* Theorems about Lifecycle for any set of callers, any capability         *)
(* entities and any bound on the attempts, checked by TLAPS.               *)
(***************************************************************************)
EXTENDS Lifecycle, FiniteSetTheorems, TLAPS

USE DEF Goto, Returns, Milestones, ConnectSteps, ShutdownSteps, vars, flagVars,
        loopVars, clientVars, callerVars, ghostVars

-----------------------------------------------------------------------------
(* Type correctness *)

\* A task that a caller appends, or the loop removes, leaves a queue of tasks.
LEMMA QueueType ==
  ASSUME NEW q \in Seq(Tasks)
  PROVE  /\ \A t \in Tasks : Append(q, t) \in Seq(Tasks)
         /\ q # <<>> => Head(q) \in Tasks /\ Tail(q) \in Seq(Tasks)
  OBVIOUS

LEMMA TypeInit == Init => TypeOK
<1> SUFFICES ASSUME Init PROVE TypeOK
  OBVIOUS
<1>1. queue \in Seq(Tasks)
  BY DEF Init
<1> QED
  BY <1>1 DEF Init, TypeOK, LoopTypeOK, FlagTypeOK, ClientTypeOK, CallerTypeOK, HistoryTypeOK

LEMMA TypeStep == TypeOK /\ [Next]_vars => TypeOK'
<1> SUFFICES ASSUME TypeOK, [Next]_vars PROVE TypeOK'
  OBVIOUS
<1> USE DEF TypeOK
<1>1. ASSUME NEW c \in Callers, CallConnect(c) PROVE TypeOK'
  BY <1>1 DEF CallConnect, LoopTypeOK, FlagTypeOK, ClientTypeOK, CallerTypeOK,
     HistoryTypeOK
<1>2. ASSUME NEW c \in Callers, CallDisconnect(c) PROVE TypeOK'
  BY <1>2 DEF CallDisconnect, BeginShutdown, LoopTypeOK, FlagTypeOK, ClientTypeOK,
     CallerTypeOK, HistoryTypeOK
<1>3. ASSUME NEW c \in Callers, CallDestroy(c) PROVE TypeOK'
  BY <1>3 DEF CallDestroy, BeginShutdown, LoopTypeOK, FlagTypeOK, ClientTypeOK,
     CallerTypeOK, HistoryTypeOK
<1>4. ASSUME NEW c \in Callers, Claim(c) PROVE TypeOK'
  <2>1. LoopTypeOK'
    BY <1>4 DEF Claim, LoopTypeOK
  <2>2. FlagTypeOK'
    BY <1>4 DEF Claim, FlagTypeOK
  <2>3. ClientTypeOK'
    BY <1>4 DEF Claim, ClientTypeOK
  <2>4. CallerTypeOK'
    BY <1>4 DEF Claim, CallerTypeOK
  <2>5. HistoryTypeOK'
    <3>1. attempt' \in Nat
      BY <1>4 DEF Claim, HistoryTypeOK
    <3> QED BY <1>4, <3>1 DEF Claim, HistoryTypeOK
  <2> QED BY <2>1, <2>2, <2>3, <2>4, <2>5
<1>5. ASSUME NEW c \in Callers, Spawn(c) PROVE TypeOK'
  <2>1. LoopTypeOK'
    BY <1>5 DEF Spawn, LoopTypeOK
  <2>2. FlagTypeOK'
    BY <1>5 DEF Spawn, FlagTypeOK
  <2>3. ClientTypeOK'
    BY <1>5 DEF Spawn, ClientTypeOK
  <2>4. CallerTypeOK'
    BY <1>5 DEF Spawn, CallerTypeOK
  <2>5. HistoryTypeOK'
    BY <1>5 DEF Spawn, HistoryTypeOK
  <2> QED BY <2>1, <2>2, <2>3, <2>4, <2>5
<1>6. ASSUME NEW c \in Callers, SpawnFails(c) PROVE TypeOK'
  BY <1>6 DEF SpawnFails, LoopTypeOK, FlagTypeOK, ClientTypeOK, CallerTypeOK,
     HistoryTypeOK
<1>7. ASSUME NEW c \in Callers, PostSetup(c) PROVE TypeOK'
  BY <1>7, QueueType DEF PostSetup, LoopTypeOK, FlagTypeOK, ClientTypeOK, CallerTypeOK,
     HistoryTypeOK, Tasks
<1>8. ASSUME NEW c \in Callers, AwaitResolved(c) PROVE TypeOK'
  BY <1>8 DEF AwaitResolved, TimesOut, BeginShutdown, LoopTypeOK, FlagTypeOK,
     ClientTypeOK, CallerTypeOK, HistoryTypeOK
<1>9. ASSUME NEW c \in Callers, AwaitList(c) PROVE TypeOK'
  BY <1>9 DEF AwaitList, TimesOut, BeginShutdown, LoopTypeOK, FlagTypeOK, ClientTypeOK,
     CallerTypeOK, HistoryTypeOK
<1>10. ASSUME NEW c \in Callers, PostDiscover(c) PROVE TypeOK'
  BY <1>10, QueueType DEF PostDiscover, LoopTypeOK, FlagTypeOK, ClientTypeOK,
     CallerTypeOK, HistoryTypeOK, Tasks
<1>11. ASSUME NEW c \in Callers, AwaitDiscover(c) PROVE TypeOK'
  BY <1>11 DEF AwaitDiscover, TimesOut, BeginShutdown, LoopTypeOK, FlagTypeOK,
     ClientTypeOK, CallerTypeOK, HistoryTypeOK
<1>12. ASSUME NEW c \in Callers, CheckDiscover(c) PROVE TypeOK'
  BY <1>12 DEF CheckDiscover, BeginShutdown, LoopTypeOK, FlagTypeOK, ClientTypeOK,
     CallerTypeOK, HistoryTypeOK
<1>13. ASSUME NEW c \in Callers, AwaitCaps(c) PROVE TypeOK'
  BY <1>13 DEF AwaitCaps, LoopTypeOK, FlagTypeOK, ClientTypeOK, CallerTypeOK,
     HistoryTypeOK
<1>14. ASSUME NEW c \in Callers, ShutdownEnter(c) PROVE TypeOK'
  <2>1. LoopTypeOK'
    BY <1>14 DEF ShutdownEnter, LeaveShutdown, LoopTypeOK
  <2>2. FlagTypeOK'
    BY <1>14 DEF ShutdownEnter, LeaveShutdown, FlagTypeOK
  <2>3. ClientTypeOK'
    BY <1>14 DEF ShutdownEnter, LeaveShutdown, ClientTypeOK
  <2>4. CallerTypeOK'
    BY <1>14 DEF ShutdownEnter, LeaveShutdown, CallerTypeOK
  <2>5. HistoryTypeOK'
    BY <1>14 DEF ShutdownEnter, LeaveShutdown, HistoryTypeOK
  <2> QED BY <2>1, <2>2, <2>3, <2>4, <2>5
<1>15. ASSUME NEW c \in Callers, PostStop(c) PROVE TypeOK'
  BY <1>15, QueueType DEF PostStop, LoopTypeOK, FlagTypeOK, ClientTypeOK, CallerTypeOK,
     HistoryTypeOK, Tasks
<1>16. ASSUME NEW c \in Callers, Join(c) PROVE TypeOK'
  BY <1>16 DEF Join, LoopTypeOK, FlagTypeOK, ClientTypeOK, CallerTypeOK, HistoryTypeOK
<1>17. ASSUME NEW c \in Callers, Joining(c) PROVE TypeOK'
  <2>1. LoopTypeOK'
    BY <1>17 DEF Joining, LoopTypeOK
  <2>2. FlagTypeOK'
    BY <1>17 DEF Joining, FlagTypeOK
  <2>3. ClientTypeOK'
    BY <1>17 DEF Joining, ClientTypeOK
  <2>4. CallerTypeOK'
    BY <1>17 DEF Joining, CallerTypeOK
  <2>5. HistoryTypeOK'
    BY <1>17 DEF Joining, HistoryTypeOK
  <2> QED BY <2>1, <2>2, <2>3, <2>4, <2>5
<1>18. ASSUME NEW c \in Callers, Clear(c) PROVE TypeOK'
  <2>1. LoopTypeOK'
    BY <1>18 DEF Clear, LeaveShutdown, LoopTypeOK
  <2>2. FlagTypeOK'
    BY <1>18 DEF Clear, LeaveShutdown, FlagTypeOK
  <2>3. ClientTypeOK'
    BY <1>18 DEF Clear, LeaveShutdown, ClientTypeOK
  <2>4. CallerTypeOK'
    BY <1>18 DEF Clear, LeaveShutdown, CallerTypeOK
  <2>5. HistoryTypeOK'
    BY <1>18 DEF Clear, LeaveShutdown, HistoryTypeOK
  <2> QED BY <2>1, <2>2, <2>3, <2>4, <2>5
<1>19. CASE RunSetup
  BY <1>19, QueueType DEF RunSetup, Takes, LoopTypeOK, FlagTypeOK, ClientTypeOK,
     CallerTypeOK, HistoryTypeOK
<1>20. CASE RunDiscover
  <2>1. LoopTypeOK'
    BY <1>20, QueueType DEF RunDiscover, Takes, DiscoveredCaps, DiscoveredAll, Tasks, LoopTypeOK
  <2>2. FlagTypeOK'
    BY <1>20 DEF RunDiscover, Takes, DiscoveredCaps, DiscoveredAll, Tasks, FlagTypeOK
  <2>3. ClientTypeOK'
    BY <1>20 DEF RunDiscover, Takes, DiscoveredCaps, DiscoveredAll, Tasks, ClientTypeOK
  <2>4. CallerTypeOK'
    BY <1>20 DEF RunDiscover, Takes, DiscoveredCaps, DiscoveredAll, Tasks, CallerTypeOK
  <2>5. HistoryTypeOK'
    BY <1>20 DEF RunDiscover, Takes, DiscoveredCaps, DiscoveredAll, Tasks, HistoryTypeOK
  <2> QED BY <2>1, <2>2, <2>3, <2>4, <2>5
<1>21. CASE RunStop
  <2>1. LoopTypeOK'
    BY <1>21, QueueType DEF RunStop, Takes, LoopTypeOK
  <2>2. FlagTypeOK'
    BY <1>21 DEF RunStop, Takes, FlagTypeOK
  <2>3. ClientTypeOK'
    BY <1>21 DEF RunStop, Takes, ClientTypeOK
  <2>4. CallerTypeOK'
    BY <1>21 DEF RunStop, Takes, CallerTypeOK
  <2>5. HistoryTypeOK'
    BY <1>21 DEF RunStop, Takes, HistoryTypeOK
  <2> QED BY <2>1, <2>2, <2>3, <2>4, <2>5
<1>22. CASE LinkUp
  BY <1>22 DEF LinkUp, LoopTypeOK, FlagTypeOK, ClientTypeOK, CallerTypeOK, HistoryTypeOK
<1>23. CASE HandshakeOk
  <2>1. LoopTypeOK'
    BY <1>23 DEF HandshakeOk, LoopTypeOK
  <2>2. FlagTypeOK'
    BY <1>23 DEF HandshakeOk, FlagTypeOK
  <2>3. ClientTypeOK'
    BY <1>23 DEF HandshakeOk, ClientTypeOK
  <2>4. CallerTypeOK'
    BY <1>23 DEF HandshakeOk, CallerTypeOK
  <2>5. HistoryTypeOK'
    BY <1>23 DEF HandshakeOk, HistoryTypeOK
  <2> QED BY <2>1, <2>2, <2>3, <2>4, <2>5
<1>24. CASE LinkDown
  <2>1. LoopTypeOK'
    BY <1>24 DEF LinkDown, LoopTypeOK
  <2>2. FlagTypeOK'
    BY <1>24 DEF LinkDown, FlagTypeOK
  <2>3. ClientTypeOK'
    BY <1>24 DEF LinkDown, ClientTypeOK
  <2>4. CallerTypeOK'
    BY <1>24 DEF LinkDown, CallerTypeOK
  <2>5. HistoryTypeOK'
    BY <1>24 DEF LinkDown, HistoryTypeOK
  <2> QED BY <2>1, <2>2, <2>3, <2>4, <2>5
<1>25. CASE ListDone
  <2>1. LoopTypeOK'
    BY <1>25 DEF ListDone, LoopTypeOK
  <2>2. FlagTypeOK'
    BY <1>25 DEF ListDone, FlagTypeOK
  <2>3. ClientTypeOK'
    BY <1>25 DEF ListDone, ClientTypeOK
  <2>4. CallerTypeOK'
    BY <1>25 DEF ListDone, CallerTypeOK
  <2>5. HistoryTypeOK'
    BY <1>25 DEF ListDone, HistoryTypeOK
  <2> QED BY <2>1, <2>2, <2>3, <2>4, <2>5
<1>26. ASSUME NEW k \in device.caps, CapsState(k) PROVE TypeOK'
  BY <1>26 DEF CapsState, LoopTypeOK, FlagTypeOK, ClientTypeOK, CallerTypeOK,
     HistoryTypeOK
<1>27. CASE UNCHANGED vars
  BY <1>27 DEF LoopTypeOK, FlagTypeOK, ClientTypeOK, CallerTypeOK, HistoryTypeOK
<1> QED
  BY <1>1, <1>2, <1>3, <1>4, <1>5, <1>6, <1>7, <1>8, <1>9, <1>10, <1>11, <1>12, <1>13,
     <1>14, <1>15, <1>16, <1>17, <1>18, <1>19, <1>20, <1>21, <1>22, <1>23, <1>24, <1>25,
     <1>26, <1>27
     DEF Next, Call, CallerStep, RunTask, Device, Halted

\* Every reachable state is well typed, whatever the callers, the network and
\* the device do.
THEOREM TypeCorrect == Spec => []TypeOK
  BY TypeInit, TypeStep, PTL DEF Spec

-----------------------------------------------------------------------------
(* The settle signal *)

LEMMA SettleStep == TypeOK /\ NoMissedSettle /\ [Next]_vars => NoMissedSettle'
<1> SUFFICES ASSUME TypeOK, NoMissedSettle, [Next]_vars PROVE NoMissedSettle'
  OBVIOUS
<1> USE DEF NoMissedSettle
<1>1. CASE UNCHANGED <<discover_done, found_caps, stored, caps_done>>
  BY <1>1
<1>2. CASE RunDiscover
  BY <1>2 DEF RunDiscover
<1>3. ASSUME NEW k \in device.caps, CapsState(k) PROVE NoMissedSettle'
  \* Either k is discovered and the handler marks, or nothing relevant changed.
  <2>1. CASE k \in found_caps
    BY <1>3, <2>1 DEF CapsState
  <2>2. CASE k \notin found_caps
    <3>1. found_caps \subseteq stored' => found_caps \subseteq stored
      BY <1>3, <2>2 DEF CapsState
    <3> QED BY <1>3, <3>1 DEF CapsState
  <2> QED BY <2>1, <2>2
<1>4. ASSUME NEW c \in Callers, Call(c) \/ CallerStep(c)
      PROVE  UNCHANGED <<discover_done, found_caps, stored, caps_done>>
  BY <1>4 DEF Call, CallerStep, CallConnect, CallDisconnect, CallDestroy, Claim, Spawn,
     SpawnFails, PostSetup, AwaitResolved, AwaitList, PostDiscover, AwaitDiscover,
     CheckDiscover, AwaitCaps, ShutdownEnter, PostStop, Join, Joining, Clear
<1>5. CASE RunSetup \/ RunStop \/ LinkUp \/ HandshakeOk \/ LinkDown \/ ListDone
  BY <1>1, <1>5 DEF RunSetup, RunStop, LinkUp, HandshakeOk, LinkDown, ListDone
<1> QED
  BY <1>1, <1>2, <1>3, <1>4, <1>5 DEF Next, RunTask, Device, Halted

\* The wait for the capabilities is never left sleeping: discovery and the state
\* handler between them set caps_done in whichever order they run.
THEOREM SettleNeverMissed == Spec => []NoMissedSettle
<1>1. Init => NoMissedSettle
  BY DEF Init, NoMissedSettle
<1> QED BY <1>1, SettleStep, TypeCorrect, PTL DEF Spec

-----------------------------------------------------------------------------
(* The first connect() *)

\* A caller that claimed the switcher and has not left connect() since.
Connecting(c) == pc[c] \in ConnectSteps \ {"claim"}

\* Before any attempt nothing has run: no flag can be stale.
Fresh ==
  attempt = 0 =>
    /\ ~connect_resolved /\ ~list_done /\ ~discover_done /\ ~opened
    /\ queue = <<>> /\ worker = "none" /\ ~running
    /\ \A c \in Callers : ~Connecting(c) /\ pc[c] \notin ShutdownSteps \ {"shutdown"}

\* During the first attempt a single caller is past the claim.
OneConnecting ==
  attempt <= 1 => \A c, d \in Callers : Connecting(c) /\ Connecting(d) => c = d

\* What a flag says has happened in this attempt.
FlagsTell ==
  attempt <= 1 =>
    /\ connect_resolved /\ ~connect_error => "resolved" \in reached
    /\ list_done => "listed" \in reached

\* What the position of a caller says has happened in this attempt.
PositionTells ==
  attempt <= 1 => \A c \in Callers :
    /\ pc[c] \in {"spawn", "post_setup", "await_resolved", "await_list", "post_discover"} =>
         ~discover_done
    /\ pc[c] \in {"await_list", "post_discover", "await_discover", "check_discover",
                  "await_caps"} => "resolved" \in reached
    /\ pc[c] \in {"post_discover", "await_discover", "check_discover", "await_caps"} =>
         "listed" \in reached
    /\ pc[c] \in {"await_discover", "check_discover"} /\ discover_done /\ ~discover_err[c] =>
         "discovered" \in reached
    /\ pc[c] = "check_discover" => discover_done
    /\ pc[c] = "await_caps" => "discovered" \in reached

\* A discover task belongs to the caller that waits for it, or that gave up.
TasksTell ==
  attempt <= 1 => \A i \in DOMAIN queue : queue[i].kind = "discover" =>
    \A c \in Callers : Connecting(c) =>
      queue[i].frame = c /\ pc[c] \in {"await_discover", "check_discover", "await_caps"}

FirstInv ==
  /\ Fresh /\ OneConnecting /\ FlagsTell /\ PositionTells /\ TasksTell
  /\ FirstConnectIsReady

\* Appending adds one task, taking removes one; the others stay as they are.
LEMMA QueueContents ==
  ASSUME NEW q \in Seq(Tasks)
  PROVE  /\ \A t \in Tasks : \A i \in DOMAIN Append(q, t) :
              Append(q, t)[i] = t \/ (i \in DOMAIN q /\ Append(q, t)[i] = q[i])
         /\ q # <<>> => /\ 1 \in DOMAIN q /\ Head(q) = q[1]
                        /\ \A i \in DOMAIN Tail(q) : i + 1 \in DOMAIN q /\ Tail(q)[i] = q[i + 1]
  OBVIOUS

LEMMA FirstStep == TypeOK /\ FirstInv /\ [Next]_vars => FirstInv'
<1> SUFFICES ASSUME TypeOK, FirstInv, [Next]_vars PROVE FirstInv'
  OBVIOUS
<1> USE DEF TypeOK, FirstInv, Connecting
<1>1. ASSUME NEW c \in Callers, CallConnect(c) PROVE FirstInv'
  BY <1>1 DEF CallConnect, Fresh, OneConnecting, FlagsTell, PositionTells, TasksTell,
     FirstConnectIsReady, ConnectIsReady, CallerTypeOK, HistoryTypeOK
<1>2. ASSUME NEW c \in Callers, CallDisconnect(c) PROVE FirstInv'
  BY <1>2 DEF CallDisconnect, BeginShutdown, Fresh, OneConnecting, FlagsTell,
     PositionTells, TasksTell, FirstConnectIsReady, ConnectIsReady, CallerTypeOK,
     HistoryTypeOK
<1>3. ASSUME NEW c \in Callers, CallDestroy(c) PROVE FirstInv'
  BY <1>3 DEF CallDestroy, BeginShutdown, Fresh, OneConnecting, FlagsTell,
     PositionTells, TasksTell, FirstConnectIsReady, ConnectIsReady, CallerTypeOK,
     HistoryTypeOK
<1>4. ASSUME NEW c \in Callers, Claim(c) PROVE FirstInv'
  <2>1. Fresh'
    BY <1>4 DEF Claim, Fresh, CallerTypeOK, HistoryTypeOK
  <2>2. OneConnecting'
    BY <1>4 DEF Claim, OneConnecting, Fresh, CallerTypeOK, HistoryTypeOK
  <2>3. FlagsTell'
    BY <1>4 DEF Claim, FlagsTell, Fresh, CallerTypeOK, HistoryTypeOK
  <2>4. PositionTells'
    BY <1>4 DEF Claim, PositionTells, Fresh, CallerTypeOK, HistoryTypeOK
  <2>5. TasksTell'
    BY <1>4 DEF Claim, TasksTell, Fresh, OneConnecting, CallerTypeOK, HistoryTypeOK
  <2>6. FirstConnectIsReady'
    BY <1>4 DEF Claim, FirstConnectIsReady, ConnectIsReady, PositionTells, Fresh,
       CallerTypeOK, HistoryTypeOK
  <2> QED BY <2>1, <2>2, <2>3, <2>4, <2>5, <2>6
<1>5. ASSUME NEW c \in Callers, Spawn(c) PROVE FirstInv'
  BY <1>5 DEF Spawn, Fresh, OneConnecting, FlagsTell, PositionTells, TasksTell,
     FirstConnectIsReady, ConnectIsReady, CallerTypeOK, HistoryTypeOK
<1>6. ASSUME NEW c \in Callers, SpawnFails(c) PROVE FirstInv'
  BY <1>6 DEF SpawnFails, Fresh, OneConnecting, FlagsTell, PositionTells, TasksTell,
     FirstConnectIsReady, ConnectIsReady, CallerTypeOK, HistoryTypeOK
<1>7. ASSUME NEW c \in Callers, PostSetup(c) PROVE FirstInv'
  BY <1>7, QueueContents, QueueType DEF PostSetup, Fresh, OneConnecting, FlagsTell,
     PositionTells, TasksTell, FirstConnectIsReady, ConnectIsReady, CallerTypeOK,
     HistoryTypeOK, Tasks, LoopTypeOK
<1>8. ASSUME NEW c \in Callers, AwaitResolved(c) PROVE FirstInv'
  <2>1. Fresh'
    BY <1>8 DEF AwaitResolved, TimesOut, BeginShutdown, Fresh, CallerTypeOK,
       HistoryTypeOK
  <2>2. OneConnecting'
    BY <1>8 DEF AwaitResolved, TimesOut, BeginShutdown, OneConnecting, Fresh,
       CallerTypeOK, HistoryTypeOK
  <2>3. FlagsTell'
    BY <1>8 DEF AwaitResolved, TimesOut, BeginShutdown, FlagsTell, Fresh, CallerTypeOK,
       HistoryTypeOK
  <2>4. PositionTells'
    BY <1>8 DEF AwaitResolved, TimesOut, BeginShutdown, PositionTells, Fresh, FlagsTell,
       CallerTypeOK, HistoryTypeOK
  <2>5. TasksTell'
    BY <1>8 DEF AwaitResolved, TimesOut, BeginShutdown, TasksTell, Fresh, OneConnecting,
       CallerTypeOK, HistoryTypeOK
  <2>6. FirstConnectIsReady'
    BY <1>8 DEF AwaitResolved, TimesOut, BeginShutdown, FirstConnectIsReady,
       ConnectIsReady, PositionTells, Fresh, CallerTypeOK, HistoryTypeOK
  <2> QED BY <2>1, <2>2, <2>3, <2>4, <2>5, <2>6
<1>9. ASSUME NEW c \in Callers, AwaitList(c) PROVE FirstInv'
  <2>1. Fresh'
    BY <1>9 DEF AwaitList, TimesOut, BeginShutdown, Fresh, CallerTypeOK, HistoryTypeOK
  <2>2. OneConnecting'
    BY <1>9 DEF AwaitList, TimesOut, BeginShutdown, OneConnecting, Fresh, CallerTypeOK,
       HistoryTypeOK
  <2>3. FlagsTell'
    BY <1>9 DEF AwaitList, TimesOut, BeginShutdown, FlagsTell, Fresh, CallerTypeOK,
       HistoryTypeOK
  <2>4. PositionTells'
    BY <1>9 DEF AwaitList, TimesOut, BeginShutdown, PositionTells, Fresh, FlagsTell,
       CallerTypeOK, HistoryTypeOK
  <2>5. TasksTell'
    BY <1>9 DEF AwaitList, TimesOut, BeginShutdown, TasksTell, Fresh, OneConnecting,
       CallerTypeOK, HistoryTypeOK
  <2>6. FirstConnectIsReady'
    BY <1>9 DEF AwaitList, TimesOut, BeginShutdown, FirstConnectIsReady, ConnectIsReady,
       PositionTells, Fresh, CallerTypeOK, HistoryTypeOK
  <2> QED BY <2>1, <2>2, <2>3, <2>4, <2>5, <2>6
<1>10. ASSUME NEW c \in Callers, PostDiscover(c) PROVE FirstInv'
  <2>1. Fresh'
    BY <1>10 DEF PostDiscover, Fresh, CallerTypeOK, HistoryTypeOK
  <2>2. OneConnecting'
    BY <1>10 DEF PostDiscover, OneConnecting, Fresh, CallerTypeOK, HistoryTypeOK
  <2>3. FlagsTell'
    BY <1>10 DEF PostDiscover, FlagsTell, Fresh, CallerTypeOK, HistoryTypeOK
  <2>4. PositionTells'
    BY <1>10 DEF PostDiscover, PositionTells, Fresh, CallerTypeOK, HistoryTypeOK
  <2>5. TasksTell'
    BY <1>10, QueueContents, QueueType DEF PostDiscover, TasksTell, Fresh,
       OneConnecting, CallerTypeOK, HistoryTypeOK, Tasks, LoopTypeOK
  <2>6. FirstConnectIsReady'
    BY <1>10 DEF PostDiscover, FirstConnectIsReady, ConnectIsReady, PositionTells,
       Fresh, CallerTypeOK, HistoryTypeOK
  <2> QED BY <2>1, <2>2, <2>3, <2>4, <2>5, <2>6
<1>11. ASSUME NEW c \in Callers, AwaitDiscover(c) PROVE FirstInv'
  <2>1. Fresh'
    BY <1>11 DEF AwaitDiscover, TimesOut, BeginShutdown, Fresh, CallerTypeOK,
       HistoryTypeOK
  <2>2. OneConnecting'
    BY <1>11 DEF AwaitDiscover, TimesOut, BeginShutdown, OneConnecting, Fresh,
       CallerTypeOK, HistoryTypeOK
  <2>3. FlagsTell'
    BY <1>11 DEF AwaitDiscover, TimesOut, BeginShutdown, FlagsTell, Fresh, CallerTypeOK,
       HistoryTypeOK
  <2>4. PositionTells'
    BY <1>11 DEF AwaitDiscover, TimesOut, BeginShutdown, PositionTells, Fresh,
       CallerTypeOK, HistoryTypeOK
  <2>5. TasksTell'
    BY <1>11 DEF AwaitDiscover, TimesOut, BeginShutdown, TasksTell, Fresh,
       OneConnecting, CallerTypeOK, HistoryTypeOK
  <2>6. FirstConnectIsReady'
    BY <1>11 DEF AwaitDiscover, TimesOut, BeginShutdown, FirstConnectIsReady,
       ConnectIsReady, PositionTells, Fresh, CallerTypeOK, HistoryTypeOK
  <2> QED BY <2>1, <2>2, <2>3, <2>4, <2>5, <2>6
<1>12. ASSUME NEW c \in Callers, CheckDiscover(c) PROVE FirstInv'
  <2>1. Fresh'
    BY <1>12 DEF CheckDiscover, BeginShutdown, Fresh, CallerTypeOK, HistoryTypeOK
  <2>2. OneConnecting'
    BY <1>12 DEF CheckDiscover, BeginShutdown, OneConnecting, Fresh, CallerTypeOK,
       HistoryTypeOK
  <2>3. FlagsTell'
    BY <1>12 DEF CheckDiscover, BeginShutdown, FlagsTell, Fresh, CallerTypeOK,
       HistoryTypeOK
  <2>4. PositionTells'
    BY <1>12 DEF CheckDiscover, BeginShutdown, PositionTells, Fresh, CallerTypeOK,
       HistoryTypeOK
  <2>5. TasksTell'
    BY <1>12 DEF CheckDiscover, BeginShutdown, TasksTell, Fresh, OneConnecting,
       CallerTypeOK, HistoryTypeOK
  <2>6. FirstConnectIsReady'
    BY <1>12 DEF CheckDiscover, BeginShutdown, FirstConnectIsReady, ConnectIsReady,
       PositionTells, Fresh, CallerTypeOK, HistoryTypeOK
  <2> QED BY <2>1, <2>2, <2>3, <2>4, <2>5, <2>6
<1>13. ASSUME NEW c \in Callers, AwaitCaps(c) PROVE FirstInv'
  <2>1. Fresh'
    BY <1>13 DEF AwaitCaps, Fresh, CallerTypeOK, HistoryTypeOK
  <2>2. OneConnecting'
    BY <1>13 DEF AwaitCaps, OneConnecting, Fresh, CallerTypeOK, HistoryTypeOK
  <2>3. FlagsTell'
    BY <1>13 DEF AwaitCaps, FlagsTell, Fresh, CallerTypeOK, HistoryTypeOK
  <2>4. PositionTells'
    BY <1>13 DEF AwaitCaps, PositionTells, Fresh, CallerTypeOK, HistoryTypeOK
  <2>5. TasksTell'
    BY <1>13 DEF AwaitCaps, TasksTell, Fresh, OneConnecting, CallerTypeOK, HistoryTypeOK
  <2>6. FirstConnectIsReady'
    <3>1. attempt = 1 => Milestones \subseteq reached
      BY <1>13 DEF AwaitCaps, PositionTells, HistoryTypeOK
    <3> QED BY <1>13, <3>1 DEF AwaitCaps, FirstConnectIsReady, ConnectIsReady, HistoryTypeOK
  <2> QED BY <2>1, <2>2, <2>3, <2>4, <2>5, <2>6
<1>14. ASSUME NEW c \in Callers, ShutdownEnter(c) PROVE FirstInv'
  BY <1>14 DEF ShutdownEnter, LeaveShutdown, Fresh, OneConnecting, FlagsTell,
     PositionTells, TasksTell, FirstConnectIsReady, ConnectIsReady, CallerTypeOK,
     HistoryTypeOK
<1>15. ASSUME NEW c \in Callers, PostStop(c) PROVE FirstInv'
  BY <1>15, QueueContents, QueueType DEF PostStop, Fresh, OneConnecting, FlagsTell,
     PositionTells, TasksTell, FirstConnectIsReady, ConnectIsReady, CallerTypeOK,
     HistoryTypeOK, Tasks, LoopTypeOK
<1>16. ASSUME NEW c \in Callers, Join(c) PROVE FirstInv'
  BY <1>16 DEF Join, Fresh, OneConnecting, FlagsTell, PositionTells, TasksTell,
     FirstConnectIsReady, ConnectIsReady, CallerTypeOK, HistoryTypeOK
<1>17. ASSUME NEW c \in Callers, Joining(c) PROVE FirstInv'
  BY <1>17 DEF Joining, Fresh, OneConnecting, FlagsTell, PositionTells, TasksTell,
     FirstConnectIsReady, ConnectIsReady, CallerTypeOK, HistoryTypeOK
<1>18. ASSUME NEW c \in Callers, Clear(c) PROVE FirstInv'
  BY <1>18 DEF Clear, LeaveShutdown, Fresh, OneConnecting, FlagsTell, PositionTells,
     TasksTell, FirstConnectIsReady, ConnectIsReady, CallerTypeOK, HistoryTypeOK
<1>19. CASE RunSetup
  BY <1>19, QueueContents, QueueType DEF RunSetup, Takes, Fresh, OneConnecting,
     FlagsTell, PositionTells, TasksTell, FirstConnectIsReady, ConnectIsReady,
     CallerTypeOK, HistoryTypeOK, Tasks, LoopTypeOK
<1>20. CASE RunDiscover
  <2>1. Fresh'
    BY <1>20 DEF RunDiscover, Takes, DiscoveredAll, Fresh, CallerTypeOK, HistoryTypeOK
  <2>2. OneConnecting'
    BY <1>20 DEF RunDiscover, Takes, DiscoveredAll, OneConnecting, Fresh, CallerTypeOK,
       HistoryTypeOK
  <2>3. FlagsTell'
    BY <1>20 DEF RunDiscover, Takes, DiscoveredAll, FlagsTell, Fresh, CallerTypeOK,
       HistoryTypeOK
  <2>4. PositionTells'
    <3>1. PICK f \in Callers : Head(queue) = [kind |-> "discover", frame |-> f]
      BY <1>20, QueueType DEF RunDiscover, Takes, Tasks, LoopTypeOK
    \* The frame written is the connecting caller's, and it says what happened.
    <3>2. attempt <= 1 => \A c \in Callers : Connecting(c) =>
           c = f /\ pc[c] \in {"await_discover", "check_discover", "await_caps"}
      BY <1>20, <3>1, QueueContents DEF RunDiscover, Takes, TasksTell, LoopTypeOK
    <3>3. ~discover_err'[f] => "discovered" \in reached'
      <4>1. \/ discover_err'[f] = TRUE
            \/ discover_err'[f] = (~DiscoveredAll) /\ (DiscoveredAll => "discovered" \in reached')
        BY <1>20, <3>1 DEF RunDiscover, CallerTypeOK
      <4> QED BY <4>1, Zenon
    <3>4. reached \subseteq reached' /\ discover_done' /\ UNCHANGED <<pc, attempt>>
      BY <1>20 DEF RunDiscover
    <3> QED BY <3>2, <3>3, <3>4 DEF PositionTells
  <2>5. TasksTell'
    BY <1>20, QueueContents, QueueType DEF RunDiscover, Takes, DiscoveredAll, TasksTell,
       Fresh, OneConnecting, CallerTypeOK, HistoryTypeOK, Tasks, LoopTypeOK
  <2>6. FirstConnectIsReady'
    BY <1>20 DEF RunDiscover, Takes, DiscoveredAll, FirstConnectIsReady, ConnectIsReady,
       PositionTells, Fresh, CallerTypeOK, HistoryTypeOK
  <2> QED BY <2>1, <2>2, <2>3, <2>4, <2>5, <2>6
<1>21. CASE RunStop
  BY <1>21, QueueContents, QueueType DEF RunStop, Takes, Fresh, OneConnecting,
     FlagsTell, PositionTells, TasksTell, FirstConnectIsReady, ConnectIsReady,
     CallerTypeOK, HistoryTypeOK, Tasks, LoopTypeOK
<1>22. CASE LinkUp
  BY <1>22 DEF LinkUp, Fresh, OneConnecting, FlagsTell, PositionTells, TasksTell,
     FirstConnectIsReady, ConnectIsReady, CallerTypeOK, HistoryTypeOK
<1>23. CASE HandshakeOk
  BY <1>23 DEF HandshakeOk, Fresh, OneConnecting, FlagsTell, PositionTells, TasksTell,
     FirstConnectIsReady, ConnectIsReady, CallerTypeOK, HistoryTypeOK
<1>24. CASE LinkDown
  BY <1>24 DEF LinkDown, Fresh, OneConnecting, FlagsTell, PositionTells, TasksTell,
     FirstConnectIsReady, ConnectIsReady, CallerTypeOK, HistoryTypeOK
<1>25. CASE ListDone
  BY <1>25 DEF ListDone, Fresh, OneConnecting, FlagsTell, PositionTells, TasksTell,
     FirstConnectIsReady, ConnectIsReady, CallerTypeOK, HistoryTypeOK
<1>26. ASSUME NEW k \in device.caps, CapsState(k) PROVE FirstInv'
  BY <1>26 DEF CapsState, Fresh, OneConnecting, FlagsTell, PositionTells, TasksTell,
     FirstConnectIsReady, ConnectIsReady, CallerTypeOK, HistoryTypeOK
<1>27. CASE UNCHANGED vars
  BY <1>27 DEF Fresh, OneConnecting, FlagsTell, PositionTells, TasksTell,
     FirstConnectIsReady, ConnectIsReady, CallerTypeOK, HistoryTypeOK
<1> QED
  BY <1>1, <1>2, <1>3, <1>4, <1>5, <1>6, <1>7, <1>8, <1>9, <1>10, <1>11, <1>12, <1>13,
     <1>14, <1>15, <1>16, <1>17, <1>18, <1>19, <1>20, <1>21, <1>22, <1>23, <1>24, <1>25,
     <1>26, <1>27
     DEF Next, Call, CallerStep, RunTask, Device, Halted

LEMMA FirstAlways == Spec => []FirstInv
<1>1. Init => FirstInv
  BY DEF Init, FirstInv, Fresh, OneConnecting, FlagsTell, PositionTells, TasksTell,
     FirstConnectIsReady, ConnectIsReady, Connecting
<1> QED BY <1>1, FirstStep, TypeCorrect, PTL DEF Spec

\* The first connect() of a switcher, however many threads use it and whatever
\* the network does, returns normally only when handshake, entity list and
\* discovery are complete.
THEOREM FirstConnectReady == Spec => []FirstConnectIsReady
<1>1. FirstInv => FirstConnectIsReady
  BY DEF FirstInv
<1> QED BY <1>1, FirstAlways, PTL

-----------------------------------------------------------------------------
(* A switcher used by a single thread *)

\* The worker thread exists only while `running` is set, and has been joined
\* wherever the caller is about to start or forget one.
OwnedInv ==
  /\ ~running => worker = "none"
  /\ worker # "running" => link = "down" /\ ~connected /\ ~handshake
  /\ \A c \in Callers : /\ pc[c] \in {"claim", "spawn", "clear"} => worker = "none"
                        /\ pc[c] = "spawn" => running
  /\ ~terminated

LEMMA OwnedStep ==
  ASSUME SingleCaller
  PROVE  TypeOK /\ OwnedInv /\ [Next]_vars => OwnedInv'
<1> SUFFICES ASSUME TypeOK, OwnedInv, [Next]_vars PROVE OwnedInv'
  OBVIOUS
<1> USE DEF TypeOK, OwnedInv, SingleCaller
<1>1. ASSUME NEW c \in Callers, Call(c) PROVE OwnedInv'
  BY <1>1 DEF Call, CallConnect, CallDisconnect, CallDestroy, BeginShutdown, CallerTypeOK
<1>2. ASSUME NEW c \in Callers, Claim(c) \/ SpawnFails(c) \/ PostSetup(c) \/ PostDiscover(c)
                                \/ AwaitCaps(c) \/ PostStop(c)
      PROVE  OwnedInv'
  BY <1>2 DEF Claim, SpawnFails, PostSetup, PostDiscover, AwaitCaps, PostStop, CallerTypeOK
<1>3. ASSUME NEW c \in Callers, Spawn(c) PROVE OwnedInv'
  BY <1>3 DEF Spawn, CallerTypeOK
<1>4. ASSUME NEW c \in Callers, AwaitResolved(c) \/ AwaitList(c) \/ AwaitDiscover(c)
                                \/ CheckDiscover(c)
      PROVE  OwnedInv'
  BY <1>4 DEF AwaitResolved, AwaitList, AwaitDiscover, CheckDiscover, TimesOut, BeginShutdown,
     CallerTypeOK
<1>5. ASSUME NEW c \in Callers, ShutdownEnter(c) PROVE OwnedInv'
  <2>1. CASE running
    BY <1>5, <2>1 DEF ShutdownEnter, CallerTypeOK
  <2>2. CASE ~running
    <3>1. ~terminated'
      BY <1>5, <2>2 DEF ShutdownEnter, LeaveShutdown
    <3>2. pc'[c] \in {"idle", "destroyed"}
      BY <1>5, <2>2 DEF ShutdownEnter, LeaveShutdown, CallerTypeOK
    <3> QED BY <1>5, <3>1, <3>2 DEF ShutdownEnter
  <2> QED BY <2>1, <2>2
<1>6. ASSUME NEW c \in Callers, Join(c) \/ Joining(c) PROVE OwnedInv'
  BY <1>6 DEF Join, Joining, CallerTypeOK
<1>7. ASSUME NEW c \in Callers, Clear(c) PROVE OwnedInv'
  BY <1>7 DEF Clear, LeaveShutdown, CallerTypeOK
<1>8. CASE RunTask
  BY <1>8 DEF RunTask, RunSetup, RunDiscover, RunStop, Takes
<1>9. CASE Device
  BY <1>9 DEF Device, LinkUp, HandshakeOk, LinkDown, ListDone, CapsState
<1>10. CASE UNCHANGED vars
  BY <1>10
<1> QED
  BY <1>1, <1>2, <1>3, <1>4, <1>5, <1>6, <1>7, <1>8, <1>9, <1>10 DEF Next, CallerStep, Halted

LEMMA OwnedAlways == ASSUME SingleCaller PROVE Spec => []OwnedInv
<1>1. Init => OwnedInv
  BY DEF Init, OwnedInv
<1> QED BY <1>1, OwnedStep, TypeCorrect, PTL DEF Spec

\* With one caller, a switcher that is not running has no loop thread, no link
\* and no pending handshake: no callback can follow disconnect().
THEOREM DisconnectQuiet == ASSUME SingleCaller PROVE Spec => []DisconnectedIsQuiet
<1>1. OwnedInv => DisconnectedIsQuiet
  BY DEF OwnedInv, DisconnectedIsQuiet
<1> QED BY <1>1, OwnedAlways, PTL

\* With one caller, the worker thread is joined before it is replaced or
\* destroyed, so the process is never terminated over it.
THEOREM OneCallerNeverTerminates == ASSUME SingleCaller PROVE Spec => []NeverTerminates
<1>1. OwnedInv => NeverTerminates
  BY DEF OwnedInv, NeverTerminates
<1> QED BY <1>1, OwnedAlways, PTL

-----------------------------------------------------------------------------
(* The frame of connect() *)

\* Before the loop starts, only stops can have been posted; a caller that is past
\* its own stop, or the flag it cleared, shows that one was.
SpawnTells ==
  attempt <= 1 => \A c \in Callers : pc[c] = "spawn" =>
    /\ worker = "none" /\ ~connect_resolved
    /\ \A i \in DOMAIN queue : queue[i].kind = "stop"
    /\ \A d \in Callers : pc[d] # "joining"
    /\ ~running \/ (\E d \in Callers : pc[d] \in {"join", "clear"}) => queue # <<>>

HandshakeTells == handshake => worker = "running"

\* A loop that runs although `running` was cleared, or is about to be, was started
\* after another caller's stop: it takes that first and does nothing else.
Doomed ==
  attempt <= 1 /\ worker = "running" /\ (~running \/ \E c \in Callers : pc[c] = "clear") =>
    /\ queue # <<>> /\ Head(queue).kind = "stop"
    /\ ~connect_resolved /\ ~handshake

\* No caller gets past the first wait, and no discover task is posted, before the
\* handshake resolved.
ResolvedTells ==
  attempt <= 1 =>
    /\ \A c \in Callers :
         pc[c] \in {"await_list", "post_discover", "await_discover", "check_discover",
                    "await_caps"} => connect_resolved
    /\ (\E i \in DOMAIN queue : queue[i].kind = "discover") => connect_resolved

\* At most one discover task waits, and none once discovery is done; as long as
\* the loop can take it, its caller waits for it or for the loop to end.
FrameTells ==
  attempt <= 1 => \A i \in DOMAIN queue : queue[i].kind = "discover" =>
    /\ \A j \in DOMAIN queue : queue[j].kind = "discover" => i = j
    /\ ~discover_done
    /\ worker = "running" =>
         LET c == queue[i].frame IN
           \/ pc[c] = "await_discover"
           \/ pc[c] \in ShutdownSteps /\ after[c] = "throw"

\* What is in flight says what has happened in this attempt.
ReachedTells ==
  /\ attempt = 0 => ~listing
  /\ attempt <= 1 =>
       /\ listing => "resolved" \in reached
       /\ \A i \in DOMAIN queue :
            queue[i].kind = "discover" => "resolved" \in reached /\ "listed" \in reached

FrameInv ==
  /\ SpawnTells /\ HandshakeTells /\ Doomed /\ ResolvedTells /\ FrameTells /\ ReachedTells

\* Appending to a queue that is not empty leaves its head.
LEMMA QueueHead ==
  ASSUME NEW q \in Seq(Tasks), NEW t \in Tasks
  PROVE  Append(q, t) # <<>> /\ (q # <<>> => Head(Append(q, t)) = Head(q))
<1>1. Append(q, t) # <<>> /\ Append(q, t) \in Seq(Tasks)
  <2>1. Append(q, t) \in Seq(Tasks)
    OBVIOUS
  <2>2. Len(Append(q, t)) = Len(q) + 1 /\ Len(q) \in Nat
    OBVIOUS
  <2>3. Len(<<>>) = 0
    OBVIOUS
  <2> QED BY <2>1, <2>2, <2>3
<1>2. q # <<>> => Append(q, t)[1] = q[1]
  OBVIOUS
<1>3. Head(Append(q, t)) = Append(q, t)[1] /\ (q # <<>> => Head(q) = q[1])
  BY <1>1, QueueContents
<1> QED BY <1>1, <1>2, <1>3

LEMMA FrameStep == TypeOK /\ FirstInv /\ FrameInv /\ [Next]_vars => FrameInv'
<1> SUFFICES ASSUME TypeOK, FirstInv, FrameInv, [Next]_vars PROVE FrameInv'
  OBVIOUS
<1> USE DEF TypeOK, FirstInv, FrameInv, Connecting
<1>0. \A i \in DOMAIN queue : queue[i].kind = "discover" => queue[i].frame \in Callers
  BY DEF LoopTypeOK, Tasks
<1>1. ASSUME NEW c \in Callers, CallConnect(c) PROVE FrameInv'
  <2>1. SpawnTells'
        BY <1>1 DEF CallConnect, SpawnTells, CallerTypeOK, HistoryTypeOK
  <2>2. HandshakeTells'
        BY <1>1 DEF CallConnect, HandshakeTells, CallerTypeOK, HistoryTypeOK
  <2>3. Doomed'
        BY <1>1 DEF CallConnect, Doomed, CallerTypeOK, HistoryTypeOK
  <2>4. ResolvedTells'
        BY <1>1 DEF CallConnect, ResolvedTells, CallerTypeOK, HistoryTypeOK
  <2>5. FrameTells'
    BY <1>0, <1>1 DEF CallConnect, FrameTells, CallerTypeOK, HistoryTypeOK
  <2>6. ReachedTells'
        BY <1>1 DEF CallConnect, ReachedTells, CallerTypeOK, HistoryTypeOK
  <2> QED BY <2>1, <2>2, <2>3, <2>4, <2>5, <2>6
<1>2. ASSUME NEW c \in Callers, CallDisconnect(c) PROVE FrameInv'
  <2>1. SpawnTells'
        BY <1>2 DEF CallDisconnect, BeginShutdown, SpawnTells, CallerTypeOK, HistoryTypeOK
  <2>2. HandshakeTells'
        BY <1>2 DEF CallDisconnect, BeginShutdown, HandshakeTells, CallerTypeOK, HistoryTypeOK
  <2>3. Doomed'
        BY <1>2 DEF CallDisconnect, BeginShutdown, Doomed, CallerTypeOK, HistoryTypeOK
  <2>4. ResolvedTells'
        BY <1>2 DEF CallDisconnect, BeginShutdown, ResolvedTells, CallerTypeOK, HistoryTypeOK
  <2>5. FrameTells'
        BY <1>2 DEF CallDisconnect, BeginShutdown, FrameTells, CallerTypeOK, HistoryTypeOK
  <2>6. ReachedTells'
        BY <1>2 DEF CallDisconnect, BeginShutdown, ReachedTells, CallerTypeOK, HistoryTypeOK
  <2> QED BY <2>1, <2>2, <2>3, <2>4, <2>5, <2>6
<1>3. ASSUME NEW c \in Callers, CallDestroy(c) PROVE FrameInv'
  <2>1. SpawnTells'
        BY <1>3 DEF CallDestroy, BeginShutdown, SpawnTells, CallerTypeOK, HistoryTypeOK
  <2>2. HandshakeTells'
        BY <1>3 DEF CallDestroy, BeginShutdown, HandshakeTells, CallerTypeOK, HistoryTypeOK
  <2>3. Doomed'
        BY <1>3 DEF CallDestroy, BeginShutdown, Doomed, CallerTypeOK, HistoryTypeOK
  <2>4. ResolvedTells'
        BY <1>3 DEF CallDestroy, BeginShutdown, ResolvedTells, CallerTypeOK, HistoryTypeOK
  <2>5. FrameTells'
        BY <1>3 DEF CallDestroy, BeginShutdown, FrameTells, CallerTypeOK, HistoryTypeOK
  <2>6. ReachedTells'
        BY <1>3 DEF CallDestroy, BeginShutdown, ReachedTells, CallerTypeOK, HistoryTypeOK
  <2> QED BY <2>1, <2>2, <2>3, <2>4, <2>5, <2>6
<1>4. ASSUME NEW c \in Callers, Claim(c) PROVE FrameInv'
  <2>1. SpawnTells'
    <3>1. attempt' <= 1 => attempt = 0
      BY <1>4 DEF Claim, HistoryTypeOK
    <3> QED BY <1>4, <3>1 DEF Claim, SpawnTells, Fresh, CallerTypeOK
  <2>2. HandshakeTells'
        BY <1>4 DEF Claim, HandshakeTells, CallerTypeOK, HistoryTypeOK
  <2>3. Doomed'
        BY <1>4 DEF Claim, Doomed, CallerTypeOK, HistoryTypeOK
  <2>4. ResolvedTells'
        BY <1>4 DEF Claim, ResolvedTells, CallerTypeOK, HistoryTypeOK
  <2>5. FrameTells'
        BY <1>4 DEF Claim, FrameTells, CallerTypeOK, HistoryTypeOK
  <2>6. ReachedTells'
    <3>1. attempt' <= 1 => attempt = 0
      BY <1>4 DEF Claim, HistoryTypeOK
    <3> QED BY <1>4, <3>1 DEF Claim, ReachedTells, Fresh, HistoryTypeOK
  <2> QED BY <2>1, <2>2, <2>3, <2>4, <2>5, <2>6
<1>5. ASSUME NEW c \in Callers, Spawn(c) PROVE FrameInv'
  <2>1. SpawnTells'
    BY <1>5 DEF Spawn, SpawnTells, OneConnecting, CallerTypeOK, HistoryTypeOK
  <2>2. HandshakeTells'
        BY <1>5 DEF Spawn, HandshakeTells, CallerTypeOK, HistoryTypeOK
  <2>3. Doomed'
    <3>1. CASE attempt <= 1 /\ worker' = "running"
      <4>1. /\ queue' = queue /\ running' = running
            /\ connect_resolved' = connect_resolved /\ handshake' = handshake
            /\ \A d \in Callers : pc'[d] = "clear" => pc[d] = "clear"
        BY <1>5 DEF Spawn, CallerTypeOK
      <4>2. /\ ~connect_resolved /\ ~handshake
            /\ ~running \/ (\E d \in Callers : pc[d] = "clear") => queue # <<>>
        BY <1>5, <3>1, <4>1 DEF Spawn, SpawnTells, HandshakeTells
      <4>3. queue # <<>> => Head(queue).kind = "stop"
        BY <1>5, <3>1, QueueContents DEF Spawn, SpawnTells, LoopTypeOK
      <4> QED BY <4>1, <4>2, <4>3 DEF Doomed
    <3>2. CASE ~(attempt <= 1 /\ worker' = "running")
      BY <1>5, <3>2 DEF Spawn, Doomed
    <3> QED BY <3>1, <3>2
  <2>4. ResolvedTells'
        BY <1>5 DEF Spawn, ResolvedTells, CallerTypeOK, HistoryTypeOK
  <2>5. FrameTells'
    BY <1>5 DEF Spawn, FrameTells, SpawnTells, Fresh, CallerTypeOK, HistoryTypeOK
  <2>6. ReachedTells'
        BY <1>5 DEF Spawn, ReachedTells, CallerTypeOK, HistoryTypeOK
  <2> QED BY <2>1, <2>2, <2>3, <2>4, <2>5, <2>6
<1>6. ASSUME NEW c \in Callers, SpawnFails(c) PROVE FrameInv'
  <2>1. SpawnTells'
        BY <1>6 DEF SpawnFails, SpawnTells, CallerTypeOK, HistoryTypeOK
  <2>2. HandshakeTells'
        BY <1>6 DEF SpawnFails, HandshakeTells, CallerTypeOK, HistoryTypeOK
  <2>3. Doomed'
        BY <1>6 DEF SpawnFails, Doomed, CallerTypeOK, HistoryTypeOK
  <2>4. ResolvedTells'
        BY <1>6 DEF SpawnFails, ResolvedTells, CallerTypeOK, HistoryTypeOK
  <2>5. FrameTells'
        BY <1>6 DEF SpawnFails, FrameTells, CallerTypeOK, HistoryTypeOK
  <2>6. ReachedTells'
        BY <1>6 DEF SpawnFails, ReachedTells, CallerTypeOK, HistoryTypeOK
  <2> QED BY <2>1, <2>2, <2>3, <2>4, <2>5, <2>6
<1>7. ASSUME NEW c \in Callers, PostSetup(c) PROVE FrameInv'
  <2>1. SpawnTells'
    BY <1>7 DEF PostSetup, SpawnTells, OneConnecting, CallerTypeOK, HistoryTypeOK
  <2>2. HandshakeTells'
        BY <1>7, QueueContents, QueueType DEF PostSetup, HandshakeTells, CallerTypeOK,
       HistoryTypeOK, Tasks, LoopTypeOK
  <2>3. Doomed'
    <3>1. queue # <<>> => queue' # <<>> /\ Head(queue') = Head(queue)
      BY <1>7, QueueHead DEF PostSetup, Tasks, LoopTypeOK
    <3> QED BY <1>7, <3>1 DEF PostSetup, Doomed, CallerTypeOK, HistoryTypeOK
  <2>4. ResolvedTells'
        BY <1>7, QueueContents, QueueType DEF PostSetup, ResolvedTells, CallerTypeOK,
       HistoryTypeOK, Tasks, LoopTypeOK
  <2>5. FrameTells'
        BY <1>7, QueueContents, QueueType DEF PostSetup, FrameTells, CallerTypeOK,
       HistoryTypeOK, Tasks, LoopTypeOK
  <2>6. ReachedTells'
        BY <1>7, QueueContents, QueueType DEF PostSetup, ReachedTells, CallerTypeOK,
       HistoryTypeOK, Tasks, LoopTypeOK
  <2> QED BY <2>1, <2>2, <2>3, <2>4, <2>5, <2>6
<1>8. ASSUME NEW c \in Callers, AwaitResolved(c) PROVE FrameInv'
  <2>1. SpawnTells'
        BY <1>8 DEF AwaitResolved, TimesOut, BeginShutdown, SpawnTells, CallerTypeOK,
       HistoryTypeOK
  <2>2. HandshakeTells'
        BY <1>8 DEF AwaitResolved, TimesOut, BeginShutdown, HandshakeTells, CallerTypeOK,
       HistoryTypeOK
  <2>3. Doomed'
        BY <1>8 DEF AwaitResolved, TimesOut, BeginShutdown, Doomed, CallerTypeOK, HistoryTypeOK
  <2>4. ResolvedTells'
        BY <1>8 DEF AwaitResolved, TimesOut, BeginShutdown, ResolvedTells, CallerTypeOK,
       HistoryTypeOK
  <2>5. FrameTells'
    BY <1>0, <1>8 DEF AwaitResolved, TimesOut, BeginShutdown, FrameTells, CallerTypeOK,
       HistoryTypeOK
  <2>6. ReachedTells'
        BY <1>8 DEF AwaitResolved, TimesOut, BeginShutdown, ReachedTells, CallerTypeOK,
       HistoryTypeOK
  <2> QED BY <2>1, <2>2, <2>3, <2>4, <2>5, <2>6
<1>9. ASSUME NEW c \in Callers, AwaitList(c) PROVE FrameInv'
  <2>1. SpawnTells'
        BY <1>9 DEF AwaitList, TimesOut, BeginShutdown, SpawnTells, CallerTypeOK, HistoryTypeOK
  <2>2. HandshakeTells'
        BY <1>9 DEF AwaitList, TimesOut, BeginShutdown, HandshakeTells, CallerTypeOK,
       HistoryTypeOK
  <2>3. Doomed'
        BY <1>9 DEF AwaitList, TimesOut, BeginShutdown, Doomed, CallerTypeOK, HistoryTypeOK
  <2>4. ResolvedTells'
        BY <1>9 DEF AwaitList, TimesOut, BeginShutdown, ResolvedTells, CallerTypeOK,
       HistoryTypeOK
  <2>5. FrameTells'
    BY <1>0, <1>9 DEF AwaitList, TimesOut, BeginShutdown, FrameTells, CallerTypeOK,
       HistoryTypeOK
  <2>6. ReachedTells'
        BY <1>9 DEF AwaitList, TimesOut, BeginShutdown, ReachedTells, CallerTypeOK,
       HistoryTypeOK
  <2> QED BY <2>1, <2>2, <2>3, <2>4, <2>5, <2>6
<1>10. ASSUME NEW c \in Callers, PostDiscover(c) PROVE FrameInv'
  <2>1. SpawnTells'
    BY <1>10 DEF PostDiscover, SpawnTells, OneConnecting, CallerTypeOK, HistoryTypeOK
  <2>2. HandshakeTells'
        BY <1>10, QueueContents, QueueType DEF PostDiscover, HandshakeTells, CallerTypeOK,
       HistoryTypeOK, Tasks, LoopTypeOK
  <2>3. Doomed'
        BY <1>10, QueueContents, QueueType DEF PostDiscover, Doomed, CallerTypeOK,
       HistoryTypeOK, Tasks, LoopTypeOK
  <2>4. ResolvedTells'
        BY <1>10, QueueContents, QueueType DEF PostDiscover, ResolvedTells, CallerTypeOK,
       HistoryTypeOK, Tasks, LoopTypeOK
  <2>5. FrameTells'
    <3>1. attempt <= 1 => ~discover_done /\ \A i \in DOMAIN queue : queue[i].kind # "discover"
      BY <1>10 DEF PostDiscover, TasksTell, PositionTells
    <3>2. \A i \in DOMAIN queue' :
            \/ i = Len(queue) + 1 /\ queue'[i].frame = c
            \/ i \in DOMAIN queue /\ queue'[i] = queue[i]
      BY <1>10 DEF PostDiscover, LoopTypeOK
    <3>3. pc'[c] = "await_discover" /\ UNCHANGED <<attempt, discover_done>>
      BY <1>10 DEF PostDiscover, CallerTypeOK
    <3> QED BY <3>1, <3>2, <3>3 DEF FrameTells
  <2>6. ReachedTells'
    <3>1. attempt <= 1 => "resolved" \in reached /\ "listed" \in reached
      BY <1>10 DEF PostDiscover, PositionTells
    <3> QED BY <1>10, <3>1 DEF PostDiscover, ReachedTells
  <2> QED BY <2>1, <2>2, <2>3, <2>4, <2>5, <2>6
<1>11. ASSUME NEW c \in Callers, AwaitDiscover(c) PROVE FrameInv'
  <2>1. SpawnTells'
        BY <1>11 DEF AwaitDiscover, TimesOut, BeginShutdown, SpawnTells, CallerTypeOK,
       HistoryTypeOK
  <2>2. HandshakeTells'
        BY <1>11 DEF AwaitDiscover, TimesOut, BeginShutdown, HandshakeTells, CallerTypeOK,
       HistoryTypeOK
  <2>3. Doomed'
        BY <1>11 DEF AwaitDiscover, TimesOut, BeginShutdown, Doomed, CallerTypeOK, HistoryTypeOK
  <2>4. ResolvedTells'
        BY <1>11 DEF AwaitDiscover, TimesOut, BeginShutdown, ResolvedTells, CallerTypeOK,
       HistoryTypeOK
  <2>5. FrameTells'
    BY <1>0, <1>11 DEF AwaitDiscover, TimesOut, BeginShutdown, FrameTells, CallerTypeOK,
       HistoryTypeOK
  <2>6. ReachedTells'
        BY <1>11 DEF AwaitDiscover, TimesOut, BeginShutdown, ReachedTells, CallerTypeOK,
       HistoryTypeOK
  <2> QED BY <2>1, <2>2, <2>3, <2>4, <2>5, <2>6
<1>12. ASSUME NEW c \in Callers, CheckDiscover(c) PROVE FrameInv'
  <2>1. SpawnTells'
        BY <1>12 DEF CheckDiscover, BeginShutdown, SpawnTells, CallerTypeOK, HistoryTypeOK
  <2>2. HandshakeTells'
        BY <1>12 DEF CheckDiscover, BeginShutdown, HandshakeTells, CallerTypeOK, HistoryTypeOK
  <2>3. Doomed'
        BY <1>12 DEF CheckDiscover, BeginShutdown, Doomed, CallerTypeOK, HistoryTypeOK
  <2>4. ResolvedTells'
        BY <1>12 DEF CheckDiscover, BeginShutdown, ResolvedTells, CallerTypeOK, HistoryTypeOK
  <2>5. FrameTells'
    BY <1>0, <1>12 DEF CheckDiscover, BeginShutdown, FrameTells, CallerTypeOK, HistoryTypeOK
  <2>6. ReachedTells'
        BY <1>12 DEF CheckDiscover, BeginShutdown, ReachedTells, CallerTypeOK, HistoryTypeOK
  <2> QED BY <2>1, <2>2, <2>3, <2>4, <2>5, <2>6
<1>13. ASSUME NEW c \in Callers, AwaitCaps(c) PROVE FrameInv'
  <2>1. SpawnTells'
        BY <1>13 DEF AwaitCaps, SpawnTells, CallerTypeOK, HistoryTypeOK
  <2>2. HandshakeTells'
        BY <1>13 DEF AwaitCaps, HandshakeTells, CallerTypeOK, HistoryTypeOK
  <2>3. Doomed'
        BY <1>13 DEF AwaitCaps, Doomed, CallerTypeOK, HistoryTypeOK
  <2>4. ResolvedTells'
        BY <1>13 DEF AwaitCaps, ResolvedTells, CallerTypeOK, HistoryTypeOK
  <2>5. FrameTells'
        BY <1>13 DEF AwaitCaps, FrameTells, CallerTypeOK, HistoryTypeOK
  <2>6. ReachedTells'
        BY <1>13 DEF AwaitCaps, ReachedTells, CallerTypeOK, HistoryTypeOK
  <2> QED BY <2>1, <2>2, <2>3, <2>4, <2>5, <2>6
<1>14. ASSUME NEW c \in Callers, ShutdownEnter(c) PROVE FrameInv'
  <2>1. SpawnTells'
        BY <1>14 DEF ShutdownEnter, LeaveShutdown, SpawnTells, CallerTypeOK, HistoryTypeOK
  <2>2. HandshakeTells'
        BY <1>14 DEF ShutdownEnter, LeaveShutdown, HandshakeTells, CallerTypeOK, HistoryTypeOK
  <2>3. Doomed'
        BY <1>14 DEF ShutdownEnter, LeaveShutdown, Doomed, CallerTypeOK, HistoryTypeOK
  <2>4. ResolvedTells'
        BY <1>14 DEF ShutdownEnter, LeaveShutdown, ResolvedTells, CallerTypeOK, HistoryTypeOK
  <2>5. FrameTells'
    \* With a discover task waiting the loop is not doomed, so the caller goes on to join.
    <3> DEFINE Waits == \E i \in DOMAIN queue : queue[i].kind = "discover"
    <3>1. CASE attempt <= 1 /\ worker = "running" /\ Waits
      <4>1. running /\ \A d \in Callers : pc[d] # "clear"
        BY <3>1 DEF Doomed, ResolvedTells
      <4> QED BY <1>0, <1>14, <4>1 DEF ShutdownEnter, FrameTells, CallerTypeOK
    <3>2. CASE ~(attempt <= 1 /\ worker = "running" /\ Waits)
      BY <1>14, <3>2 DEF ShutdownEnter, FrameTells
    <3> QED BY <3>1, <3>2
  <2>6. ReachedTells'
        BY <1>14 DEF ShutdownEnter, LeaveShutdown, ReachedTells, CallerTypeOK, HistoryTypeOK
  <2> QED BY <2>1, <2>2, <2>3, <2>4, <2>5, <2>6
<1>15. ASSUME NEW c \in Callers, PostStop(c) PROVE FrameInv'
  <2>1. SpawnTells'
    <3>1. queue' # <<>> /\ \A i \in DOMAIN queue' :
             queue'[i].kind = "stop" \/ (i \in DOMAIN queue /\ queue'[i] = queue[i])
      BY <1>15, QueueHead, QueueContents DEF PostStop, Tasks, LoopTypeOK
    <3> QED BY <1>15, <3>1 DEF PostStop, SpawnTells, CallerTypeOK, HistoryTypeOK
  <2>2. HandshakeTells'
        BY <1>15, QueueContents, QueueType DEF PostStop, HandshakeTells, CallerTypeOK,
       HistoryTypeOK, Tasks, LoopTypeOK
  <2>3. Doomed'
    <3>1. queue # <<>> => queue' # <<>> /\ Head(queue') = Head(queue)
      BY <1>15, QueueHead DEF PostStop, Tasks, LoopTypeOK
    <3> QED BY <1>15, <3>1 DEF PostStop, Doomed, CallerTypeOK, HistoryTypeOK
  <2>4. ResolvedTells'
        BY <1>15, QueueContents, QueueType DEF PostStop, ResolvedTells, CallerTypeOK,
       HistoryTypeOK, Tasks, LoopTypeOK
  <2>5. FrameTells'
        BY <1>15, QueueContents, QueueType DEF PostStop, FrameTells, CallerTypeOK,
       HistoryTypeOK, Tasks, LoopTypeOK
  <2>6. ReachedTells'
        BY <1>15, QueueContents, QueueType DEF PostStop, ReachedTells, CallerTypeOK,
       HistoryTypeOK, Tasks, LoopTypeOK
  <2> QED BY <2>1, <2>2, <2>3, <2>4, <2>5, <2>6
<1>16. ASSUME NEW c \in Callers, Join(c) PROVE FrameInv'
  <2>1. SpawnTells'
        BY <1>16 DEF Join, SpawnTells, CallerTypeOK, HistoryTypeOK
  <2>2. HandshakeTells'
        BY <1>16 DEF Join, HandshakeTells, CallerTypeOK, HistoryTypeOK
  <2>3. Doomed'
        BY <1>16 DEF Join, Doomed, CallerTypeOK, HistoryTypeOK
  <2>4. ResolvedTells'
        BY <1>16 DEF Join, ResolvedTells, CallerTypeOK, HistoryTypeOK
  <2>5. FrameTells'
        BY <1>16 DEF Join, FrameTells, CallerTypeOK, HistoryTypeOK
  <2>6. ReachedTells'
        BY <1>16 DEF Join, ReachedTells, CallerTypeOK, HistoryTypeOK
  <2> QED BY <2>1, <2>2, <2>3, <2>4, <2>5, <2>6
<1>17. ASSUME NEW c \in Callers, Joining(c) PROVE FrameInv'
  <2>1. SpawnTells'
        BY <1>17 DEF Joining, SpawnTells, CallerTypeOK, HistoryTypeOK
  <2>2. HandshakeTells'
        BY <1>17 DEF Joining, HandshakeTells, CallerTypeOK, HistoryTypeOK
  <2>3. Doomed'
        BY <1>17 DEF Joining, Doomed, CallerTypeOK, HistoryTypeOK
  <2>4. ResolvedTells'
        BY <1>17 DEF Joining, ResolvedTells, CallerTypeOK, HistoryTypeOK
  <2>5. FrameTells'
        BY <1>17 DEF Joining, FrameTells, CallerTypeOK, HistoryTypeOK
  <2>6. ReachedTells'
        BY <1>17 DEF Joining, ReachedTells, CallerTypeOK, HistoryTypeOK
  <2> QED BY <2>1, <2>2, <2>3, <2>4, <2>5, <2>6
<1>18. ASSUME NEW c \in Callers, Clear(c) PROVE FrameInv'
  <2>1. SpawnTells'
        BY <1>18 DEF Clear, LeaveShutdown, SpawnTells, CallerTypeOK, HistoryTypeOK
  <2>2. HandshakeTells'
        BY <1>18 DEF Clear, LeaveShutdown, HandshakeTells, CallerTypeOK, HistoryTypeOK
  <2>3. Doomed'
        BY <1>18 DEF Clear, LeaveShutdown, Doomed, CallerTypeOK, HistoryTypeOK
  <2>4. ResolvedTells'
        BY <1>18 DEF Clear, LeaveShutdown, ResolvedTells, CallerTypeOK, HistoryTypeOK
  <2>5. FrameTells'
    \* With a discover task waiting the loop is not doomed, so the caller goes on to join.
    <3> DEFINE Waits == \E i \in DOMAIN queue : queue[i].kind = "discover"
    <3>1. CASE attempt <= 1 /\ worker = "running" /\ Waits
      <4>1. running /\ \A d \in Callers : pc[d] # "clear"
        BY <3>1 DEF Doomed, ResolvedTells
      <4> QED BY <1>0, <1>18, <4>1 DEF Clear, FrameTells, CallerTypeOK
    <3>2. CASE ~(attempt <= 1 /\ worker = "running" /\ Waits)
      BY <1>18, <3>2 DEF Clear, FrameTells
    <3> QED BY <3>1, <3>2
  <2>6. ReachedTells'
        BY <1>18 DEF Clear, LeaveShutdown, ReachedTells, CallerTypeOK, HistoryTypeOK
  <2> QED BY <2>1, <2>2, <2>3, <2>4, <2>5, <2>6
<1>19. CASE RunSetup
  <2>1. SpawnTells'
        BY <1>19, QueueContents, QueueType DEF RunSetup, Takes, SpawnTells, CallerTypeOK,
       HistoryTypeOK, Tasks, LoopTypeOK
  <2>2. HandshakeTells'
        BY <1>19, QueueContents, QueueType DEF RunSetup, Takes, HandshakeTells, CallerTypeOK,
       HistoryTypeOK, Tasks, LoopTypeOK
  <2>3. Doomed'
        BY <1>19, QueueContents, QueueType DEF RunSetup, Takes, Doomed, CallerTypeOK,
       HistoryTypeOK, Tasks, LoopTypeOK
  <2>4. ResolvedTells'
        BY <1>19, QueueContents, QueueType DEF RunSetup, Takes, ResolvedTells, CallerTypeOK,
       HistoryTypeOK, Tasks, LoopTypeOK
  <2>5. FrameTells'
        BY <1>19, QueueContents, QueueType DEF RunSetup, Takes, FrameTells, CallerTypeOK,
       HistoryTypeOK, Tasks, LoopTypeOK
  <2>6. ReachedTells'
        BY <1>19, QueueContents, QueueType DEF RunSetup, Takes, ReachedTells, CallerTypeOK,
       HistoryTypeOK, Tasks, LoopTypeOK
  <2> QED BY <2>1, <2>2, <2>3, <2>4, <2>5, <2>6
<1>20. CASE RunDiscover
  <2>1. SpawnTells'
        BY <1>20, QueueContents, QueueType DEF RunDiscover, Takes, SpawnTells, CallerTypeOK,
       HistoryTypeOK, Tasks, LoopTypeOK
  <2>2. HandshakeTells'
        BY <1>20, QueueContents, QueueType DEF RunDiscover, Takes, HandshakeTells, CallerTypeOK,
       HistoryTypeOK, Tasks, LoopTypeOK
  <2>3. Doomed'
        BY <1>20, QueueContents, QueueType DEF RunDiscover, Takes, Doomed, CallerTypeOK,
       HistoryTypeOK, Tasks, LoopTypeOK
  <2>4. ResolvedTells'
        BY <1>20, QueueContents, QueueType DEF RunDiscover, Takes, ResolvedTells, CallerTypeOK,
       HistoryTypeOK, Tasks, LoopTypeOK
  <2>5. FrameTells'
        BY <1>20, QueueContents, QueueType DEF RunDiscover, Takes, FrameTells, CallerTypeOK,
       HistoryTypeOK, Tasks, LoopTypeOK
  <2>6. ReachedTells'
        BY <1>20, QueueContents, QueueType DEF RunDiscover, Takes, ReachedTells, CallerTypeOK,
       HistoryTypeOK, Tasks, LoopTypeOK
  <2> QED BY <2>1, <2>2, <2>3, <2>4, <2>5, <2>6
<1>21. CASE RunStop
  <2>1. SpawnTells'
        BY <1>21, QueueContents, QueueType DEF RunStop, Takes, SpawnTells, CallerTypeOK,
       HistoryTypeOK, Tasks, LoopTypeOK
  <2>2. HandshakeTells'
        BY <1>21, QueueContents, QueueType DEF RunStop, Takes, HandshakeTells, CallerTypeOK,
       HistoryTypeOK, Tasks, LoopTypeOK
  <2>3. Doomed'
        BY <1>21, QueueContents, QueueType DEF RunStop, Takes, Doomed, CallerTypeOK,
       HistoryTypeOK, Tasks, LoopTypeOK
  <2>4. ResolvedTells'
        BY <1>21, QueueContents, QueueType DEF RunStop, Takes, ResolvedTells, CallerTypeOK,
       HistoryTypeOK, Tasks, LoopTypeOK
  <2>5. FrameTells'
        BY <1>21, QueueContents, QueueType DEF RunStop, Takes, FrameTells, CallerTypeOK,
       HistoryTypeOK, Tasks, LoopTypeOK
  <2>6. ReachedTells'
        BY <1>21, QueueContents, QueueType DEF RunStop, Takes, ReachedTells, CallerTypeOK,
       HistoryTypeOK, Tasks, LoopTypeOK
  <2> QED BY <2>1, <2>2, <2>3, <2>4, <2>5, <2>6
<1>22. CASE LinkUp
  <2>1. SpawnTells'
        BY <1>22 DEF LinkUp, SpawnTells, CallerTypeOK, HistoryTypeOK
  <2>2. HandshakeTells'
        BY <1>22 DEF LinkUp, HandshakeTells, CallerTypeOK, HistoryTypeOK
  <2>3. Doomed'
        BY <1>22 DEF LinkUp, Doomed, CallerTypeOK, HistoryTypeOK
  <2>4. ResolvedTells'
        BY <1>22 DEF LinkUp, ResolvedTells, CallerTypeOK, HistoryTypeOK
  <2>5. FrameTells'
        BY <1>22 DEF LinkUp, FrameTells, CallerTypeOK, HistoryTypeOK
  <2>6. ReachedTells'
        BY <1>22 DEF LinkUp, ReachedTells, CallerTypeOK, HistoryTypeOK
  <2> QED BY <2>1, <2>2, <2>3, <2>4, <2>5, <2>6
<1>23. CASE HandshakeOk
  <2>1. SpawnTells'
        BY <1>23 DEF HandshakeOk, SpawnTells, CallerTypeOK, HistoryTypeOK
  <2>2. HandshakeTells'
        BY <1>23 DEF HandshakeOk, HandshakeTells, CallerTypeOK, HistoryTypeOK
  <2>3. Doomed'
        BY <1>23 DEF HandshakeOk, Doomed, CallerTypeOK, HistoryTypeOK
  <2>4. ResolvedTells'
        BY <1>23 DEF HandshakeOk, ResolvedTells, CallerTypeOK, HistoryTypeOK
  <2>5. FrameTells'
        BY <1>23 DEF HandshakeOk, FrameTells, CallerTypeOK, HistoryTypeOK
  <2>6. ReachedTells'
    <3>1. reached \subseteq reached' /\ "resolved" \in reached'
      BY <1>23 DEF HandshakeOk
    <3>2. attempt # 0
      BY <1>23 DEF HandshakeOk, Fresh
    <3> QED BY <1>23, <3>1, <3>2 DEF HandshakeOk, ReachedTells
  <2> QED BY <2>1, <2>2, <2>3, <2>4, <2>5, <2>6
<1>24. CASE LinkDown
  <2>1. SpawnTells'
        BY <1>24 DEF LinkDown, SpawnTells, CallerTypeOK, HistoryTypeOK
  <2>2. HandshakeTells'
        BY <1>24 DEF LinkDown, HandshakeTells, CallerTypeOK, HistoryTypeOK
  <2>3. Doomed'
        BY <1>24 DEF LinkDown, Doomed, CallerTypeOK, HistoryTypeOK
  <2>4. ResolvedTells'
        BY <1>24 DEF LinkDown, ResolvedTells, CallerTypeOK, HistoryTypeOK
  <2>5. FrameTells'
        BY <1>24 DEF LinkDown, FrameTells, CallerTypeOK, HistoryTypeOK
  <2>6. ReachedTells'
        BY <1>24 DEF LinkDown, ReachedTells, CallerTypeOK, HistoryTypeOK
  <2> QED BY <2>1, <2>2, <2>3, <2>4, <2>5, <2>6
<1>25. CASE ListDone
  <2>1. SpawnTells'
        BY <1>25 DEF ListDone, SpawnTells, CallerTypeOK, HistoryTypeOK
  <2>2. HandshakeTells'
        BY <1>25 DEF ListDone, HandshakeTells, CallerTypeOK, HistoryTypeOK
  <2>3. Doomed'
        BY <1>25 DEF ListDone, Doomed, CallerTypeOK, HistoryTypeOK
  <2>4. ResolvedTells'
        BY <1>25 DEF ListDone, ResolvedTells, CallerTypeOK, HistoryTypeOK
  <2>5. FrameTells'
        BY <1>25 DEF ListDone, FrameTells, CallerTypeOK, HistoryTypeOK
  <2>6. ReachedTells'
        BY <1>25 DEF ListDone, ReachedTells, CallerTypeOK, HistoryTypeOK
  <2> QED BY <2>1, <2>2, <2>3, <2>4, <2>5, <2>6
<1>26. ASSUME NEW k \in device.caps, CapsState(k) PROVE FrameInv'
  <2>1. SpawnTells'
        BY <1>26 DEF CapsState, SpawnTells, CallerTypeOK, HistoryTypeOK
  <2>2. HandshakeTells'
        BY <1>26 DEF CapsState, HandshakeTells, CallerTypeOK, HistoryTypeOK
  <2>3. Doomed'
        BY <1>26 DEF CapsState, Doomed, CallerTypeOK, HistoryTypeOK
  <2>4. ResolvedTells'
        BY <1>26 DEF CapsState, ResolvedTells, CallerTypeOK, HistoryTypeOK
  <2>5. FrameTells'
        BY <1>26 DEF CapsState, FrameTells, CallerTypeOK, HistoryTypeOK
  <2>6. ReachedTells'
        BY <1>26 DEF CapsState, ReachedTells, CallerTypeOK, HistoryTypeOK
  <2> QED BY <2>1, <2>2, <2>3, <2>4, <2>5, <2>6
<1>27. CASE UNCHANGED vars
    BY <1>27 DEF SpawnTells, HandshakeTells, Doomed, ResolvedTells, FrameTells, ReachedTells
<1> QED
    BY <1>1, <1>2, <1>3, <1>4, <1>5, <1>6, <1>7, <1>8, <1>9, <1>10, <1>11, <1>12, <1>13, <1>14,
     <1>15, <1>16, <1>17, <1>18, <1>19, <1>20, <1>21, <1>22, <1>23, <1>24, <1>25, <1>26, <1>27
     DEF Next, Call, CallerStep, RunTask, Device, Halted

LEMMA FrameAlways == Spec => []FrameInv
<1>1. Init => FrameInv
  BY DEF Init, FrameInv, SpawnTells, HandshakeTells, Doomed, ResolvedTells, FrameTells,
     ReachedTells
<1> QED BY <1>1, FirstAlways, FrameStep, TypeCorrect, PTL DEF Spec

\* However many threads share the switcher, while the loop can still run the first
\* attempt's discover task, the connect() whose local it writes to has not returned.
THEOREM FrameOutlivesTask == Spec => []DiscoverFrameAlive
<1>1. FrameInv => DiscoverFrameAlive
  BY DEF FrameInv, FrameTells, DiscoverFrameAlive
<1> QED BY <1>1, FrameAlways, PTL

-----------------------------------------------------------------------------
(* The contract *)

\* A step that adds a milestone to this attempt, those it needs being reached,
\* maps to Advance, or to a stutter when the first attempt is over or complete.
LEMMA ContractAdvance ==
  ASSUME FirstConnectIsReady, NEW m \in Milestones,
         attempt <= 1 => Contract!Needs[m] \subseteq reached,
         reached' = reached \cup {m}, UNCHANGED <<running, attempt, opened>>
  PROVE  [Contract!Next]_(Contract!vars)
<1>1. CASE running /\ attempt = 1 /\ ~opened
  <2>1. Contract!Advance(m)
    BY <1>1 DEF Contract!Advance
  <2>2. m \in DOMAIN Contract!Needs
    BY DEF Contract!Needs
  <2> QED BY <2>1, <2>2 DEF Contract!Next
<1>2. CASE opened /\ attempt = 1
  BY <1>2 DEF FirstConnectIsReady, ConnectIsReady, Contract!vars
<1>3. CASE ~running \/ attempt # 1
  BY <1>3 DEF Contract!vars
<1> QED BY <1>1, <1>2, <1>3

LEMMA ContractStep ==
  TypeOK /\ FirstInv /\ FrameInv /\ [Next]_vars => [Contract!Next]_(Contract!vars)
<1> SUFFICES ASSUME TypeOK, FirstInv, FrameInv, [Next]_vars
             PROVE  [Contract!Next]_(Contract!vars)
  OBVIOUS
<1> USE DEF TypeOK, HistoryTypeOK
<1>1. CASE UNCHANGED <<running, attempt, opened, reached>>
  BY <1>1 DEF Contract!vars
<1>2. ASSUME NEW c \in Callers, Claim(c) PROVE [Contract!Next]_(Contract!vars)
  <2>1. CASE attempt = 0
    BY <1>2, <2>1 DEF Claim, Contract!Next, Contract!Open
  <2>2. CASE attempt = 1
    BY <1>2, <2>2 DEF Claim, Contract!Next, Contract!Close, Contract!vars
  <2>3. CASE attempt > 1
    BY <1>2, <2>3 DEF Claim, Contract!vars
  <2> QED BY <2>1, <2>2, <2>3
<1>3. ASSUME NEW c \in Callers, AwaitCaps(c) PROVE [Contract!Next]_(Contract!vars)
  <2>1. attempt = 1 => reached = Milestones
    <3>1. attempt = 1 => "resolved" \in reached /\ "listed" \in reached /\ "discovered" \in reached
      BY <1>3 DEF AwaitCaps, FirstInv, PositionTells
    <3>2. reached \subseteq Milestones
      OBVIOUS
    <3> QED BY <3>1, <3>2
  <2>2. CASE running /\ attempt = 1 /\ ~opened
    BY <1>3, <2>1, <2>2 DEF AwaitCaps, Contract!Next, Contract!Ready, Contract!Needs
  <2>3. CASE ~running \/ attempt # 1 \/ opened
    BY <1>3, <2>3 DEF AwaitCaps, Contract!vars
  <2> QED BY <2>2, <2>3
<1>4. ASSUME NEW c \in Callers, Clear(c) PROVE [Contract!Next]_(Contract!vars)
  BY <1>4 DEF Clear, Contract!Next, Contract!Close, Contract!vars
<1>5. CASE HandshakeOk
  BY <1>5, ContractAdvance DEF HandshakeOk, FirstInv, Contract!Needs
<1>6. CASE ListDone
  BY <1>6, ContractAdvance DEF ListDone, FirstInv, FrameInv, ReachedTells, Contract!Needs
<1>7. CASE RunDiscover
  <2>1. attempt <= 1 => "resolved" \in reached /\ "listed" \in reached
    BY <1>7, QueueContents DEF RunDiscover, Takes, FrameInv, ReachedTells, LoopTypeOK
  <2>2. UNCHANGED <<running, attempt, opened>>
    BY <1>7 DEF RunDiscover
  <2>3. reached' = reached \/ reached' = reached \cup {"discovered"}
    BY <1>7 DEF RunDiscover
  <2> QED BY <1>1, <2>1, <2>2, <2>3, ContractAdvance DEF FirstInv, Contract!Needs
<1>8. ASSUME NEW c \in Callers, Call(c) \/ CallerStep(c)
      PROVE  \/ Claim(c) \/ AwaitCaps(c) \/ Clear(c)
             \/ UNCHANGED <<running, attempt, opened, reached>>
  BY <1>8 DEF Call, CallerStep, CallConnect, CallDisconnect, CallDestroy, Spawn, SpawnFails,
     PostSetup, AwaitResolved, AwaitList, PostDiscover, AwaitDiscover, CheckDiscover,
     ShutdownEnter, PostStop, Join, Joining
<1>9. CASE RunSetup \/ RunStop \/ LinkUp \/ LinkDown \/ (\E k \in device.caps : CapsState(k))
  BY <1>1, <1>9 DEF RunSetup, RunStop, LinkUp, LinkDown, CapsState
<1>10. CASE UNCHANGED vars
  BY <1>1, <1>10
<1> QED
  BY <1>1, <1>2, <1>3, <1>4, <1>5, <1>6, <1>7, <1>8, <1>9, <1>10
     DEF Next, RunTask, Device, Halted

\* The first connect/disconnect cycle of a switcher implements the contract of the
\* public header, whatever the threads, the network and the device do.
THEOREM ContractImplemented == Spec => ImplementsContract
<1>1. Init => Contract!Init
  BY DEF Init, Contract!Init
<1> QED
  BY <1>1, ContractStep, TypeCorrect, FirstAlways, FrameAlways, PTL
     DEF Spec, ImplementsContract, Contract!Spec

-----------------------------------------------------------------------------
(* The stop that a join waits for *)

\* The callers that wait for the loop to end or are about to, and the places of the
\* stop tasks that the loop has still to take.
Joiners == {c \in Callers : pc[c] \in {"join", "joining"}}
StopsIn(q) == {i \in DOMAIN q : q[i].kind = "stop"}
Exits == IF worker = "exited" THEN 1 ELSE 0

\* A loop that runs while a caller waits to join it has a stop before it.
JoinIsAnswered ==
  worker = "running" =>
    \A c \in Callers : pc[c] \in {"join", "joining"} =>
      \E i \in DOMAIN queue : queue[i].kind = "stop"

\* Each caller that waits has posted a stop; the loop has taken at most one of them,
\* the one it exited by, and a caller that joins it waits no longer.
JoinInv ==
  IsFiniteSet(Joiners) /\ Cardinality(Joiners) <= Cardinality(StopsIn(queue)) + Exits

\* The stops in a queue can be counted; a task appended or taken counts if it is one.
LEMMA StopsCount ==
  ASSUME NEW q \in Seq(Tasks)
  PROVE  IsFiniteSet(StopsIn(q)) /\ Cardinality(StopsIn(q)) \in Nat
<1>1. Len(q) \in Nat /\ DOMAIN q = 1..Len(q)
  OBVIOUS
<1>2. IsFiniteSet(1..Len(q))
  BY <1>1, FS_Interval
<1>3. StopsIn(q) \in SUBSET (1..Len(q))
  BY <1>1 DEF StopsIn
<1>4. IsFiniteSet(StopsIn(q))
  BY <1>2, <1>3, FS_Subset
<1>5. QED
  BY <1>4, FS_CardinalityType

LEMMA StopsAppend ==
  ASSUME NEW q \in Seq(Tasks), NEW t \in Tasks
  PROVE  Cardinality(StopsIn(Append(q, t)))
           = Cardinality(StopsIn(q)) + (IF t.kind = "stop" THEN 1 ELSE 0)
<1>1. /\ Len(q) \in Nat /\ DOMAIN q = 1..Len(q) /\ DOMAIN Append(q, t) = 1..(Len(q) + 1)
      /\ Append(q, t)[Len(q) + 1] = t /\ \A i \in 1..Len(q) : Append(q, t)[i] = q[i]
  OBVIOUS
<1>2. Len(q) + 1 \notin StopsIn(q)
  BY <1>1 DEF StopsIn
<1>3. CASE t.kind = "stop"
  <2>1. StopsIn(Append(q, t)) = StopsIn(q) \cup {Len(q) + 1}
    BY <1>1, <1>3 DEF StopsIn
  <2>2. QED
    BY <1>2, <1>3, <2>1, StopsCount, FS_AddElement
<1>4. CASE t.kind # "stop"
  <2>1. StopsIn(Append(q, t)) = StopsIn(q)
    BY <1>1, <1>4 DEF StopsIn
  <2>2. QED
    BY <1>4, <2>1, StopsCount
<1>5. QED
  BY <1>3, <1>4

LEMMA StopsTail ==
  ASSUME NEW q \in Seq(Tasks), q # <<>>
  PROVE  Cardinality(StopsIn(Tail(q)))
           = Cardinality(StopsIn(q)) - (IF Head(q).kind = "stop" THEN 1 ELSE 0)
<1> DEFINE R == StopsIn(q) \ {1}
           f == [i \in StopsIn(Tail(q)) |-> i + 1]
<1>1. /\ Len(q) \in Nat \ {0} /\ DOMAIN q = 1..Len(q) /\ DOMAIN Tail(q) = 1..(Len(q) - 1)
      /\ Head(q) = q[1] /\ \A i \in 1..(Len(q) - 1) : Tail(q)[i] = q[i + 1]
  OBVIOUS
<1>2. \A i \in StopsIn(Tail(q)) : i \in Nat /\ i + 1 \in R
  BY <1>1 DEF StopsIn
<1>3. \A j \in R : j - 1 \in StopsIn(Tail(q)) /\ (j - 1) + 1 = j
  BY <1>1 DEF StopsIn
<1>4. f \in Bijection(StopsIn(Tail(q)), R)
  <2>1. f \in [StopsIn(Tail(q)) -> R]
    BY <1>2
  <2>2. \A i, j \in StopsIn(Tail(q)) : f[i] = f[j] => i = j
    BY <1>2
  <2>3. \A j \in R : \E i \in StopsIn(Tail(q)) : f[i] = j
    BY <1>3
  <2> HIDE DEF f, R
  <2>4. QED
    BY <2>1, <2>2, <2>3 DEF Bijection, Injection, Surjection, IsInjective
<1> HIDE DEF f
<1>5. Tail(q) \in Seq(Tasks)
  OBVIOUS
<1>6. Cardinality(R) = Cardinality(StopsIn(Tail(q)))
  BY <1>4, <1>5, StopsCount, FS_Bijection DEF ExistsBijection
<1>7. Cardinality(R) = IF 1 \in StopsIn(q) THEN Cardinality(StopsIn(q)) - 1
                       ELSE Cardinality(StopsIn(q))
  BY StopsCount, FS_RemoveElement
<1>8. 1 \in StopsIn(q) <=> Head(q).kind = "stop"
  BY <1>1 DEF StopsIn
<1>9. QED
  BY <1>6, <1>7, <1>8, StopsCount

\* How a step of one caller changes the set of those who wait.
LEMMA JoinersAfter ==
  ASSUME TypeOK, NEW c \in Callers, NEW l, pc' = [pc EXCEPT ![c] = l]
  PROVE  Joiners' = IF l \in {"join", "joining"} THEN Joiners \cup {c} ELSE Joiners \ {c}
BY DEF Joiners, TypeOK, CallerTypeOK

\* One element more, or less, in a finite set.
LEMMA OneMore ==
  ASSUME NEW S, NEW x, IsFiniteSet(S)
  PROVE  IsFiniteSet(S \cup {x}) /\ Cardinality(S \cup {x}) <= Cardinality(S) + 1
<1>1. Cardinality(S) \in Nat
  BY FS_CardinalityType
<1>2. IsFiniteSet(S \cup {x})
  BY FS_AddElement
<1>3. CASE x \in S
  <2>1. Cardinality(S \cup {x}) = Cardinality(S)
    BY <1>3, FS_AddElement
  <2> QED BY <1>1, <1>2, <2>1
<1>4. CASE x \notin S
  <2>1. Cardinality(S \cup {x}) = Cardinality(S) + 1
    BY <1>4, FS_AddElement
  <2> QED BY <1>1, <1>2, <2>1
<1> QED BY <1>3, <1>4

LEMMA OneLess ==
  ASSUME NEW S, NEW x \in S, IsFiniteSet(S)
  PROVE  IsFiniteSet(S \ {x}) /\ Cardinality(S \ {x}) = Cardinality(S) - 1
BY FS_RemoveElement

LEMMA JoinStep == TypeOK /\ JoinInv /\ [Next]_vars => JoinInv'
<1> SUFFICES ASSUME TypeOK, JoinInv, [Next]_vars PROVE JoinInv'
  OBVIOUS
<1>1. /\ queue \in Seq(Tasks) /\ worker \in {"none", "running", "exited"}
      /\ pc \in [Callers -> ConnectSteps \cup ShutdownSteps \cup {"idle", "destroyed"}]
  BY DEF TypeOK, LoopTypeOK, CallerTypeOK
<1>2. /\ Cardinality(Joiners) \in Nat /\ Cardinality(StopsIn(queue)) \in Nat
      /\ IsFiniteSet(Joiners) /\ Cardinality(Joiners) <= Cardinality(StopsIn(queue)) + Exits
  BY <1>1, StopsCount, FS_CardinalityType DEF JoinInv
<1>3. ASSUME NEW c \in Callers, PostStop(c) PROVE JoinInv'
  <2>1. /\ pc' = [pc EXCEPT ![c] = "join"] /\ Exits' = Exits
        /\ queue' = Append(queue, [kind |-> "stop"])
    BY <1>3 DEF PostStop, Exits
  <2>2. Joiners' = Joiners \cup {c}
    BY <2>1, JoinersAfter
  <2>9. /\ IsFiniteSet(Joiners \cup {c})
        /\ Cardinality(Joiners \cup {c}) <= Cardinality(Joiners) + 1
    BY <1>2, OneMore
  <2>3. IsFiniteSet(Joiners') /\ Cardinality(Joiners') <= Cardinality(Joiners) + 1
    BY <2>2, <2>9
  <2>4. Cardinality(StopsIn(queue')) = Cardinality(StopsIn(queue)) + 1
    BY <1>1, <2>1, StopsAppend DEF Tasks
  <2>5. Cardinality(Joiners') \in Nat /\ Exits \in Nat
    BY <2>3, FS_CardinalityType DEF Exits
  <2>6. Cardinality(Joiners') <= Cardinality(StopsIn(queue')) + Exits'
    BY <1>2, <2>1, <2>3, <2>4, <2>5
  <2> QED BY <2>3, <2>6 DEF JoinInv
<1>4. ASSUME NEW c \in Callers, Join(c) PROVE JoinInv'
  <2>1. /\ c \in Joiners /\ UNCHANGED <<queue, worker>>
        /\ pc' = [pc EXCEPT ![c] = IF worker = "none" THEN "clear" ELSE "joining"]
    BY <1>4 DEF Join, Joiners
  <2>2. CASE worker = "none"
    <3>0. pc' = [pc EXCEPT ![c] = "clear"]
      BY <2>1, <2>2
    <3>1. Joiners' = Joiners \ {c}
      BY <3>0, JoinersAfter
    <3>2. IsFiniteSet(Joiners \ {c}) /\ Cardinality(Joiners \ {c}) = Cardinality(Joiners) - 1
      BY <1>2, <2>1, OneLess
    <3>3. IsFiniteSet(Joiners') /\ Cardinality(Joiners') = Cardinality(Joiners) - 1
      BY <3>1, <3>2
    <3> QED BY <1>2, <2>1, <3>3 DEF JoinInv, Exits
  <2>3. CASE worker # "none"
    <3>1. pc' = [pc EXCEPT ![c] = "joining"]
      BY <2>1, <2>3
    <3>2. Joiners' = Joiners \cup {c}
      BY <3>1, JoinersAfter
    <3>3. Joiners' = Joiners
      BY <2>1, <3>2
    <3> QED BY <1>2, <2>1, <3>3 DEF JoinInv, Exits
  <2> QED BY <2>2, <2>3
<1>5. ASSUME NEW c \in Callers, Joining(c) PROVE JoinInv'
  <2>1. /\ c \in Joiners /\ UNCHANGED queue
        /\ \/ pc' = [pc EXCEPT ![c] = "clear"] /\ worker \in {"exited", "none"}
           \/ pc' = [pc EXCEPT ![c] = "idle"] /\ worker = "none"
        /\ worker' = "none"
    BY <1>5 DEF Joining, Joiners
  <2>2. Joiners' = Joiners \ {c}
    BY <2>1, JoinersAfter
  <2>9. IsFiniteSet(Joiners \ {c}) /\ Cardinality(Joiners \ {c}) = Cardinality(Joiners) - 1
    BY <1>2, <2>1, OneLess
  <2>3. IsFiniteSet(Joiners') /\ Cardinality(Joiners') = Cardinality(Joiners) - 1
    BY <2>2, <2>9
  <2>4. Exits <= 1 /\ Exits' = 0 /\ Exits \in Nat
    BY <2>1 DEF Exits
  <2>5. Cardinality(Joiners') <= Cardinality(StopsIn(queue')) + Exits'
    BY <1>2, <2>1, <2>3, <2>4
  <2> QED BY <2>3, <2>5 DEF JoinInv
<1>6. ASSUME NEW c \in Callers, Spawn(c) PROVE JoinInv'
  <2>1. /\ UNCHANGED queue /\ (worker' = worker \/ worker = "none")
        /\ pc[c] = "spawn" /\ (pc' = pc \/ pc' = [pc EXCEPT ![c] = "post_setup"])
    BY <1>6 DEF Spawn
  <2>2. Joiners' = Joiners
    BY <1>1, <2>1 DEF Joiners
  <2>3. Exits <= Exits' /\ Exits \in Nat /\ Exits' \in Nat
    BY <2>1 DEF Exits
  <2> QED BY <1>2, <2>1, <2>2, <2>3 DEF JoinInv
<1>7. ASSUME NEW c \in Callers, PostSetup(c) \/ PostDiscover(c) PROVE JoinInv'
  <2>1. PICK t \in Tasks : t.kind # "stop" /\ queue' = Append(queue, t)
    BY <1>7 DEF PostSetup, PostDiscover, Tasks
  <2>2. /\ worker' = worker /\ pc[c] \in {"post_setup", "post_discover"}
        /\ \E l \in {"await_resolved", "await_discover"} : pc' = [pc EXCEPT ![c] = l]
    BY <1>7 DEF PostSetup, PostDiscover
  <2>3. Joiners' = Joiners
    BY <1>1, <2>2 DEF Joiners
  <2>4. Cardinality(StopsIn(queue')) = Cardinality(StopsIn(queue))
    BY <1>1, <1>2, <2>1, StopsAppend
  <2> QED BY <1>2, <2>2, <2>3, <2>4 DEF JoinInv, Exits
<1>8. CASE RunStop
  <2>1. /\ queue # <<>> /\ Head(queue).kind = "stop" /\ queue' = Tail(queue)
        /\ worker = "running" /\ worker' = "exited" /\ pc' = pc
    BY <1>8 DEF RunStop, Takes
  <2>2. Cardinality(StopsIn(queue')) = Cardinality(StopsIn(queue)) - 1
    BY <1>1, <2>1, StopsTail
  <2>3. Joiners' = Joiners /\ Exits = 0 /\ Exits' = 1
    BY <2>1 DEF Joiners, Exits
  <2> QED BY <1>2, <2>2, <2>3 DEF JoinInv
<1>9. CASE RunSetup \/ RunDiscover
  <2>1. /\ queue # <<>> /\ Head(queue).kind # "stop" /\ queue' = Tail(queue)
        /\ worker' = worker /\ pc' = pc
    BY <1>9 DEF RunSetup, RunDiscover, Takes
  <2>2. Cardinality(StopsIn(queue')) = Cardinality(StopsIn(queue))
    BY <1>1, <1>2, <2>1, StopsTail
  <2>3. Joiners' = Joiners /\ Exits' = Exits
    BY <2>1 DEF Joiners, Exits
  <2> QED BY <1>2, <2>2, <2>3 DEF JoinInv
<1>10. ASSUME UNCHANGED <<queue, worker>>, Joiners' = Joiners PROVE JoinInv'
  BY <1>2, <1>10 DEF JoinInv, Exits
<1>11. ASSUME UNCHANGED <<queue, worker>>, NEW c \in Callers, NEW l,
              pc[c] \notin {"join", "joining"}, l \notin {"join", "joining"},
              pc' = [pc EXCEPT ![c] = l]
       PROVE  JoinInv'
  <2>1. Joiners' = Joiners
    BY <1>1, <1>11, JoinersAfter DEF Joiners
  <2> QED BY <1>10, <1>11, <2>1
<1>12. CASE UNCHANGED <<queue, worker, pc>>
  <2>1. Joiners' = Joiners
    BY <1>12 DEF Joiners
  <2> QED BY <1>10, <1>12, <2>1
<1>13. ASSUME NEW c \in Callers, Call(c) PROVE JoinInv'
  <2>1. UNCHANGED <<queue, worker>> /\ pc[c] = "idle"
    BY <1>13 DEF Call, CallConnect, CallDisconnect, CallDestroy
  <2>2. pc' = pc \/ \E l \in {"claim", "shutdown"} : pc' = [pc EXCEPT ![c] = l]
    BY <1>13 DEF Call, CallConnect, CallDisconnect, CallDestroy, BeginShutdown
  <2> QED BY <1>11, <1>12, <2>1, <2>2
<1>14. ASSUME NEW c \in Callers,
              \/ Claim(c) \/ SpawnFails(c) \/ AwaitResolved(c) \/ AwaitList(c)
              \/ AwaitDiscover(c) \/ CheckDiscover(c) \/ AwaitCaps(c)
       PROVE  JoinInv'
  <2>1. UNCHANGED <<queue, worker>> /\ pc[c] \in ConnectSteps
    BY <1>14 DEF Claim, SpawnFails, AwaitResolved, AwaitList, AwaitDiscover, CheckDiscover,
       AwaitCaps
  <2>2. \E l \in ConnectSteps \cup {"idle", "shutdown"} : pc' = [pc EXCEPT ![c] = l]
    BY <1>14 DEF Claim, SpawnFails, AwaitResolved, AwaitList, AwaitDiscover, CheckDiscover,
       AwaitCaps, TimesOut, BeginShutdown
  <2> QED BY <1>11, <2>1, <2>2
<1>15. ASSUME NEW c \in Callers, ShutdownEnter(c) \/ Clear(c) PROVE JoinInv'
  <2>1. UNCHANGED <<queue, worker>> /\ pc[c] \in {"shutdown", "clear"}
    BY <1>15 DEF ShutdownEnter, Clear
  <2>2. \E l \in {"post_stop", "idle", "destroyed"} : pc' = [pc EXCEPT ![c] = l]
    BY <1>15 DEF ShutdownEnter, Clear, LeaveShutdown
  <2> QED BY <1>11, <2>1, <2>2
<1>16. CASE Device
  BY <1>12, <1>16 DEF Device, LinkUp, HandshakeOk, LinkDown, ListDone, CapsState
<1>17. CASE UNCHANGED vars
  BY <1>12, <1>17
<1> QED
  BY <1>3, <1>4, <1>5, <1>6, <1>7, <1>8, <1>9, <1>13, <1>14, <1>15, <1>16, <1>17
     DEF Next, CallerStep, RunTask, Halted

\* However many threads use a switcher, none of them joins a loop that nobody stops:
\* while the loop runs, a stop that it has not taken yet is in its queue
\* (shutdown_worker() in client.cpp), which it serves in order.
THEOREM JoinsAreAnswered == Spec => []JoinIsAnswered
<1>1. Init => JoinInv
  <2>1. SUFFICES ASSUME Init PROVE JoinInv
    OBVIOUS
  <2>2. Joiners = {} /\ queue = <<>> /\ Exits = 0
    BY <2>1 DEF Init, Joiners, Exits
  <2>3. StopsIn(queue) = {}
    BY <2>2 DEF StopsIn
  <2> QED BY <2>2, <2>3, FS_EmptySet DEF JoinInv
<1>2. TypeOK /\ JoinInv => JoinIsAnswered
  <2>1. SUFFICES ASSUME TypeOK, JoinInv, worker = "running", NEW c \in Joiners
                 PROVE  \E i \in DOMAIN queue : queue[i].kind = "stop"
    BY DEF JoinIsAnswered, Joiners
  <2>2. Exits = 0
    BY <2>1 DEF Exits
  <2>3. queue \in Seq(Tasks)
    BY <2>1 DEF TypeOK, LoopTypeOK
  <2>4. Cardinality(Joiners) \in Nat /\ Cardinality(Joiners) # 0
    BY <2>1, FS_EmptySet, FS_CardinalityType DEF JoinInv
  <2>5. Cardinality(StopsIn(queue)) \in Nat /\ Cardinality(StopsIn(queue)) # 0
    BY <2>1, <2>2, <2>3, <2>4, StopsCount DEF JoinInv
  <2>6. StopsIn(queue) # {}
    BY <2>5, FS_EmptySet
  <2> QED BY <2>6 DEF StopsIn
<1> QED BY <1>1, <1>2, JoinStep, TypeCorrect, PTL DEF Spec
=============================================================================
