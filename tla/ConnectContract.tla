--------------------------- MODULE ConnectContract ---------------------------
(***************************************************************************)
(* What one connect() / disconnect() cycle promises its caller             *)
(* (include/antenna_switcher/client.hpp): the switcher is open only after  *)
(* the handshake resolved, the entity list ended and discovery succeeded,  *)
(* in that order and since the call that opened it.                        *)
(***************************************************************************)
VARIABLES phase, milestones

vars == <<phase, milestones>>

\* The milestones each one needs before it.
Needs == [resolved |-> {}, listed |-> {"resolved"}, discovered |-> {"resolved", "listed"}]

Init == phase = "closed" /\ milestones = {}

Open ==
  /\ phase = "closed"
  /\ phase' = "opening"
  /\ milestones' = {}

Advance(m) ==
  /\ phase = "opening"
  /\ Needs[m] \subseteq milestones
  /\ milestones' = milestones \cup {m}
  /\ UNCHANGED phase

\* connect() returns to its caller.
Ready ==
  /\ phase = "opening"
  /\ milestones = DOMAIN Needs
  /\ phase' = "open"
  /\ UNCHANGED milestones

\* connect() fails, or disconnect() ends the session.
Close ==
  /\ phase \in {"opening", "open"}
  /\ phase' = "closed"
  /\ milestones' = {}

Next == Open \/ (\E m \in DOMAIN Needs : Advance(m)) \/ Ready \/ Close

Spec == Init /\ [][Next]_vars
=============================================================================
