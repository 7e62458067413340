----------------------------- MODULE LossyFifo -----------------------------
(***************************************************************************)
(* What the event bus promises its users, with no ring, no lock and no     *)
(* tasks: messages are numbered as they are sent, and every number is      *)
(* settled in that order, by being taken or by being lost.  A message is   *)
(* lost only when another one arrives while Capacity are outstanding, and  *)
(* taking is done in rounds that hand out nothing sent after the round     *)
(* opened, and all that was sent before it and is still there.             *)
(***************************************************************************)
EXTENDS Integers

CONSTANT Capacity

VARIABLES
  sent,     \* messages sent so far
  next,     \* the oldest message not settled
  open,     \* a round is open
  horizon,  \* the newest message the round may hand out
  taken     \* the message taken last, 0 before the first

vars == <<sent, next, open, horizon, taken>>

Outstanding == sent - next + 1

Init ==
  /\ sent = 0
  /\ next = 1
  /\ open = FALSE
  /\ horizon = 0
  /\ taken = 0

Send ==
  /\ sent' = sent + 1
  /\ next' = IF Outstanding = Capacity THEN next + 1 ELSE next
  /\ UNCHANGED <<open, horizon, taken>>

Open ==
  /\ ~open
  /\ open' = TRUE
  /\ horizon' = sent
  /\ UNCHANGED <<sent, next, taken>>

Take ==
  /\ open
  /\ next <= horizon
  /\ taken' = next
  /\ next' = next + 1
  /\ UNCHANGED <<sent, open, horizon>>

Close ==
  /\ open
  /\ next > horizon
  /\ open' = FALSE
  /\ UNCHANGED <<sent, next, horizon, taken>>

Next == Send \/ Open \/ Take \/ Close

Spec == Init /\ [][Next]_vars
=============================================================================
