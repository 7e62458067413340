----------------------------- MODULE AppSession -----------------------------
(***************************************************************************)
(* What the app manager promises an app and its worker, with no screens,   *)
(* keys, semaphores or time-outs: one session at a time, at most one       *)
(* worker, only while its session is open, and no worker left when         *)
(* on_stop() ends the session.                                             *)
(***************************************************************************)
EXTENDS Integers

VARIABLES
  phase,    \* "closed", "open", "leaving"
  session,  \* the number of sessions so far
  working   \* the session whose worker exists, 0 for none

vars == <<phase, session, working>>

Init ==
  /\ phase = "closed"
  /\ session = 0
  /\ working = 0

Open ==
  /\ phase = "closed"
  /\ phase' = "open"
  /\ session' = session + 1
  /\ UNCHANGED working

(* A worker that is done may be replaced by the next in one step.          *)
WorkerStarts ==
  /\ phase = "open"
  /\ working \in {0, session}
  /\ working' = session
  /\ UNCHANGED <<phase, session>>

Leave ==
  /\ phase = "open"
  /\ phase' = "leaving"
  /\ UNCHANGED <<session, working>>

(* The worker was joined, or deleted.                                      *)
WorkerEnds ==
  /\ phase = "leaving"
  /\ working' = 0
  /\ UNCHANGED <<phase, session>>

(* on_stop().                                                              *)
Stop ==
  /\ phase = "leaving"
  /\ working = 0
  /\ phase' = "closed"
  /\ UNCHANGED <<session, working>>

Next == Open \/ WorkerStarts \/ Leave \/ WorkerEnds \/ Stop

Spec == Init /\ [][Next]_vars
=============================================================================
