---------------------------- MODULE MCBusStorage ----------------------------
(* The event bus and the storage service, which share no state in these    *)
(* modules: a behaviour picks one of them and only that one moves.         *)
(* The bus has a ring of two events, so that two publications fill it and  *)
(* a third drops, counters that wrap at three, two producers besides the   *)
(* handlers of the UI task, two event types, so that a mask may leave one  *)
(* out, and a table as large as the handlers.  The storage service has two *)
(* handles, so that a client and the log writer can fill the table, a      *)
(* generation that wraps at two, one client, one requester and one burst   *)
(* of log lines.                                                           *)
EXTENDS EventBus, Storage

VARIABLE part

bothVars == <<part, vars, storageVars>>

Bus(A)  == part = "bus" /\ A /\ UNCHANGED <<part, storageVars>>
Card(A) == part = "card" /\ A /\ UNCHANGED <<part, vars>>

BothInit ==
  /\ part \in {"bus", "card"}
  /\ Init /\ StorageInit
  /\ part = "bus" => card = "none"

BothNext == Bus(Next) \/ Card(StorageNext)

(* The fairness of each, once it is the one that moves.                    *)
BothFairness ==
  /\ WF_bothVars(Bus(DispatchStep))
  /\ WF_bothVars(Bus(WaitStep))
  /\ \A p \in Producers : WF_bothVars(Bus(Give(p)))
  /\ WF_bothVars(Card(TaskStep))
  /\ \A r \in Requesters : WF_bothVars(Card(Notify(r)))
  /\ WF_bothVars(Card(TimePasses))

BothSpec == BothInit /\ [][BothNext]_bothVars /\ BothFairness
=============================================================================
