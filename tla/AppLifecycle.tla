---------------------------- MODULE AppLifecycle ----------------------------
(***************************************************************************)
(* The life of an app: the manager app_manager.c, the worker slot          *)
(* app_worker.c, fault reports app_fault.c, the screen stack ui_stack.c    *)
(* and the modal dialog ui_dialog.c, with the events that drive them.      *)
(*                                                                         *)
(* All but the worker runs on the UI task.  An action of the UI task runs  *)
(* from one point where the worker's doings matter to the next: an event   *)
(* taken off the bus, a pop, each step of a join.  What an app does in a   *)
(* callback is left open: one of the calls that the manager offers it.     *)
(* Missing capabilities, which only disable rows, are in ModuleBridge.     *)
(***************************************************************************)
EXTENDS Integers, Sequences

CONSTANTS
  QueueLen,     \* CONFIG_STARK_EVENT_QUEUE_LEN
  MaxPresses,   \* bound: keys pressed
  MaxReports    \* bound: notes, faults and card removals published

ASSUME AppConstantsOK ==
  /\ QueueLen \in Nat \ {0}
  /\ MaxPresses \in Nat
  /\ MaxReports \in Nat

VARIABLES
  queue,       \* the bus, oldest event first
  held,        \* the key that is down; "long" once it was held long
  pressed,     \* keys pressed so far; names the presses
  reports,     \* notes, faults and card removals published so far
  ui,          \* where the UI task stands
  after,       \* where it goes on after on_stop()
  evt,         \* the event being dispatched
  heard,       \* history: the last press whose PRESS was dispatched
  stack,       \* s_stack: never more than 3 of its 8 places are used
  dlg,         \* s_dlg
  current,     \* s_current: the number of the running launch, 0 for none
  launches,    \* launches so far
  generation,  \* s_generation
  worker,      \* the worker task, and the launch that started it
  task,        \* s_task # NULL
  done,        \* s_done, a binary semaphore
  stop         \* s_stop

inputVars == <<held, pressed>>
uiVars == <<ui, after, evt, heard>>
screenVars == <<stack, dlg>>
appVars == <<current, launches, generation>>
slotVars == <<task, done, stop>>
workerVars == <<worker, slotVars>>
busVars == <<queue, reports>>
vars == <<busVars, inputVars, uiVars, screenVars, appVars, workerVars>>

(* n names the press, or is what a fault report carries; by, which no      *)
(* event carries, is the launch whose app or worker published it.          *)
Keys == {"ok_press", "ok_short", "back_press", "back_short", "back_long"}
Event == [kind : Keys \cup {"note", "fail", "removed"}, n : Nat, by : Nat]
NoEvent == [kind |-> "note", n |-> 0, by |-> 0]

NoWorker == [pc |-> "none", launch |-> 0]

(* A dialog that is not open: nothing of the last one is ever read.        *)
Closed == [open |-> FALSE, alert |-> FALSE, ok |-> FALSE, back |-> FALSE,
           owner |-> 0, heard |-> 0, born |-> 0]

(* After stark_app_init(): the launcher is on the screen.                  *)
Init ==
  /\ queue = <<>> /\ reports = 0
  /\ held = "none" /\ pressed = 0
  /\ ui = "idle" /\ after = "idle" /\ evt = NoEvent /\ heard = 0
  /\ stack = <<"launcher">> /\ dlg = Closed
  /\ current = 0 /\ launches = 0 /\ generation = 0
  /\ worker = NoWorker /\ task = FALSE /\ done = FALSE /\ stop = FALSE

-----------------------------------------------------------------------------

(* The bus drops its oldest event when it is full.                         *)
Publish(e) ==
  queue' = Append(IF Len(queue) = QueueLen THEN Tail(queue) ELSE queue, e)

Report(kind, n, by) ==
  /\ reports < MaxReports
  /\ reports' = reports + 1
  /\ Publish([kind |-> kind, n |-> n, by |-> by])

-----------------------------------------------------------------------------
(* The keys, one at a time, and the card.                                  *)

PressOf == [ok |-> "ok_press", back |-> "back_press"]
ShortOf == [ok |-> "ok_short", back |-> "back_short"]

KeyEvent(kind, n) == Publish([kind |-> kind, n |-> n, by |-> 0])

Press(key) ==
  /\ held = "none"
  /\ pressed < MaxPresses
  /\ held' = key
  /\ pressed' = pressed + 1
  /\ KeyEvent(PressOf[key], pressed')
  /\ UNCHANGED <<reports, uiVars, screenVars, appVars, workerVars>>

(* Nobody listens to a long OK.                                            *)
HoldLong ==
  /\ held \in {"ok", "back"}
  /\ held' = "long"
  /\ IF held = "back" THEN KeyEvent("back_long", pressed) ELSE UNCHANGED queue
  /\ UNCHANGED <<pressed, reports, uiVars, screenVars, appVars, workerVars>>

LetGo ==
  /\ held # "none"
  /\ held' = "none"
  /\ IF held = "long" THEN UNCHANGED queue ELSE KeyEvent(ShortOf[held], pressed)
  /\ UNCHANGED <<pressed, reports, uiVars, screenVars, appVars, workerVars>>

(* The storage service says REMOVED after it said MOUNTED.                 *)
CardRemoved ==
  /\ Report("removed", 0, 0)
  /\ UNCHANGED <<inputVars, uiVars, screenVars, appVars, workerVars>>

-----------------------------------------------------------------------------
(* The screens.  `found` is the stack that the code at hand works on: the  *)
(* stack itself, or what is left of it once the dialog was popped.         *)

Top == stack[Len(stack)]
Popped == SubSeq(stack, 1, Len(stack) - 1)

ShowAs(found) ==
  /\ stack' = found
  /\ dlg' = IF found = stack THEN dlg ELSE Closed

Opened(alert, owner) ==
  [open |-> TRUE, alert |-> alert, ok |-> FALSE, back |-> FALSE,
   owner |-> owner, heard |-> heard, born |-> pressed]

(* Slip: OK stays armed from before the dialog opened.                     *)
OpenDialogSlip(alert, owner, found) ==
  IF dlg.open /\ found = stack
  THEN ShowAs(found)
  ELSE /\ stack' = Append(found, "dialog")
       /\ dlg' = [Opened(alert, owner) EXCEPT !.ok = heard > 0]

(* Slip: only the stack refuses a second dialog, once s_dlg is overwritten *)
(* and to be set back to closed.                                           *)
OpenDialogTwiceSlip(alert, owner, found) ==
  IF dlg.open /\ found = stack
  THEN UNCHANGED stack /\ dlg' = Closed
  ELSE /\ stack' = Append(found, "dialog")
       /\ dlg' = Opened(alert, owner)

(* open_dialog(): BUSY while a dialog is open.                             *)
OpenDialog(alert, owner, found) ==
  IF dlg.open /\ found = stack
  THEN ShowAs(found)
  ELSE /\ stack' = Append(found, "dialog")
       /\ dlg' = Opened(alert, owner)

(* What is left of the dispatch once the screens have had the event: the   *)
(* manager's handler and the card's, which come after theirs.              *)
Rest ==
  CASE evt.kind = "fail" -> "manager"
    [] evt.kind = "removed" -> "alert"
    [] OTHER -> "idle"

-----------------------------------------------------------------------------

(* The end of stark_app_worker_start().                                    *)
CreateWorker ==
  /\ worker' = [pc |-> "run", launch |-> current]
  /\ task' = TRUE
  /\ done' = FALSE
  /\ stop' = FALSE

(* stark_app_worker_start(): a worker that has returned is reaped first,   *)
(* one that has not is left alone (BUSY).                                  *)
StartWorker ==
  \/ /\ ~task
     /\ CreateWorker
     /\ ui' = Rest
  \/ /\ task /\ done
     /\ done' = FALSE
     /\ ui' = "start_reap"
     /\ UNCHANGED <<worker, task, stop>>
  \/ /\ task /\ ~done
     /\ ui' = Rest
     /\ UNCHANGED workerVars

(* One callback of the running app.                                        *)
AppActs(found) ==
  \/ /\ ShowAs(found)
     /\ ui' = Rest
     /\ UNCHANGED <<busVars, workerVars>>
  \/ /\ \E alert \in BOOLEAN : OpenDialog(alert, current, found)
     /\ ui' = Rest
     /\ UNCHANGED <<busVars, workerVars>>
  \/ /\ ShowAs(found)
     /\ StartWorker
     /\ UNCHANGED busVars
  \/ /\ ShowAs(found)
     /\ Report("fail", generation, current)
     /\ ui' = Rest
     /\ UNCHANGED workerVars

-----------------------------------------------------------------------------
(* Slip: on_stop() does not wait for the worker.                           *)
LeaveAppSlip(next) ==
  /\ stack' = Popped
  /\ UNCHANGED dlg
  /\ current' = 0
  /\ ui' = "stop"
  /\ after' = next
  /\ UNCHANGED <<stop, task, worker, done, launches, generation>>

(* on_app_screen_exit() up to the join, and what the join begins with.     *)
LeaveApp(next) ==
  /\ stack' = Popped
  /\ UNCHANGED dlg
  /\ current' = 0
  /\ ui' = IF task THEN "join" ELSE "stop"
  /\ stop' = (stop \/ task)
  /\ after' = next
  /\ UNCHANGED <<task, worker, done, launches, generation>>

JoinTakes ==
  /\ ui = "join"
  /\ done
  /\ done' = FALSE
  /\ ui' = "reap"
  /\ UNCHANGED <<busVars, inputVars, after, evt, heard, screenVars, appVars,
                 worker, task, stop>>

(* Slip: it waits for as long as the worker takes.                         *)
JoinTimesOutSlip ==
  /\ ui = "join"
  /\ done
  /\ ui' = "kill"
  /\ UNCHANGED <<busVars, inputVars, after, evt, heard, screenVars, appVars, workerVars>>

JoinTimesOut ==
  /\ ui = "join"
  /\ ~done
  /\ ui' = "kill"
  /\ UNCHANGED <<busVars, inputVars, after, evt, heard, screenVars, appVars, workerVars>>

(* The worker may have given its token since: it stays in the semaphore.   *)
Kill ==
  /\ ui = "kill"
  /\ worker' = NoWorker
  /\ task' = FALSE
  /\ ui' = "stop"
  /\ UNCHANGED <<busVars, inputVars, after, evt, heard, screenVars, appVars, done, stop>>

(* wait_state(eSuspended), whose 100 ms are taken to be enough.            *)
Reap ==
  /\ ui = "reap"
  /\ worker.pc = "suspended"
  /\ worker' = NoWorker
  /\ task' = FALSE
  /\ ui' = "stop"
  /\ UNCHANGED <<busVars, inputVars, after, evt, heard, screenVars, appVars, done, stop>>

OnStop ==
  /\ ui = "stop"
  /\ ui' = after
  /\ UNCHANGED <<busVars, inputVars, after, evt, heard, screenVars, appVars, workerVars>>

StartReap ==
  /\ ui = "start_reap"
  /\ worker.pc = "suspended"
  /\ CreateWorker
  /\ ui' = Rest
  /\ UNCHANGED <<busVars, inputVars, after, evt, heard, screenVars, appVars>>

-----------------------------------------------------------------------------
(* The dispatch of one event.                                              *)

Dequeue ==
  /\ ui = "idle"
  /\ queue # <<>>
  /\ evt' = Head(queue)
  /\ queue' = Tail(queue)
  /\ ui' = "screens"
  /\ heard' = IF evt'.kind \in {"ok_press", "back_press"} THEN evt'.n ELSE heard
  /\ UNCHANGED <<reports, inputVars, after, screenVars, appVars, workerVars>>

(* A frame with no event.                                                  *)
Frame ==
  /\ ui = "idle"
  /\ queue = <<>>
  /\ UNCHANGED vars

(* A BACK held long goes home before any screen sees it.                   *)
GoHome ==
  /\ ui = "screens"
  /\ evt.kind = "back_long"
  /\ ui' = "unwind"
  /\ UNCHANGED <<busVars, inputVars, after, evt, heard, screenVars, appVars, workerVars>>

(* One turn of stark_ui_pop_to_root().  A dialog popped this way answers   *)
(* CANCEL, on which no done() acts.                                        *)
Unwind ==
  /\ ui = "unwind"
  /\ CASE Top = "dialog" ->
            /\ ShowAs(Popped)
            /\ UNCHANGED <<ui, after, appVars, workerVars>>
       [] Top = "app" -> LeaveApp("unwind")
       [] OTHER ->
            /\ ui' = IF evt.kind = "fail" THEN "alert" ELSE "idle"
            /\ UNCHANGED <<after, screenVars, appVars, workerVars>>
  /\ UNCHANGED <<busVars, inputVars, evt, heard>>

(* The keys that are not let through, and all else, leave a dialog as it   *)
(* is: modal, it hides them from the screen beneath.                       *)
Arm ==
  CASE evt.kind = "ok_press" -> dlg' = [dlg EXCEPT !.ok = TRUE]
    [] evt.kind = "back_press" -> dlg' = [dlg EXCEPT !.back = TRUE]
    [] OTHER -> UNCHANGED dlg

Answers ==
  \/ evt.kind = "ok_short" /\ dlg.ok
  \/ evt.kind = "back_short" /\ dlg.back

(* finish(), then done(): only the OK of a confirm dialog makes an app act.*)
ToDialog ==
  /\ ui = "screens" /\ evt.kind # "back_long" /\ Top = "dialog"
  /\ UNCHANGED <<inputVars, after, evt, heard, appVars>>
  /\ \/ /\ ~Answers
        /\ Arm
        /\ ui' = Rest
        /\ UNCHANGED <<busVars, stack, workerVars>>
     \/ /\ Answers
        /\ dlg.alert \/ evt.kind = "back_short"
        /\ ShowAs(Popped)
        /\ ui' = Rest
        /\ UNCHANGED <<busVars, workerVars>>
     \/ /\ Answers
        /\ ~dlg.alert /\ evt.kind = "ok_short"
        /\ AppActs(Popped)

(* An app may consume a BACK; one that it does not leaves it.              *)
ToApp ==
  /\ ui = "screens" /\ evt.kind # "back_long" /\ Top = "app"
  /\ UNCHANGED <<inputVars, evt, heard>>
  /\ \/ /\ evt.kind \in {"ok_short", "note"}
        /\ AppActs(stack)
        /\ UNCHANGED <<after, appVars>>
     \/ /\ evt.kind \notin {"ok_short", "note"}
        /\ ui' = Rest
        /\ UNCHANGED <<busVars, after, screenVars, appVars, workerVars>>
     \/ /\ evt.kind = "back_short"
        /\ LeaveApp("idle")
        /\ UNCHANGED busVars

(* Slip: the launch keeps the last one's generation.                       *)
LaunchSlip ==
  /\ launches' = launches + 1
  /\ UNCHANGED generation
  /\ current' = launches'
  /\ stack' = Append(stack, "app")

(* The part of stark_app_launch() past on_start().                         *)
Launch ==
  /\ launches' = launches + 1
  /\ generation' = generation + 1
  /\ current' = launches'
  /\ stack' = Append(stack, "app")

(* The OK launches an app, unless its on_start() fails; a BACK at the root *)
(* is a no-op.                                                             *)
ToLauncher ==
  /\ ui = "screens" /\ evt.kind # "back_long" /\ Top = "launcher"
  /\ ui' = Rest
  /\ \/ evt.kind = "ok_short" /\ Launch
     \/ UNCHANGED <<stack, appVars>>
  /\ UNCHANGED <<busVars, inputVars, after, evt, heard, dlg, workerVars>>

(* app_fault_accept().                                                     *)
Accept == current # 0 /\ evt.n = generation

(* on_app_request().                                                       *)
Manager ==
  /\ ui = "manager"
  /\ ui' = IF Accept THEN "unwind" ELSE "idle"
  /\ UNCHANGED <<busVars, inputVars, after, evt, heard, screenVars, appVars, workerVars>>

(* "App stopped", or the card's alert.                                     *)
Alert ==
  /\ ui = "alert"
  /\ OpenDialog(TRUE, 0, stack)
  /\ ui' = "idle"
  /\ UNCHANGED <<busVars, inputVars, after, evt, heard, appVars, workerVars>>

-----------------------------------------------------------------------------
(* The worker: it may return whenever it likes, or never.                  *)

Running == worker.pc = "run"

WorkerNote ==
  /\ Running
  /\ Report("note", 0, worker.launch)
  /\ UNCHANGED <<inputVars, uiVars, screenVars, appVars, workerVars>>

WorkerFails ==
  /\ Running
  /\ Report("fail", generation, worker.launch)
  /\ UNCHANGED <<inputVars, uiVars, screenVars, appVars, workerVars>>

Give ==
  /\ Running
  /\ worker' = [worker EXCEPT !.pc = "gave"]
  /\ done' = TRUE
  /\ UNCHANGED <<busVars, inputVars, uiVars, screenVars, appVars, task, stop>>

Suspend ==
  /\ worker.pc = "gave"
  /\ worker' = [worker EXCEPT !.pc = "suspended"]
  /\ UNCHANGED <<busVars, inputVars, uiVars, screenVars, appVars, slotVars>>

-----------------------------------------------------------------------------
UiStep ==
  \/ Dequeue \/ GoHome \/ Unwind \/ ToDialog \/ ToApp \/ ToLauncher \/ Manager \/ Alert
  \/ JoinTakes \/ JoinTimesOut \/ Kill \/ Reap \/ OnStop \/ StartReap

Next ==
  \/ \E key \in {"ok", "back"} : Press(key)
  \/ HoldLong \/ LetGo \/ CardRemoved
  \/ UiStep \/ Frame
  \/ WorkerNote \/ WorkerFails \/ Give \/ Suspend

(* The UI task never blocks for ever, and a worker that gave its token     *)
(* has one call left to make; that it returns at all is not assumed.       *)
Fairness == WF_vars(UiStep) /\ WF_vars(Suspend)

Spec == Init /\ [][Next]_vars /\ Fairness
-----------------------------------------------------------------------------
Leaving == ui \in {"join", "kill", "reap", "stop"}

(* Types: every variable has one of the values the code can give it.       *)
AppTypeOK ==
  /\ queue \in Seq(Event) /\ Len(queue) <= QueueLen
  /\ reports \in 0..MaxReports
  /\ held \in {"none", "ok", "back", "long"} /\ pressed \in 0..MaxPresses
  /\ ui \in {"idle", "screens", "manager", "alert", "unwind", "start_reap",
             "join", "kill", "reap", "stop"}
  /\ after \in {"idle", "unwind"}
  /\ evt \in Event /\ heard \in 0..pressed
  /\ stack \in Seq({"launcher", "app", "dialog"})
  /\ dlg \in [open : BOOLEAN, alert : BOOLEAN, ok : BOOLEAN, back : BOOLEAN,
              owner : Nat, heard : Nat, born : Nat]
  /\ launches \in Nat /\ current \in 0..launches /\ generation \in Nat
  /\ worker \in [pc : {"none", "run", "gave", "suspended"}, launch : Nat]
  /\ task \in BOOLEAN /\ done \in BOOLEAN /\ stop \in BOOLEAN

(* Between events the stack is the launcher, the running app if there is   *)
(* one, and the dialog if it is open, whatever was popped by a key, by     *)
(* pop_to_root() or by a fault; and no app that has gone owns a dialog.    *)
ScreensMatch ==
  ui = "idle" =>
    /\ stack = <<"launcher">> \o (IF current # 0 THEN <<"app">> ELSE <<>>)
                             \o (IF dlg.open THEN <<"dialog">> ELSE <<>>)
    /\ dlg.owner \in {0, current}

(* The token says what the slot's own worker did: with a token it has      *)
(* returned, without one it has not, unless the token was just taken; and  *)
(* a worker is told to stop only while its app leaves.  A worker deleted   *)
(* at the join's time-out may leave its token to the next.                 *)
TokenIsTheWorkers ==
  /\ task <=> worker.pc # "none"
  /\ task /\ ui \notin {"start_reap", "reap"} =>
       (done <=> worker.pc \in {"gave", "suspended"})
  /\ task /\ stop => Leaving

(* The manager, the screen stack, the dialog and the worker slot agree on  *)
(* which app is running, however it was left.                              *)
AppIsSound == AppTypeOK /\ ScreensMatch /\ TokenIsTheWorkers

(* A SHORT that answers a dialog is of a key pressed after every press     *)
(* that the UI had heard of when the dialog opened: the release of the key *)
(* that opened it, or of one held since before, does not answer it.        *)
HeldKeysDoNotAnswer ==
  [][ui = "screens" /\ dlg.open /\ dlg' # dlg /\ evt.kind \in {"ok_short", "back_short"}
       => evt.n > dlg.heard]_vars

(* The app that a fault report stops is the one that raised it, or whose   *)
(* worker did, however long the report was in the queue.                   *)
FaultStopsItsApp ==
  [][ui = "manager" /\ ui' = "unwind" => evt.by = current]_vars

(* A fault of the running app ends with the "App stopped" alert over the   *)
(* launcher, whatever its worker does: also if it never returns.           *)
FaultsAreShown ==
  (ui = "manager" /\ current # 0 /\ evt.n = generation)
    ~> (dlg.open /\ dlg.alert /\ stack = <<"launcher", "dialog">>)

(* The manager and the worker slot keep what is promised to an app: the    *)
(* worker runs within its session and is gone before on_stop().            *)
Session == INSTANCE AppSession WITH
  phase <- CASE current # 0 -> "open" [] Leaving -> "leaving" [] OTHER -> "closed",
  session <- launches,
  working <- worker.launch

ImplementsAppSession == Session!Spec

-----------------------------------------------------------------------------
(* ui_dialog.h: "An OK or BACK counts only if its PRESS arrived while the  *)
(* dialog was open, so a key already held or queued can never confirm."    *)
QueuedKeysDoNotConfirm ==
  [][ui = "screens" /\ dlg.open /\ ~dlg.alert /\ dlg' # dlg /\ evt.kind = "ok_short"
       => evt.n > dlg.born]_vars
=============================================================================
