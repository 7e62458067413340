----------------------------- MODULE AppProofs ------------------------------
(***************************************************************************)
(* Proofs about the life of an app, for any length of the bus and any      *)
(* number of keys and reports.                                             *)
(*                                                                         *)
(* The argument: what is on the screen is determined by whether an app is  *)
(* running and a dialog is open, the worker in the slot is always that of  *)
(* the newest launch, and the events of the keys stay in the order of the  *)
(* presses although the bus drops the oldest.                              *)
(***************************************************************************)
EXTENDS AppLifecycle, SequenceTheorems, TLAPS

Dialog == [open : BOOLEAN, alert : BOOLEAN, ok : BOOLEAN, back : BOOLEAN,
           owner : Nat, heard : Nat, born : Nat]

IsPress(e) == e.kind \in {"ok_press", "back_press"}
IsShort(e) == e.kind \in {"ok_short", "back_short"}
IsKey(e) == e.kind \in Keys

EventTypes ==
  /\ queue \in Seq(Event) /\ Len(queue) <= QueueLen
  /\ reports \in 0..MaxReports
  /\ held \in {"none", "ok", "back", "long"} /\ pressed \in 0..MaxPresses
  /\ evt \in Event /\ heard \in 0..pressed

(* The bus has the keys' events in the order of the presses, all of them   *)
(* after the last press that the UI heard of.                              *)
KeysInOrder ==
  /\ \A i \in 1..Len(queue) : IsKey(queue[i]) =>
       /\ heard <= queue[i].n /\ queue[i].n <= pressed
       /\ IsPress(queue[i]) => heard < queue[i].n
  /\ \A i, j \in 1..Len(queue) : i < j /\ IsKey(queue[i]) /\ IsKey(queue[j]) =>
       /\ queue[i].n <= queue[j].n
       /\ IsPress(queue[j]) => queue[i].n < queue[j].n

(* A fault report carries the generation of the launch that raised it.     *)
FaultsNameTheirApp ==
  /\ \A i \in 1..Len(queue) : queue[i].kind = "fail" => queue[i].by = queue[i].n
  /\ evt.kind = "fail" => evt.by = evt.n

EventsInv == EventTypes /\ KeysInOrder /\ FaultsNameTheirApp

(* What the dialog has heard of the keys.                                  *)
DialogHears ==
  /\ dlg.open => dlg.heard <= heard
  /\ dlg.open /\ (dlg.ok \/ dlg.back) => dlg.heard < heard
  /\ ui = "screens" /\ IsShort(evt) => heard <= evt.n
  /\ ui = "screens" /\ IsPress(evt) /\ dlg.open => dlg.heard < heard

(* The screens that there are when an app is running, and a dialog open.   *)
Screens(app, dialog) ==
  CASE app /\ dialog -> <<"launcher", "app", "dialog">>
    [] app /\ ~dialog -> <<"launcher", "app">>
    [] ~app /\ dialog -> <<"launcher", "dialog">>
    [] OTHER -> <<"launcher">>

ScreensInv ==
  /\ dlg \in Dialog
  /\ stack = Screens(current # 0, dlg.open)
  /\ ~dlg.open => dlg = Closed
  /\ dlg.owner \in {0, current}
  /\ dlg.open /\ ~dlg.alert => current # 0

SlotTypes ==
  /\ ui \in {"idle", "screens", "manager", "alert", "unwind", "start_reap",
             "join", "kill", "reap", "stop"}
  /\ after \in {"idle", "unwind"}
  /\ launches \in Nat /\ current \in 0..launches /\ generation \in Nat
  /\ worker \in [pc : {"none", "run", "gave", "suspended"}, launch : Nat]
  /\ task \in BOOLEAN /\ done \in BOOLEAN /\ stop \in BOOLEAN

(* The worker in the slot is that of the newest launch, and there is one   *)
(* only while that launch's app runs or leaves.                            *)
WorkerIsTheApps ==
  /\ generation = launches
  /\ current # 0 => current = launches
  /\ Leaving => current = 0
  /\ ui = "start_reap" => current # 0
  /\ ui = "manager" => evt.kind = "fail"
  /\ task => current # 0 \/ Leaving
  /\ worker.launch = IF task THEN launches ELSE 0

(* The semaphore's token, at every step of a join and of a restart.        *)
TokenInSlot ==
  /\ task <=> worker.pc # "none"
  /\ task /\ ui \notin {"start_reap", "reap"} => (done <=> worker.pc \in {"gave", "suspended"})
  /\ ui \in {"start_reap", "reap"} => worker.pc \in {"gave", "suspended"}
  /\ task /\ stop => Leaving
  /\ ui \in {"join", "kill"} => task
  /\ ui = "stop" => ~task

SlotInv == SlotTypes /\ WorkerIsTheApps /\ TokenInSlot

AppInv == EventsInv /\ DialogHears /\ ScreensInv /\ SlotInv

-----------------------------------------------------------------------------
(* The bus.                                                                *)

(* stark_event_post(): the new event comes last, after all of the old ones *)
(* or all but the oldest.                                                  *)
LEMMA Published ==
  ASSUME EventTypes, NEW e \in Event, Publish(e)
  PROVE  \E k \in {0, 1} :
           /\ queue' \in Seq(Event) /\ Len(queue') <= QueueLen
           /\ Len(queue') = Len(queue) - k + 1
           /\ \A i \in 1..Len(queue) - k : queue'[i] = queue[i + k] /\ i + k \in 1..Len(queue)
           /\ queue'[Len(queue')] = e
<1>1. CASE Len(queue) = QueueLen
  <2>1. queue # <<>>
    BY <1>1, AppConstantsOK DEF EventTypes
  <2>2. /\ Tail(queue) \in Seq(Event) /\ Len(Tail(queue)) = Len(queue) - 1
        /\ \A i \in 1..Len(queue) - 1 : Tail(queue)[i] = queue[i + 1]
    BY <2>1 DEF EventTypes
  <2>3. queue' = Append(Tail(queue), e)
    BY <1>1 DEF Publish
  <2>4. /\ queue' \in Seq(Event) /\ Len(queue') = Len(queue) - 1 + 1
        /\ \A i \in 1..Len(queue) - 1 : queue'[i] = queue[i + 1] /\ i + 1 \in 1..Len(queue)
        /\ queue'[Len(queue')] = e
    BY <2>2, <2>3 DEF EventTypes
  <2> QED BY <1>1, <2>4 DEF EventTypes
<1>2. CASE Len(queue) # QueueLen
  <2>1. queue' = Append(queue, e)
    BY <1>2 DEF Publish
  <2>2. /\ queue' \in Seq(Event) /\ Len(queue') = Len(queue) - 0 + 1
        /\ \A i \in 1..Len(queue) - 0 : queue'[i] = queue[i + 0] /\ i + 0 \in 1..Len(queue)
        /\ queue'[Len(queue')] = e
    BY <2>1 DEF EventTypes
  <2>3. Len(queue') <= QueueLen
    BY <1>2, <2>2, AppConstantsOK DEF EventTypes
  <2> QED BY <2>2, <2>3
<1> QED BY <1>1, <1>2

(* An event that follows those in the bus keeps the order.                 *)
LEMMA PublishedInOrder ==
  ASSUME EventsInv, NEW e \in Event, Publish(e),
         pressed' \in Nat, pressed <= pressed', UNCHANGED <<heard, evt>>,
         IsKey(e) => e.n = pressed' /\ (IsPress(e) => e.n > pressed),
         e.kind = "fail" => e.by = e.n
  PROVE  queue' \in Seq(Event) /\ Len(queue') <= QueueLen /\ KeysInOrder' /\ FaultsNameTheirApp'
<1>1. PICK k \in {0, 1} :
        /\ queue' \in Seq(Event) /\ Len(queue') <= QueueLen
        /\ Len(queue') = Len(queue) - k + 1
        /\ \A i \in 1..Len(queue) - k : queue'[i] = queue[i + k] /\ i + k \in 1..Len(queue)
        /\ queue'[Len(queue')] = e
  BY Published DEF EventsInv
<1>0. k \in {0, 1} /\ Len(queue') = Len(queue) - k + 1
  BY <1>1
<1>2. Len(queue) \in Nat /\ Len(queue') \in Nat /\ pressed \in Nat /\ heard \in Nat /\ heard <= pressed
  BY <1>1 DEF EventsInv, EventTypes
<1>3. \A i \in 1..Len(queue) : queue[i] \in Event /\ queue[i].n \in Nat
  <2>1. \A i \in 1..Len(queue) : queue[i] \in Event
    BY DEF EventsInv, EventTypes
  <2> QED BY <2>1 DEF Event
<1>4. ASSUME NEW i \in 1..Len(queue'), IsKey(queue'[i])
      PROVE  /\ heard <= queue'[i].n /\ queue'[i].n <= pressed'
             /\ IsPress(queue'[i]) => heard < queue'[i].n
             /\ i # Len(queue') => queue'[i].n <= pressed
  <2>1. CASE i = Len(queue')
    BY <1>1, <1>2, <1>4, <2>1
  <2>2. CASE i # Len(queue')
    <3>1. i \in 1..Len(queue) - k
      BY <1>1, <1>2, <2>2
    <3>2. queue'[i] = queue[i + k] /\ i + k \in 1..Len(queue)
      BY <1>1, <3>1
    <3> QED BY <1>2, <1>3, <1>4, <3>2 DEF EventsInv, KeysInOrder
  <2> QED BY <2>1, <2>2
<1>5. ASSUME NEW i \in 1..Len(queue'), NEW j \in 1..Len(queue'), i < j,
             IsKey(queue'[i]), IsKey(queue'[j])
      PROVE  /\ queue'[i].n <= queue'[j].n
             /\ IsPress(queue'[j]) => queue'[i].n < queue'[j].n
  <2>0. i # Len(queue') /\ queue'[i].n <= pressed /\ queue'[i].n \in Nat
    <3>1. i \in 1..Len(queue) - k /\ i # Len(queue')
      BY ONLY <1>0, <1>2, <1>5, k \in {0, 1}, i \in 1..Len(queue'), j \in 1..Len(queue')
    <3>2. queue'[i] = queue[i + k] /\ i + k \in 1..Len(queue)
      BY <1>1, <3>1
    <3>3. queue'[i].n \in Nat
      BY <1>3, <3>2
    <3> QED BY <1>4, <1>5, <3>1, <3>3
  <2>1. CASE j = Len(queue')
    <3>1. queue'[j].n = pressed' /\ (IsPress(queue'[j]) => pressed' > pressed)
      BY <1>1, <1>5, <2>1
    <3> QED BY ONLY <1>2, <2>0, <3>1, pressed' \in Nat, pressed <= pressed'
  <2>2. CASE j # Len(queue')
    <3>1. i \in 1..Len(queue) - k /\ j \in 1..Len(queue) - k
      BY ONLY <1>0, <1>2, <1>5, <2>2, k \in {0, 1}, i \in 1..Len(queue'), j \in 1..Len(queue')
    <3>2. /\ queue'[i] = queue[i + k] /\ i + k \in 1..Len(queue)
          /\ queue'[j] = queue[j + k] /\ j + k \in 1..Len(queue) /\ i + k < j + k
      BY <1>1, <1>5, <3>1
    <3> QED BY <1>5, <3>2 DEF EventsInv, KeysInOrder
  <2> QED BY <2>1, <2>2
<1>6. KeysInOrder'
  BY <1>4, <1>5 DEF KeysInOrder, IsKey, IsPress
<1>7. FaultsNameTheirApp'
  <2>1. ASSUME NEW i \in 1..Len(queue'), queue'[i].kind = "fail" PROVE queue'[i].by = queue'[i].n
    <3>1. CASE i = Len(queue')
      BY <1>1, <2>1, <3>1
    <3>2. CASE i # Len(queue')
      <4>1. i \in 1..Len(queue) - k
        BY <1>1, <1>2, <3>2
      <4> QED BY <1>1, <2>1, <4>1 DEF EventsInv, FaultsNameTheirApp
    <3> QED BY <3>1, <3>2
  <2> QED BY <2>1 DEF EventsInv, FaultsNameTheirApp
<1> QED BY <1>1, <1>6, <1>7

(* What the keys, the card, an app or a worker may publish.                *)
LEMMA KeyPublished ==
  ASSUME EventsInv, NEW kind \in Keys, NEW n \in Nat, KeyEvent(kind, n),
         pressed' \in 0..MaxPresses, pressed <= pressed', n = pressed',
         kind \in {"ok_press", "back_press"} => n > pressed,
         held' \in {"none", "ok", "back", "long"},
         UNCHANGED <<reports, heard, evt>>
  PROVE  EventsInv'
<1> DEFINE e == [kind |-> kind, n |-> n, by |-> 0]
<1>1. e \in Event /\ e.kind = kind /\ e.n = n /\ e.kind # "fail"
  BY DEF Event, Keys
<1>2. Publish(e)
  BY DEF KeyEvent
<1> HIDE DEF e
<1>3. queue' \in Seq(Event) /\ Len(queue') <= QueueLen /\ KeysInOrder' /\ FaultsNameTheirApp'
  BY <1>1, <1>2, AppConstantsOK, PublishedInOrder DEF IsKey, IsPress
<1>4. EventTypes'
  BY <1>3, AppConstantsOK DEF EventsInv, EventTypes
<1> QED BY <1>3, <1>4 DEF EventsInv

(* A report of a worker, of an app or of the card's removal goes on the    *)
(* bus like any event.                                                     *)
LEMMA ReportPublished ==
  ASSUME EventsInv, NEW kind \in {"note", "fail", "removed"}, NEW n \in Nat, NEW by \in Nat,
         Report(kind, n, by), kind = "fail" => by = n, UNCHANGED <<inputVars, heard, evt>>
  PROVE  EventsInv'
<1> DEFINE e == [kind |-> kind, n |-> n, by |-> by]
<1>1. e \in Event /\ e.kind = kind /\ e.n = n /\ e.by = by /\ e.kind \notin Keys
  BY DEF Event, Keys
<1>2. Publish(e) /\ reports < MaxReports /\ reports' = reports + 1
  BY DEF Report
<1> HIDE DEF e
<1>3. pressed' = pressed /\ pressed \in Nat /\ held' = held
  BY AppConstantsOK DEF inputVars, EventsInv, EventTypes
<1>4. queue' \in Seq(Event) /\ Len(queue') <= QueueLen /\ KeysInOrder' /\ FaultsNameTheirApp'
  BY <1>1, <1>2, <1>3, PublishedInOrder DEF IsKey, IsPress
<1>5. EventTypes'
  BY <1>2, <1>3, <1>4, AppConstantsOK DEF EventsInv, EventTypes
<1> QED BY <1>4, <1>5 DEF EventsInv

(* The input sampler publishes what the keys say; a release or a LONG      *)
(* follows its PRESS.                                                      *)
LEMMA KeysStep ==
  ASSUME EventsInv, (\E key \in {"ok", "back"} : Press(key)) \/ HoldLong \/ LetGo
  PROVE  EventsInv'
<1>0. pressed \in Nat /\ pressed \in 0..MaxPresses /\ held \in {"none", "ok", "back", "long"}
  BY AppConstantsOK DEF EventsInv, EventTypes
<1>1. ASSUME NEW key \in {"ok", "back"}, Press(key) PROVE EventsInv'
  <2>1. PressOf[key] \in {"ok_press", "back_press"}
    BY DEF PressOf
  <2> DEFINE kind == PressOf[key]
  <2>2. kind \in Keys
    BY <2>1 DEF Keys
  <2>3. /\ KeyEvent(kind, pressed') /\ pressed' = pressed + 1 /\ pressed' \in 0..MaxPresses
        /\ held' = key /\ UNCHANGED <<reports, heard, evt>>
    BY <1>0, <1>1, AppConstantsOK DEF Press, uiVars
  <2> HIDE DEF kind
  <2> QED BY <1>0, <2>2, <2>3, KeyPublished
<1>2. ASSUME NEW kind \in {"back_long", "ok_short", "back_short"}, KeyEvent(kind, pressed),
             held' \in {"none", "long"}, UNCHANGED <<pressed, reports, heard, evt>>
      PROVE EventsInv'
  <2>1. kind \in Keys
    <3>1. CASE kind = "back_long"
      BY <3>1 DEF Keys
    <3> QED BY <1>2, <3>1 DEF Keys
  <2> QED BY <1>0, <1>2, <2>1, KeyPublished
<1>3. ASSUME held' \in {"none", "long"}, UNCHANGED <<queue, pressed, reports, heard, evt>>
      PROVE EventsInv'
  BY <1>3 DEF EventsInv, EventTypes, KeysInOrder, FaultsNameTheirApp
<1>4. CASE HoldLong
  BY <1>2, <1>3, <1>4 DEF HoldLong, uiVars
<1>5. CASE LetGo
  <2>1. held # "none" /\ held' = "none" /\ UNCHANGED <<pressed, reports, heard, evt>>
    BY <1>5 DEF LetGo, uiVars
  <2>2. CASE held = "long"
    BY <1>3, <1>5, <2>1, <2>2 DEF LetGo
  <2>3. CASE held # "long"
    <3>1. ShortOf[held] \in {"ok_short", "back_short"}
      BY <1>0, <2>1, <2>3 DEF ShortOf
    <3>2. KeyEvent(ShortOf[held], pressed)
      BY <1>5, <2>3 DEF LetGo
    <3> QED BY <1>2, <2>1, <3>1, <3>2
  <2> QED BY <2>2, <2>3
<1> QED BY <1>1, <1>4, <1>5

(* Taking the oldest event keeps the order; a press that is heard of comes *)
(* before all that follow.                                                 *)
LEMMA DequeuedInOrder ==
  ASSUME EventsInv, Dequeue
  PROVE  /\ EventsInv' /\ heard <= heard'
         /\ IsShort(evt)' => heard' <= evt'.n
         /\ IsPress(evt)' => heard < heard'
<1>1. /\ queue # <<>> /\ evt' = Head(queue) /\ queue' = Tail(queue) /\ UNCHANGED <<reports, inputVars>>
      /\ heard' = IF evt'.kind \in {"ok_press", "back_press"} THEN evt'.n ELSE heard
  BY DEF Dequeue
<1>2. Len(queue) \in Nat /\ Len(queue) > 0 /\ queue \in Seq(Event)
  BY <1>1 DEF EventsInv, EventTypes
<1>3. /\ evt' = queue[1] /\ 1 \in 1..Len(queue) /\ evt' \in Event
      /\ queue' \in Seq(Event) /\ Len(queue') = Len(queue) - 1
      /\ \A i \in 1..Len(queue') : queue'[i] = queue[i + 1] /\ i + 1 \in 1..Len(queue) /\ 1 < i + 1
  BY <1>1, <1>2
<1>4. pressed \in Nat /\ heard \in Nat /\ heard <= pressed /\ evt'.n \in Nat
  BY <1>3, AppConstantsOK DEF EventsInv, EventTypes, Event
<1>5. /\ \A i \in 1..Len(queue) : queue[i] \in Event
      /\ \A i \in 1..Len(queue) : queue[i].n \in Nat
  <2>1. \A i \in 1..Len(queue) : queue[i] \in Event
    BY DEF EventsInv, EventTypes
  <2> QED BY <2>1 DEF Event
<1>6. /\ IsKey(evt)' => heard <= evt'.n /\ evt'.n <= pressed /\ (IsPress(evt)' => heard < evt'.n)
      /\ IsPress(evt)' \/ IsShort(evt)' => IsKey(evt)'
  BY <1>3 DEF EventsInv, KeysInOrder, IsKey, IsPress, IsShort, Keys
<1>7. /\ heard' = IF IsPress(evt)' THEN evt'.n ELSE heard
      /\ heard' \in 0..pressed /\ heard <= heard'
  <2>1. heard' = IF IsPress(evt)' THEN evt'.n ELSE heard
    BY <1>1 DEF IsPress
  <2> QED BY <1>4, <1>6, <2>1
<1>8. EventTypes'
  BY <1>1, <1>2, <1>3, <1>7, AppConstantsOK DEF EventsInv, EventTypes, inputVars
<1>9. KeysInOrder'
  <2>1. ASSUME NEW i \in 1..Len(queue'), IsKey(queue'[i])
        PROVE  /\ heard' <= queue'[i].n /\ queue'[i].n <= pressed
               /\ IsPress(queue'[i]) => heard' < queue'[i].n
    <3>1. queue'[i] = queue[i + 1] /\ i + 1 \in 1..Len(queue) /\ 1 < i + 1
      BY <1>3
    <3>2. heard <= queue'[i].n /\ queue'[i].n <= pressed /\ (IsPress(queue'[i]) => heard < queue'[i].n)
      BY <2>1, <3>1 DEF EventsInv, KeysInOrder
    <3>3. IsPress(evt)' => evt'.n <= queue'[i].n /\ (IsPress(queue'[i]) => evt'.n < queue'[i].n)
      <4>1. IsPress(evt)' => IsKey(queue[1])
        BY <1>3, <1>6 DEF IsKey, IsPress
      <4> QED BY <1>3, <2>1, <3>1, <4>1 DEF EventsInv, KeysInOrder
    <3> QED BY <1>7, <3>2, <3>3
  <2>2. ASSUME NEW i \in 1..Len(queue'), NEW j \in 1..Len(queue'), i < j,
               IsKey(queue'[i]), IsKey(queue'[j])
        PROVE  /\ queue'[i].n <= queue'[j].n
               /\ IsPress(queue'[j]) => queue'[i].n < queue'[j].n
    <3>1. /\ queue'[i] = queue[i + 1] /\ i + 1 \in 1..Len(queue)
          /\ queue'[j] = queue[j + 1] /\ j + 1 \in 1..Len(queue) /\ i + 1 < j + 1
      BY <1>2, <1>3, <2>2
    <3> QED BY <2>2, <3>1 DEF EventsInv, KeysInOrder
  <2>3. pressed' = pressed
    BY <1>1 DEF inputVars
  <2> QED BY <2>1, <2>2, <2>3 DEF KeysInOrder, IsKey, IsPress
<1>10. FaultsNameTheirApp'
  BY <1>3 DEF EventsInv, FaultsNameTheirApp
<1> QED BY <1>4, <1>6, <1>7, <1>8, <1>9, <1>10 DEF EventsInv

-----------------------------------------------------------------------------
(* The screens.                                                            *)

(* A short sequence is the tuple of its elements.                          *)
LEMMA Tuples ==
  ASSUME NEW S, NEW s \in Seq(S)
  PROVE  /\ Len(s) = 1 => s = <<s[1]>>
         /\ Len(s) = 2 => s = <<s[1], s[2]>>
         /\ Len(s) = 3 => s = <<s[1], s[2], s[3]>>
<1>1. Len(s) = 1 => s = <<s[1]>>
  OBVIOUS
<1>2. Len(s) = 2 => s = <<s[1], s[2]>>
  OBVIOUS
<1>3. Len(s) = 3 => s = <<s[1], s[2], s[3]>>
  OBVIOUS
<1> QED BY <1>1, <1>2, <1>3

(* The stacks that are met, element by element: the launcher, an app on    *)
(* it, a dialog on either.                                                 *)
LEMMA Appended ==
  ASSUME NEW a, NEW b, NEW c
  PROVE  Append(<<a>>, b) = <<a, b>> /\ Append(<<a, b>>, c) = <<a, b, c>>
<1> DEFINE S == {a, b, c}
           q == Append(<<a>>, b)
           r == Append(<<a, b>>, c)
<1>1. q \in Seq(S) /\ Len(q) = 2 /\ q[1] = a /\ q[2] = b
  OBVIOUS
<1>2. r \in Seq(S) /\ Len(r) = 3 /\ r[1] = a /\ r[2] = b /\ r[3] = c
  OBVIOUS
<1> HIDE DEF q, r
<1>3. q = <<a, b>> /\ r = <<a, b, c>>
  BY <1>1, <1>2, Tuples
<1> QED BY <1>3 DEF q, r

(* The top of a stack of one screen, and what a pop would leave.           *)
LEMMA TopOfOne ==
  ASSUME NEW a, NEW s, s = <<a>>
  PROVE  s[Len(s)] = a /\ SubSeq(s, 1, Len(s) - 1) # s
<1>1. s \in Seq({a}) /\ Len(s) = 1 /\ s[Len(s)] = a
  OBVIOUS
<1>2. Len(SubSeq(s, 1, Len(s) - 1)) = 0
  BY <1>1
<1> QED BY <1>1, <1>2

(* The same of two.                                                        *)
LEMMA TopOfTwo ==
  ASSUME NEW a, NEW b, NEW s, s = <<a, b>>
  PROVE  s[Len(s)] = b /\ SubSeq(s, 1, Len(s) - 1) = <<a>> /\ SubSeq(s, 1, Len(s) - 1) # s
<1> DEFINE p == SubSeq(s, 1, Len(s) - 1)
<1>1. s \in Seq({a, b}) /\ Len(s) = 2 /\ s[Len(s)] = b /\ s[1] = a
  OBVIOUS
<1>2. p \in Seq({a, b}) /\ Len(p) = 1 /\ p[1] = a
  BY <1>1
<1> HIDE DEF p
<1>3. p = <<a>> /\ p # s
  BY <1>1, <1>2, Tuples
<1> QED BY <1>1, <1>3 DEF p

(* The same of three.                                                      *)
LEMMA TopOfThree ==
  ASSUME NEW a, NEW b, NEW c, NEW s, s = <<a, b, c>>
  PROVE  s[Len(s)] = c /\ SubSeq(s, 1, Len(s) - 1) = <<a, b>> /\ SubSeq(s, 1, Len(s) - 1) # s
<1> DEFINE p == SubSeq(s, 1, Len(s) - 1)
<1>1. s \in Seq({a, b, c}) /\ Len(s) = 3 /\ s[Len(s)] = c /\ s[1] = a /\ s[2] = b
  OBVIOUS
<1>2. p \in Seq({a, b, c}) /\ Len(p) = 2 /\ p[1] = a /\ p[2] = b
  BY <1>1
<1> HIDE DEF p
<1>3. p = <<a, b>> /\ p # s
  BY <1>1, <1>2, Tuples
<1> QED BY <1>1, <1>3 DEF p

(* What push and pop do to the stack, told by whether an app and a dialog  *)
(* are on it.                                                              *)
LEMMA ScreensOnTop ==
  ASSUME NEW app \in BOOLEAN, NEW dialog \in BOOLEAN, stack = Screens(app, dialog)
  PROVE  /\ Top = "dialog" <=> dialog
         /\ Top = "app" <=> app /\ ~dialog
         /\ dialog => Popped = Screens(app, FALSE)
         /\ app /\ ~dialog => Popped = Screens(FALSE, FALSE)
         /\ Popped # stack
         /\ ~dialog => Append(stack, "dialog") = Screens(app, TRUE)
         /\ ~app /\ ~dialog => Append(stack, "app") = Screens(TRUE, FALSE)
         /\ Append(Screens(app, FALSE), "dialog") = Screens(app, TRUE)
<1>1. /\ Screens(TRUE, TRUE) = <<"launcher", "app", "dialog">>
      /\ Screens(TRUE, FALSE) = <<"launcher", "app">>
      /\ Screens(FALSE, TRUE) = <<"launcher", "dialog">>
      /\ Screens(FALSE, FALSE) = <<"launcher">>
  BY DEF Screens
<1>2. /\ Append(<<"launcher">>, "app") = <<"launcher", "app">>
      /\ Append(<<"launcher">>, "dialog") = <<"launcher", "dialog">>
      /\ Append(<<"launcher", "app">>, "dialog") = <<"launcher", "app", "dialog">>
  BY Appended
<1>3. CASE app = TRUE /\ dialog = TRUE
  <2>1. stack = <<"launcher", "app", "dialog">>
    BY <1>1, <1>3
  <2>2. stack[Len(stack)] = "dialog" /\ SubSeq(stack, 1, Len(stack) - 1) = <<"launcher", "app">>
        /\ SubSeq(stack, 1, Len(stack) - 1) # stack
    BY <2>1, TopOfThree
  <2>3. Top = "dialog" /\ Popped = <<"launcher", "app">> /\ Popped # stack
    BY <2>2 DEF Top, Popped
  <2> QED BY <1>1, <1>2, <1>3, <2>3
<1>4. CASE app = TRUE /\ dialog = FALSE
  <2>1. stack = <<"launcher", "app">>
    BY <1>1, <1>4
  <2>2. stack[Len(stack)] = "app" /\ SubSeq(stack, 1, Len(stack) - 1) = <<"launcher">>
        /\ SubSeq(stack, 1, Len(stack) - 1) # stack
    BY <2>1, TopOfTwo
  <2>3. Top = "app" /\ Popped = <<"launcher">> /\ Popped # stack
    BY <2>2 DEF Top, Popped
  <2> QED BY <1>1, <1>2, <1>4, <2>3
<1>5. CASE app = FALSE /\ dialog = TRUE
  <2>1. stack = <<"launcher", "dialog">>
    BY <1>1, <1>5
  <2>2. stack[Len(stack)] = "dialog" /\ SubSeq(stack, 1, Len(stack) - 1) = <<"launcher">>
        /\ SubSeq(stack, 1, Len(stack) - 1) # stack
    BY <2>1, TopOfTwo
  <2>3. Top = "dialog" /\ Popped = <<"launcher">> /\ Popped # stack
    BY <2>2 DEF Top, Popped
  <2> QED BY <1>1, <1>2, <1>5, <2>3
<1>6. CASE app = FALSE /\ dialog = FALSE
  <2>1. Top = "launcher" /\ Popped # stack
    BY <1>1, <1>6, TopOfOne DEF Top, Popped
  <2> QED BY <1>1, <1>2, <1>6, <2>1
<1> QED BY <1>3, <1>4, <1>5, <1>6

(* The dialog stays, closes, or opens anew.                                *)
DialogMoves == dlg' \in {dlg, Closed} \cup {Opened(alert, owner) : alert \in BOOLEAN, owner \in {0, current}}

(* A dialog opened by ui_dialog.c is armed by no key yet.                  *)
LEMMA OpenedDialog ==
  ASSUME NEW alert \in BOOLEAN, NEW owner \in Nat, EventTypes
  PROVE  /\ Opened(alert, owner) \in Dialog
         /\ Opened(alert, owner).open /\ ~Opened(alert, owner).ok /\ ~Opened(alert, owner).back
         /\ Opened(alert, owner).alert = alert /\ Opened(alert, owner).owner = owner
         /\ Opened(alert, owner).heard = heard
<1>1. heard \in Nat /\ pressed \in Nat
  BY AppConstantsOK DEF EventTypes
<1> QED BY <1>1 DEF Opened, Dialog

(* What is left of a dialog that was answered belongs to no app.           *)
LEMMA ClosedDialog == /\ Closed \in Dialog /\ ~Closed.open /\ ~Closed.alert
                      /\ Closed.owner = 0 /\ ~Closed.ok /\ ~Closed.back
BY DEF Closed, Dialog

(* Showing what the code at hand works on, and a dialog or not above it.   *)
LEMMA FoundShown ==
  ASSUME ScreensInv, EventTypes, SlotTypes, NEW found \in {stack, Popped}, UNCHANGED current,
         found = Popped => Top = "dialog",
         \/ ShowAs(found)
         \/ \E alert \in BOOLEAN, owner \in {0, current} :
              OpenDialog(alert, owner, found) /\ (~alert => current # 0)
  PROVE  ScreensInv' /\ DialogMoves
<1>0. /\ dlg.open \in BOOLEAN /\ (current # 0) \in BOOLEAN
      /\ stack = Screens(current # 0, dlg.open)
      /\ 0 \in Nat /\ current \in Nat
  BY DEF ScreensInv, Dialog, SlotTypes
<1>1. /\ Popped # stack
      /\ dlg.open => Popped = Screens(current # 0, FALSE)
      /\ Top = "dialog" <=> dlg.open
      /\ Append(Screens(current # 0, FALSE), "dialog") = Screens(current # 0, TRUE)
      /\ ~dlg.open => Append(stack, "dialog") = Screens(current # 0, TRUE)
  BY <1>0, ScreensOnTop
<1>2. CASE ShowAs(found)
  <2>1. CASE found = stack
    <3>1. UNCHANGED <<stack, dlg>>
      BY <1>2, <2>1 DEF ShowAs
    <3> QED BY <3>1 DEF ScreensInv, DialogMoves
  <2>2. CASE found = Popped
    <3>1. stack' = Popped /\ dlg' = Closed /\ dlg.open
      BY <1>1, <1>2, <2>2 DEF ShowAs
    <3>2. stack' = Screens(current' # 0, FALSE) /\ dlg'.open = FALSE
      BY <1>1, <3>1 DEF Closed
    <3>3. stack' = Screens(current' # 0, dlg'.open)
      BY <3>2
    <3> QED BY <3>1, <3>3, ClosedDialog DEF ScreensInv, DialogMoves
  <2> QED BY <2>1, <2>2
<1>3. ASSUME NEW alert \in BOOLEAN, NEW owner \in {0, current},
             OpenDialog(alert, owner, found), ~alert => current # 0, ~ShowAs(found)
      PROVE  ScreensInv' /\ DialogMoves
  <2>1. stack' = Append(found, "dialog") /\ dlg' = Opened(alert, owner) /\ ~(dlg.open /\ found = stack)
    BY <1>3 DEF OpenDialog
  <2>2. stack' = Screens(current' # 0, TRUE)
    BY <1>0, <1>1, <2>1
  <2>3. dlg' \in Dialog /\ dlg'.open = TRUE /\ dlg'.alert = alert /\ dlg'.owner = owner
    BY <1>0, <2>1, OpenedDialog DEF Dialog, Opened
  <2>4. stack' = Screens(current' # 0, dlg'.open)
    BY <2>2, <2>3
  <2>5. ScreensInv'
    BY <1>3, <2>3, <2>4 DEF ScreensInv
  <2>6. DialogMoves
    BY <2>1 DEF DialogMoves
  <2> QED BY <2>5, <2>6
<1> QED BY <1>2, <1>3

(* A dialog that moves has heard of no press that comes later.             *)
LEMMA DialogStillHears ==
  ASSUME AppInv, DialogMoves, UNCHANGED <<heard, evt>>, ui' # "screens" \/ (dlg' = dlg /\ ui' = ui)
  PROVE  DialogHears'
<1>1. CASE dlg' \in {dlg, Closed}
  BY <1>1, ClosedDialog DEF AppInv, DialogHears, IsShort, IsPress
<1>2. CASE dlg' \notin {dlg, Closed}
  <2>1. PICK alert \in BOOLEAN, owner \in {0, current} : dlg' = Opened(alert, owner)
    BY <1>2 DEF DialogMoves
  <2>2. owner \in Nat /\ heard \in Nat
    BY <2>1, AppConstantsOK DEF AppInv, SlotInv, SlotTypes, EventsInv, EventTypes
  <2>3. dlg'.heard = heard /\ ~dlg'.ok /\ ~dlg'.back
    BY <2>1, <2>2, OpenedDialog DEF AppInv, EventsInv
  <2>4. ui' # "screens"
    BY <1>2
  <2> QED BY <2>2, <2>3, <2>4 DEF DialogHears
<1> QED BY <1>1, <1>2

-----------------------------------------------------------------------------
(* The worker slot.                                                        *)

Busy == {"idle", "screens", "manager", "alert", "unwind"}

(* After the screens only a fault report goes on to the manager.           *)
LEMMA RestOfDispatch == Rest \in Busy /\ (Rest = "manager" => evt.kind = "fail")
BY DEF Rest, Busy

(* A step of the UI task that leaves the slot alone.                       *)
LEMMA SlotStays ==
  ASSUME SlotInv, UNCHANGED <<workerVars, appVars>>, ui \in Busy, ui' \in Busy,
         ui' = "manager" => evt'.kind = "fail", after' \in {"idle", "unwind"}
  PROVE  SlotInv'
<1>1. SlotTypes'
  BY DEF SlotInv, SlotTypes, Busy, workerVars, slotVars, appVars
<1>2. ~Leaving /\ ~Leaving' /\ ui \notin {"start_reap", "reap"} /\ ui' \notin {"start_reap", "reap"}
      /\ ui' \notin {"join", "kill", "stop"}
  BY DEF Leaving, Busy
<1>3. WorkerIsTheApps'
  BY <1>2 DEF SlotInv, WorkerIsTheApps, workerVars, slotVars, appVars
<1>4. TokenInSlot'
  BY <1>2 DEF SlotInv, TokenInSlot, workerVars, slotVars
<1> QED BY <1>1, <1>3, <1>4 DEF SlotInv

(* stark_app_worker_start() fills an empty slot, within the session.       *)
LEMMA WorkerCreated ==
  ASSUME SlotInv, CreateWorker, current # 0, ui' = Rest, UNCHANGED <<appVars, after, evt>>
  PROVE  SlotInv'
<1>1. /\ task' /\ ~done' /\ ~stop'
      /\ task' \in BOOLEAN /\ done' \in BOOLEAN /\ stop' \in BOOLEAN
  BY DEF CreateWorker
<1>2. worker' \in [pc : {"none", "run", "gave", "suspended"}, launch : Nat]
      /\ worker'.pc = "run" /\ worker'.launch = launches
  BY DEF CreateWorker, SlotInv, SlotTypes, WorkerIsTheApps
<1>3. ui' \in Busy /\ (ui' = "manager" => evt'.kind = "fail")
  BY RestOfDispatch
<1>4. SlotTypes'
  BY <1>1, <1>2, <1>3 DEF SlotInv, SlotTypes, Busy, appVars
<1>5. WorkerIsTheApps'
  BY <1>1, <1>2, <1>3 DEF SlotInv, WorkerIsTheApps, Busy, Leaving, appVars
<1>6. TokenInSlot'
  BY <1>1, <1>2, <1>3 DEF TokenInSlot, Busy, Leaving
<1> QED BY <1>4, <1>5, <1>6 DEF SlotInv

(* stark_app_worker_start().                                               *)
LEMMA WorkerStarted ==
  ASSUME SlotInv, ui = "screens", StartWorker, current # 0, UNCHANGED <<appVars, after, evt>>
  PROVE  SlotInv'
<1>1. CASE CreateWorker /\ ui' = Rest
  BY <1>1, WorkerCreated
<1>2. CASE task /\ done /\ done' = FALSE /\ ui' = "start_reap" /\ UNCHANGED <<worker, task, stop>>
  <2>1. done' \in BOOLEAN /\ task' \in BOOLEAN /\ stop' \in BOOLEAN /\ ~done' /\ task' /\ (stop' => stop)
    BY <1>2 DEF SlotInv, SlotTypes
  <2>2. worker.pc \in {"gave", "suspended"}
    BY <1>2 DEF SlotInv, TokenInSlot
  <2>3. SlotTypes'
    BY <1>2, <2>1 DEF SlotInv, SlotTypes, appVars
  <2>4. WorkerIsTheApps'
    BY <1>2 DEF SlotInv, WorkerIsTheApps, Leaving, appVars
  <2>5. TokenInSlot'
    BY <1>2, <2>1, <2>2 DEF SlotInv, TokenInSlot, Leaving
  <2> QED BY <2>3, <2>4, <2>5 DEF SlotInv
<1>3. CASE ui' = Rest /\ UNCHANGED workerVars
  <2>1. ui \in Busy /\ ui' \in Busy /\ (ui' = "manager" => evt'.kind = "fail")
    BY <1>3, RestOfDispatch DEF Busy
  <2>2. after' \in {"idle", "unwind"}
    BY DEF SlotInv, SlotTypes
  <2> QED BY <1>3, <2>1, <2>2, SlotStays
<1> QED BY <1>1, <1>2, <1>3 DEF StartWorker

(* on_app_screen_exit().                                                   *)
LEMMA AppLeft ==
  ASSUME SlotInv, ScreensInv, ui \in {"screens", "unwind"}, Top = "app",
         NEW next \in {"idle", "unwind"}, LeaveApp(next)
  PROVE  SlotInv' /\ ScreensInv' /\ UNCHANGED dlg
<1>0. /\ dlg.open \in BOOLEAN /\ (current # 0) \in BOOLEAN /\ stack = Screens(current # 0, dlg.open)
  BY DEF ScreensInv, Dialog
<1>1. current # 0 /\ ~dlg.open /\ Popped = Screens(FALSE, FALSE)
  BY <1>0, ScreensOnTop
<1>2. /\ stack' = Popped /\ dlg' = dlg /\ current' = 0 /\ after' = next
      /\ ui' = IF task THEN "join" ELSE "stop"
      /\ UNCHANGED <<task, worker, done, launches, generation>>
  BY DEF LeaveApp
<1>3. stop' \in BOOLEAN
  BY DEF LeaveApp, SlotInv, SlotTypes
<1>4. ScreensInv'
  <2>1. (current' # 0) = FALSE /\ dlg'.open = FALSE
    BY <1>0, <1>1, <1>2
  <2>2. stack' = Screens(current' # 0, dlg'.open)
    BY <1>1, <1>2, <2>1
  <2>3. dlg' = Closed
    BY <1>1, <1>2 DEF ScreensInv
  <2> QED BY <2>2, <2>3, ClosedDialog DEF ScreensInv
<1>5. SlotTypes'
  BY <1>2, <1>3 DEF SlotInv, SlotTypes
<1>6. Leaving'
  BY <1>2 DEF Leaving
<1>7. WorkerIsTheApps'
  BY <1>2, <1>6 DEF SlotInv, SlotTypes, WorkerIsTheApps
<1>8. TokenInSlot'
  BY <1>2, <1>6 DEF SlotInv, TokenInSlot
<1> QED BY <1>2, <1>4, <1>5, <1>7, <1>8 DEF SlotInv

-----------------------------------------------------------------------------
(* The steps.                                                              *)

(* A step that publishes nothing keeps the events.                         *)
LEMMA NothingPublished ==
  ASSUME EventsInv, UNCHANGED <<busVars, inputVars, evt, heard>>
  PROVE  EventsInv'
BY DEF EventsInv, EventTypes, KeysInOrder, FaultsNameTheirApp, busVars, inputVars

(* What an app may do in a callback.                                       *)
LEMMA AppActed ==
  ASSUME AppInv, ui = "screens", current # 0, NEW found \in {stack, Popped},
         found = Popped => Top = "dialog",
         AppActs(found), UNCHANGED <<inputVars, after, evt, heard, appVars>>
  PROVE  AppInv'
<1>0. /\ UNCHANGED current /\ generation \in Nat /\ current \in Nat /\ generation = current
      /\ ui \in Busy /\ after' \in {"idle", "unwind"}
  BY DEF appVars, AppInv, SlotInv, SlotTypes, WorkerIsTheApps, Busy
<1>1. /\ \/ ShowAs(found)
         \/ \E alert \in BOOLEAN : OpenDialog(alert, current, found)
      /\ (ui' = Rest /\ UNCHANGED workerVars) \/ StartWorker
      /\ UNCHANGED busVars \/ Report("fail", generation, current)
  BY DEF AppActs
<1>2. ScreensInv' /\ DialogMoves
  <2>1. \/ ShowAs(found)
        \/ \E alert \in BOOLEAN, owner \in {0, current} :
             OpenDialog(alert, owner, found) /\ (~alert => current # 0)
    BY <1>1
  <2> QED BY <1>0, <2>1, FoundShown DEF AppInv, EventsInv, SlotInv
<1>3. SlotInv'
  <2>1. CASE StartWorker
    BY <2>1, WorkerStarted DEF AppInv
  <2>2. CASE ui' = Rest /\ UNCHANGED workerVars
    BY <1>0, <2>2, RestOfDispatch, SlotStays DEF AppInv
  <2> QED BY <1>1, <2>1, <2>2
<1>4. ui' # "screens"
  BY <1>1, RestOfDispatch DEF Rest, StartWorker
<1>5. EventsInv'
  <2>1. CASE UNCHANGED busVars
    BY <2>1, NothingPublished DEF AppInv
  <2>2. CASE Report("fail", generation, current)
    BY <1>0, <2>2, ReportPublished DEF AppInv
  <2> QED BY <1>1, <2>1, <2>2
<1> QED BY <1>2, <1>3, <1>4, <1>5, DialogStillHears DEF AppInv

(* An event to a dialog: OK and BACK answer it once its guard lets them,   *)
(* the rest is ignored.                                                    *)
LEMMA ToDialogStep ==
  ASSUME AppInv, ToDialog
  PROVE  AppInv'
<1>1. /\ ui = "screens" /\ Top = "dialog" /\ ui \in Busy /\ after' \in {"idle", "unwind"}
      /\ UNCHANGED <<inputVars, after, evt, heard, appVars, current>>
  BY DEF ToDialog, appVars, Busy, AppInv, SlotInv, SlotTypes
<1>2. dlg.open
  <2>1. /\ dlg.open \in BOOLEAN /\ (current # 0) \in BOOLEAN /\ stack = Screens(current # 0, dlg.open)
    BY DEF AppInv, ScreensInv, Dialog
  <2> QED BY <1>1, <2>1, ScreensOnTop
<1>3. CASE Arm /\ ui' = Rest /\ UNCHANGED <<busVars, stack, workerVars>>
  <2>1. /\ dlg' \in Dialog /\ dlg'.open = dlg.open /\ dlg'.alert = dlg.alert /\ dlg'.owner = dlg.owner
        /\ dlg'.heard = dlg.heard
        /\ dlg'.ok \/ dlg'.back => dlg.ok \/ dlg.back \/ IsPress(evt)
    BY <1>3 DEF Arm, AppInv, ScreensInv, Dialog, IsPress
  <2>2. ScreensInv'
    BY <1>1, <1>2, <1>3, <2>1 DEF AppInv, ScreensInv
  <2>3. SlotInv'
    BY <1>1, <1>3, RestOfDispatch, SlotStays DEF AppInv
  <2>4. ui' # "screens"
    BY <1>3 DEF Rest
  <2>5. DialogHears'
    BY <1>1, <1>2, <2>1, <2>4 DEF AppInv, DialogHears
  <2>6. EventsInv'
    BY <1>1, <1>3, NothingPublished DEF AppInv
  <2> QED BY <2>2, <2>3, <2>5, <2>6 DEF AppInv
<1>4. CASE ShowAs(Popped) /\ ui' = Rest /\ UNCHANGED <<busVars, workerVars>>
  <2>1. ScreensInv' /\ DialogMoves
    BY <1>1, <1>4, FoundShown DEF AppInv, EventsInv, SlotInv
  <2>2. SlotInv'
    BY <1>1, <1>4, RestOfDispatch, SlotStays DEF AppInv
  <2>3. ui' # "screens"
    BY <1>4 DEF Rest
  <2>4. EventsInv'
    BY <1>1, <1>4, NothingPublished DEF AppInv
  <2> QED BY <1>1, <2>1, <2>2, <2>3, <2>4, DialogStillHears DEF AppInv
<1>5. CASE ~dlg.alert /\ AppActs(Popped)
  <2>1. current # 0
    BY <1>2, <1>5 DEF AppInv, ScreensInv
  <2> QED BY <1>1, <1>5, <2>1, AppActed
<1> QED BY <1>3, <1>4, <1>5 DEF ToDialog

(* An event to the app on top: what its callbacks may do, and the way out  *)
(* on BACK.                                                                *)
LEMMA ToAppStep ==
  ASSUME AppInv, ToApp
  PROVE  AppInv'
<1>1. /\ ui = "screens" /\ Top = "app" /\ ui \in Busy /\ UNCHANGED <<inputVars, evt, heard>>
  BY DEF ToApp, Busy
<1>2. current # 0
  <2>1. /\ dlg.open \in BOOLEAN /\ (current # 0) \in BOOLEAN /\ stack = Screens(current # 0, dlg.open)
    BY DEF AppInv, ScreensInv, Dialog
  <2> QED BY <1>1, <2>1, ScreensOnTop
<1>3. CASE AppActs(stack) /\ UNCHANGED <<after, appVars>>
  <2>1. stack # Popped
    <3>1. /\ dlg.open \in BOOLEAN /\ (current # 0) \in BOOLEAN /\ stack = Screens(current # 0, dlg.open)
      BY DEF AppInv, ScreensInv, Dialog
    <3> QED BY <3>1, ScreensOnTop
  <2> QED BY <1>1, <1>2, <1>3, <2>1, AppActed
<1>4. CASE ui' = Rest /\ UNCHANGED <<busVars, after, screenVars, appVars, workerVars>>
  <2>1. SlotInv'
    <3>1. after' \in {"idle", "unwind"}
      BY <1>4 DEF AppInv, SlotInv, SlotTypes
    <3> QED BY <1>1, <1>4, <3>1, RestOfDispatch, SlotStays DEF AppInv
  <2>2. ScreensInv' /\ DialogMoves
    BY <1>4 DEF AppInv, ScreensInv, DialogMoves, screenVars, appVars
  <2>3. ui' # "screens"
    BY <1>4 DEF Rest
  <2>4. EventsInv'
    BY <1>1, <1>4, NothingPublished DEF AppInv
  <2> QED BY <1>1, <2>1, <2>2, <2>3, <2>4, DialogStillHears DEF AppInv
<1>5. CASE LeaveApp("idle") /\ UNCHANGED busVars
  <2>1. SlotInv' /\ ScreensInv' /\ UNCHANGED dlg
    BY <1>1, <1>5, AppLeft DEF AppInv
  <2>2. ui' # "screens" /\ DialogMoves
    BY <1>5, <2>1 DEF LeaveApp, DialogMoves
  <2>3. EventsInv'
    BY <1>1, <1>5, NothingPublished DEF AppInv
  <2> QED BY <1>1, <2>1, <2>2, <2>3, DialogStillHears DEF AppInv
<1> QED BY <1>3, <1>4, <1>5 DEF ToApp

(* An event to the launcher: OK launches, and the app's screen is pushed   *)
(* with current set.                                                       *)
LEMMA ToLauncherStep ==
  ASSUME AppInv, ToLauncher
  PROVE  AppInv'
<1>1. /\ ui = "screens" /\ Top = "launcher" /\ ui \in Busy /\ ui' = Rest /\ ui' # "screens"
      /\ UNCHANGED <<busVars, inputVars, after, evt, heard, dlg, workerVars>>
  BY DEF ToLauncher, Busy, Rest
<1>2. current = 0 /\ ~dlg.open /\ Append(stack, "app") = Screens(TRUE, FALSE)
  <2>1. /\ dlg.open \in BOOLEAN /\ (current # 0) \in BOOLEAN /\ stack = Screens(current # 0, dlg.open)
    BY DEF AppInv, ScreensInv, Dialog
  <2> QED BY <1>1, <2>1, ScreensOnTop
<1>3. EventsInv'
  BY <1>1, NothingPublished DEF AppInv
<1>4. DialogHears'
  <2>1. DialogMoves
    BY <1>1 DEF DialogMoves
  <2>2. ui' # "screens" /\ heard' = heard /\ evt' = evt
    BY <1>1
  <2> QED BY <2>1, <2>2, DialogStillHears
<1>5. CASE UNCHANGED <<stack, appVars>>
  <2>1. SlotInv'
    <3>1. after' \in {"idle", "unwind"}
      BY <1>1 DEF AppInv, SlotInv, SlotTypes
    <3> QED BY <1>1, <1>5, <3>1, RestOfDispatch, SlotStays DEF AppInv
  <2>2. ScreensInv'
    BY <1>1, <1>5 DEF AppInv, ScreensInv, appVars
  <2> QED BY <1>3, <1>4, <2>1, <2>2 DEF AppInv
<1>6. CASE Launch
  <2>1. /\ launches' = launches + 1 /\ generation' = generation + 1 /\ current' = launches'
        /\ stack' = Append(stack, "app")
    BY <1>6 DEF Launch
  <2>2. ~task /\ ui' \in Busy /\ (ui' = "manager" => evt'.kind = "fail")
    BY <1>1, <1>2, RestOfDispatch DEF AppInv, SlotInv, WorkerIsTheApps, Leaving
  <2>3. current' # 0 /\ launches' \in Nat
    BY <2>1 DEF AppInv, SlotInv, SlotTypes
  <2>4. ScreensInv'
    <3>1. (current' # 0) = TRUE /\ dlg'.open = FALSE
      BY <1>1, <1>2, <2>3 DEF AppInv, ScreensInv, Dialog
    <3>2. stack' = Screens(current' # 0, dlg'.open)
      BY <1>2, <2>1, <3>1
    <3> QED BY <1>1, <1>2, <3>2, ClosedDialog DEF AppInv, ScreensInv
  <2>5. SlotTypes'
    BY <1>1, <2>1, <2>2, <2>3 DEF AppInv, SlotInv, SlotTypes, Busy, workerVars, slotVars
  <2>6. WorkerIsTheApps'
    BY <1>1, <2>1, <2>2 DEF AppInv, SlotInv, WorkerIsTheApps, Busy, Leaving, workerVars, slotVars
  <2>7. TokenInSlot'
    BY <1>1, <2>2 DEF AppInv, SlotInv, TokenInSlot, Busy, workerVars, slotVars
  <2> QED BY <1>3, <1>4, <2>4, <2>5, <2>6, <2>7 DEF AppInv, SlotInv
<1> QED BY <1>5, <1>6 DEF ToLauncher

(* The UI task takes an event: only a dialog that is open hears it.        *)
LEMMA DequeueStep ==
  ASSUME AppInv, Dequeue
  PROVE  AppInv'
<1>1. /\ ui = "idle" /\ ui' = "screens" /\ ui \in Busy /\ ui' \in Busy
      /\ UNCHANGED <<after, screenVars, appVars, workerVars>>
  BY DEF Dequeue, Busy
<1>2. /\ EventsInv' /\ heard <= heard' /\ heard \in Nat /\ heard' \in Nat
      /\ IsShort(evt)' => heard' <= evt'.n
      /\ IsPress(evt)' => heard < heard'
  <2>1. EventsInv' /\ pressed \in Nat /\ pressed' \in Nat
    BY DequeuedInOrder, AppConstantsOK DEF AppInv, EventsInv, EventTypes
  <2> QED BY <2>1, DequeuedInOrder DEF AppInv, EventsInv, EventTypes
<1>3. dlg.heard \in Nat
  BY DEF AppInv, ScreensInv, Dialog
<1>4. DialogHears'
  BY <1>1, <1>2, <1>3 DEF AppInv, DialogHears, screenVars, IsShort, IsPress
<1>5. ScreensInv'
  BY <1>1 DEF AppInv, ScreensInv, screenVars, appVars
<1>6. SlotInv'
  <2>1. after' \in {"idle", "unwind"}
    BY <1>1 DEF AppInv, SlotInv, SlotTypes
  <2> QED BY <1>1, <2>1, SlotStays DEF AppInv
<1> QED BY <1>2, <1>4, <1>5, <1>6 DEF AppInv

(* A step of the UI task that changes neither the screens nor the slot.    *)
LEMMA OnlyUiMoves ==
  ASSUME AppInv, ui \in Busy, ui' \in Busy \ {"screens"}, ui' = "manager" => evt'.kind = "fail",
         UNCHANGED <<busVars, inputVars, after, evt, heard, screenVars, appVars, workerVars>>
  PROVE  AppInv'
<1>1. EventsInv'
  BY NothingPublished DEF AppInv
<1>2. ScreensInv' /\ DialogMoves
  BY DEF AppInv, ScreensInv, DialogMoves, screenVars, appVars
<1>3. DialogHears'
  BY <1>2, DialogStillHears
<1>4. SlotInv'
  <2>1. after' \in {"idle", "unwind"}
    BY DEF AppInv, SlotInv, SlotTypes
  <2> QED BY <2>1, SlotStays DEF AppInv
<1> QED BY <1>1, <1>2, <1>3, <1>4 DEF AppInv

(* The long BACK begins to unwind; a fault report stops the app if it is   *)
(* of this session.                                                        *)
LEMMA HomeOrManagerStep ==
  ASSUME AppInv, GoHome \/ Manager
  PROVE  AppInv'
<1>1. /\ ui \in Busy /\ ui' \in {"unwind", "idle"}
      /\ UNCHANGED <<busVars, inputVars, after, evt, heard, screenVars, appVars, workerVars>>
  BY DEF GoHome, Manager, Busy
<1>2. ui' \in Busy \ {"screens"} /\ ui' # "manager"
  BY <1>1 DEF Busy
<1> QED BY <1>1, <1>2, OnlyUiMoves

(* pop_to_root() takes one screen at a time, the exit callback of the      *)
(* app's ends its session.                                                 *)
LEMMA UnwindStep ==
  ASSUME AppInv, Unwind
  PROVE  AppInv'
<1>1. ui = "unwind" /\ ui \in Busy /\ UNCHANGED <<busVars, inputVars, evt, heard>>
  BY DEF Unwind, Busy
<1>2. EventsInv'
  BY <1>1, NothingPublished DEF AppInv
<1>3. CASE Top = "dialog"
  <2>1. ShowAs(Popped) /\ UNCHANGED <<ui, after, appVars, workerVars>>
    BY <1>3 DEF Unwind
  <2>2. UNCHANGED current /\ ui' \in Busy /\ ui' # "manager" /\ ui' # "screens"
    BY <1>1, <2>1 DEF appVars
  <2>3. ScreensInv' /\ DialogMoves
    BY <1>3, <2>1, <2>2, FoundShown DEF AppInv, EventsInv, SlotInv
  <2>4. SlotInv'
    <3>1. after' \in {"idle", "unwind"}
      BY <2>1 DEF AppInv, SlotInv, SlotTypes
    <3> QED BY <1>1, <2>1, <2>2, <3>1, SlotStays DEF AppInv
  <2>5. DialogHears'
    BY <1>1, <2>2, <2>3, DialogStillHears
  <2> QED BY <1>2, <2>3, <2>4, <2>5 DEF AppInv
<1>4. CASE Top = "app"
  <2>1. LeaveApp("unwind")
    BY <1>4 DEF Unwind
  <2>2. SlotInv' /\ ScreensInv' /\ UNCHANGED dlg
    BY <1>1, <1>4, <2>1, AppLeft DEF AppInv
  <2>3. ui' # "screens" /\ DialogMoves
    BY <2>1, <2>2 DEF LeaveApp, DialogMoves
  <2>4. DialogHears'
    BY <1>1, <2>3, DialogStillHears
  <2> QED BY <1>2, <2>2, <2>4 DEF AppInv
<1>5. CASE Top \notin {"dialog", "app"}
  <2>1. ui' \in {"alert", "idle"} /\ UNCHANGED <<after, screenVars, appVars, workerVars>>
    BY <1>5 DEF Unwind
  <2>2. ui' \in Busy \ {"screens"} /\ ui' # "manager"
    BY <2>1 DEF Busy
  <2> QED BY <1>1, <2>1, <2>2, OnlyUiMoves
<1> QED BY <1>3, <1>4, <1>5

(* The card's alert closes the dialog that is open and opens its own.      *)
LEMMA AlertStep ==
  ASSUME AppInv, Alert
  PROVE  AppInv'
<1>1. /\ ui = "alert" /\ ui' = "idle" /\ ui \in Busy /\ ui' \in Busy
      /\ OpenDialog(TRUE, 0, stack)
      /\ UNCHANGED <<busVars, inputVars, after, evt, heard, appVars, workerVars, current>>
  BY DEF Alert, Busy, appVars
<1>2. EventsInv'
  BY <1>1, NothingPublished DEF AppInv
<1>3. ScreensInv' /\ DialogMoves
  <2>1. stack # Popped
    <3>1. /\ dlg.open \in BOOLEAN /\ (current # 0) \in BOOLEAN /\ stack = Screens(current # 0, dlg.open)
      BY DEF AppInv, ScreensInv, Dialog
    <3> QED BY <3>1, ScreensOnTop
  <2> QED BY <1>1, <2>1, FoundShown DEF AppInv, EventsInv, SlotInv
<1>4. SlotInv'
  <2>1. after' \in {"idle", "unwind"}
    BY <1>1 DEF AppInv, SlotInv, SlotTypes
  <2> QED BY <1>1, <2>1, SlotStays DEF AppInv
<1>5. DialogHears'
  BY <1>1, <1>3, DialogStillHears
<1> QED BY <1>2, <1>3, <1>4, <1>5 DEF AppInv

(* A step that moves only the slot and the UI task's place.                *)
LEMMA OnlySlotMoves ==
  ASSUME AppInv, SlotInv', UNCHANGED <<busVars, inputVars, evt, heard, screenVars, appVars>>,
         ui' # "screens" \/ ui' = ui
  PROVE  AppInv'
<1>1. EventsInv'
  BY NothingPublished DEF AppInv
<1>2. ScreensInv' /\ DialogMoves /\ dlg' = dlg
  BY DEF AppInv, ScreensInv, DialogMoves, screenVars, appVars
<1>3. DialogHears'
  BY <1>2, DialogStillHears
<1> QED BY <1>1, <1>2, <1>3 DEF AppInv

(* stark_app_worker_join(), step by step, and the end of on_stop().        *)
LEMMA JoinStep ==
  ASSUME AppInv, JoinTakes \/ JoinTimesOut \/ Kill \/ Reap \/ OnStop
  PROVE  AppInv'
<1>1. UNCHANGED <<busVars, inputVars, evt, heard, screenVars, appVars>> /\ ui' # "screens"
  BY DEF JoinTakes, JoinTimesOut, Kill, Reap, OnStop, AppInv, SlotInv, SlotTypes
<1>2. CASE JoinTakes
  <2>1. /\ ui = "join" /\ done /\ done' \in BOOLEAN /\ ~done' /\ ui' = "reap"
        /\ UNCHANGED <<after, evt, appVars, worker, task, stop>>
    BY <1>2 DEF JoinTakes
  <2>2. task /\ worker.pc \in {"gave", "suspended"}
    BY <2>1 DEF AppInv, SlotInv, TokenInSlot
  <2>3. SlotInv'
    BY <2>1, <2>2 DEF AppInv, SlotInv, SlotTypes, WorkerIsTheApps, TokenInSlot, Leaving, appVars
  <2> QED BY <1>1, <2>3, OnlySlotMoves
<1>3. CASE JoinTimesOut
  <2>1. ui = "join" /\ ui' = "kill" /\ UNCHANGED <<after, evt, appVars, worker, task, done, stop>>
    BY <1>3 DEF JoinTimesOut, workerVars, slotVars
  <2>2. SlotInv'
    BY <2>1 DEF AppInv, SlotInv, SlotTypes, WorkerIsTheApps, TokenInSlot, Leaving, appVars
  <2> QED BY <1>1, <2>2, OnlySlotMoves
<1>4. CASE Kill \/ Reap
  <2>1. /\ ui \in {"kill", "reap"} /\ ui' = "stop" /\ worker' = NoWorker
        /\ task' \in BOOLEAN /\ ~task' /\ UNCHANGED <<after, evt, appVars, done, stop>>
    BY <1>4 DEF Kill, Reap
  <2>2. worker' \in [pc : {"none", "run", "gave", "suspended"}, launch : Nat]
        /\ worker'.pc = "none" /\ worker'.launch = 0
    BY <2>1 DEF NoWorker
  <2>3. SlotInv'
    BY <2>1, <2>2 DEF AppInv, SlotInv, SlotTypes, WorkerIsTheApps, TokenInSlot, Leaving, appVars
  <2> QED BY <1>1, <2>3, OnlySlotMoves
<1>5. CASE OnStop
  <2>1. ui = "stop" /\ ui' = after /\ UNCHANGED <<after, evt, appVars, worker, task, done, stop>>
    BY <1>5 DEF OnStop, workerVars, slotVars
  <2>2. after \in {"idle", "unwind"} /\ ~task
    BY <2>1 DEF AppInv, SlotInv, SlotTypes, TokenInSlot
  <2>3. SlotInv'
    BY <2>1, <2>2 DEF AppInv, SlotInv, SlotTypes, WorkerIsTheApps, TokenInSlot, Leaving, appVars
  <2> QED BY <1>1, <2>3, OnlySlotMoves
<1> QED BY <1>2, <1>3, <1>4, <1>5

(* The way out of an app, step by step: stop flag, join, time-out, slot    *)
(* freed, on_stop().                                                       *)
LEMMA StartReapStep ==
  ASSUME AppInv, StartReap
  PROVE  AppInv'
<1>1. /\ ui = "start_reap" /\ CreateWorker /\ ui' = Rest
      /\ UNCHANGED <<busVars, inputVars, after, evt, heard, screenVars, appVars>>
  BY DEF StartReap
<1>2. current # 0
  BY <1>1 DEF AppInv, SlotInv, WorkerIsTheApps
<1>3. SlotInv'
  BY <1>1, <1>2, WorkerCreated DEF AppInv
<1>4. ui' # "screens"
  BY <1>1 DEF Rest
<1> QED BY <1>1, <1>3, <1>4, OnlySlotMoves

(* Events published by the keys, the card and the worker.                  *)
LEMMA OnlyEventsMove ==
  ASSUME AppInv, EventsInv', UNCHANGED <<uiVars, screenVars, appVars, workerVars>>
  PROVE  AppInv'
<1>1. UNCHANGED <<ui, after, evt, heard, dlg, stack>>
  BY DEF uiVars, screenVars
<1>2. ScreensInv' /\ DialogHears'
  BY <1>1 DEF AppInv, ScreensInv, DialogHears, appVars, IsShort, IsPress
<1>3. SlotTypes'
  BY <1>1 DEF AppInv, SlotInv, SlotTypes, appVars, workerVars, slotVars
<1>4. WorkerIsTheApps'
  BY <1>1 DEF AppInv, SlotInv, WorkerIsTheApps, Leaving, appVars, workerVars, slotVars
<1>5. TokenInSlot'
  BY <1>1 DEF AppInv, SlotInv, TokenInSlot, Leaving, workerVars, slotVars
<1> QED BY <1>2, <1>3, <1>4, <1>5 DEF AppInv, SlotInv

(* What others than the UI task do only adds to the bus.                   *)
LEMMA PublisherStep ==
  ASSUME AppInv, \/ \E key \in {"ok", "back"} : Press(key)
                 \/ HoldLong \/ LetGo \/ CardRemoved \/ WorkerNote \/ WorkerFails
  PROVE  AppInv'
<1>1. UNCHANGED <<uiVars, screenVars, appVars, workerVars>>
  BY DEF Press, HoldLong, LetGo, CardRemoved, WorkerNote, WorkerFails
<1>2. EventsInv'
  <2>1. CASE (\E key \in {"ok", "back"} : Press(key)) \/ HoldLong \/ LetGo
    BY <2>1, KeysStep DEF AppInv
  <2>2. CASE CardRemoved
    BY <2>2, ReportPublished DEF CardRemoved, uiVars, AppInv
  <2>3. CASE WorkerNote \/ WorkerFails
    <3>1. worker.launch = generation /\ worker.launch \in Nat /\ generation \in Nat
      BY <2>3 DEF WorkerNote, WorkerFails, Running, AppInv, SlotInv, SlotTypes, WorkerIsTheApps, TokenInSlot
    <3>2. Report("note", 0, worker.launch) \/ Report("fail", generation, worker.launch)
      BY <2>3 DEF WorkerNote, WorkerFails
    <3>3. UNCHANGED <<inputVars, heard, evt>>
      BY <2>3 DEF WorkerNote, WorkerFails, uiVars
    <3> QED BY <3>1, <3>2, <3>3, ReportPublished DEF AppInv
  <2> QED BY <2>1, <2>2, <2>3
<1> QED BY <1>1, <1>2, OnlyEventsMove

(* A worker gives its token and suspends itself; the slot stays until the  *)
(* manager frees it.                                                       *)
LEMMA WorkerReturnsStep ==
  ASSUME AppInv, Give \/ Suspend
  PROVE  AppInv'
<1>1. UNCHANGED <<busVars, inputVars, evt, heard, after, screenVars, appVars, ui, task, stop>>
  BY DEF Give, Suspend, uiVars, slotVars
<1>2. CASE Give
  <2>1. /\ worker.pc = "run" /\ worker' = [worker EXCEPT !.pc = "gave"] /\ done' \in BOOLEAN /\ done'
    BY <1>2 DEF Give, Running
  <2>2. /\ worker' \in [pc : {"none", "run", "gave", "suspended"}, launch : Nat]
        /\ worker'.pc = "gave" /\ worker'.launch = worker.launch
    BY <2>1 DEF AppInv, SlotInv, SlotTypes
  <2>3. SlotInv'
    BY <1>1, <2>1, <2>2 DEF AppInv, SlotInv, SlotTypes, WorkerIsTheApps, TokenInSlot, Leaving, appVars
  <2> QED BY <1>1, <2>3, OnlySlotMoves
<1>3. CASE Suspend
  <2>1. worker.pc = "gave" /\ worker' = [worker EXCEPT !.pc = "suspended"] /\ done' = done
    BY <1>3 DEF Suspend, slotVars
  <2>2. /\ worker' \in [pc : {"none", "run", "gave", "suspended"}, launch : Nat]
        /\ worker'.pc = "suspended" /\ worker'.launch = worker.launch
    BY <2>1 DEF AppInv, SlotInv, SlotTypes
  <2>3. SlotInv'
    BY <1>1, <2>1, <2>2 DEF AppInv, SlotInv, SlotTypes, WorkerIsTheApps, TokenInSlot, Leaving, appVars
  <2> QED BY <1>1, <2>3, OnlySlotMoves
<1> QED BY <1>2, <1>3

-----------------------------------------------------------------------------

(* The manager starts with the launcher alone and no worker.               *)
LEMMA AppInitially == Init => AppInv
<1> SUFFICES ASSUME Init PROVE AppInv
  OBVIOUS
<1>1. EventsInv
  BY AppConstantsOK DEF Init, EventsInv, EventTypes, KeysInOrder, FaultsNameTheirApp, Event, NoEvent
<1>2. dlg = Closed /\ current = 0 /\ ui = "idle" /\ stack = <<"launcher">>
  BY DEF Init
<1>3. DialogHears
  BY <1>2, ClosedDialog DEF DialogHears
<1>4. ScreensInv
  <2>1. stack = Screens(FALSE, FALSE) /\ (current # 0) = FALSE /\ dlg.open = FALSE
    BY <1>2 DEF Screens, Closed
  <2>2. stack = Screens(current # 0, dlg.open)
    BY <2>1
  <2> QED BY <1>2, <2>2, ClosedDialog DEF ScreensInv
<1>5. SlotInv
  <2>1. ~task /\ ~done /\ ~stop /\ task \in BOOLEAN /\ done \in BOOLEAN /\ stop \in BOOLEAN
    BY DEF Init
  <2>2. worker = NoWorker /\ after = "idle" /\ launches = 0 /\ generation = 0
    BY DEF Init
  <2> QED BY <1>2, <2>1, <2>2 DEF SlotInv, SlotTypes, WorkerIsTheApps, TokenInSlot, NoWorker, Leaving
<1> QED BY <1>1, <1>3, <1>4, <1>5 DEF AppInv

(* Every step keeps the invariant.                                         *)
LEMMA AppInductive == AppInv /\ [Next]_vars => AppInv'
<1> SUFFICES ASSUME AppInv, [Next]_vars PROVE AppInv'
  OBVIOUS
<1>1. CASE UNCHANGED vars
  <2>1. UNCHANGED <<busVars, inputVars, evt, heard, after, ui, screenVars, appVars, workerVars>>
    BY <1>1 DEF vars, uiVars
  <2>2. SlotInv'
    BY <2>1 DEF AppInv, SlotInv, SlotTypes, WorkerIsTheApps, TokenInSlot, Leaving, appVars, workerVars, slotVars
  <2> QED BY <2>1, <2>2, OnlySlotMoves
<1>2. CASE Dequeue
  BY <1>2, DequeueStep
<1>3. CASE GoHome \/ Manager
  BY <1>3, HomeOrManagerStep
<1>4. CASE Unwind
  BY <1>4, UnwindStep
<1>5. CASE ToDialog
  BY <1>5, ToDialogStep
<1>6. CASE ToApp
  BY <1>6, ToAppStep
<1>7. CASE ToLauncher
  BY <1>7, ToLauncherStep
<1>8. CASE Alert
  BY <1>8, AlertStep
<1>9. CASE JoinTakes \/ JoinTimesOut \/ Kill \/ Reap \/ OnStop
  BY <1>9, JoinStep
<1>10. CASE StartReap
  BY <1>10, StartReapStep
<1>11. CASE \/ \E key \in {"ok", "back"} : Press(key)
            \/ HoldLong \/ LetGo \/ CardRemoved \/ WorkerNote \/ WorkerFails
  BY <1>11, PublisherStep
<1>12. CASE Give \/ Suspend
  BY <1>12, WorkerReturnsStep
<1> QED
  BY <1>1, <1>2, <1>3, <1>4, <1>5, <1>6, <1>7, <1>8, <1>9, <1>10, <1>11, <1>12
  DEF Next, UiStep, Frame

(* The inductive invariant behind the theorems about apps (app_manager.c,  *)
(* app_worker.c, ui_stack.c).                                              *)
THEOREM AppInvariant == Spec => []AppInv
BY AppInitially, AppInductive, PTL DEF Spec

(* The screens are the launcher, the app if there is one, and the dialog.  *)
LEMMA ScreensTogether ==
  ASSUME NEW app \in BOOLEAN, NEW dialog \in BOOLEAN
  PROVE  /\ Screens(app, dialog) = <<"launcher">> \o (IF app THEN <<"app">> ELSE <<>>)
                                               \o (IF dialog THEN <<"dialog">> ELSE <<>>)
         /\ Screens(app, dialog) \in Seq({"launcher", "app", "dialog"})
<1> DEFINE S == {"launcher", "app", "dialog"}
           a == IF app THEN <<"app">> ELSE <<>>
           d == IF dialog THEN <<"dialog">> ELSE <<>>
           s == <<"launcher">> \o a
           t == s \o d
<1>1. /\ a \in Seq(S) /\ Len(a) = (IF app THEN 1 ELSE 0) /\ (app => a[1] = "app")
      /\ d \in Seq(S) /\ Len(d) = (IF dialog THEN 1 ELSE 0) /\ (dialog => d[1] = "dialog")
  <2>1. <<"app">> \in Seq(S) /\ Len(<<"app">>) = 1 /\ <<"app">>[1] = "app"
    OBVIOUS
  <2>2. <<"dialog">> \in Seq(S) /\ Len(<<"dialog">>) = 1 /\ <<"dialog">>[1] = "dialog"
    OBVIOUS
  <2>3. <<>> \in Seq(S) /\ Len(<<>>) = 0
    OBVIOUS
  <2>4. a \in Seq(S) /\ Len(a) = (IF app THEN 1 ELSE 0) /\ (app => a[1] = "app")
    <3>1. CASE app
      <4>1. a = <<"app">>
        BY <3>1
      <4> HIDE DEF a
      <4> QED BY <2>1, <3>1, <4>1
    <3>2. CASE ~app
      <4>1. a = <<>>
        BY <3>2
      <4> HIDE DEF a
      <4> QED BY <2>3, <3>2, <4>1
    <3> QED BY <3>1, <3>2
  <2>5. d \in Seq(S) /\ Len(d) = (IF dialog THEN 1 ELSE 0) /\ (dialog => d[1] = "dialog")
    <3>1. CASE dialog
      <4>1. d = <<"dialog">>
        BY <3>1
      <4> HIDE DEF d
      <4> QED BY <2>2, <3>1, <4>1
    <3>2. CASE ~dialog
      <4>1. d = <<>>
        BY <3>2
      <4> HIDE DEF d
      <4> QED BY <2>3, <3>2, <4>1
    <3> QED BY <3>1, <3>2
  <2> QED BY <2>4, <2>5
<1> HIDE DEF a, d
<1>2. /\ s \in Seq(S) /\ Len(s) = 1 + Len(a) /\ s[1] = "launcher" /\ (app => s[2] = "app")
  <2> DEFINE l == <<"launcher">>
  <2>1. l \in Seq(S) /\ Len(l) = 1 /\ l[1] = "launcher"
    OBVIOUS
  <2> HIDE DEF l
  <2>2. /\ l \o a \in Seq(S) /\ Len(l \o a) = Len(l) + Len(a)
        /\ \A i \in 1..Len(l) + Len(a) : (l \o a)[i] = IF i <= Len(l) THEN l[i] ELSE a[i - Len(l)]
    BY <1>1, <2>1, ConcatProperties
  <2> QED BY <1>1, <2>1, <2>2 DEF l
<1> HIDE DEF s
<1>3. /\ t \in Seq(S) /\ Len(t) = Len(s) + Len(d) /\ t[1] = "launcher"
      /\ app => t[2] = "app"
      /\ dialog => t[Len(s) + 1] = "dialog"
  <2>1. /\ s \o d \in Seq(S) /\ Len(s \o d) = Len(s) + Len(d)
        /\ \A i \in 1..Len(s) + Len(d) : (s \o d)[i] = IF i <= Len(s) THEN s[i] ELSE d[i - Len(s)]
    BY <1>1, <1>2, ConcatProperties
  <2> QED BY <1>1, <1>2, <2>1
<1> HIDE DEF t
<1>4. t = Screens(app, dialog)
  <2>1. CASE app /\ dialog
    <3>1. Len(t) = 3 /\ t[3] = "dialog" /\ t[2] = "app"
      BY <1>1, <1>2, <1>3, <2>1
    <3>2. t = <<"launcher", "app", "dialog">>
      BY <1>3, <3>1, Tuples
    <3> QED BY <2>1, <3>2 DEF Screens
  <2>2. CASE app /\ ~dialog
    <3>1. Len(t) = 2 /\ t[2] = "app"
      BY <1>1, <1>2, <1>3, <2>2
    <3>2. t = <<"launcher", "app">>
      BY <1>3, <3>1, Tuples
    <3> QED BY <2>2, <3>2 DEF Screens
  <2>3. CASE ~app /\ dialog
    <3>1. Len(t) = 2 /\ t[2] = "dialog"
      BY <1>1, <1>2, <1>3, <2>3
    <3>2. t = <<"launcher", "dialog">>
      BY <1>3, <3>1, Tuples
    <3> QED BY <2>3, <3>2 DEF Screens
  <2>4. CASE ~app /\ ~dialog
    <3>1. Len(t) = 1
      BY <1>1, <1>2, <1>3, <2>4
    <3>2. t = <<"launcher">>
      BY <1>3, <3>1, Tuples
    <3> QED BY <2>4, <3>2 DEF Screens
  <2> QED BY <2>1, <2>2, <2>3, <2>4
<1>5. Screens(app, dialog) \in Seq(S)
  BY <1>3, <1>4
<1> QED BY <1>4, <1>5 DEF t, s, a, d

(* The manager, the screen stack, the dialog and the worker slot agree on  *)
(* which app is running, however it was left (app_manager.c, app_worker.c, *)
(* ui_stack.c, ui_dialog.c).                                               *)
THEOREM ManagerStackAndSlotAgree == Spec => []AppIsSound
<1>1. AppInv => AppIsSound
  <2> SUFFICES ASSUME AppInv PROVE AppIsSound
    OBVIOUS
  <2>1. dlg.open \in BOOLEAN /\ (current # 0) \in BOOLEAN /\ stack = Screens(current # 0, dlg.open)
    BY DEF AppInv, ScreensInv, Dialog
  <2>2. AppTypeOK
    BY <2>1, ScreensTogether
    DEF AppInv, EventsInv, EventTypes, ScreensInv, Dialog, SlotInv, SlotTypes, AppTypeOK
  <2>3. ScreensMatch
    <3>1. stack = <<"launcher">> \o (IF current # 0 THEN <<"app">> ELSE <<>>)
                                 \o (IF dlg.open THEN <<"dialog">> ELSE <<>>)
      BY <2>1, ScreensTogether
    <3>2. dlg.owner \in {0, current}
      BY DEF AppInv, ScreensInv
    <3> QED BY <3>1, <3>2 DEF ScreensMatch
  <2>4. TokenIsTheWorkers
    BY DEF AppInv, SlotInv, TokenInSlot, TokenIsTheWorkers
  <2> QED BY <2>2, <2>3, <2>4 DEF AppIsSound
<1> QED BY <1>1, AppInvariant, PTL

(* A key already down when a dialog opens does not answer it: the release  *)
(* that does is of a press that was heard of after (ui_dialog.c,           *)
(* armed_ok, armed_back).                                                  *)
THEOREM HeldKeysNeverAnswer == Spec => HeldKeysDoNotAnswer
<1> DEFINE Answered == ui = "screens" /\ dlg.open /\ dlg' # dlg /\ evt.kind \in {"ok_short", "back_short"}
                         => evt.n > dlg.heard
<1>1. AppInv /\ [Next]_vars => [Answered]_vars
  <2> SUFFICES ASSUME AppInv, Next, ui = "screens", dlg.open, dlg' # dlg,
                      evt.kind \in {"ok_short", "back_short"}
               PROVE  evt.n > dlg.heard
    OBVIOUS
  <2>1. Top = "dialog"
    <3>1. dlg.open \in BOOLEAN /\ (current # 0) \in BOOLEAN /\ stack = Screens(current # 0, dlg.open)
      BY DEF AppInv, ScreensInv, Dialog
    <3> QED BY <3>1, ScreensOnTop
  <2>2. ToDialog
    BY <2>1 DEF Next, UiStep, Press, HoldLong, LetGo, CardRemoved, Frame, WorkerNote, WorkerFails, Give,
       Suspend, Dequeue, GoHome, Unwind, ToApp, ToLauncher, Manager, Alert, JoinTakes, JoinTimesOut, Kill,
       Reap, OnStop, StartReap, screenVars, vars
  <2>3. Answers
    BY <2>2 DEF ToDialog, Arm
  <2>4. dlg.heard < heard /\ heard <= evt.n
    BY <2>3 DEF Answers, AppInv, DialogHears, IsShort
  <2>5. dlg.heard \in Nat /\ heard \in Nat /\ evt.n \in Nat
    BY AppConstantsOK DEF AppInv, EventsInv, EventTypes, Event, ScreensInv, Dialog
  <2> QED BY <2>4, <2>5
<1> QED BY <1>1, AppInvariant, PTL DEF Spec, HeldKeysDoNotAnswer

(* However long a fault report was in the queue, the app that it stops is  *)
(* the one that raised it (app_fault.c, app_fault_accept()).               *)
THEOREM FaultStopsOnlyItsApp == Spec => FaultStopsItsApp
<1>1. AppInv /\ [Next]_vars => [ui = "manager" /\ ui' = "unwind" => evt.by = current]_vars
  <2> SUFFICES ASSUME AppInv, Next, ui = "manager", ui' = "unwind" PROVE evt.by = current
    OBVIOUS
  <2>1. Manager
    BY DEF Next, UiStep, Press, HoldLong, LetGo, CardRemoved, Frame, WorkerNote, WorkerFails, Give,
       Suspend, Dequeue, GoHome, Unwind, ToDialog, ToApp, ToLauncher, Alert, JoinTakes, JoinTimesOut, Kill,
       Reap, OnStop, StartReap, uiVars, vars
  <2>2. current # 0 /\ evt.n = generation
    BY <2>1 DEF Manager, Accept
  <2> QED BY <2>2 DEF AppInv, EventsInv, FaultsNameTheirApp, SlotInv, WorkerIsTheApps
<1> QED BY <1>1, AppInvariant, PTL DEF Spec, FaultStopsItsApp

-----------------------------------------------------------------------------
(* The refinement of AppSession.  The phase of the session:                *)
Phase == CASE current # 0 -> "open" [] Leaving -> "leaving" [] OTHER -> "closed"

(* The abstract session's phase, told by the manager's variables.          *)
LEMMA PhaseOfSession ==
  ASSUME AppInv
  PROVE  /\ Phase = "open" <=> current # 0
         /\ Phase = "leaving" <=> Leaving
         /\ Phase = "closed" <=> current = 0 /\ ~Leaving
BY DEF Phase, AppInv, SlotInv, WorkerIsTheApps

(* Nothing that a session is made of changes.                              *)
LEMMA SessionStutters ==
  ASSUME UNCHANGED <<current, launches>>, worker'.launch = worker.launch, Leaving' <=> Leaving
  PROVE  UNCHANGED Session!vars
<1>1. Phase' = Phase
  BY DEF Phase
<1> QED BY <1>1 DEF Session!vars, Phase

(* stark_app_worker_start() is a step of the session, or none.             *)
LEMMA SessionWorkerStarts ==
  ASSUME AppInv, AppInv', current # 0, UNCHANGED appVars,
         CreateWorker \/ UNCHANGED worker
  PROVE  [Session!Next]_Session!vars
<1>1. /\ Phase = "open" /\ Phase' = "open" /\ launches' = launches /\ current = launches
      /\ worker.launch \in {0, launches}
      /\ ~Leaving /\ ~Leaving' /\ current' = current
  BY PhaseOfSession DEF appVars, Phase, AppInv, SlotInv, WorkerIsTheApps
<1>2. CASE CreateWorker
  <2>1. worker'.launch = launches
    BY <1>1, <1>2 DEF CreateWorker
  <2>2. Session!WorkerStarts
    BY <1>1, <2>1 DEF Session!WorkerStarts, Phase
  <2> QED BY <2>2 DEF Session!Next
<1>3. CASE UNCHANGED worker
  BY <1>1, <1>3, SessionStutters
<1> QED BY <1>2, <1>3

(* Leaving an app by any way closes its session or begins to wait for its  *)
(* worker.                                                                 *)
LEMMA SessionLeft ==
  ASSUME AppInv, AppInv', current # 0, NEW next, LeaveApp(next)
  PROVE  Session!Next
<1>1. /\ current' = 0 /\ Leaving' /\ launches' = launches /\ worker' = worker
  BY DEF LeaveApp, Leaving
<1>2. Phase = "open" /\ Phase' = "leaving"
  BY <1>1, PhaseOfSession DEF Phase
<1>3. Session!Leave
  BY <1>1, <1>2 DEF Session!Leave, Phase
<1> QED BY <1>3 DEF Session!Next

(* Which screen is on top says whether an app is current.                  *)
LEMMA AppOnTop ==
  ASSUME AppInv
  PROVE  /\ Top = "app" => current # 0
         /\ Top = "dialog" => dlg.open
         /\ Top = "launcher" => current = 0
         /\ dlg.open /\ ~dlg.alert => current # 0
<1>1. dlg.open \in BOOLEAN /\ (current # 0) \in BOOLEAN /\ stack = Screens(current # 0, dlg.open)
  BY DEF AppInv, ScreensInv, Dialog
<1> QED BY <1>1, ScreensOnTop DEF AppInv, ScreensInv

(* Every step is one of the abstract session, or leaves it alone.          *)
LEMMA SessionStep ==
  ASSUME AppInv, AppInv', Next
  PROVE  [Session!Next]_Session!vars
<1>1. ASSUME ui \in Busy, ui' \in Busy, UNCHANGED <<appVars, workerVars>>
      PROVE  UNCHANGED Session!vars
  BY <1>1, SessionStutters DEF Busy, Leaving, appVars, workerVars
<1>2. CASE Dequeue \/ GoHome \/ Manager \/ Alert
  BY <1>1, <1>2 DEF Dequeue, GoHome, Manager, Alert, Busy
<1>3. CASE Unwind
  <2>1. CASE Top = "app"
    BY <1>3, <2>1, AppOnTop, SessionLeft DEF Unwind
  <2>2. CASE Top # "app"
    BY <1>1, <1>3, <2>2 DEF Unwind, Busy
  <2> QED BY <2>1, <2>2
<1>4. ASSUME NEW found, AppActs(found), current # 0, UNCHANGED appVars
      PROVE  [Session!Next]_Session!vars
  <2>1. CreateWorker \/ UNCHANGED worker
    BY <1>4 DEF AppActs, StartWorker, workerVars
  <2> QED BY <1>4, <2>1, SessionWorkerStarts
<1>5. CASE ToDialog
  <2>1. ui = "screens" /\ ui \in Busy /\ UNCHANGED appVars
    BY <1>5 DEF ToDialog, Busy
  <2>2. CASE ui' = Rest /\ UNCHANGED workerVars
    BY <1>1, <2>1, <2>2, RestOfDispatch
  <2>3. CASE ~dlg.alert /\ AppActs(Popped)
    <3>1. current # 0
      BY <1>5, <2>3, AppOnTop DEF ToDialog
    <3> QED BY <1>4, <2>1, <2>3, <3>1
  <2> QED BY <1>5, <2>2, <2>3 DEF ToDialog
<1>6. CASE ToApp
  <2>1. ui = "screens" /\ ui \in Busy /\ current # 0
    BY <1>6, AppOnTop DEF ToApp, Busy
  <2>2. CASE AppActs(stack) /\ UNCHANGED appVars
    BY <1>4, <2>1, <2>2
  <2>3. CASE ui' = Rest /\ UNCHANGED <<appVars, workerVars>>
    BY <1>1, <2>1, <2>3, RestOfDispatch
  <2>4. CASE LeaveApp("idle")
    BY <2>1, <2>4, SessionLeft
  <2> QED BY <1>6, <2>2, <2>3, <2>4 DEF ToApp
<1>7. CASE ToLauncher
  <2>1. ui = "screens" /\ ui' = Rest /\ UNCHANGED workerVars /\ current = 0 /\ ui \in Busy /\ ui' \in Busy
    BY <1>7, AppOnTop, RestOfDispatch DEF ToLauncher, Busy
  <2>2. CASE UNCHANGED appVars
    BY <1>1, <2>1, <2>2
  <2>3. CASE Launch
    <3>1. launches' = launches + 1 /\ current' = launches' /\ current' # 0 /\ ~Leaving /\ ~Leaving' /\ worker' = worker
      BY <2>1, <2>3 DEF Launch, Leaving, Busy, AppInv, SlotInv, SlotTypes, workerVars
    <3>2. Phase = "closed" /\ Phase' = "open"
      BY <2>1, <3>1 DEF Phase
    <3>3. Session!Open
      BY <3>1, <3>2 DEF Session!Open, Phase
    <3> QED BY <3>3 DEF Session!Next
  <2> QED BY <1>7, <2>2, <2>3 DEF ToLauncher
<1>8. CASE JoinTakes \/ JoinTimesOut
  BY <1>8, SessionStutters DEF JoinTakes, JoinTimesOut, Leaving, appVars, workerVars
<1>9. CASE Kill \/ Reap
  <2>1. /\ Leaving /\ Leaving' /\ UNCHANGED appVars /\ worker'.launch = 0
    BY <1>9 DEF Kill, Reap, Leaving, NoWorker
  <2>2. Phase = "leaving" /\ Phase' = "leaving" /\ launches' = launches
    BY <2>1, PhaseOfSession DEF Phase, appVars, AppInv, SlotInv, WorkerIsTheApps
  <2>3. Session!WorkerEnds
    BY <2>1, <2>2 DEF Session!WorkerEnds, Phase
  <2> QED BY <2>3 DEF Session!Next
<1>10. CASE OnStop
  <2>1. /\ Leaving /\ ~Leaving' /\ UNCHANGED appVars /\ worker' = worker /\ worker.launch = 0
    BY <1>10 DEF OnStop, Leaving, workerVars, AppInv, SlotInv, SlotTypes, TokenInSlot, WorkerIsTheApps
  <2>2. Phase = "leaving" /\ Phase' = "closed" /\ launches' = launches
    BY <2>1, PhaseOfSession DEF Phase, appVars, AppInv, SlotInv, WorkerIsTheApps
  <2>3. Session!Stop
    BY <2>1, <2>2 DEF Session!Stop, Phase
  <2> QED BY <2>3 DEF Session!Next
<1>11. CASE StartReap
  <2>1. current # 0 /\ CreateWorker /\ UNCHANGED appVars
    BY <1>11 DEF StartReap, AppInv, SlotInv, WorkerIsTheApps
  <2> QED BY <2>1, SessionWorkerStarts
<1>12. CASE Give \/ Suspend
  <2>1. worker'.launch = worker.launch /\ UNCHANGED <<current, launches, ui>>
    BY <1>12 DEF Give, Suspend, appVars, uiVars, AppInv, SlotInv, SlotTypes
  <2> QED BY <2>1, SessionStutters DEF Leaving
<1>13. CASE \/ \E key \in {"ok", "back"} : Press(key)
            \/ HoldLong \/ LetGo \/ CardRemoved \/ WorkerNote \/ WorkerFails \/ Frame
  <2>1. UNCHANGED <<current, launches, ui, worker>>
    BY <1>13 DEF Press, HoldLong, LetGo, CardRemoved, WorkerNote, WorkerFails, Frame, vars, uiVars, appVars,
       workerVars
  <2> QED BY <2>1, SessionStutters DEF Leaving
<1> QED
  BY <1>2, <1>3, <1>5, <1>6, <1>7, <1>8, <1>9, <1>10, <1>11, <1>12, <1>13 DEF Next, UiStep

(* What AppSession promises: one session at a time, at most one worker,    *)
(* only while its session lasts, and none left when on_stop() ends it      *)
(* (app_manager.c, app_worker.c).                                          *)
THEOREM AppRefinesSession == Spec => ImplementsAppSession
<1>1. Init => Session!Init
  BY DEF Init, Session!Init, Leaving, NoWorker
<1>2. AppInv /\ AppInv' /\ [Next]_vars => [Session!Next]_Session!vars
  <2> SUFFICES ASSUME AppInv, AppInv', [Next]_vars PROVE [Session!Next]_Session!vars
    OBVIOUS
  <2>1. CASE UNCHANGED vars
    <3>1. UNCHANGED <<current, launches, ui, worker>>
      BY <2>1 DEF vars, uiVars, appVars, workerVars
    <3> QED BY <3>1, SessionStutters DEF Leaving
  <2> QED BY <2>1, SessionStep
<1> QED BY <1>1, <1>2, AppInvariant, PTL DEF Spec, Session!Spec, ImplementsAppSession

=============================================================================
