------------------------------ MODULE EventBus ------------------------------
(***************************************************************************)
(* The event bus of the firmware: the pure core stark_event_core.c (a      *)
(* drop-oldest ring, a table of subscribers, a dispatch loop that calls    *)
(* handlers with the lock released) together with its FreeRTOS port        *)
(* stark_event.c (a mutex as the core's lock, a binary semaphore that      *)
(* wakes the consumer, the count of events handed out) and the loop of the *)
(* UI task, ui_stack.c, which is the bus's only consumer.                  *)
(*                                                                         *)
(* Every action is one critical section of the bus mutex, or one operation *)
(* on the semaphore, so any interleaving of the tasks at the points where  *)
(* the code holds no lock is a behaviour.                                  *)
(***************************************************************************)
EXTENDS Integers, Sequences, FiniteSets

CONSTANTS
  Producers,    \* tasks other than the UI task that publish and subscribe
  Types,        \* valid event types
  Subscribers,  \* handlers (function and context)
  MaxSubs,      \* STARK_EVENT_CORE_MAX_SUBS
  Capacity,     \* CONFIG_STARK_EVENT_QUEUE_LEN
  Wrap,         \* 2^32, the range of the uint32_t counters
  MaxPublish    \* bound: publications in a behaviour

ASSUME ConstantsOK ==
  /\ MaxSubs \in Nat
  /\ Capacity \in Nat \ {0}
  /\ Wrap \in Nat
  /\ Capacity < Wrap
  /\ MaxPublish \in Nat

VARIABLES
  queue,        \* the ring, oldest first
  published,    \* stats.published
  dropped,      \* stats.dropped
  subs,         \* the subscriber table
  dispatching,  \* a dispatch() is running
  start,        \* dispatch(): published when the call began
  evt,          \* dispatch(): the event dequeued last
  snapshot,     \* dispatch(): the subscribers when evt was dequeued
  nextSub,      \* dispatch(): the subscriber to call next
  delivered,    \* dispatch(): events consumed by this call
  consumed,     \* s_consumed
  wake,         \* s_wake, a binary semaphore
  uiPc,         \* where the UI task stands
  waitResult,   \* what stark_event_wait() last returned
  taskPc,       \* where each producer stands
  lastSeen      \* history: the newest event each handler was called with

ringVars == <<queue, published, dropped>>
callVars == <<dispatching, start, evt, snapshot, nextSub, delivered>>
vars == <<ringVars, subs, callVars, consumed, wake, uiPc, waitResult, taskPc, lastSeen>>

(* An event carries its type; n, its place in the order of publication, is *)
(* a name for it that the code does not store.                             *)
Event == [n : 1..MaxPublish, type : Types]
NoEvent == [n |-> 0, type |-> CHOOSE ty \in Types : TRUE]
Subscription == [mask : SUBSET Types, fn : Subscribers]

(* Unsigned subtraction of counters: the residue is what uint32_t keeps.   *)
Residue(x) == x % Wrap

-----------------------------------------------------------------------------
(* The core's critical sections.                                           *)

(* Definitions with Slip in their name are plausible mistakes in the one   *)
(* they precede; they are used only to show that a property can fail.      *)

PublishSlipRejects(ty) ==
  /\ published < MaxPublish
  /\ IF Len(queue) = Capacity
     THEN dropped' = dropped + 1 /\ UNCHANGED queue
     ELSE queue' = Append(queue, [n |-> published + 1, type |-> ty]) /\ UNCHANGED dropped
  /\ published' = published + 1

(* Append, and when the ring is full let the oldest event go first.  The   *)
(* first guard bounds the behaviour.  The second is what the code takes    *)
(* for granted: fewer than 2^32 events are published during one dispatch.  *)
CorePublish(ty) ==
  /\ published < MaxPublish
  /\ dispatching => published + 1 - start < Wrap
  /\ LET kept == IF Len(queue) = Capacity THEN Tail(queue) ELSE queue
     IN  queue' = Append(kept, [n |-> published + 1, type |-> ty])
  /\ dropped' = IF Len(queue) = Capacity THEN dropped + 1 ELSE dropped
  /\ published' = published + 1

(* Full table: STARK_ERR_NO_MEM and no change.  Each handler of this code  *)
(* subscribes once.                                                        *)
CoreSubscribe(mask, fn) ==
  /\ mask # {}
  /\ \A i \in DOMAIN subs : subs[i].fn # fn
  /\ Len(subs) < MaxSubs
  /\ subs' = Append(subs, [mask |-> mask, fn |-> fn])

NewerSlip == 0

(* The number of queued events that arrived after the call began.          *)
Newer == Residue(published - start)

PendingSlipDrops == Residue(published - consumed) # 0
PendingSlipLate == Residue(published - dropped - consumed) > 1

(* bus_pending(): from the counters alone, never by looking at the ring.   *)
BusPending == Residue(published - dropped - consumed) # 0

-----------------------------------------------------------------------------
(* The producers: stark_event_publish() is two steps, the core's publish   *)
(* under the mutex and then the semaphore.                                 *)

Publish(p, ty) ==
  /\ taskPc[p] = "idle"
  /\ CorePublish(ty)
  /\ taskPc' = [taskPc EXCEPT ![p] = "give"]
  /\ UNCHANGED <<subs, callVars, consumed, wake, uiPc, waitResult, lastSeen>>

GiveSlip(p) ==
  /\ taskPc[p] = "give"
  /\ taskPc' = [taskPc EXCEPT ![p] = "idle"]
  /\ UNCHANGED <<ringVars, subs, callVars, consumed, wake, uiPc, waitResult, lastSeen>>

Give(p) ==
  /\ taskPc[p] = "give"
  /\ wake' = TRUE
  /\ taskPc' = [taskPc EXCEPT ![p] = "idle"]
  /\ UNCHANGED <<ringVars, subs, callVars, consumed, uiPc, waitResult, lastSeen>>

Subscribe(p, mask, fn) ==
  /\ taskPc[p] = "idle"
  /\ CoreSubscribe(mask, fn)
  /\ UNCHANGED <<ringVars, callVars, consumed, wake, uiPc, waitResult, taskPc, lastSeen>>

-----------------------------------------------------------------------------
(* The UI task: stark_ui_tick() dispatches everything that is queued       *)
(* (max_events is UINT32_MAX), then stark_ui_task() waits.                 *)

UiStep(from, to) ==
  /\ uiPc = from
  /\ uiPc' = to

BeginDispatch ==
  /\ UiStep("tick", "loop")
  /\ ~dispatching
  /\ dispatching' = TRUE
  /\ start' = published
  /\ delivered' = 0
  /\ waitResult' = "none"
  /\ UNCHANGED <<ringVars, subs, evt, snapshot, nextSub, consumed, wake, taskPc, lastSeen>>

Dequeue ==
  /\ UiStep("loop", "handlers")
  /\ Len(queue) > Newer
  /\ evt' = Head(queue)
  /\ queue' = Tail(queue)
  /\ snapshot' = subs
  /\ nextSub' = 1
  /\ UNCHANGED <<published, dropped, subs, dispatching, start, delivered, consumed, wake,
                 waitResult, taskPc, lastSeen>>

NothingEligible ==
  /\ UiStep("loop", "finish")
  /\ Len(queue) <= Newer
  /\ UNCHANGED <<ringVars, subs, callVars, consumed, wake, waitResult, taskPc, lastSeen>>

CallHandler ==
  /\ UiStep("handlers", "in_handler")
  /\ nextSub <= Len(snapshot)
  /\ evt.type \in snapshot[nextSub].mask
  /\ lastSeen' = [lastSeen EXCEPT ![snapshot[nextSub].fn] = evt.n]
  /\ UNCHANGED <<ringVars, subs, callVars, consumed, wake, waitResult, taskPc>>

(* A handler may publish and subscribe: the lock is not held.              *)
HandlerPublish(ty) ==
  /\ UiStep("in_handler", "give")
  /\ CorePublish(ty)
  /\ UNCHANGED <<subs, callVars, consumed, wake, waitResult, taskPc, lastSeen>>

HandlerGive ==
  /\ UiStep("give", "in_handler")
  /\ wake' = TRUE
  /\ UNCHANGED <<ringVars, subs, callVars, consumed, waitResult, taskPc, lastSeen>>

HandlerSubscribe(mask, fn) ==
  /\ uiPc = "in_handler"
  /\ CoreSubscribe(mask, fn)
  /\ UNCHANGED <<ringVars, callVars, consumed, wake, uiPc, waitResult, taskPc, lastSeen>>

HandlerReturn ==
  /\ UiStep("in_handler", "handlers")
  /\ nextSub' = nextSub + 1
  /\ UNCHANGED <<ringVars, subs, dispatching, start, evt, snapshot, delivered, consumed, wake,
                 waitResult, taskPc, lastSeen>>

SkipSubscriber ==
  /\ UiStep("handlers", "handlers")
  /\ nextSub <= Len(snapshot)
  /\ evt.type \notin snapshot[nextSub].mask
  /\ nextSub' = nextSub + 1
  /\ UNCHANGED <<ringVars, subs, dispatching, start, evt, snapshot, delivered, consumed, wake,
                 waitResult, taskPc, lastSeen>>

EventDoneSlip ==
  /\ UiStep("handlers", "loop")
  /\ nextSub >= Len(snapshot)
  /\ delivered' = delivered + 1
  /\ UNCHANGED <<ringVars, subs, dispatching, start, evt, snapshot, nextSub, consumed, wake,
                 waitResult, taskPc, lastSeen>>

EventDone ==
  /\ UiStep("handlers", "loop")
  /\ nextSub > Len(snapshot)
  /\ delivered' = delivered + 1
  /\ UNCHANGED <<ringVars, subs, dispatching, start, evt, snapshot, nextSub, consumed, wake,
                 waitResult, taskPc, lastSeen>>

EndDispatch ==
  /\ UiStep("finish", "account")
  /\ dispatching' = FALSE
  /\ UNCHANGED <<ringVars, subs, start, evt, snapshot, nextSub, delivered, consumed, wake,
                 waitResult, taskPc, lastSeen>>

Account ==
  /\ UiStep("account", "check")
  /\ consumed' = consumed + delivered
  /\ UNCHANGED <<ringVars, subs, callVars, wake, waitResult, taskPc, lastSeen>>

(* stark_event_wait(): the ring decides, the semaphore only wakes.         *)
WaitReturns(result) ==
  /\ uiPc' = "tick"
  /\ waitResult' = result

WaitCheck ==
  /\ uiPc = "check"
  /\ \/ BusPending /\ WaitReturns("ok")
     \/ ~BusPending /\ uiPc' = "take" /\ UNCHANGED waitResult
  /\ UNCHANGED <<ringVars, subs, callVars, consumed, wake, taskPc, lastSeen>>

(* A token is there: the time limit may or may not have passed meanwhile.  *)
TakeToken ==
  /\ uiPc = "take"
  /\ wake
  /\ wake' = FALSE
  /\ uiPc' \in {"check", "recheck"}
  /\ UNCHANGED <<ringVars, subs, callVars, consumed, waitResult, taskPc, lastSeen>>

TakeTimesOut ==
  /\ uiPc = "take"
  /\ ~wake
  /\ WaitReturns("timeout")
  /\ UNCHANGED <<ringVars, subs, callVars, consumed, wake, taskPc, lastSeen>>

WaitRecheck ==
  /\ uiPc = "recheck"
  /\ WaitReturns(IF BusPending THEN "ok" ELSE "timeout")
  /\ UNCHANGED <<ringVars, subs, callVars, consumed, wake, taskPc, lastSeen>>

-----------------------------------------------------------------------------
Init ==
  /\ queue = <<>>
  /\ published = 0
  /\ dropped = 0
  /\ subs = <<>>
  /\ dispatching = FALSE
  /\ start = 0
  /\ evt = NoEvent
  /\ snapshot = <<>>
  /\ nextSub = 1
  /\ delivered = 0
  /\ consumed = 0
  /\ wake = FALSE
  /\ uiPc = "tick"
  /\ waitResult = "none"
  /\ taskPc = [p \in Producers |-> "idle"]
  /\ lastSeen = [f \in Subscribers |-> 0]

DispatchStep ==
  \/ BeginDispatch \/ Dequeue \/ NothingEligible
  \/ CallHandler \/ HandlerGive \/ HandlerReturn \/ SkipSubscriber
  \/ EventDone \/ EndDispatch \/ Account

WaitStep == WaitCheck \/ TakeToken \/ WaitRecheck

Next ==
  \/ \E p \in Producers, ty \in Types : Publish(p, ty)
  \/ \E p \in Producers : Give(p)
  \/ \E p \in Producers, mask \in SUBSET Types, fn \in Subscribers : Subscribe(p, mask, fn)
  \/ \E ty \in Types : HandlerPublish(ty)
  \/ \E mask \in SUBSET Types, fn \in Subscribers : HandlerSubscribe(mask, fn)
  \/ DispatchStep
  \/ WaitStep
  \/ TakeTimesOut

(* A task that can run does run: FreeRTOS schedules the UI task, and a     *)
(* producer that has published goes on to give.  Nobody has to publish,    *)
(* and no time-out has to come: what waits for the UI task must be brought *)
(* in by the semaphore alone.                                              *)
Fairness ==
  /\ WF_vars(DispatchStep)
  /\ WF_vars(WaitStep)
  /\ \A p \in Producers : WF_vars(Give(p))

Spec == Init /\ [][Next]_vars /\ Fairness

-----------------------------------------------------------------------------
(* Properties.                                                             *)

UiPcs == {"tick", "loop", "handlers", "in_handler", "give", "finish", "account",
          "check", "take", "recheck"}

(* Every variable has its type, and the ring and the table their bounds.   *)
TypeOK ==
  /\ queue \in Seq(Event)
  /\ Len(queue) <= Capacity
  /\ published \in 0..MaxPublish
  /\ dropped \in Nat
  /\ subs \in Seq(Subscription)
  /\ Len(subs) <= MaxSubs
  /\ dispatching \in BOOLEAN
  /\ start \in Nat
  /\ evt \in Event \cup {NoEvent}
  /\ snapshot \in Seq(Subscription)
  /\ nextSub \in Nat \ {0}
  /\ delivered \in Nat
  /\ consumed \in Nat
  /\ wake \in BOOLEAN
  /\ uiPc \in UiPcs
  /\ waitResult \in {"none", "ok", "timeout"}
  /\ taskPc \in [Producers -> {"idle", "give"}]
  /\ lastSeen \in [Subscribers -> Nat]

InDispatch == uiPc \in {"loop", "handlers", "in_handler", "give", "finish"}
HoldsEvent == uiPc \in {"handlers", "in_handler", "give"}

(* Events that left the ring through dispatch().                           *)
HandedOut ==
  consumed + (IF InDispatch \/ uiPc = "account" THEN delivered ELSE 0)
           + (IF HoldsEvent THEN 1 ELSE 0)

(* The NOTE in stark_event_core_dispatch(): the ring always holds the most *)
(* recent `count` publications, in order, and every accepted event is      *)
(* dropped, handed out or queued, whatever interleaves with a dispatch.    *)
RingHoldsNewest ==
  /\ \A i \in 1..Len(queue) : queue[i].n = published - Len(queue) + i
  /\ published = dropped + HandedOut + Len(queue)

(* stark_event_core.h: only events already queued when dispatch() starts   *)
(* are eligible, even when the handlers' own publications overflow the     *)
(* ring and push older events out.                                         *)
NothingNewerIsHandled == HoldsEvent => evt.n <= start

(* stark_event.h: "an empty bus never reports [STARK_OK]": the arithmetic  *)
(* on counters, which wrap, agrees with the ring whenever wait() looks.    *)
OkMeansQueued ==
  /\ waitResult = "ok" => queue # <<>>
  /\ uiPc \in {"check", "take", "recheck"} => (BusPending <=> queue # <<>>)

(* The bookkeeping of the bus as one fact: types and bounds, the ring that *)
(* holds the newest publications, the horizon of a dispatch, and counters  *)
(* that agree with the ring when wait() decides on them.                   *)
BusIsSound == TypeOK /\ RingHoldsNewest /\ NothingNewerIsHandled /\ OkMeansQueued

(* stark_event_wait(): "no lost wakeup".  While the consumer sleeps on the *)
(* semaphore with an event queued, a token is there or on its way.         *)
NoLostWakeup ==
  uiPc = "take" /\ queue # <<>> => wake \/ \E p \in Producers : taskPc[p] = "give"

(* stark_event_core.h: each event goes to every subscriber whose mask has  *)
(* its bit, among those subscribed when it was dequeued.                   *)
AllSubscribersCalled ==
  uiPc \in {"loop", "finish"} /\ delivered > 0 =>
    \A i \in DOMAIN snapshot :
      evt.type \in snapshot[i].mask => lastSeen[snapshot[i].fn] = evt.n

(* What a handler is called with is never older than what it was called    *)
(* with before, across dispatch() calls and whatever was dropped between.  *)
InOrder ==
  [][\A f \in Subscribers : lastSeen'[f] # lastSeen[f] => lastSeen'[f] > lastSeen[f]]_vars

(* Whatever is published is handed out or dropped, with no help from the   *)
(* time-out of wait(): when the producers pause, the semaphore and the     *)
(* counters bring the UI task back until the ring is empty.                *)
EventuallyHandled == []<>(queue = <<>>)

(* The bus is a lossy first-in first-out channel: the oldest unsettled     *)
(* publication is the head of the ring, a dispatch() is a round.           *)
Fifo == INSTANCE LossyFifo WITH
          sent <- published, next <- published - Len(queue) + 1,
          open <- dispatching, horizon <- start, taken <- evt.n
ImplementsLossyFifo == Fifo!Spec
=============================================================================
