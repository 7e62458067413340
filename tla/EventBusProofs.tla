--------------------------- MODULE EventBusProofs ---------------------------
(***************************************************************************)
(* Proofs about EventBus, for every number of producers, types and         *)
(* handlers, every capacity and every width of the counters.               *)
(***************************************************************************)
EXTENDS EventBus, TLAPS

(* What a dispatch in progress relies on: it began at a count that is not  *)
(* ahead of the publications and less than a counter's range behind, and   *)
(* when it ends nothing it began with is left in the ring.                 *)
Window ==
  /\ start <= published
  /\ dispatching => published - start < Wrap
  /\ dispatching <=> InDispatch
  /\ uiPc = "finish" => published - Len(queue) >= start
  /\ waitResult # "none" => uiPc = "tick"
  /\ waitResult = "ok" => queue # <<>>

(* What the handlers have seen: nothing that is still queued, and nothing  *)
(* newer than the event in hand; and those already called have seen it.    *)
Seen ==
  /\ \A f \in Subscribers : lastSeen[f] <= published - Len(queue)
  /\ HoldsEvent => \A f \in Subscribers : lastSeen[f] <= evt.n
  /\ HoldsEvent => evt.n <= published - Len(queue)
  /\ HoldsEvent =>
       \A i \in DOMAIN snapshot :
         /\ i < nextSub \/ (i = nextSub /\ uiPc # "handlers")
         /\ evt.type \in snapshot[i].mask
         => lastSeen[snapshot[i].fn] = evt.n
  /\ uiPc \in {"in_handler", "give"} => nextSub \in DOMAIN snapshot

IInv ==
  /\ TypeOK
  /\ Window
  /\ RingHoldsNewest
  /\ NothingNewerIsHandled
  /\ NoLostWakeup
  /\ Seen
  /\ AllSubscribersCalled

-----------------------------------------------------------------------------
(* Unsigned subtraction is exact while the true difference is in range.    *)
LEMMA ResidueInRange ==
  ASSUME NEW x \in Nat, x < Wrap
  PROVE  Residue(x) = x
BY ConstantsOK DEF Residue

(* What a publication does to the ring, whoever makes it.                  *)
LEMMA PublishRing ==
  ASSUME TypeOK, RingHoldsNewest, NEW ty \in Types, CorePublish(ty)
  PROVE  /\ queue' \in Seq(Event)
         /\ Len(queue') \in 1..Capacity
         /\ published' = published + 1
         /\ published' \in 0..MaxPublish
         /\ dropped' \in Nat
         /\ dropped' - dropped = 1 - (Len(queue') - Len(queue))
         /\ published' - Len(queue') >= published - Len(queue)
         /\ \A i \in 1..Len(queue') : queue'[i].n = published' - Len(queue') + i
<1> DEFINE e == [n |-> published + 1, type |-> ty]
           kept == IF Len(queue) = Capacity THEN Tail(queue) ELSE queue
<1>1. /\ queue \in Seq(Event) /\ Len(queue) \in Nat /\ Len(queue) <= Capacity
      /\ published \in Nat /\ dropped \in Nat
      /\ MaxPublish \in Nat /\ Capacity \in Nat /\ Capacity > 0
      /\ \A i \in 1..Len(queue) : queue[i].n = published - Len(queue) + i
  BY ConstantsOK DEF TypeOK, RingHoldsNewest
<1>2. /\ queue' = Append(kept, e)
      /\ published' = published + 1
      /\ dropped' = IF Len(queue) = Capacity THEN dropped + 1 ELSE dropped
      /\ published < MaxPublish
  BY DEF CorePublish
<1>3. e \in Event
  BY <1>1, <1>2 DEF Event
<1>4. /\ kept \in Seq(Event)
      /\ Len(kept) = IF Len(queue) = Capacity THEN Capacity - 1 ELSE Len(queue)
      /\ \A i \in 1..Len(kept) : kept[i].n = published - Len(kept) + i
  <2>1. CASE Len(queue) = Capacity
    <3>1. /\ Tail(queue) \in Seq(Event)
          /\ Len(Tail(queue)) = Len(queue) - 1
          /\ \A i \in 1..Len(Tail(queue)) : Tail(queue)[i] = queue[i + 1]
      BY <2>1, <1>1
    <3>2. ASSUME NEW i \in 1..Len(Tail(queue))
          PROVE  Tail(queue)[i].n = published - Len(Tail(queue)) + i
      <4>1. i + 1 \in 1..Len(queue) /\ i \in Nat
        BY <3>1, <1>1
      <4>2. queue[i + 1].n = published - Len(queue) + (i + 1)
        BY <4>1, <1>1
      <4>. QED
        BY <4>1, <4>2, <3>1, <1>1
    <3>. QED
      BY <3>1, <3>2, <2>1, <1>1
  <2>2. CASE Len(queue) # Capacity
    BY <2>2, <1>1
  <2>. QED
    BY <2>1, <2>2
<1> HIDE DEF kept
<1>5. /\ queue' \in Seq(Event)
      /\ Len(queue') = Len(kept) + 1
      /\ \A i \in 1..Len(kept) : queue'[i] = kept[i]
      /\ queue'[Len(kept) + 1] = e
  BY <1>2, <1>3, <1>4
<1>6. Len(kept) \in Nat
  BY <1>4
<1>7. /\ Len(queue') \in 1..Capacity
      /\ published' \in 0..MaxPublish
      /\ dropped' \in Nat
      /\ dropped' - dropped = 1 - (Len(queue') - Len(queue))
      /\ published' - Len(queue') >= published - Len(queue)
  <2>1. Len(queue') = Len(kept) + 1 /\ Len(kept) \in Nat
    BY <1>5, <1>6
  <2>2. CASE Len(queue) = Capacity
    <3>1. Len(kept) = Capacity - 1 /\ dropped' = dropped + 1
      BY <2>2, <1>2, <1>4
    <3>. QED
      BY <3>1, <2>1, <2>2, <1>1, <1>2
  <2>3. CASE Len(queue) # Capacity
    <3>1. Len(kept) = Len(queue) /\ dropped' = dropped
      BY <2>3, <1>2, <1>4
    <3>. QED
      BY <3>1, <2>1, <2>3, <1>1, <1>2
  <2>. QED
    BY <2>2, <2>3
<1>8. ASSUME NEW i \in 1..Len(queue')
      PROVE  queue'[i].n = published' - Len(queue') + i
  <2>1. CASE i = Len(kept) + 1
    <3>1. queue'[i].n = published + 1
      BY <2>1, <1>5
    <3>. QED
      BY <3>1, <2>1, <1>1, <1>2, <1>5, <1>6
  <2>2. CASE i \in 1..Len(kept)
    <3>1. queue'[i].n = published - Len(kept) + i
      BY <2>2, <1>4, <1>5
    <3>. QED
      BY <3>1, <2>2, <1>1, <1>2, <1>5, <1>6
  <2>. QED
    BY <2>1, <2>2, <1>5, <1>6
<1>. QED
  BY <1>2, <1>5, <1>7, <1>8

(* The semaphore's part of OkMeansQueued is not an invariant of its own:   *)
(* the counters tell the truth about the ring whenever every event is      *)
(* accounted for and no dispatch is under way.                             *)
LEMMA CountersTellTheRing ==
  ASSUME TypeOK, RingHoldsNewest, ~InDispatch, uiPc # "account"
  PROVE  BusPending <=> queue # <<>>
<1>1. published - dropped - consumed = Len(queue)
  BY DEF RingHoldsNewest, HandedOut, HoldsEvent, InDispatch, TypeOK
<1>2. Len(queue) \in Nat /\ Len(queue) < Wrap
  BY ConstantsOK DEF TypeOK
<1>3. Residue(Len(queue)) = Len(queue)
  BY <1>2, ResidueInRange
<1>. QED
  BY <1>1, <1>3 DEF BusPending, TypeOK

(* stark_event_wait() reports STARK_OK of a bus that holds an event.       *)
LEMMA InvImpliesOkMeansQueued == IInv => OkMeansQueued
BY CountersTellTheRing DEF IInv, Window, OkMeansQueued, InDispatch

-----------------------------------------------------------------------------
(* stark_event_init() leaves an empty ring and no subscriber.              *)
LEMMA InitInv == Init => IInv
<1> SUFFICES ASSUME Init PROVE IInv
  OBVIOUS
<1>1. TypeOK
  <2>1. queue \in Seq(Event) /\ subs \in Seq(Subscription) /\ snapshot \in Seq(Subscription)
    BY DEF Init
  <2>2. Len(queue) <= Capacity /\ Len(subs) <= MaxSubs
    BY ConstantsOK DEF Init
  <2>3. taskPc \in [Producers -> {"idle", "give"}] /\ lastSeen \in [Subscribers -> Nat]
    BY DEF Init
  <2>4. /\ published \in 0..MaxPublish /\ dropped \in Nat /\ start \in Nat
        /\ nextSub \in Nat \ {0} /\ delivered \in Nat /\ consumed \in Nat
    BY ConstantsOK DEF Init
  <2>5. /\ dispatching \in BOOLEAN /\ wake \in BOOLEAN /\ uiPc \in UiPcs
        /\ waitResult \in {"none", "ok", "timeout"}
    BY DEF Init, UiPcs
  <2>6. evt \in Event \cup {NoEvent}
    BY DEF Init
  <2>. QED
    BY <2>1, <2>2, <2>3, <2>4, <2>5, <2>6 DEF TypeOK
<1>2. Window /\ RingHoldsNewest
  BY ConstantsOK DEF Init, Window, RingHoldsNewest, HandedOut, HoldsEvent, InDispatch
<1>3. NothingNewerIsHandled /\ NoLostWakeup /\ Seen /\ AllSubscribersCalled
  BY DEF Init, NothingNewerIsHandled, NoLostWakeup, Seen, AllSubscribersCalled, HoldsEvent
<1>. QED
  BY <1>1, <1>2, <1>3 DEF IInv

(* A publication, by a producer or by a handler.                           *)
LEMMA PublishInv ==
  ASSUME IInv, NEW ty \in Types, CorePublish(ty),
         UNCHANGED <<subs, callVars, consumed, wake, waitResult, lastSeen>>,
         \/ uiPc' = uiPc /\ \E p \in Producers : taskPc' = [taskPc EXCEPT ![p] = "give"]
         \/ uiPc = "in_handler" /\ uiPc' = "give" /\ taskPc' = taskPc
  PROVE  IInv'
<1>1. /\ queue' \in Seq(Event)
      /\ Len(queue') \in 1..Capacity
      /\ published' = published + 1
      /\ published' \in 0..MaxPublish
      /\ dropped' \in Nat
      /\ dropped' - dropped = 1 - (Len(queue') - Len(queue))
      /\ published' - Len(queue') >= published - Len(queue)
      /\ \A i \in 1..Len(queue') : queue'[i].n = published' - Len(queue') + i
  BY PublishRing DEF IInv
<1>2. TypeOK'
  <2>1. TypeOK
    BY DEF IInv
  <2>2. taskPc' \in [Producers -> {"idle", "give"}]
    BY <2>1 DEF TypeOK
  <2>3. uiPc' \in UiPcs
    BY <2>1 DEF TypeOK, UiPcs
  <2>4. Len(queue') <= Capacity
    BY <1>1, ConstantsOK
  <2>. QED
    BY <1>1, <2>1, <2>2, <2>3, <2>4 DEF TypeOK, callVars
<1>3. /\ InDispatch' = InDispatch
      /\ HoldsEvent' = HoldsEvent
      /\ HandedOut' = HandedOut
  BY DEF InDispatch, HoldsEvent, HandedOut, callVars
<1>4. Window'
  <2>1. /\ start' = start /\ dispatching' = dispatching /\ waitResult' = waitResult
        /\ uiPc' = "finish" => uiPc = "finish"
        /\ uiPc = "tick" => uiPc' = "tick"
        /\ uiPc' = "give" => uiPc # "tick"
    BY DEF callVars, IInv, Window, InDispatch
  <2>2. start \in Nat /\ published \in Nat /\ Len(queue) \in Nat /\ Len(queue') \in Nat
    BY <1>1 DEF IInv, TypeOK
  <2>3. dispatching => published' - start < Wrap
    BY <1>1, <2>2 DEF CorePublish
  <2>4. queue' # <<>>
    BY <1>1
  <2>. QED
    BY <1>1, <1>3, <2>1, <2>2, <2>3, <2>4 DEF IInv, Window
<1>5. RingHoldsNewest'
  <2>1. published = dropped + HandedOut + Len(queue)
    BY DEF IInv, RingHoldsNewest
  <2>2. /\ HandedOut \in Int /\ dropped \in Nat /\ published \in Nat
        /\ Len(queue) \in Nat /\ Len(queue') \in Nat
    BY <1>1 DEF IInv, TypeOK, HandedOut
  <2>3. published' = dropped' + HandedOut + Len(queue')
    BY <1>1, <2>1, <2>2
  <2>. QED
    BY <1>1, <1>3, <2>3 DEF RingHoldsNewest
<1>6. NothingNewerIsHandled'
  BY <1>3 DEF IInv, NothingNewerIsHandled, callVars
<1>7. NoLostWakeup'
  BY DEF IInv, NoLostWakeup, TypeOK
<1>8. Seen'
  <2>1. /\ lastSeen' = lastSeen /\ evt' = evt /\ snapshot' = snapshot /\ nextSub' = nextSub
    BY DEF callVars
  <2>2. published - Len(queue) \in Int /\ published' - Len(queue') \in Int
    BY <1>1 DEF IInv, TypeOK
  <2>3. ASSUME NEW f \in Subscribers
        PROVE  lastSeen[f] <= published' - Len(queue')
    BY <1>1, <2>2 DEF IInv, Seen, TypeOK
  <2>4. HoldsEvent => evt.n <= published' - Len(queue')
    <3>1. evt.n \in Nat
      BY ConstantsOK DEF IInv, TypeOK, Event, NoEvent
    <3>. QED
      BY <3>1, <1>1, <2>2 DEF IInv, Seen
  <2>5. uiPc' \in {"in_handler", "give"} => uiPc \in {"in_handler", "give"}
    BY DEF IInv
  <2>6. uiPc' = "handlers" <=> uiPc = "handlers"
    BY DEF IInv
  <2>. QED
    BY <1>3, <2>1, <2>3, <2>4, <2>5, <2>6 DEF IInv, Seen
<1>9. AllSubscribersCalled'
  BY DEF IInv, AllSubscribersCalled, callVars
<1>. QED
  BY <1>2, <1>4, <1>5, <1>6, <1>7, <1>8, <1>9 DEF IInv

(* A subscription changes nothing but the table.                           *)
LEMMA SubscribeInv ==
  ASSUME IInv, NEW mask \in SUBSET Types, NEW fn \in Subscribers, CoreSubscribe(mask, fn),
         UNCHANGED <<ringVars, callVars, consumed, wake, uiPc, waitResult, taskPc, lastSeen>>
  PROVE  IInv'
<1>1. subs' \in Seq(Subscription) /\ Len(subs') <= MaxSubs
  <2>1. [mask |-> mask, fn |-> fn] \in Subscription
    BY DEF Subscription
  <2>2. subs \in Seq(Subscription) /\ Len(subs) < MaxSubs
    BY DEF IInv, TypeOK, CoreSubscribe
  <2>. QED
    BY <2>1, <2>2, ConstantsOK DEF CoreSubscribe
<1>2. TypeOK'
  BY <1>1 DEF IInv, TypeOK, ringVars, callVars
<1>3. Window' /\ RingHoldsNewest' /\ NothingNewerIsHandled'
  BY DEF IInv, Window, RingHoldsNewest, NothingNewerIsHandled, HandedOut, HoldsEvent,
         InDispatch, ringVars, callVars
<1>4. NoLostWakeup' /\ Seen' /\ AllSubscribersCalled'
  BY DEF IInv, NoLostWakeup, Seen, AllSubscribersCalled, HoldsEvent, ringVars, callVars
<1>. QED
  BY <1>2, <1>3, <1>4 DEF IInv

(* stark_event_publish() gives the semaphore.                              *)
LEMMA GiveInv == ASSUME IInv, NEW p \in Producers, Give(p) PROVE IInv'
<1>1. taskPc' \in [Producers -> {"idle", "give"}] /\ wake' = TRUE
  BY DEF IInv, TypeOK, Give
<1>2. TypeOK'
  BY <1>1 DEF IInv, TypeOK, Give, ringVars, callVars
<1>3. Window' /\ RingHoldsNewest' /\ NothingNewerIsHandled'
  BY DEF IInv, Window, RingHoldsNewest, NothingNewerIsHandled, HandedOut, HoldsEvent,
         InDispatch, ringVars, callVars, Give
<1>4. NoLostWakeup'
  BY <1>1 DEF NoLostWakeup
<1>5. Seen' /\ AllSubscribersCalled'
  BY DEF IInv, Seen, AllSubscribersCalled, HoldsEvent, ringVars, callVars, Give
<1>. QED
  BY <1>2, <1>3, <1>4, <1>5 DEF IInv

-----------------------------------------------------------------------------
(* The dispatch loop.                                                      *)

(* dispatch() begins and remembers what has been published so far.         *)
LEMMA BeginDispatchInv == ASSUME IInv, BeginDispatch PROVE IInv'
<1>1. TypeOK'
  BY DEF IInv, TypeOK, BeginDispatch, UiStep, UiPcs, ringVars
<1>2. Window'
  BY ConstantsOK DEF IInv, TypeOK, Window, InDispatch, BeginDispatch, UiStep, ringVars
<1>3. RingHoldsNewest'
  BY DEF IInv, TypeOK, RingHoldsNewest, HandedOut, HoldsEvent, InDispatch, BeginDispatch,
         UiStep, ringVars
<1>4. NothingNewerIsHandled' /\ NoLostWakeup' /\ AllSubscribersCalled'
  BY DEF NothingNewerIsHandled, NoLostWakeup, AllSubscribersCalled, HoldsEvent, BeginDispatch,
         UiStep
<1>5. Seen'
  BY DEF IInv, Seen, HoldsEvent, BeginDispatch, UiStep, ringVars
<1>. QED
  BY <1>1, <1>2, <1>3, <1>4, <1>5 DEF IInv

(* The oldest event leaves the ring, with a copy of the subscribers.       *)
LEMMA DequeueInv == ASSUME IInv, Dequeue PROVE IInv'
<1>1. /\ queue \in Seq(Event) /\ Len(queue) \in Nat /\ Len(queue) <= Capacity
      /\ published \in Nat /\ start \in Nat /\ start <= published
      /\ published - start < Wrap /\ Capacity \in Nat
  BY ConstantsOK DEF IInv, TypeOK, Window, InDispatch, Dequeue, UiStep
<1>2. Newer = published - start
  BY <1>1, ResidueInRange DEF Newer
<1>3. Len(queue) > published - start
  BY <1>2 DEF Dequeue
<1>4. queue # <<>>
  BY <1>1, <1>3
<1>5. /\ queue' \in Seq(Event)
      /\ Len(queue') = Len(queue) - 1
      /\ \A i \in 1..Len(queue') : queue'[i] = queue[i + 1]
      /\ evt' = queue[1]
      /\ evt' \in Event
  BY <1>1, <1>4 DEF Dequeue
<1>6. evt'.n = published - Len(queue) + 1
  <2>1. 1 \in 1..Len(queue)
    BY <1>1, <1>4
  <2>. QED
    BY <2>1, <1>5 DEF IInv, RingHoldsNewest
<1>7. TypeOK'
  BY <1>1, <1>5 DEF IInv, TypeOK, Dequeue, UiStep, UiPcs
<1>8. Window'
  <2>1. uiPc' = "handlers" /\ uiPc = "loop" /\ dispatching' = dispatching
    BY DEF Dequeue, UiStep
  <2>. QED
    BY <2>1 DEF IInv, Window, InDispatch, Dequeue
<1>9. RingHoldsNewest'
  <2>1. ASSUME NEW i \in 1..Len(queue')
        PROVE  queue'[i].n = published' - Len(queue') + i
    <3>1. i + 1 \in 1..Len(queue) /\ i \in Nat
      BY <1>1, <1>5
    <3>2. queue[i + 1].n = published - Len(queue) + (i + 1)
      BY <3>1 DEF IInv, RingHoldsNewest
    <3>. QED
      BY <3>1, <3>2, <1>1, <1>5 DEF Dequeue
  <2>2. HandedOut' = HandedOut + 1
    BY DEF IInv, TypeOK, HandedOut, InDispatch, HoldsEvent, Dequeue, UiStep
  <2>3. published = dropped + HandedOut + Len(queue) /\ HandedOut \in Int
    BY DEF IInv, TypeOK, RingHoldsNewest, HandedOut
  <2>4. published' = dropped' + HandedOut' + Len(queue')
    BY <2>2, <2>3, <1>1, <1>5 DEF Dequeue, IInv, TypeOK
  <2>. QED
    BY <2>1, <2>4 DEF RingHoldsNewest
<1>10. NothingNewerIsHandled'
  BY <1>1, <1>3, <1>6 DEF NothingNewerIsHandled, Dequeue
<1>11. NoLostWakeup' /\ AllSubscribersCalled'
  BY DEF NoLostWakeup, AllSubscribersCalled, Dequeue, UiStep
<1>12. Seen'
  <2>1. ASSUME NEW f \in Subscribers
        PROVE  /\ lastSeen'[f] <= published' - Len(queue')
               /\ lastSeen'[f] <= evt'.n
    <3>1. lastSeen[f] \in Nat /\ lastSeen[f] <= published - Len(queue)
      BY DEF IInv, Seen, TypeOK
    <3>. QED
      BY <3>1, <1>1, <1>5, <1>6 DEF Dequeue
  <2>2. evt'.n <= published' - Len(queue')
    BY <1>1, <1>5, <1>6 DEF Dequeue
  <2>3. uiPc' = "handlers" /\ nextSub' = 1
    BY DEF Dequeue, UiStep
  <2>4. \A i \in DOMAIN snapshot' : ~(i < nextSub')
    BY <2>3 DEF Dequeue, IInv, TypeOK
  <2>. QED
    BY <2>1, <2>2, <2>3, <2>4 DEF Seen
<1>. QED
  BY <1>7, <1>8, <1>9, <1>10, <1>11, <1>12 DEF IInv

(* The loop ends when what is left arrived after the call began.           *)
LEMMA NothingEligibleInv == ASSUME IInv, NothingEligible PROVE IInv'
<1>1. TypeOK'
  BY DEF IInv, TypeOK, NothingEligible, UiStep, UiPcs, ringVars, callVars
<1>2. Window'
  <2>1. /\ Len(queue) \in Nat /\ published \in Nat /\ start \in Nat /\ start <= published
        /\ published - start < Wrap /\ dispatching
    BY DEF IInv, TypeOK, Window, InDispatch, NothingEligible, UiStep
  <2>2. Newer = published - start
    BY <2>1, ResidueInRange DEF Newer
  <2>3. published - Len(queue) >= start
    BY <2>1, <2>2 DEF NothingEligible
  <2>. QED
    BY <2>1, <2>3 DEF IInv, Window, InDispatch, NothingEligible, UiStep, ringVars, callVars
<1>3. RingHoldsNewest'
  BY DEF IInv, RingHoldsNewest, HandedOut, HoldsEvent, InDispatch, NothingEligible, UiStep,
         ringVars, callVars
<1>4. NothingNewerIsHandled' /\ NoLostWakeup' /\ Seen' /\ AllSubscribersCalled'
  BY DEF IInv, NothingNewerIsHandled, NoLostWakeup, Seen, AllSubscribersCalled, HoldsEvent,
         NothingEligible, UiStep, ringVars, callVars
<1>. QED
  BY <1>1, <1>2, <1>3, <1>4 DEF IInv

(* A subscriber whose mask matches is called with the event.               *)
LEMMA CallHandlerInv == ASSUME IInv, CallHandler PROVE IInv'
<1>1. /\ nextSub \in DOMAIN snapshot
      /\ snapshot[nextSub].fn \in Subscribers
      /\ evt.n \in Nat
  <2>1. nextSub \in 1..Len(snapshot)
    BY DEF IInv, TypeOK, CallHandler
  <2>2. snapshot[nextSub] \in Subscription
    BY <2>1 DEF IInv, TypeOK
  <2>. QED
    BY <2>1, <2>2, ConstantsOK DEF IInv, TypeOK, Event, NoEvent, Subscription
<1>2. lastSeen' \in [Subscribers -> Nat]
  BY <1>1 DEF IInv, TypeOK, CallHandler
<1>3. TypeOK'
  BY <1>2 DEF IInv, TypeOK, CallHandler, UiStep, UiPcs, ringVars, callVars
<1>4. Window' /\ RingHoldsNewest' /\ NothingNewerIsHandled' /\ NoLostWakeup'
  BY DEF IInv, Window, RingHoldsNewest, NothingNewerIsHandled, NoLostWakeup, HandedOut,
         HoldsEvent, InDispatch, CallHandler, UiStep, ringVars, callVars
<1>5. \A f \in Subscribers :
        lastSeen'[f] = IF f = snapshot[nextSub].fn THEN evt.n ELSE lastSeen[f]
  BY <1>1 DEF IInv, TypeOK, CallHandler
<1>6. Seen'
  <2>1. /\ HoldsEvent /\ HoldsEvent' /\ evt' = evt /\ snapshot' = snapshot
        /\ nextSub' = nextSub /\ published' = published /\ queue' = queue
        /\ uiPc = "handlers" /\ uiPc' = "in_handler"
    BY DEF HoldsEvent, CallHandler, UiStep, ringVars, callVars
  <2>2. /\ \A f \in Subscribers : lastSeen'[f] <= published - Len(queue)
        /\ \A f \in Subscribers : lastSeen'[f] <= evt.n
    BY <2>1, <1>1, <1>5 DEF IInv, Seen
  <2>3. ASSUME NEW i \in DOMAIN snapshot, evt.type \in snapshot[i].mask,
               i < nextSub \/ i = nextSub
        PROVE  lastSeen'[snapshot[i].fn] = evt.n
    <3>1. snapshot[i].fn \in Subscribers
      <4>1. snapshot \in Seq(Subscription)
        BY DEF IInv, TypeOK
      <4>2. snapshot[i] \in Subscription
        BY <4>1
      <4>. QED
        BY <4>2 DEF Subscription
    <3>2. CASE i = nextSub
      BY <3>1, <3>2, <1>5
    <3>3. CASE i < nextSub
      <4>1. lastSeen[snapshot[i].fn] = evt.n
        BY <2>1, <2>3, <3>3 DEF IInv, Seen
      <4>. QED
        BY <4>1, <3>1, <1>5
    <3>. QED
      BY <2>3, <3>2, <3>3
  <2>. QED
    BY <2>1, <2>2, <2>3, <1>1 DEF IInv, Seen
<1>7. AllSubscribersCalled'
  BY DEF AllSubscribersCalled, CallHandler, UiStep
<1>. QED
  BY <1>3, <1>4, <1>6, <1>7 DEF IInv

(* A publication by a handler gives the semaphore, too.                    *)
LEMMA HandlerGiveInv == ASSUME IInv, HandlerGive PROVE IInv'
<1>1. TypeOK'
  BY DEF IInv, TypeOK, HandlerGive, UiStep, UiPcs, ringVars, callVars
<1>2. Window' /\ RingHoldsNewest' /\ NothingNewerIsHandled'
  BY DEF IInv, Window, RingHoldsNewest, NothingNewerIsHandled, HandedOut, HoldsEvent,
         InDispatch, HandlerGive, UiStep, ringVars, callVars
<1>3. NoLostWakeup' /\ Seen' /\ AllSubscribersCalled'
  BY DEF IInv, NoLostWakeup, Seen, AllSubscribersCalled, HoldsEvent, HandlerGive, UiStep,
         ringVars, callVars
<1>. QED
  BY <1>1, <1>2, <1>3 DEF IInv

(* The loop over the subscribers moves on.                                 *)
LEMMA NextSubscriberInv == ASSUME IInv, HandlerReturn \/ SkipSubscriber PROVE IInv'
<1> USE DEF HandlerReturn, SkipSubscriber, UiStep, ringVars
<1>1. TypeOK'
  BY DEF IInv, TypeOK, UiPcs
<1>2. Window' /\ RingHoldsNewest' /\ NothingNewerIsHandled'
  BY DEF IInv, Window, RingHoldsNewest, NothingNewerIsHandled, HandedOut, HoldsEvent, InDispatch
<1>3. NoLostWakeup' /\ AllSubscribersCalled'
  BY DEF IInv, NoLostWakeup, AllSubscribersCalled
<1>4. Seen'
  <2>1. /\ HoldsEvent /\ HoldsEvent' /\ evt' = evt /\ snapshot' = snapshot
        /\ published' = published /\ queue' = queue /\ lastSeen' = lastSeen
        /\ nextSub' = nextSub + 1 /\ uiPc' = "handlers" /\ nextSub \in Nat
    BY DEF IInv, TypeOK, HoldsEvent
  <2>2. ASSUME NEW i \in DOMAIN snapshot, i < nextSub + 1, evt.type \in snapshot[i].mask
        PROVE  lastSeen[snapshot[i].fn] = evt.n
    <3>1. i \in Nat
      BY DEF IInv, TypeOK
    <3>2. i < nextSub \/ (i = nextSub /\ uiPc = "in_handler")
      BY <2>1, <2>2, <3>1
    <3>. QED
      BY <2>1, <2>2, <3>2 DEF IInv, Seen
  <2>. QED
    BY <2>1, <2>2 DEF IInv, Seen
<1>. QED
  BY <1>1, <1>2, <1>3, <1>4 DEF IInv

(* Every subscriber was called: the event counts as delivered.             *)
LEMMA EventDoneInv == ASSUME IInv, EventDone PROVE IInv'
<1> USE DEF EventDone, UiStep, ringVars
<1>1. TypeOK'
  BY DEF IInv, TypeOK, UiPcs
<1>2. Window' /\ NothingNewerIsHandled' /\ NoLostWakeup'
  BY DEF IInv, Window, NothingNewerIsHandled, NoLostWakeup, HoldsEvent, InDispatch
<1>3. RingHoldsNewest'
  BY DEF IInv, TypeOK, RingHoldsNewest, HandedOut, HoldsEvent, InDispatch
<1>4. Seen'
  BY DEF IInv, Seen, HoldsEvent
<1>5. AllSubscribersCalled'
  <2>1. ASSUME NEW i \in DOMAIN snapshot, evt.type \in snapshot[i].mask
        PROVE  lastSeen[snapshot[i].fn] = evt.n
    <3>1. i < nextSub
      BY DEF IInv, TypeOK
    <3>. QED
      BY <2>1, <3>1 DEF IInv, Seen, HoldsEvent
  <2>. QED
    BY <2>1 DEF AllSubscribersCalled
<1>. QED
  BY <1>1, <1>2, <1>3, <1>4, <1>5 DEF IInv

(* The core's dispatch() returns ...                                       *)
LEMMA EndDispatchInv == ASSUME IInv, EndDispatch PROVE IInv'
<1> USE DEF EndDispatch, UiStep, ringVars
<1>1. TypeOK'
  BY DEF IInv, TypeOK, UiPcs
<1>2. Window' /\ RingHoldsNewest' /\ NothingNewerIsHandled'
  BY DEF IInv, Window, RingHoldsNewest, NothingNewerIsHandled, HandedOut, HoldsEvent, InDispatch
<1>3. NoLostWakeup' /\ Seen' /\ AllSubscribersCalled'
  BY DEF IInv, NoLostWakeup, Seen, AllSubscribersCalled, HoldsEvent
<1>. QED
  BY <1>1, <1>2, <1>3 DEF IInv

(* ... and stark_event.c adds its result to the events consumed.           *)
LEMMA AccountInv == ASSUME IInv, Account PROVE IInv'
<1> USE DEF Account, UiStep, ringVars, callVars
<1>1. TypeOK'
  BY DEF IInv, TypeOK, UiPcs
<1>2. Window' /\ RingHoldsNewest' /\ NothingNewerIsHandled'
  BY DEF IInv, TypeOK, Window, RingHoldsNewest, NothingNewerIsHandled, HandedOut, HoldsEvent,
         InDispatch
<1>3. NoLostWakeup' /\ Seen' /\ AllSubscribersCalled'
  BY DEF IInv, NoLostWakeup, Seen, AllSubscribersCalled, HoldsEvent
<1>. QED
  BY <1>1, <1>2, <1>3 DEF IInv

-----------------------------------------------------------------------------
(* wait(): the consumer goes to sleep only after the counters told it the  *)
(* ring is empty, and reports STARK_OK only after they told it it is not.  *)

(* stark_event_wait() keeps the invariant, whatever it finds.              *)
LEMMA WaitInv ==
  ASSUME IInv, WaitStep \/ TakeTimesOut
  PROVE  IInv'
<1> USE DEF WaitStep, WaitCheck, TakeToken, TakeTimesOut, WaitRecheck, WaitReturns
<1>1. /\ uiPc \in {"check", "take", "recheck"}
      /\ uiPc' \in {"tick", "check", "take", "recheck"}
      /\ UNCHANGED <<ringVars, subs, callVars, consumed, taskPc, lastSeen>>
  OBVIOUS
<1>2. BusPending <=> queue # <<>>
  BY <1>1, CountersTellTheRing DEF IInv, InDispatch
<1>3. TypeOK'
  <2>1. wake' \in BOOLEAN /\ waitResult' \in {"none", "ok", "timeout"} /\ uiPc' \in UiPcs
    BY <1>1 DEF IInv, TypeOK, UiPcs
  <2>. QED
    BY <2>1, <1>1 DEF IInv, TypeOK, ringVars, callVars
<1>4. Window'
  <2>1. waitResult' # "none" => uiPc' = "tick"
    BY DEF IInv, Window
  <2>2. waitResult' = "ok" => queue # <<>>
    BY <1>2 DEF IInv, Window
  <2>. QED
    BY <2>1, <2>2, <1>1 DEF IInv, Window, InDispatch, ringVars, callVars
<1>5. RingHoldsNewest' /\ NothingNewerIsHandled' /\ Seen' /\ AllSubscribersCalled'
  BY <1>1 DEF IInv, RingHoldsNewest, NothingNewerIsHandled, Seen, AllSubscribersCalled,
              HandedOut, HoldsEvent, InDispatch, ringVars, callVars
<1>6. NoLostWakeup'
  BY <1>1, <1>2 DEF IInv, NoLostWakeup, ringVars
<1>. QED
  BY <1>3, <1>4, <1>5, <1>6 DEF IInv

-----------------------------------------------------------------------------
(* Every step keeps the invariant.                                         *)
LEMMA NextInv == IInv /\ [Next]_vars => IInv'
<1> SUFFICES ASSUME IInv, [Next]_vars PROVE IInv'
  OBVIOUS
<1>1. ASSUME NEW p \in Producers, NEW ty \in Types, Publish(p, ty) PROVE IInv'
  BY <1>1, PublishInv DEF Publish
<1>2. ASSUME NEW p \in Producers, Give(p) PROVE IInv'
  BY <1>2, GiveInv
<1>3. ASSUME NEW p \in Producers, NEW mask \in SUBSET Types, NEW fn \in Subscribers,
             Subscribe(p, mask, fn)
      PROVE  IInv'
  BY <1>3, SubscribeInv DEF Subscribe
<1>4. ASSUME NEW ty \in Types, HandlerPublish(ty) PROVE IInv'
  BY <1>4, PublishInv DEF HandlerPublish, UiStep
<1>5. ASSUME NEW mask \in SUBSET Types, NEW fn \in Subscribers, HandlerSubscribe(mask, fn)
      PROVE  IInv'
  BY <1>5, SubscribeInv DEF HandlerSubscribe
<1>6. CASE DispatchStep
  BY <1>6, BeginDispatchInv, DequeueInv, NothingEligibleInv, CallHandlerInv, HandlerGiveInv,
     NextSubscriberInv, EventDoneInv, EndDispatchInv, AccountInv DEF DispatchStep
<1>7. CASE WaitStep \/ TakeTimesOut
  BY <1>7, WaitInv
<1>8. CASE UNCHANGED vars
  <2>1. TypeOK'
    BY <1>8 DEF IInv, TypeOK, vars, ringVars, callVars
  <2>2. Window' /\ RingHoldsNewest' /\ NothingNewerIsHandled'
    BY <1>8 DEF IInv, Window, RingHoldsNewest, NothingNewerIsHandled, HandedOut, HoldsEvent,
                InDispatch, vars, ringVars, callVars
  <2>3. NoLostWakeup' /\ Seen' /\ AllSubscribersCalled'
    BY <1>8 DEF IInv, NoLostWakeup, Seen, AllSubscribersCalled, HoldsEvent, vars, ringVars,
                callVars
  <2>. QED
    BY <2>1, <2>2, <2>3 DEF IInv
<1>. QED
  BY <1>1, <1>2, <1>3, <1>4, <1>5, <1>6, <1>7, <1>8 DEF Next

(* The invariant everything else follows from.                             *)
THEOREM Invariance == Spec => []IInv
BY InitInv, NextInv, PTL DEF Spec

(* The state of the bus is well typed: the ring and the subscriber table   *)
(* never outgrow their arrays.                                             *)
THEOREM TypeCorrect == Spec => []TypeOK
<1>1. IInv => TypeOK
  BY DEF IInv
<1>. QED
  BY <1>1, Invariance, PTL

(* The ring always holds the newest publications in order, and every       *)
(* accepted event is dropped, handed out or queued.                        *)
THEOREM RingCorrect == Spec => []RingHoldsNewest
<1>1. IInv => RingHoldsNewest
  BY DEF IInv
<1>. QED
  BY <1>1, Invariance, PTL

(* dispatch() hands out nothing that was published during the call.        *)
THEOREM DispatchHorizon == Spec => []NothingNewerIsHandled
<1>1. IInv => NothingNewerIsHandled
  BY DEF IInv
<1>. QED
  BY <1>1, Invariance, PTL

(* wait() says STARK_OK only of a bus that holds an event, and the         *)
(* wrapping counters it goes by agree with the ring.                       *)
THEOREM WaitIsExact == Spec => []OkMeansQueued
BY InvImpliesOkMeansQueued, Invariance, PTL

(* The bookkeeping of the bus holds whatever interleaves with a dispatch.  *)
THEOREM BusSound == Spec => []BusIsSound
<1>1. IInv => TypeOK /\ RingHoldsNewest /\ NothingNewerIsHandled
  BY DEF IInv
<1>2. IInv => BusIsSound
  BY <1>1, InvImpliesOkMeansQueued DEF BusIsSound
<1>. QED
  BY <1>2, Invariance, PTL

(* The consumer never sleeps on a queued event with no token coming.       *)
THEOREM WakeupsAreNotLost == Spec => []NoLostWakeup
<1>1. IInv => NoLostWakeup
  BY DEF IInv
<1>. QED
  BY <1>1, Invariance, PTL

(* Every subscriber whose mask matches is called with every event taken.   *)
THEOREM DeliveryComplete == Spec => []AllSubscribersCalled
<1>1. IInv => AllSubscribersCalled
  BY DEF IInv
<1>. QED
  BY <1>1, Invariance, PTL

-----------------------------------------------------------------------------
(* A handler's newest event only ever grows: the event in hand is newer    *)
(* than all that any handler saw before it was taken off the ring.         *)
LEMMA StepInOrder ==
  ASSUME IInv, [Next]_vars, NEW f \in Subscribers, lastSeen'[f] # lastSeen[f]
  PROVE  lastSeen'[f] > lastSeen[f]
<1>1. lastSeen' # lastSeen
  OBVIOUS
<1>2. CallHandler
  BY <1>1 DEF Next, Publish, Give, Subscribe, HandlerPublish, HandlerSubscribe, DispatchStep,
              WaitStep, BeginDispatch, Dequeue, NothingEligible, HandlerGive, HandlerReturn,
              SkipSubscriber, EventDone, EndDispatch, Account, WaitCheck, TakeToken,
              TakeTimesOut, WaitRecheck, vars
<1>3. lastSeen'[f] = evt.n
  BY <1>2 DEF CallHandler, IInv, TypeOK
<1>4. lastSeen[f] <= evt.n /\ lastSeen[f] \in Nat /\ evt.n \in Nat
  BY <1>2, ConstantsOK
     DEF CallHandler, UiStep, HoldsEvent, IInv, Seen, TypeOK, Event, NoEvent
<1>. QED
  BY <1>3, <1>4

(* Handlers are called in the order of publication.                        *)
THEOREM HandlersInOrder == Spec => InOrder
<1>1. IInv /\ [Next]_vars
      => [\A f \in Subscribers : lastSeen'[f] # lastSeen[f] => lastSeen'[f] > lastSeen[f]]_vars
  BY StepInOrder
<1>. QED
  BY <1>1, Invariance, PTL DEF Spec, InOrder

-----------------------------------------------------------------------------
(* Refinement: the head of the ring is the oldest message not settled.     *)

(* An empty ring is an empty channel.                                      *)
LEMMA InitRefines == Init => Fifo!Init
BY DEF Init, Fifo!Init, NoEvent

(* A publication is a Send of the channel: the oldest is lost when the     *)
(* ring is full.                                                           *)
LEMMA PublishRefines ==
  ASSUME IInv, NEW ty \in Types, CorePublish(ty), UNCHANGED callVars
  PROVE  Fifo!Send
<1>1. /\ queue' \in Seq(Event)
      /\ Len(queue') \in Nat
      /\ published' = published + 1
      /\ dropped' - dropped = 1 - (Len(queue') - Len(queue))
  BY PublishRing DEF IInv
<1>2. Len(queue) \in Nat /\ published \in Nat /\ dropped \in Nat /\ Capacity \in Nat
  BY ConstantsOK DEF IInv, TypeOK
<1>3. dropped' = IF Len(queue) = Capacity THEN dropped + 1 ELSE dropped
  BY DEF CorePublish
<1>4. Len(queue') = IF Len(queue) = Capacity THEN Len(queue) ELSE Len(queue) + 1
  BY <1>1, <1>2, <1>3
<1>5. published - (published - Len(queue) + 1) + 1 = Len(queue)
  BY <1>2
<1>6. published' - Len(queue') + 1 =
        IF Len(queue) = Capacity THEN (published - Len(queue) + 1) + 1
                                 ELSE published - Len(queue) + 1
  <2>1. CASE Len(queue) = Capacity
    BY <2>1, <1>1, <1>2, <1>4
  <2>2. CASE Len(queue) # Capacity
    BY <2>2, <1>1, <1>2, <1>4
  <2>. QED
    BY <2>1, <2>2
<1>. QED
  BY <1>1, <1>5, <1>6 DEF Fifo!Send, Fifo!Outstanding, callVars

(* Taking an event off the ring takes the channel's oldest message.        *)
LEMMA DequeueRefines == ASSUME IInv, Dequeue PROVE Fifo!Take
<1>1. /\ queue \in Seq(Event) /\ Len(queue) \in Nat
      /\ published \in Nat /\ start \in Nat /\ start <= published
      /\ published - start < Wrap /\ dispatching
  BY ConstantsOK DEF IInv, TypeOK, Window, InDispatch, Dequeue, UiStep
<1>2. Newer = published - start
  BY <1>1, ResidueInRange DEF Newer
<1>3. Len(queue) > published - start
  BY <1>2 DEF Dequeue
<1>4. /\ Len(queue') = Len(queue) - 1
      /\ evt' = queue[1]
      /\ 1 \in 1..Len(queue)
  BY <1>1, <1>3 DEF Dequeue
<1>5. evt'.n = published - Len(queue) + 1
  BY <1>1, <1>4 DEF IInv, RingHoldsNewest
<1>6. /\ published - Len(queue) + 1 <= start
      /\ published - Len(queue') + 1 = (published - Len(queue) + 1) + 1
  BY <1>1, <1>3, <1>4
<1>. QED
  BY <1>1, <1>5, <1>6 DEF Fifo!Take, Dequeue

(* Every step of the bus is a step of the channel or none.                 *)
LEMMA StepRefines == IInv /\ [Next]_vars => [Fifo!Next]_Fifo!vars
<1> SUFFICES ASSUME IInv, [Next]_vars PROVE [Fifo!Next]_Fifo!vars
  OBVIOUS
<1>1. ASSUME NEW p \in Producers, NEW ty \in Types, Publish(p, ty)
      PROVE  [Fifo!Next]_Fifo!vars
  BY <1>1, PublishRefines DEF Publish, Fifo!Next
<1>2. ASSUME NEW ty \in Types, HandlerPublish(ty)
      PROVE  [Fifo!Next]_Fifo!vars
  BY <1>2, PublishRefines DEF HandlerPublish, Fifo!Next
<1>3. CASE BeginDispatch
  BY <1>3 DEF BeginDispatch, ringVars, Fifo!Open, Fifo!Next
<1>4. CASE Dequeue
  BY <1>4, DequeueRefines DEF Fifo!Next
<1>5. CASE EndDispatch
  <2>1. published - Len(queue) >= start /\ dispatching
    BY <1>5 DEF EndDispatch, UiStep, IInv, Window, InDispatch
  <2>2. published - Len(queue) + 1 > start
    BY <2>1 DEF IInv, TypeOK
  <2>. QED
    BY <1>5, <2>1, <2>2 DEF EndDispatch, ringVars, Fifo!Close, Fifo!Next
<1>6. CASE UNCHANGED <<queue, published, dispatching, start, evt>>
  BY <1>6 DEF Fifo!vars
<1>. QED
  BY <1>1, <1>2, <1>3, <1>4, <1>5, <1>6
     DEF Next, Give, Subscribe, HandlerSubscribe, DispatchStep, WaitStep, NothingEligible,
         CallHandler, HandlerGive, HandlerReturn, SkipSubscriber, EventDone, Account, WaitCheck,
         TakeToken, TakeTimesOut, WaitRecheck, vars, ringVars, callVars

(* The bus, with its ring, its lock and its tasks, is a lossy first-in     *)
(* first-out channel whose rounds are the calls of dispatch().             *)
THEOREM BusIsLossyFifo == Spec => ImplementsLossyFifo
BY InitRefines, StepRefines, Invariance, PTL DEF Spec, ImplementsLossyFifo, Fifo!Spec
=============================================================================
