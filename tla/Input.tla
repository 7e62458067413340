-------------------------------- MODULE Input --------------------------------
(***************************************************************************)
(* The key state machine (stark_input/input_core.c) and the sampler that   *)
(* drives it (input_service.c): per key a debounced level, one LONG per    *)
(* press, repeats for the direction keys, and the OK+BACK chord that       *)
(* silences both keys until both are up.  The sampler is a periodic timer  *)
(* callback that may come late, so one sample may stand for a gap of       *)
(* several ticks.                                                          *)
(*                                                                         *)
(* The code keeps 32-bit stamps and subtracts them modulo 2^32; every use  *)
(* is an elapsed time, kept here as such: age (since the level changed,    *)
(* counted up to the debounce time), held (since PRESS), next (as in the   *)
(* code, counted from PRESS).                                              *)
(***************************************************************************)
EXTENDS Integers, Sequences

CONSTANTS Debounce,   \* INPUT_DEBOUNCE_MS, in ticks
          LongPress,  \* INPUT_LONG_PRESS_MS
          Timings,    \* the repeat timings [delay, interval] that may be set
          Hands,      \* bound: the sets of keys one behaviour presses
          Gaps,       \* the ticks between two samples
          MaxHold,    \* bound: the longest press
          RepeatCap   \* UINT8_MAX in the code: the repeat number saturates

Keys == {"UP", "OK", "BACK"}
KeyCount == 3
Repeating == {"UP"}

\* input_core_timing_valid(), for the two values that can be changed.
TimingValid(t) == t.interval >= 1 /\ t.delay >= Debounce /\ LongPress > Debounce

ASSUME InputAssumption ==
  /\ {Debounce, LongPress} \cup Gaps \subseteq Nat
  /\ Timings \subseteq [delay : Nat, interval : Nat] /\ \A t \in Timings : TimingValid(t)

VARIABLES keyState,       \* per key: raw, age, pressed, held, next, repeats, long
          chord,          \* OK+BACK latched
          timing,         \* the core's repeat timing
          pendingTiming,  \* s_pending, or << >>
          hand,           \* the keys this behaviour presses
          told,           \* what the subscriber knows of each key
          hushed          \* the subscriber was told of a chord not yet over

inputVars == <<keyState, chord, timing, pendingTiming, hand, told, hushed>>

ChordKeys == {"OK", "BACK"}

\* INPUT_CORE_MAX_ACTIONS: more actions than this in one sample are lost.
MaxActions == 2 * KeyCount + 1

Act(k, a, n) == [key |-> k, action |-> a, repeat |-> n]

------------------------------------------------------------------------------
(* update_key(): the level and the times first, then what they make due.         *)

Level(k, raw, gap) ==
  LET st == keyState[k]
      age == IF raw # st.raw THEN 0 ELSE IF st.age + gap > Debounce THEN Debounce ELSE st.age + gap
  IN [st EXCEPT !.raw = raw, !.age = age, !.held = IF st.pressed THEN @ + gap ELSE 0]

Pressing(st)  == ~st.pressed /\ st.raw /\ st.age >= Debounce
Releasing(st) == st.pressed /\ ~st.raw /\ st.age >= Debounce
Holding(st)   == st.pressed /\ ~Releasing(st)

Quiet(k) == chord /\ k \in ChordKeys

LongDue(k, st)   == ~Quiet(k) /\ ~st.long /\ st.held >= LongPress
RepeatDue(k, st) == k \in Repeating /\ st.held >= st.next
\* A repeat that fell due before the long press is told before it.
RepeatFirst(st)  == st.next < LongPress

\* emit_repeat(): the number saturates, missed repeats are skipped.
Repeated(st, interval) ==
  [st EXCEPT !.repeats = IF @ < RepeatCap THEN @ + 1 ELSE @,
             !.next = IF @ + interval <= st.held THEN st.held + interval ELSE @ + interval]

\* Slip: a press does not forget that the last one was long.
PressedSlip(st, t) == [st EXCEPT !.pressed = TRUE, !.held = 0, !.next = t.delay, !.repeats = 0]
Pressed(st, t) == [st EXCEPT !.pressed = TRUE, !.held = 0, !.next = t.delay, !.repeats = 0,
                             !.long = FALSE]

KeyAfter(k, st, t) ==
  CASE Pressing(st)  -> Pressed(st, t)
    [] Releasing(st) -> [st EXCEPT !.pressed = FALSE]
    [] Holding(st)   -> LET rep == IF RepeatDue(k, st) THEN Repeated(st, t.interval) ELSE st
                        IN [rep EXCEPT !.long = @ \/ LongDue(k, st)]
    [] OTHER         -> st

KeyActs(k, st, t) ==
  LET long == IF LongDue(k, st) THEN <<Act(k, "LONG", 0)>> ELSE << >>
      short == IF Quiet(k) \/ st.long \/ LongDue(k, st) THEN << >> ELSE <<Act(k, "SHORT", 0)>>
      repeat == IF RepeatDue(k, st) THEN <<Act(k, "REPEAT", Repeated(st, t.interval).repeats)>>
                                    ELSE << >>
  IN CASE Pressing(st)  -> <<Act(k, "PRESS", 0)>>
       [] Releasing(st) -> long \o <<Act(k, "RELEASE", 0)>> \o short
       [] Holding(st)   -> IF RepeatFirst(st) THEN repeat \o long ELSE long \o repeat
       [] OTHER         -> << >>

\* emit(): the keys' actions, UP's before OK's before BACK's; what finds no room is lost.
Used(acts, k) == CASE k = "UP"   -> 0
                   [] k = "OK"   -> Len(acts["UP"])
                   [] k = "BACK" -> Len(acts["UP"]) + Len(acts["OK"])
Full(acts) == Used(acts, "BACK") + Len(acts["BACK"]) >= MaxActions
Emitted(acts, k) == LET room == MaxActions - Used(acts, k)
                    IN SubSeq(acts[k], 1, IF Len(acts[k]) <= room THEN Len(acts[k]) ELSE room)

------------------------------------------------------------------------------
(* What a subscriber can tell from the actions: a key is up, down, or down and   *)
(* long; "freed" between its RELEASE and its SHORT.  n counts its repeats.       *)

KeyUp == [is |-> "up", n |-> 0]

\* The actions that may come next, for a key whose shorts and longs are hushed or not.
Legal(t, a, hush) ==
  \/ a.action = "PRESS" /\ t.is = "up"
  \/ a.action = "RELEASE" /\ t.is \in {"down", "long"}
  \/ a.action = "LONG" /\ t.is = "down" /\ ~hush
  \/ a.action = "SHORT" /\ t.is = "freed" /\ ~hush
  \/ /\ a.action = "REPEAT" /\ t.is \in {"down", "long"} /\ a.key \in Repeating
     /\ a.repeat = IF t.n < RepeatCap THEN t.n + 1 ELSE t.n

Heard(t, a) ==
  CASE a.action = "PRESS"   -> [is |-> "down", n |-> 0]
    [] a.action = "RELEASE" -> IF t.is = "down" THEN [is |-> "freed", n |-> 0] ELSE KeyUp
    [] a.action = "LONG"    -> [t EXCEPT !.is = "long"]
    [] a.action = "SHORT"   -> KeyUp
    [] a.action = "REPEAT"  -> [t EXCEPT !.n = a.repeat]

\* The story of one key through the actions of one sample; "lost" when they make none.
Lost == [is |-> "lost", n |-> 0]
Then(t, a, hush) == IF t.is # "lost" /\ Legal(t, a, hush) THEN Heard(t, a) ELSE Lost
Story(t, acts, hush) ==
  LET story[n \in 0 .. Len(acts)] == IF n = 0 THEN t ELSE Then(story[n - 1], acts[n], hush)
  IN story[Len(acts)]

------------------------------------------------------------------------------
InputInit ==
  /\ keyState = [k \in Keys |-> [raw |-> FALSE, age |-> Debounce, pressed |-> FALSE,
                               held |-> 0, next |-> 0, repeats |-> 0, long |-> FALSE]]
  /\ chord = FALSE /\ timing \in Timings /\ pendingTiming = << >> /\ hand \in Hands
  /\ told = [k \in Keys |-> KeyUp] /\ hushed = FALSE

\* stark_input_set_timing(), from any task: taken over before the next sample.
SetTiming(t) ==
  /\ TimingValid(t)
  /\ pendingTiming' = <<t>>
  /\ UNCHANGED <<keyState, chord, timing, hand, told, hushed>>

\* The latch after the keys: it holds until both are up.
ChordAfter(ok, back) == IF chord THEN ok \/ back ELSE ok /\ back

\* sample_cb() and input_core_update(): the keys in order, then the chord; the
\* actions are published in that order.
Sample(levels, gap) ==
  LET t == IF pendingTiming = << >> THEN timing ELSE pendingTiming[1]
      st == [k \in Keys |-> Level(k, k \in levels, gap)]
      down == [k \in Keys |-> KeyAfter(k, st[k], t)]
      latch == ChordAfter(down["OK"].pressed, down["BACK"].pressed)
      acts == [k \in Keys |-> KeyActs(k, st[k], t)]
      chordTold == latch /\ ~chord /\ ~Full(acts)
      after == [k \in Keys |-> Story(told[k], Emitted(acts, k), hushed /\ k \in ChordKeys)]
      held(k) == after[k].is \in {"down", "long"}
  IN /\ \A k \in Keys : st[k].held <= MaxHold
     /\ keyState' = down /\ chord' = latch /\ timing' = t /\ pendingTiming' = << >>
     /\ UNCHANGED hand
     \* An unhushed press leaves through SHORT or LONG; a hushed one through RELEASE.
     /\ told' = [k \in Keys |->
                   IF after[k].is = "freed" /\ hushed /\ k \in ChordKeys THEN KeyUp ELSE after[k]]
     /\ hushed' = ((hushed \/ chordTold) /\ (held("OK") \/ held("BACK")))

InputNext ==
  \/ \E t \in Timings : SetTiming(t)
  \/ \E levels \in SUBSET hand, gap \in Gaps : Sample(levels, gap)

InputSpec == InputInit /\ [][InputNext]_inputVars

------------------------------------------------------------------------------
\* The actions of every press make a story, whatever samples came late: PRESS, then
\* repeats in number and at most one LONG, then RELEASE, and SHORT exactly when LONG
\* never came and no chord was told since both keys were last up; and what the
\* subscriber makes of it is what the core holds (input_core_update()).
KeysTellTheirStory ==
  /\ \A k \in Keys : /\ told[k].is \in {"up", "down", "long"}
                     /\ (told[k].is # "up") <=> keyState[k].pressed
                     /\ (told[k].is = "long") <=> (keyState[k].pressed /\ keyState[k].long)
                     /\ told[k].is # "up" => told[k].n = keyState[k].repeats
  /\ hushed <=> chord
==============================================================================
