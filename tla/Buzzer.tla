-------------------------------- MODULE Buzzer -------------------------------
(***************************************************************************)
(* The tone sequencer (stark_buzzer/buzzer.c).  Callers and the timer task *)
(* share the sequence under one mutex, so each call and each callback is   *)
(* one step; but a callback that already left the timer cannot be taken    *)
(* back, and may find a newer note playing.  It tells by the deadline.     *)
(*                                                                         *)
(* A tick is the slack of that test (200 us); times are kept as the ticks  *)
(* left.  The timer is external: it takes the alarm off, then runs the     *)
(* callback up to MaxDelay ticks later; starting it while it is armed      *)
(* fails and leaves it as it is.                                           *)
(***************************************************************************)
EXTENDS Integers, Sequences

CONSTANTS NoteTicks,  \* the lengths of notes, in ticks of 200 us; 1 ms is 5
          MaxNotes,   \* STARK_BUZZER_MAX_NOTES
          MaxDelay    \* bound: how late a callback that left the timer may run

Slack == 1

Off == -1

ASSUME BuzzerAssumption == NoteTicks \subseteq Nat \ {0} /\ {MaxNotes, MaxDelay} \subseteq Nat

\* No callback is held off until the next note is nearly over.  buzzer.c relies on it
\* when it calls its check exact: a note lasts a millisecond or more.
CallbacksInTime == \A t \in NoteTicks : MaxDelay + Slack < t

VARIABLES seq,       \* s_seq[0 .. s_len - 1]
          nextNote,  \* s_next, counted from 1
          due,       \* ticks to s_deadline_us, not counted below 0
          alarm,     \* ticks until the armed timer fires, or Off
          flight,    \* ticks since a callback left the timer, or Off
          duty,      \* s_duty: "off" or "on"
          sounding   \* the PWM drives the piezo

buzzerVars == <<seq, nextNote, due, alarm, flight, duty, sounding>>

Notes == [tone : BOOLEAN, ticks : NoteTicks]
Sequences == UNION {[1 .. n -> Notes] : n \in 1 .. MaxNotes}

\* sound()
Sound(tone) == sounding' = (tone /\ duty = "on")

\* esp_timer_start_once(): fails on an armed timer, and the code does not look.
StartOnce(a, ticks) == alarm' = IF a = Off THEN ticks ELSE a

\* step_locked(), for a sequence s whose note i is next, with the timer as a.
StepLocked(s, i, a) ==
  IF i > Len(s)
    THEN Sound(FALSE) /\ alarm' = a /\ UNCHANGED <<due, nextNote>>
    ELSE /\ Sound(s[i].tone)
         /\ nextNote' = i + 1 /\ due' = s[i].ticks /\ StartOnce(a, s[i].ticks)

BuzzerInit ==
  /\ seq = << >> /\ nextNote = 1 /\ due = 0 /\ alarm = Off /\ flight = Off
  /\ duty \in {"off", "on"} /\ sounding = FALSE

\* stark_buzzer_play(): the timer is stopped, the new notes replace what plays.
Play(s) ==
  /\ seq' = s
  /\ StepLocked(s, 1, Off)
  /\ UNCHANGED <<flight, duty>>

StopBuzzer ==
  /\ seq' = << >> /\ nextNote' = 1 /\ alarm' = Off /\ sounding' = FALSE
  /\ UNCHANGED <<due, flight, duty>>

\* stark_buzzer_set_volume(): from the next note on.
SetVolume(d) == duty' = d /\ UNCHANGED <<seq, nextNote, due, alarm, flight, sounding>>

\* The timer task takes the alarm off; one callback at a time.
Fire ==
  /\ alarm = 0 /\ flight = Off
  /\ alarm' = Off /\ flight' = 0
  /\ UNCHANGED <<seq, nextNote, due, duty, sounding>>

\* Slip: the callback steps without looking at the deadline.
OnTimerSlip ==
  /\ flight # Off /\ flight' = Off
  /\ StepLocked(seq, nextNote, alarm)
  /\ UNCHANGED <<seq, duty>>

\* on_timer(): a callback well before the deadline belongs to an older note.
OnTimer ==
  /\ flight # Off /\ flight' = Off
  /\ IF due <= Slack THEN StepLocked(seq, nextNote, alarm)
                     ELSE UNCHANGED <<nextNote, due, alarm, sounding>>
  /\ UNCHANGED <<seq, duty>>

\* Time passes while no alarm is overdue and no callback later than MaxDelay.
BuzzerTick ==
  /\ alarm # 0 /\ (flight # Off => flight < MaxDelay)
  /\ due' = IF due > 0 THEN due - 1 ELSE 0
  /\ alarm' = IF alarm = Off THEN Off ELSE alarm - 1
  /\ flight' = IF flight = Off THEN Off ELSE flight + 1
  /\ UNCHANGED <<seq, nextNote, duty, sounding>>

BuzzerNext ==
  \/ \E s \in Sequences : Play(s)
  \/ StopBuzzer \/ (\E d \in {"off", "on"} : SetVolume(d))
  \/ Fire \/ OnTimer \/ BuzzerTick

BuzzerSpec == BuzzerInit /\ [][BuzzerNext]_buzzerVars

------------------------------------------------------------------------------
\* Whatever is playing has its end ahead: the timer is armed for this note's deadline,
\* or a callback that will not step aside is on its way (on_timer(): "the check is
\* exact").  Otherwise a tone would never stop.
EveryNoteEnds ==
  (sounding \/ nextNote <= Len(seq)) => \/ alarm # Off /\ alarm = due
                                        \/ flight # Off /\ due <= Slack

==============================================================================
