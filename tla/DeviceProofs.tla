---------------------------- MODULE DeviceProofs ----------------------------
(***************************************************************************)
(* Proofs about the services that drive one device each: the buzzer, the   *)
(* PN532, the infrared receiver and transmitter, the settings' store, the  *)
(* keys and the panel.                                                     *)
(***************************************************************************)
EXTENDS Buzzer, Pn532, IrService, Settings, Input, Screens, SequenceTheorems, FiniteSetTheorems,
        WellFoundedInduction, TLAPS

(* The buzzer.  An armed timer is armed for the present deadline, and a    *)
(* callback that is still under way while it is armed is an old one: it    *)
(* left the timer before the note began, so the deadline is still further  *)
(* away than a callback may be late.                                       *)
BuzzerInv ==
  /\ seq \in Seq(Notes) /\ nextNote \in 1..Len(seq) + 1
  /\ due \in Nat
  /\ alarm \in Nat \cup {Off} /\ flight \in 0..MaxDelay \cup {Off}
  /\ sounding \in BOOLEAN
  /\ alarm # Off => alarm = due
  /\ alarm # Off /\ flight # Off => due + flight > MaxDelay + Slack
  /\ EveryNoteEnds

(* sound() drives the PWM or does not.                                     *)
LEMMA SoundIsBoolean ==
  ASSUME NEW tone, Sound(tone)
  PROVE  sounding' \in BOOLEAN
BY DEF Sound

(* step_locked() on a stopped timer starts note i with its whole length    *)
(* ahead, ...                                                              *)
LEMMA NoteStarts ==
  ASSUME CallbacksInTime,
         NEW s \in Seq(Notes), NEW i \in 1..Len(s), StepLocked(s, i, Off)
  PROVE  /\ due' \in Nat /\ due' > MaxDelay + Slack /\ alarm' = due'
         /\ nextNote' \in 1..Len(s) + 1 /\ sounding' \in BOOLEAN
<1>1. s[i] \in Notes
  OBVIOUS
<1>2. s[i].ticks \in NoteTicks
  BY <1>1 DEF Notes
<1>3. s[i].ticks \in Nat /\ s[i].ticks > MaxDelay + Slack
  BY <1>2, BuzzerAssumption DEF CallbacksInTime
<1>4. ~(i > Len(s))
  OBVIOUS
<1>5. Sound(s[i].tone)
  BY <1>4, Zenon DEF StepLocked
<1>6. nextNote' = i + 1 /\ due' = s[i].ticks /\ alarm' = s[i].ticks
  BY <1>4, Zenon DEF StepLocked, StartOnce
<1>7. sounding' \in BOOLEAN
  BY <1>5, SoundIsBoolean, Zenon
<1> QED BY <1>3, <1>6, <1>7

(* ... or leaves nothing playing after the last.                           *)
LEMMA NothingStarts ==
  ASSUME NEW s \in Seq(Notes), NEW i \in Nat, i > Len(s), StepLocked(s, i, Off)
  PROVE  ~sounding' /\ sounding' \in BOOLEAN /\ alarm' = Off /\ due' = due /\ nextNote' = nextNote
<1>1. Sound(FALSE) /\ alarm' = Off /\ due' = due /\ nextNote' = nextNote
  BY DEF StepLocked
<1> QED BY <1>1 DEF Sound

(* Every kind of step of the buzzer keeps the invariant.                   *)
LEMMA BuzzerStep ==
  ASSUME CallbacksInTime, BuzzerInv, [BuzzerNext]_buzzerVars
  PROVE  BuzzerInv'
<1> USE BuzzerAssumption DEF Off, Slack
<1>1. ASSUME NEW s \in Sequences, Play(s)
      PROVE  BuzzerInv'
  <2>1. s \in Seq(Notes) /\ 1 \in 1..Len(s)
    BY DEF Sequences
  <2>2. seq' = s /\ StepLocked(s, 1, Off) /\ flight' = flight
    BY <1>1 DEF Play
  <2> QED BY <2>1, <2>2, NoteStarts DEF BuzzerInv, EveryNoteEnds
<1>2. CASE StopBuzzer
  <2>1. seq' = <<>> /\ nextNote' = 1 /\ alarm' = Off /\ due' = due /\ flight' = flight
    BY <1>2 DEF StopBuzzer
  <2>2. ~sounding' /\ sounding' \in BOOLEAN
    BY <1>2 DEF StopBuzzer
  <2>3. seq' \in Seq(Notes) /\ Len(seq') = 0
    BY <2>1
  <2> QED BY <2>1, <2>2, <2>3 DEF BuzzerInv, EveryNoteEnds
<1>3. ASSUME NEW d \in {"off", "on"}, SetVolume(d)
      PROVE  BuzzerInv'
  BY <1>3 DEF SetVolume, BuzzerInv, EveryNoteEnds
<1>4. CASE Fire
  BY <1>4 DEF Fire, BuzzerInv, EveryNoteEnds
<1>5. CASE OnTimer
  <2>1. CASE due <= Slack
    <3>1. alarm = Off /\ StepLocked(seq, nextNote, Off) /\ flight' = Off /\ seq' = seq
      BY <1>5, <2>1 DEF OnTimer, BuzzerInv
    <3>2. CASE nextNote <= Len(seq)
      <4>1. nextNote \in 1..Len(seq) /\ seq \in Seq(Notes)
        BY <3>2 DEF BuzzerInv
      <4> QED BY <3>1, <4>1, NoteStarts DEF BuzzerInv, EveryNoteEnds
    <3>3. CASE nextNote > Len(seq)
      <4>1. nextNote \in Nat /\ seq \in Seq(Notes)
        BY DEF BuzzerInv
      <4>2. /\ ~sounding' /\ sounding' \in BOOLEAN
            /\ alarm' = Off /\ due' = due /\ nextNote' = nextNote
        BY <3>1, <3>3, <4>1, NothingStarts
      <4> QED BY <3>1, <3>3, <4>1, <4>2 DEF BuzzerInv, EveryNoteEnds
    <3> QED BY <3>2, <3>3 DEF BuzzerInv
  <2>2. CASE due > Slack
    BY <1>5, <2>2 DEF OnTimer, BuzzerInv, EveryNoteEnds
  <2> QED BY <2>1, <2>2 DEF BuzzerInv
<1>6. CASE BuzzerTick
  <2>1. seq' = seq /\ nextNote' = nextNote /\ sounding' = sounding /\ MaxDelay \in Nat
    BY <1>6 DEF BuzzerTick
  <2>2. /\ alarm # 0 /\ (flight # Off => flight < MaxDelay)
        /\ due' = IF due > 0 THEN due - 1 ELSE 0
        /\ alarm' = IF alarm = Off THEN Off ELSE alarm - 1
        /\ flight' = IF flight = Off THEN Off ELSE flight + 1
    BY <1>6 DEF BuzzerTick
  <2> QED BY <2>1, <2>2 DEF BuzzerInv, EveryNoteEnds
<1>7. CASE UNCHANGED buzzerVars
  BY <1>7 DEF buzzerVars, BuzzerInv, EveryNoteEnds
<1> QED BY <1>1, <1>2, <1>3, <1>4, <1>5, <1>6, <1>7 DEF BuzzerNext

(* Every note has its end ahead (buzzer.c: "the check is exact"), for any  *)
(* lengths of notes, as long as no callback comes so late that the next    *)
(* note is nearly over.                                                    *)
THEOREM NotesEnd ==
  ASSUME CallbacksInTime
  PROVE  BuzzerSpec => []EveryNoteEnds
<1>1. BuzzerInit => BuzzerInv
  <2> SUFFICES ASSUME BuzzerInit PROVE BuzzerInv
    OBVIOUS
  <2>1. seq = <<>> /\ nextNote = 1 /\ due = 0 /\ alarm = Off /\ flight = Off
    BY DEF BuzzerInit
  <2>2. seq \in Seq(Notes) /\ Len(seq) = 0
    BY <2>1
  <2>3. ~sounding /\ sounding \in BOOLEAN
    BY DEF BuzzerInit
  <2> QED BY <2>1, <2>2, <2>3, BuzzerAssumption DEF BuzzerInv, EveryNoteEnds, Off
<1>2. BuzzerInv /\ [BuzzerNext]_buzzerVars => BuzzerInv'
  BY BuzzerStep
<1>3. BuzzerInv => EveryNoteEnds
  BY DEF BuzzerInv
<1> QED BY <1>1, <1>2, <1>3, PTL DEF BuzzerSpec

-----------------------------------------------------------------------------
(* The PN532.  From the acknowledgement on, what the chip works on is the  *)
(* command at hand.                                                        *)
Chip == [cmd : Nat, does : {"nothing", "ack", "work", "answer", "sent"}]

PnInv ==
  /\ chip \in Chip /\ cmd \in Nat
  /\ at \in {"ack", "answer", "nack"} => chip.cmd = cmd
  /\ AnswersAreCurrent

(* Asking for a frame does not change what the chip works on.              *)
LEMMA ReadingKeepsCommand ==
  ASSUME chip \in Chip, NEW out, NEW f, ReadReady(out, f)
  PROVE  /\ chip' \in Chip /\ chip'.cmd = chip.cmd
         /\ out = "ok" /\ f.kind = "data" => f.cmd = chip.cmd
<1>1. ChipRead => chip' \in Chip /\ chip'.cmd = chip.cmd
  BY DEF ChipRead, Chip
<1>2. CASE out = "ok" /\ f # NoFrame
  BY <1>1, <1>2 DEF ReadReady, Frame, Damaged, Extended
<1>3. CASE ~(out = "ok" /\ f # NoFrame)
  BY <1>1, <1>3 DEF ReadReady, NoFrame
<1> QED BY <1>2, <1>3

(* An answer that is returned is that of the command asked for, for any    *)
(* commands and any numbers of repetitions.                                *)
THEOREM AnswersCurrent == PnSpec => []AnswersAreCurrent
<1>1. PnInit => PnInv
  BY DEF PnInit, PnInv, AnswersAreCurrent, Chip
<1>2. PnInv /\ [PnNext]_pnVars => PnInv'
  <2> SUFFICES ASSUME PnInv, [PnNext]_pnVars PROVE PnInv'
    OBVIOUS
  <2> USE DEF PnInv, AnswersAreCurrent, Returns, Chip
  <2>1. CASE Start
    BY <2>1 DEF Start
  <2>2. ASSUME NEW out \in Outcomes, NEW took \in BOOLEAN, WriteCommand(out, took)
        PROVE  PnInv'
    BY <2>2 DEF WriteCommand, TryAgain, Outcomes
  <2>3. ASSUME NEW out \in Outcomes, NEW took \in BOOLEAN, Nack(out, took)
        PROVE  PnInv'
    BY <2>3 DEF Nack
  <2>4. ASSUME NEW out \in Outcomes, NEW f, ReadAck(out, f)
        PROVE  PnInv'
    <3>1. chip' \in Chip /\ chip'.cmd = chip.cmd
      BY <2>4, ReadingKeepsCommand DEF ReadAck
    <3> QED BY <2>4, <3>1 DEF ReadAck, TryAgain
  <2>5. ASSUME NEW out \in Outcomes, NEW f, ReadAnswer(out, f)
        PROVE  PnInv'
    <3>1. /\ chip' \in Chip /\ chip'.cmd = chip.cmd
          /\ out = "ok" /\ f.kind = "data" => f.cmd = chip.cmd
      BY <2>5, ReadingKeepsCommand DEF ReadAnswer
    <3> QED BY <2>5, <3>1 DEF ReadAnswer
  <2>6. ASSUME NEW took \in BOOLEAN, GiveUp(took)
        PROVE  PnInv'
    BY <2>6 DEF GiveUp
  <2>7. CASE ChipAnswers
    BY <2>7 DEF ChipAnswers
  <2>8. CASE UNCHANGED pnVars
    BY <2>8 DEF pnVars
  <2> QED BY <2>1, <2>2, <2>3, <2>4, <2>5, <2>6, <2>7, <2>8 DEF PnNext
<1>3. PnInv => AnswersAreCurrent
  BY DEF PnInv
<1> QED BY <1>1, <1>2, <1>3, PTL DEF PnSpec

-----------------------------------------------------------------------------
(* The infrared service.  At most one transmission is on its way: claimed  *)
(* by the caller, in the queue, or with the task.  So a queue that is full *)
(* holds a frame, which will have the receiver armed again.                *)
HasFrame(q) == \E i \in 1..Len(q) : q[i] # "tx"
HasTx(q) == \E i \in 1..Len(q) : q[i] = "tx"
OneTx(q) == \A i, j \in 1..Len(q) : q[i] = "tx" /\ q[j] = "tx" => i = j

Message == {"frame", "long", "tx"}
CallerAt == {"out", "start", "arm", "stop", "checked", "claimed"}

IrTypes ==
  /\ irOn \in BOOLEAN /\ irEnabled \in BOOLEAN /\ irArmed \in BOOLEAN /\ txBusy \in BOOLEAN
  /\ irQueue \in Seq(Message) /\ Len(irQueue) <= IrQueueLen
  /\ captures \in 0..CaptureSlots /\ sinceTx \in 0..MinInterval
  /\ txFrames \in 0..TxMaxRepeats + 1 /\ txSignal.repeats \in 0..TxMaxRepeats
  /\ irTask \in {"wait", "frame", "long", "arm", "send", "sent"}
  /\ irCaller = [at |-> irCaller.at, signal |-> irCaller.signal]
  /\ irCaller.at \in CallerAt /\ irCaller.signal.repeats \in 0..TxMaxRepeats

OneTransmission ==
  /\ OneTx(irQueue)
  /\ HasTx(irQueue) => txBusy
  /\ irTask \in {"send", "sent"} => txBusy /\ ~HasTx(irQueue)
  /\ irCaller.at = "claimed" =>
       txBusy /\ ~HasTx(irQueue) /\ irTask \notin {"send", "sent"}

(* The receiver's channel is enabled from the end of a start to a stop,    *)
(* and whoever is to arm it is there.                                      *)
Listening ==
  /\ irCaller.at \in {"start", "arm"} => irOn
  /\ irCaller.at = "stop" => ~irOn
  /\ irOn /\ irCaller.at # "start" => irEnabled
  /\ irOn /\ ~irArmed /\ irCaller.at \notin {"start", "arm"} =>
       irTask \in {"frame", "long", "arm"} \/ HasFrame(irQueue)

IrInv == IrTypes /\ OneTransmission /\ Listening

(* What a message more in the queue says of the frames and the             *)
(* transmission in it.                                                     *)
LEMMA QueueAppend ==
  ASSUME NEW q \in Seq(Message), NEW m \in Message
  PROVE  /\ Append(q, m) \in Seq(Message) /\ Len(Append(q, m)) = Len(q) + 1
         /\ HasFrame(Append(q, m)) <=> HasFrame(q) \/ m # "tx"
         /\ HasTx(Append(q, m)) <=> HasTx(q) \/ m = "tx"
         /\ OneTx(q) /\ (m = "tx" => ~HasTx(q)) => OneTx(Append(q, m))
<1>1. /\ Append(q, m) \in Seq(Message) /\ Len(Append(q, m)) = Len(q) + 1
      /\ Append(q, m)[Len(q) + 1] = m /\ \A i \in 1..Len(q) : Append(q, m)[i] = q[i]
  OBVIOUS
<1> DEFINE r == Append(q, m)
<1> HIDE DEF r
<1>2. Len(q) \in Nat
  OBVIOUS
<1> QED BY <1>1, <1>2 DEF HasFrame, HasTx, OneTx, r

(* What is left in the queue when the IR task has taken a message.         *)
LEMMA QueueTail ==
  ASSUME NEW q \in Seq(Message), q # <<>>
  PROVE  /\ Head(q) \in Message /\ Tail(q) \in Seq(Message) /\ Len(Tail(q)) = Len(q) - 1
         /\ Head(q) = "tx" => (HasFrame(q) => HasFrame(Tail(q)))
         /\ HasTx(Tail(q)) => HasTx(q)
         /\ Head(q) = "tx" => HasTx(q)
         /\ OneTx(q) => OneTx(Tail(q)) /\ (Head(q) = "tx" => ~HasTx(Tail(q)))
<1>1. /\ Head(q) = q[1] /\ Tail(q) \in Seq(Message) /\ Len(Tail(q)) = Len(q) - 1 /\ Len(q) \in Nat \ {0}
      /\ \A i \in 1..Len(q) - 1 : Tail(q)[i] = q[i + 1]
  OBVIOUS
<1>2. \A i \in 1..Len(q) : q[i] \in Message
  OBVIOUS
<1> DEFINE r == Tail(q)
<1> HIDE DEF r
<1>3. Head(q) = "tx" /\ HasFrame(q) => HasFrame(r)
  <2> SUFFICES ASSUME q[1] = "tx", NEW i \in 1..Len(q), q[i] # "tx" PROVE HasFrame(r)
    BY <1>1 DEF HasFrame
  <2>1. i - 1 \in 1..Len(r) /\ r[i - 1] = q[i]
    BY <1>1 DEF r
  <2> QED BY <2>1 DEF HasFrame
<1>4. HasTx(r) => HasTx(q)
  BY <1>1 DEF HasTx, r
<1>5. OneTx(q) => OneTx(r)
  BY <1>1 DEF OneTx, r
<1>6. OneTx(q) /\ Head(q) = "tx" => ~HasTx(r)
  BY <1>1 DEF OneTx, HasTx, r
<1> QED BY <1>1, <1>2, <1>3, <1>4, <1>5, <1>6 DEF HasTx, r

(* arm(), and what joins the queue, as the steps below use them.           *)
LEMMA Arming ==
  ASSUME ArmEffect
  PROVE  irArmed' \in BOOLEAN /\ (irArmed' <=> irArmed \/ (irOn /\ irEnabled))
BY DEF ArmEffect

(* The queue after a send that gives up when it is full.                   *)
LEMMA Queueing ==
  ASSUME IrInv, NEW m \in Message,
         irQueue' = IF Len(irQueue) < IrQueueLen THEN Append(irQueue, m) ELSE irQueue
  PROVE  /\ irQueue' \in Seq(Message) /\ Len(irQueue') <= IrQueueLen
         /\ HasFrame(irQueue') <=> HasFrame(irQueue) \/ (m # "tx" /\ Len(irQueue) < IrQueueLen)
         /\ m # "tx" => (HasTx(irQueue') <=> HasTx(irQueue))
         /\ m # "tx" \/ ~HasTx(irQueue) => OneTx(irQueue')
         /\ Len(irQueue) = IrQueueLen => HasFrame(irQueue)
<1> USE IrAssumption
<1>1. irQueue \in Seq(Message) /\ Len(irQueue) <= IrQueueLen /\ OneTx(irQueue)
  BY DEF IrInv, IrTypes, OneTransmission
<1>2. Len(irQueue) = IrQueueLen => HasFrame(irQueue)
  BY <1>1 DEF OneTx, HasFrame
<1>3. CASE Len(irQueue) < IrQueueLen
  BY <1>1, <1>2, <1>3, QueueAppend
<1>4. CASE ~(Len(irQueue) < IrQueueLen)
  BY <1>1, <1>2, <1>4
<1> QED BY <1>3, <1>4

(* Every step keeps the types, ...                                         *)
LEMMA IrTypesStep ==
  ASSUME IrInv, [IrNext]_irVars
  PROVE  IrTypes'
<1> USE IrAssumption DEF IrInv, IrTypes, Message, CallerAt, callVars, TxMaxRepeats
<1>1. CASE TakeMessage
  BY <1>1, QueueTail DEF TakeMessage
<1>2. CASE HandleRx
  BY <1>2 DEF HandleRx, CapturePush
<1>3. CASE RearmRx
  BY <1>3, Arming DEF RearmRx
<1>4. CASE SendFrame
  BY <1>4 DEF SendFrame
<1>5. CASE SendEnds
  BY <1>5 DEF SendEnds
<1>6. CASE SendAnswered
  BY <1>6 DEF SendAnswered
<1>7. CASE RxStart
  BY <1>7 DEF RxStart, Calls
<1>8. CASE RxEnable
  BY <1>8 DEF RxEnable, Calls
<1>9. CASE RxArm
  BY <1>9, Arming DEF RxArm, Calls
<1>10. CASE RxStop
  BY <1>10 DEF RxStop, Calls
<1>11. CASE RxDisable
  BY <1>11 DEF RxDisable, Calls
<1>12. CASE TransmitClaim
  BY <1>12 DEF TransmitClaim, Calls
<1>13. CASE TransmitQueue
  <2>1. CASE Len(irQueue) < IrQueueLen
    BY <1>13, <2>1, Queueing, QueueAppend DEF TransmitQueue, Calls
  <2>2. CASE ~(Len(irQueue) < IrQueueLen)
    <3>1. ~txBusy' /\ txBusy' \in BOOLEAN /\ irQueue' = irQueue
      BY <1>13, <2>2 DEF TransmitQueue
    <3> QED BY <1>13, <2>2, <3>1 DEF TransmitQueue, Calls
  <2> QED BY <2>1, <2>2
<1>14. CASE TakeCapture
  BY <1>14 DEF TakeCapture, CaptureTake
<1>15. CASE IrTick
  BY <1>15 DEF IrTick
<1>16. ASSUME NEW s \in IrSignals, NEW r \in IrRepeats, TransmitCheck(s, r)
      PROVE  IrTypes'
  BY <1>16 DEF TransmitCheck, TxAccepts
<1>17. ASSUME NEW k \in {"frame", "long"}, FrameArrives(k)
      PROVE  IrTypes'
  <2>1. /\ irArmed /\ ~irArmed' /\ irArmed' \in BOOLEAN /\ k \in Message
        /\ UNCHANGED <<irOn, irEnabled, captures, irTask, txBusy, txSignal, txFrames, sinceTx, irCaller>>
        /\ irQueue' = IF Len(irQueue) < IrQueueLen THEN Append(irQueue, k) ELSE irQueue
    BY <1>17 DEF FrameArrives
  <2> QED BY <2>1, Queueing
<1>18. CASE UNCHANGED irVars
  BY <1>18 DEF irVars
<1> QED BY <1>1, <1>2, <1>3, <1>4, <1>5, <1>6, <1>7, <1>8, <1>9, <1>10, <1>11, <1>12, <1>13, <1>14, <1>15, <1>16, <1>17, <1>18 DEF IrNext, IrTaskStep, IrCall

(* ... has one transmission on its way, ...                                *)
LEMMA OneTransmissionStep ==
  ASSUME IrInv, [IrNext]_irVars
  PROVE  OneTransmission'
<1> USE IrAssumption DEF IrInv, IrTypes, OneTransmission, Message, CallerAt, callVars
<1>1. CASE TakeMessage
  BY <1>1, QueueTail DEF TakeMessage
<1>2. CASE HandleRx
  BY <1>2 DEF HandleRx, CapturePush
<1>3. CASE RearmRx
  BY <1>3, Arming DEF RearmRx
<1>4. CASE SendFrame
  BY <1>4 DEF SendFrame
<1>5. CASE SendEnds
  BY <1>5 DEF SendEnds
<1>6. CASE SendAnswered
  BY <1>6 DEF SendAnswered
<1>7. CASE RxStart
  BY <1>7 DEF RxStart, Calls
<1>8. CASE RxEnable
  BY <1>8 DEF RxEnable, Calls
<1>9. CASE RxArm
  BY <1>9, Arming DEF RxArm, Calls
<1>10. CASE RxStop
  BY <1>10 DEF RxStop, Calls
<1>11. CASE RxDisable
  BY <1>11 DEF RxDisable, Calls
<1>12. CASE TransmitClaim
  BY <1>12 DEF TransmitClaim, Calls
<1>13. CASE TransmitQueue
  <2>1. CASE Len(irQueue) < IrQueueLen
    BY <1>13, <2>1, Queueing, QueueAppend DEF TransmitQueue, Calls
  <2>2. CASE ~(Len(irQueue) < IrQueueLen)
    <3>1. ~txBusy' /\ txBusy' \in BOOLEAN /\ irQueue' = irQueue
      BY <1>13, <2>2 DEF TransmitQueue
    <3> QED BY <1>13, <2>2, <3>1 DEF TransmitQueue, Calls
  <2> QED BY <2>1, <2>2
<1>14. CASE TakeCapture
  BY <1>14 DEF TakeCapture, CaptureTake
<1>15. CASE IrTick
  BY <1>15 DEF IrTick
<1>16. ASSUME NEW s \in IrSignals, NEW r \in IrRepeats, TransmitCheck(s, r)
      PROVE  OneTransmission'
  BY <1>16 DEF TransmitCheck, TxAccepts
<1>17. ASSUME NEW k \in {"frame", "long"}, FrameArrives(k)
      PROVE  OneTransmission'
  <2>1. /\ irArmed /\ ~irArmed' /\ irArmed' \in BOOLEAN /\ k \in Message
        /\ UNCHANGED <<irOn, irEnabled, captures, irTask, txBusy, txSignal, txFrames, sinceTx, irCaller>>
        /\ irQueue' = IF Len(irQueue) < IrQueueLen THEN Append(irQueue, k) ELSE irQueue
    BY <1>17 DEF FrameArrives
  <2> QED BY <2>1, Queueing
<1>18. CASE UNCHANGED irVars
  BY <1>18 DEF irVars
<1> QED BY <1>1, <1>2, <1>3, <1>4, <1>5, <1>6, <1>7, <1>8, <1>9, <1>10, <1>11, <1>12, <1>13, <1>14, <1>15, <1>16, <1>17, <1>18 DEF IrNext, IrTaskStep, IrCall

(* ... and leaves somebody to arm the receiver.                            *)
LEMMA ListeningStep ==
  ASSUME IrInv, [IrNext]_irVars
  PROVE  Listening'
<1> USE IrAssumption DEF IrInv, IrTypes, OneTransmission, Listening, Message, CallerAt, callVars
<1>1. CASE TakeMessage
  BY <1>1, QueueTail DEF TakeMessage
<1>2. CASE HandleRx
  BY <1>2 DEF HandleRx, CapturePush
<1>3. CASE RearmRx
  BY <1>3, Arming DEF RearmRx
<1>4. CASE SendFrame
  BY <1>4 DEF SendFrame
<1>5. CASE SendEnds
  BY <1>5 DEF SendEnds
<1>6. CASE SendAnswered
  BY <1>6 DEF SendAnswered
<1>7. CASE RxStart
  BY <1>7 DEF RxStart, Calls
<1>8. CASE RxEnable
  BY <1>8 DEF RxEnable, Calls
<1>9. CASE RxArm
  BY <1>9, Arming DEF RxArm, Calls
<1>10. CASE RxStop
  BY <1>10 DEF RxStop, Calls
<1>11. CASE RxDisable
  BY <1>11 DEF RxDisable, Calls
<1>12. CASE TransmitClaim
  BY <1>12 DEF TransmitClaim, Calls
<1>13. CASE TransmitQueue
  <2>1. CASE Len(irQueue) < IrQueueLen
    BY <1>13, <2>1, Queueing, QueueAppend DEF TransmitQueue, Calls
  <2>2. CASE ~(Len(irQueue) < IrQueueLen)
    <3>1. ~txBusy' /\ txBusy' \in BOOLEAN /\ irQueue' = irQueue
      BY <1>13, <2>2 DEF TransmitQueue
    <3> QED BY <1>13, <2>2, <3>1 DEF TransmitQueue, Calls
  <2> QED BY <2>1, <2>2
<1>14. CASE TakeCapture
  BY <1>14 DEF TakeCapture, CaptureTake
<1>15. CASE IrTick
  BY <1>15 DEF IrTick
<1>16. ASSUME NEW s \in IrSignals, NEW r \in IrRepeats, TransmitCheck(s, r)
      PROVE  Listening'
  BY <1>16 DEF TransmitCheck, TxAccepts
<1>17. ASSUME NEW k \in {"frame", "long"}, FrameArrives(k)
      PROVE  Listening'
  <2>1. /\ irArmed /\ ~irArmed' /\ irArmed' \in BOOLEAN /\ k \in Message
        /\ UNCHANGED <<irOn, irEnabled, captures, irTask, txBusy, txSignal, txFrames, sinceTx, irCaller>>
        /\ irQueue' = IF Len(irQueue) < IrQueueLen THEN Append(irQueue, k) ELSE irQueue
    BY <1>17 DEF FrameArrives
  <2> QED BY <2>1, Queueing
<1>18. CASE UNCHANGED irVars
  BY <1>18 DEF irVars
<1> QED BY <1>1, <1>2, <1>3, <1>4, <1>5, <1>6, <1>7, <1>8, <1>9, <1>10, <1>11, <1>12, <1>13, <1>14, <1>15, <1>16, <1>17, <1>18 DEF IrNext, IrTaskStep, IrCall

(* A receiver that is on either listens or has somebody left to arm it     *)
(* (on_recv_done(), ir_task()), for any lengths of the queue and the ring. *)
THEOREM ReceiverIsNeverDeaf == IrSpec => []NeverDeaf
<1>1. IrInit => IrInv
  <2> SUFFICES ASSUME IrInit PROVE IrInv
    OBVIOUS
  <2>1. ~irOn /\ ~irEnabled /\ ~irArmed /\ ~txBusy
    BY DEF IrInit
  <2>2. irOn \in BOOLEAN /\ irEnabled \in BOOLEAN /\ irArmed \in BOOLEAN /\ txBusy \in BOOLEAN
    BY DEF IrInit
  <2>3. irQueue \in Seq(Message) /\ Len(irQueue) = 0
    BY DEF IrInit
  <2>4. IrTypes
    BY <2>2, <2>3, IrAssumption DEF IrInit, IrTypes, NoCaptures, NoSignal, TxMaxRepeats, CallerAt
  <2>5. ~HasTx(irQueue) /\ OneTx(irQueue)
    BY <2>3 DEF HasTx, OneTx
  <2>6. irTask = "wait" /\ irCaller.at = "out"
    BY DEF IrInit
  <2> QED BY <2>1, <2>4, <2>5, <2>6 DEF IrInv, OneTransmission, Listening
<1>2. IrInv /\ [IrNext]_irVars => IrInv'
  BY IrTypesStep, OneTransmissionStep, ListeningStep DEF IrInv
<1>3. IrInv => NeverDeaf
  <2> SUFFICES ASSUME IrInv PROVE NeverDeaf
    OBVIOUS
  <2>1. IrTypeOK
    BY DEF IrInv, IrTypes, IrTypeOK
  <2>2. HasFrame(irQueue) => \E i \in DOMAIN irQueue : irQueue[i] # "tx"
    BY DEF IrInv, IrTypes, HasFrame
  <2> QED BY <2>1, <2>2 DEF IrInv, Listening, NeverDeaf
<1> QED BY <1>1, <1>2, <1>3, PTL DEF IrSpec

-----------------------------------------------------------------------------
(* The settings.  Three things together keep them: a store without a       *)
(* schema is empty and gets its schema first, so no reset leaves half a    *)
(* store that would not be read; what is not marked was not written since  *)
(* the commit and is what the commit made safe; and of what a commit in    *)
(* progress has passed, each marked key's last write is of its value.      *)

(* The store's records: keys of the table and the schema, with a byte.     *)
StoreKeys == SetKeys \cup {"schema"}

(* What the store holds of a key that is not marked is its value.          *)
Kept(k) == value[k] = IF k \in DOMAIN onFlash THEN onFlash[k] ELSE SettingDef[k]

(* The last write to a key, of those since the commit, is of its value.    *)
Noted(k) == \E i \in LastWrite(k, Len(written)) : written[i][2] = value[k]

SetTypes ==
  /\ value \in [SetKeys -> Nat] /\ \A k \in SetKeys : value[k] <= SettingMax[k]
  /\ dirty \in [SetKeys -> BOOLEAN] /\ schemaDirty \in BOOLEAN /\ hasStore \in BOOLEAN
  /\ DOMAIN onFlash \subseteq StoreKeys
  /\ written \in Seq(StoreKeys \X Nat)
  /\ job \in [is : {"none", "commit", "restore"}, next : 0 .. Len(SettingKeys) + 1]
  /\ job.is = "none" => job = Idle
  /\ toApply \in Seq(SetKeys) /\ unheard \subseteq SetKeys /\ applied \in [SetKeys -> Nat]

(* A store without a schema is empty, and gets its schema first.           *)
SchemaFirst ==
  /\ schemaDirty <=> "schema" \notin DOMAIN onFlash
  /\ schemaDirty => DOMAIN onFlash = {} /\ (written # << >> => written[1][1] = "schema")

(* Only what is marked was written, and a commit has noted what it passed. *)
MarkedUntilCommitted ==
  /\ \A k \in SetKeys : ~dirty[k] => Kept(k) /\ k \notin WrittenKeys(Len(written))
  /\ job.is = "commit" =>
       /\ schemaDirty /\ job.next > 0 => "schema" \in WrittenKeys(Len(written))
       /\ \A j \in 1 .. Len(SettingKeys) :
            j < job.next /\ dirty[SettingKeys[j]] => Noted(SettingKeys[j])

(* Every setting that is not applied has an event to come, or it is known. *)
AppliedOrTold == \A k \in SetKeys : k \in unheard \/ k \in ToSet(toApply) \/ applied[k] = value[k]

SetInv ==
  /\ SetTypes /\ AppliedOrTold
  /\ hasStore => SchemaFirst /\ MarkedUntilCommitted
  /\ ~hasStore => job.is # "commit" /\ written = << >>
                  /\ ("schema" \notin DOMAIN onFlash => DOMAIN onFlash = {})

(* The table: the index of each of its keys, and its default and maximum.  *)
LEMMA TableFits ==
  /\ Len(SettingKeys) \in Nat /\ "schema" \notin SetKeys
  /\ \A i \in 1 .. Len(SettingKeys) : SettingKeys[i] \in SetKeys
  /\ \A k \in SetKeys : \E i \in 1 .. Len(SettingKeys) : SettingKeys[i] = k
  /\ DOMAIN SettingKeys = 1 .. Len(SettingKeys)
  /\ \A k \in SetKeys : /\ SettingMax[k] \in Nat /\ SettingDef[k] \in Nat
                         /\ SettingDef[k] <= SettingMax[k]
<1>1. /\ SettingKeys \in Seq(SetKeys) /\ SettingMax \in [SetKeys -> Nat]
      /\ SettingDef \in [SetKeys -> Nat] /\ \A k \in SetKeys : SettingDef[k] <= SettingMax[k]
      /\ "schema" \notin SetKeys
  BY SettingsAssumption
<1>2. /\ Len(SettingKeys) \in Nat /\ DOMAIN SettingKeys = 1 .. Len(SettingKeys)
      /\ \A i \in 1 .. Len(SettingKeys) : SettingKeys[i] \in SetKeys
  BY <1>1
<1>3. \A k \in SetKeys : \E i \in 1 .. Len(SettingKeys) : SettingKeys[i] = k
  BY <1>2 DEF SetKeys, ToSet
<1>4. \A k \in SetKeys : SettingMax[k] \in Nat /\ SettingDef[k] \in Nat /\ SettingDef[k] <= SettingMax[k]
  BY <1>1
<1> QED BY <1>1, <1>2, <1>3, <1>4

(* An event more in the bus, and one less.                                 *)
LEMMA EventAdded ==
  ASSUME NEW s \in Seq(SetKeys), NEW k \in SetKeys
  PROVE  Append(s, k) \in Seq(SetKeys) /\ ToSet(Append(s, k)) = ToSet(s) \cup {k}
<1>1. /\ Append(s, k) \in Seq(SetKeys) /\ Len(Append(s, k)) = Len(s) + 1 /\ Len(s) \in Nat
      /\ Append(s, k)[Len(s) + 1] = k /\ \A i \in 1 .. Len(s) : Append(s, k)[i] = s[i]
  OBVIOUS
<1>2. DOMAIN Append(s, k) = 1 .. Len(s) + 1 /\ DOMAIN s = 1 .. Len(s)
  BY <1>1
<1>3. ASSUME NEW x \in ToSet(Append(s, k)) PROVE x \in ToSet(s) \cup {k}
  BY <1>1, <1>2, <1>3 DEF ToSet
<1>4. ASSUME NEW x \in ToSet(s) \cup {k} PROVE x \in ToSet(Append(s, k))
  <2>1. CASE x = k
    BY <1>1, <1>2, <2>1 DEF ToSet
  <2>2. CASE x \in ToSet(s)
    BY <1>1, <1>2, <2>2 DEF ToSet
  <2> QED BY <1>4, <2>1, <2>2
<1> QED BY <1>1, <1>3, <1>4

(* The events that remain when the oldest is taken, and it.                *)
LEMMA EventTaken ==
  ASSUME NEW s \in Seq(SetKeys), s # << >>
  PROVE  Head(s) \in SetKeys /\ Tail(s) \in Seq(SetKeys) /\ ToSet(s) \subseteq ToSet(Tail(s)) \cup {Head(s)}
<1>1. /\ Head(s) \in SetKeys /\ Tail(s) \in Seq(SetKeys) /\ Len(s) \in Nat /\ Len(s) > 0
      /\ Head(s) = s[1] /\ Len(Tail(s)) = Len(s) - 1
      /\ \A i \in 2 .. Len(s) : Tail(s)[i - 1] = s[i] /\ i - 1 \in 1 .. Len(Tail(s))
  OBVIOUS
<1>2. DOMAIN s = 1 .. Len(s) /\ DOMAIN Tail(s) = 1 .. Len(Tail(s))
  BY <1>1
<1>3. ASSUME NEW i \in 1 .. Len(s) PROVE s[i] \in ToSet(Tail(s)) \cup {Head(s)}
  <2>1. CASE i = 1
    BY <1>1, <2>1
  <2>2. CASE i # 1
    <3>1. i \in 2 .. Len(s)
      BY <1>1, <2>2
    <3> QED BY <1>1, <1>2, <3>1 DEF ToSet
  <2> QED BY <2>1, <2>2
<1> QED BY <1>1, <1>2, <1>3 DEF ToSet

(* One write more.                                                         *)
LEMMA OneMoreWrite ==
  ASSUME written \in Seq(StoreKeys \X Nat), NEW k \in StoreKeys, NEW v \in Nat,
         written' = Append(written, <<k, v>>)
  PROVE  /\ written' \in Seq(StoreKeys \X Nat) /\ written' # << >>
         /\ written # << >> => written'[1] = written[1]
         /\ written = << >> => written'[1] = <<k, v>>
         /\ WrittenKeys(Len(written))' = WrittenKeys(Len(written)) \cup {k}
         /\ \E i \in LastWrite(k, Len(written))' : written'[i] = <<k, v>>
         /\ \A j \in StoreKeys \ {k} : \A i \in LastWrite(j, Len(written)) :
              i \in LastWrite(j, Len(written))' /\ written'[i] = written[i]
<1> DEFINE n == Len(written)
<1>1. /\ written' \in Seq(StoreKeys \X Nat) /\ n \in Nat /\ Len(written') = n + 1
      /\ written'[n + 1] = <<k, v>> /\ \A i \in 1 .. n : written'[i] = written[i]
  OBVIOUS
<1>2. WrittenKeys(n)' = WrittenKeys(n) \cup {k}
  <2>1. ASSUME NEW i \in 1 .. n + 1 PROVE written'[i][1] \in WrittenKeys(n) \cup {k}
    <3>1. i = n + 1 \/ i \in 1 .. n
      BY <1>1
    <3> QED BY <1>1, <3>1 DEF WrittenKeys
  <2>2. ASSUME NEW i \in 1 .. n PROVE written[i][1] \in WrittenKeys(n)'
    <3>1. i \in 1 .. n + 1 /\ written'[i] = written[i]
      BY <1>1
    <3> QED BY <1>1, <3>1 DEF WrittenKeys
  <2>3. k \in WrittenKeys(n)'
    <3>1. n + 1 \in 1 .. n + 1 /\ written'[n + 1][1] = k
      BY <1>1
    <3> QED BY <1>1, <3>1 DEF WrittenKeys
  <2> QED BY <1>1, <2>1, <2>2, <2>3 DEF WrittenKeys
<1>3. n + 1 \in LastWrite(k, n)' /\ written'[n + 1] = <<k, v>>
  BY <1>1 DEF LastWrite
<1>4. ASSUME NEW j \in StoreKeys \ {k}, NEW i \in LastWrite(j, n)
      PROVE  i \in LastWrite(j, n)' /\ written'[i] = written[i]
  <2>1. i \in 1 .. n /\ written[i][1] = j /\ \A m \in i + 1 .. n : written[m][1] # j
    BY DEF LastWrite
  <2>2. i \in 1 .. n + 1 /\ written'[i] = written[i]
    BY <1>1, <2>1
  <2>3. ASSUME NEW m \in i + 1 .. n + 1 PROVE written'[m][1] # j
    <3>0. n \in Nat /\ i \in 1 .. n /\ m \in i + 1 .. n + 1
      BY <1>1, <2>1
    <3>1. m = n + 1 \/ m \in i + 1 .. n
      BY ONLY <3>0
    <3>2. m \in i + 1 .. n => m \in 1 .. n
      BY <1>1, <2>1
    <3> QED BY <1>1, <2>1, <3>1, <3>2
  <2> QED BY <1>1, <2>1, <2>2, <2>3 DEF LastWrite
<1>5. written' # << >> /\ (written # << >> => written'[1] = written[1])
      /\ (written = << >> => written'[1] = <<k, v>>)
  BY <1>1
<1> QED BY <1>1, <1>2, <1>3, <1>4, <1>5

(* What a reset leaves of a key that was not written since the commit.     *)
LEMMA UnwrittenSurvives ==
  ASSUME SetTypes, NEW n \in 0 .. Len(written), NEW k \in SetKeys, k \notin WrittenKeys(Len(written))
  PROVE  /\ k \in DOMAIN Surviving(n) <=> k \in DOMAIN onFlash
         /\ k \in DOMAIN onFlash => Surviving(n)[k] = onFlash[k]
<1>1. Len(written) \in Nat
  BY DEF SetTypes
<1>2. k \notin WrittenKeys(n)
  BY <1>1 DEF WrittenKeys
<1>3. DOMAIN Surviving(n) = DOMAIN onFlash \cup WrittenKeys(n)
  BY DEF Surviving
<1> QED BY <1>2, <1>3 DEF Surviving

(* And of one whose last write is of its value.                            *)
LEMMA NotedSurvives ==
  ASSUME SetTypes, NEW k \in SetKeys, Noted(k)
  PROVE  k \in DOMAIN Surviving(Len(written)) /\ Surviving(Len(written))[k] = value[k]
<1> DEFINE n == Len(written)
           last == CHOOSE i \in LastWrite(k, n) : TRUE
<1>0. n \in Nat
  BY DEF SetTypes
<1>1. PICK i \in LastWrite(k, n) : written[i][2] = value[k]
  BY DEF Noted
<1>2. last \in LastWrite(k, n)
  BY <1>1
<1> HIDE DEF last
<1>3. last = i
  BY <1>0, <1>1, <1>2 DEF LastWrite
<1>4. k \in WrittenKeys(n)
  BY <1>1 DEF WrittenKeys, LastWrite
<1>5. DOMAIN Surviving(n) = DOMAIN onFlash \cup WrittenKeys(n)
  BY DEF Surviving
<1>6. Surviving(n)[k] = written[last][2]
  BY <1>4 DEF Surviving, last
<1> QED BY <1>1, <1>3, <1>4, <1>5, <1>6

(* A store that survives without a schema is empty.                        *)
LEMMA SchemaSurvives ==
  ASSUME SetTypes, SchemaFirst, NEW n \in 0 .. Len(written), "schema" \notin DOMAIN Surviving(n)
  PROVE  DOMAIN Surviving(n) = {}
<1>0. Len(written) \in Nat
  BY DEF SetTypes
<1>1. DOMAIN Surviving(n) = DOMAIN onFlash \cup WrittenKeys(n)
  BY DEF Surviving
<1>2. DOMAIN onFlash = {} /\ (written # << >> => written[1][1] = "schema")
  BY <1>1 DEF SchemaFirst
<1>3. n = 0
  <2>1. SUFFICES ASSUME n # 0 PROVE FALSE
    OBVIOUS
  <2>2. 1 \in 1 .. n /\ written # << >>
    BY <1>0, <2>1
  <2>3. "schema" \in WrittenKeys(n)
    BY <1>2, <2>2 DEF WrittenKeys
  <2> QED BY <1>1, <2>3
<1>4. WrittenKeys(n) = {}
  BY <1>3 DEF WrittenKeys
<1> QED BY <1>1, <1>2, <1>4

(* What is not marked is what the next boot would load.                    *)
LEMMA UnmarkedIsLoaded ==
  ASSUME SetInv, hasStore, NEW n \in 0 .. Len(written), NEW k \in SetKeys, ~dirty[k]
  PROVE  value[k] = LoadedValue(Surviving(n), k)
<1>1. SetTypes /\ SchemaFirst /\ Kept(k) /\ k \notin WrittenKeys(Len(written))
  BY DEF SetInv, MarkedUntilCommitted
<1>2. /\ k \in DOMAIN Surviving(n) <=> k \in DOMAIN onFlash
      /\ k \in DOMAIN onFlash => Surviving(n)[k] = onFlash[k]
  BY <1>1, UnwrittenSurvives
<1>3. value[k] \in 0 .. SettingMax[k]
  BY TableFits DEF SetInv, SetTypes
<1>4. CASE k \in DOMAIN onFlash
  <2>1. "schema" \in DOMAIN Surviving(n)
    BY <1>1, <1>2, <1>4, SchemaSurvives
  <2> QED BY <1>1, <1>2, <1>3, <1>4, <2>1 DEF LoadedValue, SettingValid, Kept
<1>5. CASE k \notin DOMAIN onFlash
  BY <1>1, <1>2, <1>5 DEF LoadedValue, Kept
<1> QED BY <1>4, <1>5

-----------------------------------------------------------------------------
(* The steps.                                                              *)

(* What settings_core_load() comes to, from f, with a store or without.     *)
LoadFits(f, store, unread) ==
  /\ Values(store, f, unread) \in [SetKeys -> Nat]
  /\ \A k \in SetKeys : Values(store, f, unread)[k] <= SettingMax[k]
  /\ Marks(store, f, unread) \in [SetKeys -> BOOLEAN] /\ NewStore(store, f) \in BOOLEAN
  /\ \A k \in SetKeys : store = TRUE /\ ~Marks(store, f, unread)[k] =>
       Values(store, f, unread)[k] = IF k \in DOMAIN f THEN f[k] ELSE SettingDef[k]
  /\ AtLoad(store, f) \in [is : {"none", "commit", "restore"}, next : 0 .. Len(SettingKeys) + 1]
  /\ AtLoad(store, f).is = "none" => AtLoad(store, f) = Idle
  /\ AtLoad(store, f).next = 0

(* It does so from an empty store and from one with a schema.              *)
LEMMA LoadedFits ==
  ASSUME NEW f, NEW store \in BOOLEAN, NEW unread,
         DOMAIN f \subseteq StoreKeys, "schema" \notin DOMAIN f => DOMAIN f = {}
  PROVE  LoadFits(f, store, unread)
<1>1. ASSUME NEW k \in SetKeys
      PROVE  LoadedValue(f, k) \in Nat /\ LoadedValue(f, k) <= SettingMax[k]
  <2>1. SettingMax[k] \in Nat /\ SettingDef[k] \in Nat /\ SettingDef[k] <= SettingMax[k]
    BY TableFits
  <2>2. \A v : v \in 0 .. SettingMax[k] => v \in Nat /\ v <= SettingMax[k]
    BY <2>1
  <2>3. LoadedValue(f, k) = SettingDef[k] \/ LoadedValue(f, k) \in 0 .. SettingMax[k]
    BY DEF LoadedValue, SettingValid
  <2> QED BY <2>1, <2>2, <2>3
<1>2. /\ Values(store, f, unread) \in [SetKeys -> Nat]
      /\ \A k \in SetKeys : Values(store, f, unread)[k] <= SettingMax[k]
  <2>1. \A k \in SetKeys : SettingDef[k] \in Nat /\ SettingDef[k] <= SettingMax[k]
    BY TableFits
  <2> QED BY <1>1, <2>1 DEF Values
<1>3. Marks(store, f, unread) \in [SetKeys -> BOOLEAN] /\ NewStore(store, f) \in BOOLEAN
  BY DEF Marks, LoadedDirty, NewStore
<1>4. ASSUME store = TRUE, NEW k \in SetKeys, ~Marks(store, f, unread)[k]
      PROVE  Values(store, f, unread)[k] = IF k \in DOMAIN f THEN f[k] ELSE SettingDef[k]
  <2>1. (k \notin unread \/ "schema" \notin DOMAIN f) /\ ~LoadedDirty(f, k)
    BY <1>4 DEF Marks
  <2>2. Values(store, f, unread)[k] = IF k \in unread THEN SettingDef[k] ELSE LoadedValue(f, k)
    BY <1>4 DEF Values
  <2>3. LoadedValue(f, k) = IF k \in DOMAIN f THEN f[k] ELSE SettingDef[k]
    BY <2>1 DEF LoadedDirty, LoadedValue
  <2> QED BY <2>1, <2>2, <2>3
<1>5. Len(SettingKeys) \in Nat
  BY TableFits
<1>6. /\ AtLoad(store, f) \in [is : {"none", "commit", "restore"}, next : 0 .. Len(SettingKeys) + 1]
      /\ AtLoad(store, f).is = "none" => AtLoad(store, f) = Idle
      /\ AtLoad(store, f).next = 0
  BY <1>5 DEF AtLoad, Idle, Committing
<1> QED BY <1>2, <1>3, <1>4, <1>6 DEF LoadFits

(* The state a boot leaves, with a store or without: what is loaded is kept. *)
Booted(f, store, unread) ==
  /\ onFlash = f /\ written = << >> /\ hasStore = store
  /\ value = Values(store, f, unread) /\ dirty = Marks(store, f, unread)
  /\ schemaDirty = NewStore(store, f) /\ job = AtLoad(store, f)
  /\ toApply = << >> /\ unheard = {} /\ applied = value

LEMMA Loaded ==
  ASSUME NEW f, NEW store \in BOOLEAN, NEW unread, Booted(f, store, unread),
         DOMAIN f \subseteq StoreKeys, "schema" \notin DOMAIN f => DOMAIN f = {}
  PROVE  SetInv
<1>1. LoadFits(f, store, unread)
  BY LoadedFits
<1>2. /\ written \in Seq(StoreKeys \X Nat) /\ Len(written) = 0 /\ toApply \in Seq(SetKeys)
  BY DEF Booted
<1>3. SetTypes /\ AppliedOrTold
  BY <1>1, <1>2 DEF LoadFits, SetTypes, AppliedOrTold, Booted
<1>4. hasStore => SchemaFirst
  BY DEF SchemaFirst, NewStore, Booted
<1>5. ASSUME hasStore = TRUE, NEW k \in SetKeys, ~dirty[k] PROVE Kept(k)
  BY <1>1, <1>5 DEF LoadFits, Kept, Booted
<1>6. WrittenKeys(Len(written)) = {}
  BY <1>2 DEF WrittenKeys
<1>7. ASSUME hasStore = TRUE PROVE MarkedUntilCommitted
  <2>1. job.next = 0
    BY <1>1 DEF LoadFits, Booted
  <2>2. \A k \in SetKeys : ~dirty[k] => Kept(k)
    BY <1>5, <1>7
  <2> QED BY <1>6, <2>1, <2>2, TableFits DEF MarkedUntilCommitted
<1>8. ~hasStore => job.is # "commit" /\ written = << >>
                   /\ ("schema" \notin DOMAIN onFlash => DOMAIN onFlash = {})
  BY DEF Booted, AtLoad, NewStore, Idle
<1> QED BY <1>3, <1>4, <1>7, <1>8 DEF SetInv

(* settings_core_set(), within a loop or not.                              *)
LEMMA SetValueStep ==
  ASSUME SetInv, NEW k \in SetKeys, NEW v \in 0 .. SettingMax[k], SetValue(k, v),
         job.is # "commit", job'.is # "commit",
         job' \in [is : {"none", "commit", "restore"}, next : 0 .. Len(SettingKeys) + 1],
         job'.is = "none" => job' = Idle
  PROVE  SetInv'
<1>0. /\ SetTypes /\ AppliedOrTold /\ v \in Nat /\ v <= SettingMax[k]
  BY TableFits DEF SetInv
<1>1. /\ value' \in [SetKeys -> Nat] /\ value'[k] = v
      /\ \A j \in SetKeys : j # k => value'[j] = value[j]
  BY <1>0 DEF SetValue, SetTypes
<1>2. /\ dirty' \in [SetKeys -> BOOLEAN]
      /\ \A j \in SetKeys : dirty'[j] <=> dirty[j] \/ (j = k /\ v # value[k])
  BY <1>0 DEF SetValue, SetTypes
<1>3. /\ toApply' \in Seq(SetKeys) /\ ToSet(toApply) \subseteq ToSet(toApply')
      /\ v # value[k] => k \in ToSet(toApply')
  BY <1>0, EventAdded DEF SetValue, SetTypes
<1>4. UNCHANGED <<schemaDirty, hasStore, onFlash, written, unheard, applied>>
  BY DEF SetValue, storeVars
<1>5. SetTypes'
  BY <1>0, <1>1, <1>2, <1>3, <1>4 DEF SetTypes
<1>6. AppliedOrTold'
  BY <1>0, <1>1, <1>3, <1>4 DEF AppliedOrTold
<1>7. hasStore => SchemaFirst' /\ MarkedUntilCommitted'
  <2>1. hasStore => SchemaFirst'
    BY <1>4 DEF SetInv, SchemaFirst
  <2>2. ASSUME hasStore, NEW j \in SetKeys, ~dirty'[j]
        PROVE  Kept(j)' /\ (j \notin WrittenKeys(Len(written)))'
    <3>1. ~dirty[j] /\ value'[j] = value[j]
      BY <1>1, <1>2, <2>2
    <3> QED BY <1>4, <2>2, <3>1 DEF SetInv, MarkedUntilCommitted, Kept, WrittenKeys
  <2> QED BY <2>1, <2>2 DEF MarkedUntilCommitted
<1> QED BY <1>4, <1>5, <1>6, <1>7 DEF SetInv

(* app_settings step(): one value up or down, or to an end.                *)
LEMMA AdjustStep ==
  ASSUME SetInv, NEW k \in SetKeys, NEW dir \in {1, -1}, NEW wrap \in BOOLEAN,
         AdjustSetting(k, dir, wrap)
  PROVE  SetInv'
<1>1. SettingMax[k] \in Nat /\ value[k] \in Nat /\ value[k] <= SettingMax[k]
  BY TableFits DEF SetInv, SetTypes
<1>2. Stepped(k, dir, wrap) \in 0 .. SettingMax[k]
  <2>1. value[k] + dir \in Int
    BY <1>1
  <2> QED BY <1>1, <2>1 DEF Stepped
<1>3. SetValue(k, Stepped(k, dir, wrap)) /\ job = Idle /\ job' = job
  BY DEF AdjustSetting
<1> HIDE DEF Stepped
<1>4. job.is = "none"
  BY <1>3 DEF Idle
<1>5. job \in [is : {"none", "commit", "restore"}, next : 0 .. Len(SettingKeys) + 1]
  BY DEF SetInv, SetTypes
<1> QED BY <1>2, <1>3, <1>4, <1>5, SetValueStep

(* A loop moves on from a key of the table, or from the schema.            *)
LEMMA LoopMoves ==
  ASSUME SetTypes, Onwards, job.next < Len(SettingKeys) + 1, job.is # "none"
  PROVE  /\ job' \in [is : {"none", "commit", "restore"}, next : 0 .. Len(SettingKeys) + 1]
         /\ job'.is = job.is /\ job'.next = job.next + 1
<1>1. Len(SettingKeys) \in Nat
  BY TableFits
<1>2. /\ job \in [is : {"none", "commit", "restore"}, next : 0 .. Len(SettingKeys) + 1]
  BY DEF SetTypes
<1>3. job.next + 1 \in 0 .. Len(SettingKeys) + 1
  BY <1>1, <1>2
<1>4. job' = [job EXCEPT !.next = job.next + 1]
  BY DEF Onwards
<1> QED BY <1>2, <1>3, <1>4

(* One setting of a restore.                                               *)
LEMMA RestoreKeyStep ==
  ASSUME SetInv, RestoreKey
  PROVE  SetInv'
<1> DEFINE k == SettingKeys[job.next]
<1>1. job.is = "restore" /\ job.next \in 1 .. Len(SettingKeys) /\ Len(SettingKeys) \in Nat
      /\ k \in SetKeys
  BY TableFits DEF RestoreKey, OnKey
<1>2. SetValue(k, SettingDef[k]) /\ SettingDef[k] \in 0 .. SettingMax[k]
  BY <1>1, TableFits DEF RestoreKey
<1>3. job.next < Len(SettingKeys) + 1 /\ job.is # "none"
  BY <1>1
<1>4. /\ job' \in [is : {"none", "commit", "restore"}, next : 0 .. Len(SettingKeys) + 1]
      /\ job'.is = "restore"
  BY <1>1, <1>3, LoopMoves DEF RestoreKey, SetInv
<1> HIDE DEF k
<1> QED BY <1>1, <1>2, <1>4, SetValueStep

(* A loop over the table begins, or ends, with nothing else changed.       *)
LEMMA LoopStarts ==
  ASSUME SetInv, UNCHANGED <<value, dirty, schemaDirty, storeVars, applyVars>>,
         job' \in {Idle, Restoring} \/ (job' = Committing /\ hasStore)
  PROVE  SetInv'
<1>0. Len(SettingKeys) \in Nat
  BY TableFits
<1>1. UNCHANGED <<value, dirty, schemaDirty, hasStore, onFlash, written, toApply, unheard, applied>>
  BY DEF storeVars, applyVars
<1>2. /\ job' \in [is : {"none", "commit", "restore"}, next : 0 .. Len(SettingKeys) + 1]
      /\ job'.is = "none" => job' = Idle
      /\ job'.is = "commit" => hasStore /\ job'.next = 0
  BY <1>0 DEF Idle, Restoring, Committing
<1>3. SetTypes' /\ AppliedOrTold'
  BY <1>1, <1>2 DEF SetInv, SetTypes, AppliedOrTold
<1>4. hasStore => SchemaFirst'
  BY <1>1 DEF SetInv, SchemaFirst
<1>5. hasStore => MarkedUntilCommitted'
  BY <1>1, <1>2 DEF SetInv, MarkedUntilCommitted, Kept, WrittenKeys
<1> QED BY <1>1, <1>2, <1>3, <1>4, <1>5 DEF SetInv

(* One set_u8 of a commit, of the schema or of the marked key it has come to. *)
LEMMA WriteStep ==
  ASSUME SetInv, hasStore, job.is = "commit", job.next < Len(SettingKeys) + 1,
         NEW k \in StoreKeys, NEW v \in Nat, NEW ok \in BOOLEAN, Write(k, v, ok),
         k = "schema" => job.next = 0,
         k # "schema" => job.next > 0 /\ k = SettingKeys[job.next] /\ dirty[k] /\ v = value[k]
  PROVE  SetInv'
<1>1. UNCHANGED <<value, dirty, schemaDirty, hasStore, onFlash, toApply, unheard, applied>>
  BY DEF Write, applyVars
<1>2. SetTypes /\ AppliedOrTold /\ SchemaFirst /\ MarkedUntilCommitted
  BY DEF SetInv
<1>3. written \in Seq(StoreKeys \X Nat) /\ job.next \in Nat
  BY <1>2, TableFits DEF SetTypes
<1>4. CASE ~ok
  <2>1. written' = written /\ job' = Idle
    BY <1>4 DEF Write
  <2> QED BY <1>1, <2>1, LoopStarts DEF storeVars, applyVars
<1>5. CASE ok
  <2> DEFINE n == Len(written)
  <2>1. written' = Append(written, <<k, v>>) /\ Onwards
    BY <1>5 DEF Write
  <2>2. /\ written' \in Seq(StoreKeys \X Nat) /\ written' # << >>
        /\ written # << >> => written'[1] = written[1]
        /\ written = << >> => written'[1] = <<k, v>>
        /\ WrittenKeys(n)' = WrittenKeys(n) \cup {k}
        /\ \E i \in LastWrite(k, n)' : written'[i] = <<k, v>>
        /\ \A j \in StoreKeys \ {k} : \A i \in LastWrite(j, n) :
             i \in LastWrite(j, n)' /\ written'[i] = written[i]
    BY <1>3, <2>1, OneMoreWrite
  <2>3. /\ job' \in [is : {"none", "commit", "restore"}, next : 0 .. Len(SettingKeys) + 1]
        /\ job'.is = "commit" /\ job'.next = job.next + 1
    BY <1>2, <2>1, LoopMoves
  <2>4. SetTypes'
    BY <1>1, <1>2, <2>2, <2>3 DEF SetTypes
  <2>5. AppliedOrTold'
    BY <1>1, <1>2 DEF AppliedOrTold
  <2>6. SchemaFirst'
    <3>1. ASSUME schemaDirty, written = << >> PROVE k = "schema"
      <4>1. n = 0 /\ WrittenKeys(n) = {}
        BY <3>1 DEF WrittenKeys
      <4> QED BY <1>2, <1>3, <3>1, <4>1 DEF MarkedUntilCommitted
    <3>2. ASSUME schemaDirty PROVE written'[1][1] = "schema"
      BY <1>2, <2>2, <3>1, <3>2 DEF SchemaFirst
    <3> QED BY <1>1, <1>2, <3>2 DEF SchemaFirst
  <2>7. ASSUME NEW j \in SetKeys, ~dirty[j]
        PROVE  Kept(j)' /\ j \notin WrittenKeys(n)'
    <3>1. j # k
      BY <2>7, TableFits
    <3> QED BY <1>1, <1>2, <2>2, <2>7, <3>1 DEF MarkedUntilCommitted, Kept
  <2>8. schemaDirty => "schema" \in WrittenKeys(n)'
    BY <1>2, <1>3, <2>2 DEF MarkedUntilCommitted
  <2>9. ASSUME NEW j \in 1 .. Len(SettingKeys), j < job'.next, dirty[SettingKeys[j]]
        PROVE  Noted(SettingKeys[j])'
    <3>1. SettingKeys[j] \in SetKeys /\ SettingKeys[j] # "schema"
      BY TableFits
    <3>2. CASE SettingKeys[j] = k
      BY <1>1, <2>2, <3>1, <3>2 DEF Noted
    <3>3. CASE SettingKeys[j] # k
      <4>1. k = "schema" => j < 1
        BY <1>3, <2>3, <2>9
      <4>2. j < job.next
        <5>1. j # job.next
          BY <3>3, <4>1
        <5>2. j <= job.next
          BY <1>3, <2>3, <2>9, TableFits
        <5> QED BY <1>3, <5>1, <5>2, TableFits
      <4>3. PICK i \in LastWrite(SettingKeys[j], n) : written[i][2] = value[SettingKeys[j]]
        BY <1>2, <2>9, <4>2 DEF MarkedUntilCommitted, Noted
      <4>4. SettingKeys[j] \in StoreKeys \ {k}
        BY <3>1, <3>3 DEF StoreKeys
      <4>5. i \in LastWrite(SettingKeys[j], n)' /\ written'[i] = written[i]
        BY <2>2, <4>4
      <4> QED BY <1>1, <4>3, <4>5 DEF Noted
    <3> QED BY <3>2, <3>3
  <2>10. MarkedUntilCommitted'
    BY <1>1, <2>7, <2>8, <2>9 DEF MarkedUntilCommitted
  <2> QED BY <1>1, <2>3, <2>4, <2>5, <2>6, <2>10 DEF SetInv
<1> QED BY <1>4, <1>5

(* A commit passes what is not marked.                                     *)
LEMMA SkipStep ==
  ASSUME SetInv, hasStore, job.is = "commit", job.next < Len(SettingKeys) + 1, Skip,
         job.next = 0 => ~schemaDirty,
         job.next > 0 => ~dirty[SettingKeys[job.next]]
  PROVE  SetInv'
<1>1. UNCHANGED <<value, dirty, schemaDirty, hasStore, onFlash, written, toApply, unheard, applied>>
  BY DEF Skip, storeVars, applyVars
<1>2. SetTypes /\ AppliedOrTold /\ SchemaFirst /\ MarkedUntilCommitted
  BY DEF SetInv
<1>3. /\ job' \in [is : {"none", "commit", "restore"}, next : 0 .. Len(SettingKeys) + 1]
      /\ job'.is = "commit" /\ job'.next = job.next + 1
  BY <1>2, LoopMoves DEF Skip
<1>4. SetTypes' /\ AppliedOrTold' /\ SchemaFirst'
  BY <1>1, <1>2, <1>3 DEF SetTypes, AppliedOrTold, SchemaFirst
<1>5. job.next \in Nat /\ Len(SettingKeys) \in Nat
  BY <1>2, TableFits DEF SetTypes
<1>6. ASSUME NEW j \in 1 .. Len(SettingKeys), j < job'.next, dirty[SettingKeys[j]]
      PROVE  Noted(SettingKeys[j])'
  <2>1. j < job.next
    BY <1>3, <1>5, <1>6
  <2> QED BY <1>1, <1>2, <1>6, <2>1 DEF MarkedUntilCommitted, Noted, LastWrite
<1>7. schemaDirty => "schema" \in WrittenKeys(Len(written))'
  BY <1>1, <1>2, <1>5 DEF MarkedUntilCommitted, WrittenKeys
<1>8. MarkedUntilCommitted'
  BY <1>1, <1>2, <1>6, <1>7 DEF MarkedUntilCommitted, Kept, WrittenKeys
<1> QED BY <1>1, <1>3, <1>4, <1>8 DEF SetInv

(* The steps of the loop settings_core_commit() makes.                     *)
LEMMA CommitLoopStep ==
  ASSUME SetInv, NEW ok \in BOOLEAN, CommitSchema(ok) \/ CommitKey(ok)
  PROVE  SetInv'
<1>0. SetTypes /\ hasStore /\ job.is = "commit" /\ Len(SettingKeys) \in Nat
  BY TableFits DEF SetInv, CommitSchema, CommitKey, AtStep, OnKey
<1>1. CASE CommitSchema(ok)
  <2>1. job.next = 0 /\ job.next < Len(SettingKeys) + 1 /\ "schema" \in StoreKeys /\ 1 \in Nat
    BY <1>0, <1>1 DEF CommitSchema, AtStep, StoreKeys
  <2>2. CASE schemaDirty
    BY <1>0, <1>1, <2>1, <2>2, WriteStep DEF CommitSchema
  <2>3. CASE ~schemaDirty
    BY <1>0, <1>1, <2>1, <2>3, SkipStep DEF CommitSchema
  <2> QED BY <2>2, <2>3
<1>2. CASE CommitKey(ok)
  <2> DEFINE k == SettingKeys[job.next]
  <2>1. job.next \in 1 .. Len(SettingKeys) /\ k \in SetKeys /\ k # "schema"
    BY <1>2, TableFits DEF CommitKey, OnKey
  <2>2. job.next < Len(SettingKeys) + 1 /\ job.next > 0 /\ k \in StoreKeys /\ value[k] \in Nat
    BY <1>0, <2>1 DEF StoreKeys, SetTypes
  <2>3. IF dirty[k] THEN Write(k, value[k], ok) ELSE Skip
    BY <1>2 DEF CommitKey
  <2> HIDE DEF k
  <2>4. CASE dirty[k]
    BY <1>0, <2>1, <2>2, <2>3, <2>4, WriteStep DEF k
  <2>5. CASE ~dirty[k]
    BY <1>0, <2>2, <2>3, <2>5, SkipStep DEF k
  <2> QED BY <2>4, <2>5
<1> QED BY <1>1, <1>2

(* What n surviving writes leave of a store has only the store's keys.     *)
LEMMA SurvivingKeys ==
  ASSUME SetTypes, NEW n \in 0 .. Len(written)
  PROVE  DOMAIN Surviving(n) \subseteq StoreKeys
<1>1. DOMAIN Surviving(n) = DOMAIN onFlash \cup WrittenKeys(n)
  BY DEF Surviving
<1>2. WrittenKeys(n) \subseteq StoreKeys
  <2>1. ASSUME NEW i \in 1 .. n PROVE written[i][1] \in StoreKeys
    <3>1. written[i] \in StoreKeys \X Nat
      BY DEF SetTypes
    <3> QED BY <3>1
  <2> QED BY <2>1 DEF WrittenKeys
<1> QED BY <1>1, <1>2 DEF SetTypes

(* The commit proper: everything that was marked is noted, and now safe.   *)
LEMMA CommitEndsStep ==
  ASSUME SetInv, NEW ok \in BOOLEAN, CommitEnds(ok)
  PROVE  SetInv'
<1> DEFINE n == Len(written)
<1>1. /\ job.is = "commit" /\ job.next = Len(SettingKeys) + 1 /\ job' = Idle /\ hasStore
      /\ UNCHANGED <<value, hasStore, toApply, unheard, applied>>
  BY DEF CommitEnds, AtStep, applyVars, SetInv
<1>2. SetTypes /\ AppliedOrTold /\ SchemaFirst /\ MarkedUntilCommitted /\ n \in Nat
  BY <1>1 DEF SetInv, SetTypes
<1>3. CASE UNCHANGED <<onFlash, written, dirty, schemaDirty>>
  BY <1>1, <1>3, LoopStarts DEF storeVars, applyVars
<1>4. CASE /\ onFlash' = Surviving(n) /\ written' = << >>
           /\ dirty' = [k \in SetKeys |-> FALSE] /\ schemaDirty' = FALSE
  <2>1. DOMAIN Surviving(n) \subseteq StoreKeys /\ n \in 0 .. Len(written)
    BY <1>2, SurvivingKeys
  <2>2. Idle \in [is : {"none", "commit", "restore"}, next : 0 .. Len(SettingKeys) + 1]
    BY TableFits DEF Idle
  <2>3. << >> \in Seq(StoreKeys \X Nat) /\ Len(<< >>) = 0
    OBVIOUS
  <2>4. SetTypes' /\ AppliedOrTold'
    BY <1>1, <1>2, <1>4, <2>1, <2>2, <2>3 DEF SetTypes, AppliedOrTold
  <2>5. "schema" \in DOMAIN Surviving(n)
    <3>1. DOMAIN Surviving(n) = DOMAIN onFlash \cup WrittenKeys(n)
      BY DEF Surviving
    <3>2. schemaDirty => "schema" \in WrittenKeys(n)
      BY <1>1, <1>2, TableFits DEF MarkedUntilCommitted
    <3> QED BY <1>2, <3>1, <3>2 DEF SchemaFirst
  <2>6. SchemaFirst'
    BY <1>4, <2>5 DEF SchemaFirst
  <2>7. ASSUME NEW k \in SetKeys PROVE Kept(k)'
    <3>1. CASE dirty[k]
      <4>1. PICK j \in 1 .. Len(SettingKeys) : SettingKeys[j] = k
        BY TableFits
      <4>2. j < job.next
        BY <1>1, TableFits
      <4>3. Noted(k)
        BY <1>1, <1>2, <3>1, <4>1, <4>2 DEF MarkedUntilCommitted
      <4>4. k \in DOMAIN Surviving(n) /\ Surviving(n)[k] = value[k]
        BY <1>2, <4>3, NotedSurvives
      <4> QED BY <1>1, <1>4, <4>4 DEF Kept
    <3>2. CASE ~dirty[k]
      <4>1. Kept(k) /\ k \notin WrittenKeys(n)
        BY <1>2, <3>2 DEF MarkedUntilCommitted
      <4>2. /\ k \in DOMAIN Surviving(n) <=> k \in DOMAIN onFlash
            /\ k \in DOMAIN onFlash => Surviving(n)[k] = onFlash[k]
        BY <1>2, <2>1, <4>1, UnwrittenSurvives
      <4> QED BY <1>1, <1>4, <4>1, <4>2 DEF Kept
    <3> QED BY <3>1, <3>2
  <2>8. WrittenKeys(Len(written))' = {}
    BY <1>4, <2>3 DEF WrittenKeys
  <2>9. MarkedUntilCommitted'
    BY <1>1, <2>7, <2>8 DEF MarkedUntilCommitted, Idle
  <2> QED BY <1>1, <2>4, <2>6, <2>9 DEF SetInv, Idle
<1> QED BY <1>3, <1>4 DEF CommitEnds

(* A first boot, with a store or without.                                  *)
LEMMA SetStarts == SetInit => SetInv
<1> SUFFICES ASSUME SetInit PROVE SetInv
  OBVIOUS
<1>1. /\ DOMAIN onFlash \subseteq StoreKeys
      /\ "schema" \notin DOMAIN onFlash => DOMAIN onFlash = {}
  BY DEF SetInit, StoreKeys, Erased
<1>2. PICK unread \in SUBSET SetKeys : Booted(onFlash, hasStore, unread)
  BY DEF SetInit, Booted
<1>3. hasStore \in BOOLEAN
  BY DEF SetInit
<1> QED BY <1>1, <1>2, <1>3, Loaded

(* What a reset leaves of a store is empty or has a schema, as is an erased one. *)
LEMMA StoreSurvives ==
  ASSUME SetInv, NEW n \in 0 .. Len(written), NEW f \in {Surviving(n), Erased}
  PROVE  DOMAIN f \subseteq StoreKeys /\ ("schema" \notin DOMAIN f => DOMAIN f = {})
<1>1. CASE f = Erased
  BY <1>1 DEF Erased
<1>2. CASE f = Surviving(n)
  <2>1. SetTypes
    BY DEF SetInv
  <2>2. DOMAIN Surviving(n) \subseteq StoreKeys
    BY <2>1, SurvivingKeys
  <2>3. CASE hasStore
    <3>1. SchemaFirst
      BY <2>3 DEF SetInv
    <3> QED BY <1>2, <2>1, <2>2, <3>1, SchemaSurvives
  <2>4. CASE ~hasStore
    <3>1. written = << >> /\ ("schema" \notin DOMAIN onFlash => DOMAIN onFlash = {})
      BY <2>4 DEF SetInv
    <3>2. n \in 0 .. 0
      BY <3>1
    <3>3. WrittenKeys(n) = {}
      BY <3>2 DEF WrittenKeys
    <3>4. DOMAIN Surviving(n) = DOMAIN onFlash \cup WrittenKeys(n)
      BY DEF Surviving
    <3> QED BY <1>2, <2>2, <3>1, <3>3, <3>4
  <2> QED BY <2>3, <2>4
<1> QED BY <1>1, <1>2

(* A reset and the boot after it.                                          *)
LEMMA RebootStep ==
  ASSUME SetInv, NEW n \in 0 .. Len(written), NEW f \in {Surviving(n), Erased},
         NEW store \in BOOLEAN, NEW unread, Reboot(f, store, unread)
  PROVE  SetInv'
<1>1. SetTypes
  BY DEF SetInv
<1>2. DOMAIN f \subseteq StoreKeys /\ ("schema" \notin DOMAIN f => DOMAIN f = {})
  BY StoreSurvives
<1>3. /\ onFlash' = f /\ written' = << >> /\ hasStore' = store
      /\ value' = Values(store, f, unread) /\ dirty' = Marks(store, f, unread)
      /\ schemaDirty' = NewStore(store, f) /\ job' = AtLoad(store, f)
      /\ toApply' = << >> /\ unheard' = {} /\ applied' = value'
  BY DEF Reboot
<1>4. LoadFits(f, store, unread)
  BY <1>2, LoadedFits
<1>5. written' \in Seq(StoreKeys \X Nat) /\ Len(written') = 0 /\ toApply' \in Seq(SetKeys)
  BY <1>3
<1>6. SetTypes' /\ AppliedOrTold'
  BY <1>1, <1>2, <1>3, <1>4, <1>5 DEF LoadFits, SetTypes, AppliedOrTold
<1>7. hasStore' => SchemaFirst'
  BY <1>2, <1>3 DEF SchemaFirst, NewStore
<1>8. ASSUME hasStore' = TRUE, NEW k \in SetKeys, ~dirty'[k] PROVE Kept(k)'
  BY <1>3, <1>4, <1>8 DEF LoadFits, Kept
<1>9. WrittenKeys(Len(written))' = {}
  BY <1>5 DEF WrittenKeys
<1>10. ASSUME hasStore' = TRUE PROVE MarkedUntilCommitted'
  <2>1. job'.next = 0
    BY <1>3, <1>4 DEF LoadFits
  <2>2. \A k \in SetKeys : ~dirty'[k] => Kept(k)'
    BY <1>8, <1>10
  <2> QED BY <1>9, <2>1, <2>2, TableFits DEF MarkedUntilCommitted
<1>11. ~hasStore' => /\ job'.is # "commit" /\ written' = << >>
                     /\ ("schema" \notin DOMAIN onFlash' => DOMAIN onFlash' = {})
  BY <1>2, <1>3 DEF AtLoad, NewStore, Idle
<1> QED BY <1>6, <1>7, <1>10, <1>11 DEF SetInv

(* An event is handled, or dropped: nothing of the settings themselves changes. *)
LEMMA EventStep ==
  ASSUME SetInv, SettingDropped \/ \E ok \in BOOLEAN : ApplySetting(ok)
  PROVE  SetInv'
<1> DEFINE k == Head(toApply)
<1>1. /\ UNCHANGED <<value, dirty, schemaDirty, hasStore, onFlash, written, job>>
      /\ toApply # << >> /\ toApply' = Tail(toApply)
  BY DEF SettingDropped, ApplySetting, storeVars
<1>2. SetTypes /\ AppliedOrTold
  BY DEF SetInv
<1>3. /\ k \in SetKeys /\ toApply' \in Seq(SetKeys)
      /\ ToSet(toApply) \subseteq ToSet(toApply') \cup {k}
  BY <1>1, <1>2, EventTaken DEF SetTypes
<1> HIDE DEF k
<1>4. \/ unheard' = unheard \cup {k} /\ applied' = applied
      \/ unheard' = unheard \ {k} /\ applied' = [applied EXCEPT ![k] = value[k]]
  BY DEF SettingDropped, ApplySetting, k
<1>5. SetTypes'
  BY <1>1, <1>2, <1>3, <1>4 DEF SetTypes
<1>6. AppliedOrTold'
  <2>1. CASE unheard' = unheard \cup {k} /\ applied' = applied
    BY <1>1, <1>2, <1>3, <2>1 DEF AppliedOrTold
  <2>2. CASE unheard' = unheard \ {k} /\ applied' = [applied EXCEPT ![k] = value[k]]
    <3>1. applied'[k] = value'[k] /\ \A j \in SetKeys : j # k => applied'[j] = applied[j]
      BY <1>1, <1>2, <1>3, <2>2 DEF SetTypes
    <3> QED BY <1>1, <1>2, <1>3, <2>2, <3>1 DEF AppliedOrTold
  <2> QED BY <1>4, <2>1, <2>2
<1>7. hasStore => SchemaFirst' /\ MarkedUntilCommitted'
  BY <1>1 DEF SetInv, SchemaFirst, MarkedUntilCommitted, Kept, Noted, WrittenKeys, LastWrite
<1> QED BY <1>1, <1>5, <1>6, <1>7 DEF SetInv

(* The loops begin and end.                                                *)
LEMMA LoopStep ==
  ASSUME SetInv, RestoreDefaults \/ RestoreEnds \/ Commit
  PROVE  SetInv'
<1>1. /\ UNCHANGED <<value, dirty, schemaDirty, storeVars, applyVars>>
      /\ job' \in {Idle, Restoring} \/ (job' = Committing /\ hasStore)
  BY DEF RestoreDefaults, RestoreEnds, Commit
<1> QED BY <1>1, LoopStarts

(* Every step keeps the invariant.                                         *)
LEMMA SetInvIsInductive == SetInv /\ [SetNext]_setVars => SetInv'
<1> SUFFICES ASSUME SetInv, [SetNext]_setVars PROVE SetInv'
  OBVIOUS
<1>1. ASSUME NEW k \in SetKeys,
             AdjustSetting(k, 1, TRUE) \/ AdjustSetting(k, 1, FALSE) \/ AdjustSetting(k, -1, FALSE)
      PROVE  SetInv'
  BY <1>1, AdjustStep
<1>2. CASE RestoreDefaults \/ RestoreEnds \/ Commit
  BY <1>2, LoopStep
<1>3. CASE RestoreKey
  BY <1>3, RestoreKeyStep
<1>4. ASSUME NEW ok \in BOOLEAN, CommitSchema(ok) \/ CommitKey(ok) \/ CommitEnds(ok)
      PROVE  SetInv'
  BY <1>4, CommitLoopStep, CommitEndsStep
<1>5. CASE SettingDropped \/ \E ok \in BOOLEAN : ApplySetting(ok)
  BY <1>5, EventStep
<1>6. ASSUME NEW n \in 0 .. Len(written), NEW store \in BOOLEAN, NEW unread \in SUBSET SetKeys,
             Reboot(Surviving(n), store, unread) \/ Reboot(Erased, store, unread)
      PROVE  SetInv'
  BY <1>6, RebootStep
<1>7. CASE UNCHANGED setVars
  <2>1. /\ UNCHANGED <<value, dirty, schemaDirty, hasStore, onFlash, written, job>>
        /\ UNCHANGED <<toApply, unheard, applied>>
    BY <1>7 DEF setVars, storeVars, applyVars
  <2> QED BY <2>1 DEF SetInv, SetTypes, AppliedOrTold, SchemaFirst, MarkedUntilCommitted,
                      Kept, Noted, WrittenKeys, LastWrite
<1> QED BY <1>1, <1>2, <1>3, <1>4, <1>5, <1>6, <1>7 DEF SetNext

(* Whatever writes fail or are cut short, a value that is not marked for   *)
(* writing is the one the next boot loads, and one that is not applied has *)
(* an event to come unless it was lost (settings_core.c, settings_apply.c). *)
THEOREM SettingsStay == SetSpec => []SettingsKept
<1>1. SetInv => SettingsKept
  <2>1. ASSUME SetInv, hasStore, NEW n \in 0 .. Len(written), NEW k \in SetKeys
        PROVE  dirty[k] \/ value[k] = LoadedValue(Surviving(n), k)
    BY <2>1, UnmarkedIsLoaded
  <2> QED BY <2>1 DEF SettingsKept, SetInv, AppliedOrTold
<1> QED BY <1>1, SetStarts, SetInvIsInductive, PTL DEF SetSpec

-----------------------------------------------------------------------------
(* The keys.  A sample makes of each key at most two actions, so all of    *)
(* them find room and the story of a key is that of these two; the cases   *)
(* of update_key() are gone through one by one.                            *)

KeyRecord == [raw : BOOLEAN, age : Nat, pressed : BOOLEAN, held : Nat, next : Int,
              repeats : Nat, long : BOOLEAN]
Told == [is : {"up", "down", "long"}, n : Nat]

(* What a subscriber knows of a key is what the core holds of it.          *)
Agree(t, st) ==
  /\ t.is # "up" <=> st.pressed
  /\ t.is = "long" <=> st.pressed /\ st.long
  /\ t.is # "up" => t.n = st.repeats

InputInv ==
  /\ keyState \in [Keys -> KeyRecord] /\ chord \in BOOLEAN /\ timing \in Timings
  /\ pendingTiming \in {<< >>} \cup {<<t>> : t \in Timings}
  /\ told \in [Keys -> Told] /\ hushed \in BOOLEAN
  /\ \A k \in Keys : Agree(told[k], keyState[k])
  /\ hushed <=> chord

(* A story of two actions at most.                                         *)
LEMMA ShortStories ==
  ASSUME NEW t, NEW hush, NEW acts, Len(acts) \in 0 .. 2
  PROVE  /\ Len(acts) = 0 => Story(t, acts, hush) = t
         /\ Len(acts) = 1 => Story(t, acts, hush) = Then(t, acts[1], hush)
         /\ Len(acts) = 2 => Story(t, acts, hush) = Then(Then(t, acts[1], hush), acts[2], hush)
<1> DEFINE N == 0 .. Len(acts)
           Fits(f) == f = [n \in N |-> IF n = 0 THEN t ELSE Then(f[n - 1], acts[n], hush)]
           one == Then(t, acts[1], hush)
           g == [n \in N |-> IF n = 0 THEN t ELSE IF n = 1 THEN one ELSE Then(one, acts[2], hush)]
           story == CHOOSE f : Fits(f)
<1>1. Story(t, acts, hush) = story[Len(acts)]
  BY DEF Story
<1> HIDE DEF one
<1>0. \A n \in N : n = 0 \/ n = 1 \/ n = 2
  <2> DEFINE m == Len(acts)
  <2>1. m \in 0 .. 2
    OBVIOUS
  <2> HIDE DEF m
  <2>2. \A n \in 0 .. m : n = 0 \/ n = 1 \/ n = 2
    BY <2>1
  <2> QED BY <2>2 DEF m
<1>2. ASSUME NEW n \in N
      PROVE  g[n] = IF n = 0 THEN t ELSE Then(g[n - 1], acts[n], hush)
  <2>1. n = 0 \/ n = 1 \/ n = 2
    BY <1>0
  <2>2. CASE n = 0
    BY <2>2
  <2>3. CASE n = 1
    <3>1. g[1] = one /\ g[0] = t
      BY <2>3
    <3> QED BY <2>3, <3>1 DEF one
  <2>4. CASE n = 2
    <3>1. g[2] = Then(one, acts[2], hush) /\ g[1] = one
      BY <2>4
    <3> QED BY <2>4, <3>1
  <2> QED BY <2>1, <2>2, <2>3, <2>4
<1>3. Fits(g)
  BY <1>2
<1>4. Fits(story)
  BY <1>3
<1> HIDE DEF story, g
<1>5. \A n \in N : story[n] = IF n = 0 THEN t ELSE Then(story[n - 1], acts[n], hush)
  BY <1>4
<1>6. story[0] = t
  <2>1. 0 \in N
    OBVIOUS
  <2> QED BY <1>5, <2>1
<1>7. Len(acts) > 0 => story[1] = one
  <2>1. Len(acts) > 0 => 1 \in N
    OBVIOUS
  <2> QED BY <1>5, <1>6, <2>1 DEF one
<1>8. Len(acts) = 2 => story[2] = Then(one, acts[2], hush)
  <2>1. Len(acts) = 2 => 2 \in N
    OBVIOUS
  <2> QED BY <1>5, <1>7, <2>1
<1>9. CASE Len(acts) = 0
  BY <1>1, <1>6, <1>9
<1>10. CASE Len(acts) = 1
  BY <1>1, <1>7, <1>10 DEF one
<1>11. CASE Len(acts) = 2
  BY <1>1, <1>8, <1>11 DEF one
<1> QED BY <1>9, <1>10, <1>11

(* What a sample makes of a key's level leaves what it was told.           *)
LEMMA LevelFits ==
  ASSUME InputInv, NEW k \in Keys, NEW raw \in BOOLEAN, NEW gap \in Nat
  PROVE  /\ Level(k, raw, gap) \in KeyRecord
         /\ Level(k, raw, gap).pressed = keyState[k].pressed
         /\ Level(k, raw, gap).long = keyState[k].long
         /\ Level(k, raw, gap).repeats = keyState[k].repeats
<1>1. keyState[k] \in KeyRecord /\ Debounce \in Nat
  BY InputAssumption DEF InputInv
<1> DEFINE st == keyState[k]
           age == IF raw # st.raw THEN 0 ELSE IF st.age + gap > Debounce THEN Debounce ELSE st.age + gap
           held == IF st.pressed THEN st.held + gap ELSE 0
<1>2. age \in Nat /\ held \in Nat
  BY <1>1 DEF KeyRecord
<1>3. Level(k, raw, gap) = [st EXCEPT !.raw = raw, !.age = age, !.held = held]
  BY DEF Level
<1> HIDE DEF age, held
<1> QED BY <1>1, <1>2, <1>3 DEF KeyRecord

(* One action after another, or none.                                      *)
LEMMA Concatenated ==
  ASSUME NEW a, NEW b
  PROVE  /\ << >> \o << >> = << >> /\ << >> \o <<a>> = <<a>> /\ <<a>> \o << >> = <<a>>
         /\ <<a>> \o <<b>> = <<a, b>> /\ <<a, b>> \o << >> = <<a, b>>
         /\ SubSeq(<< >>, 1, 0) = << >> /\ SubSeq(<<a>>, 1, 1) = <<a>>
         /\ SubSeq(<<a, b>>, 1, 2) = <<a, b>>
<1>1. /\ << >> \in Seq({a, b}) /\ <<a>> \in Seq({a, b}) /\ <<b>> \in Seq({a, b})
      /\ <<a, b>> \in Seq({a, b})
  OBVIOUS
<1>2. /\ Len(<< >>) = 0 /\ Len(<<a>>) = 1 /\ Len(<<b>>) = 1 /\ Len(<<a, b>>) = 2
  OBVIOUS
<1>3. << >> \o << >> = << >> /\ << >> \o <<a>> = <<a>> /\ <<a>> \o << >> = <<a>>
      /\ <<a, b>> \o << >> = <<a, b>>
  BY <1>1, ConcatEmptySeq
<1>4. SubSeq(<< >>, 1, 0) = << >> /\ SubSeq(<<a>>, 1, 1) = <<a>> /\ SubSeq(<<a, b>>, 1, 2) = <<a, b>>
  BY <1>1, <1>2, SubSeqFull
<1>5. <<a>> \o <<b>> = <<a, b>>
  <2> DEFINE s == <<a>> \o <<b>>
  <2>1. s \in Seq({a, b}) /\ Len(s) = 2 /\ \A i \in 1 .. 2 : s[i] = IF i <= 1 THEN <<a>>[i] ELSE <<b>>[i - 1]
    BY <1>1, <1>2, ConcatProperties
  <2>2. s[1] = a /\ s[2] = b
    BY <2>1
  <2> HIDE DEF s
  <2>3. \A i \in 1 .. Len(s) : s[i] = <<a, b>>[i]
    BY <2>1, <2>2
  <2>4. s = <<a, b>>
    BY <1>1, <1>2, <2>1, <2>3, SeqEqual
  <2> QED BY <2>4 DEF s
<1> QED BY <1>3, <1>4, <1>5

(* One key in one sample: its actions, two at most, take the subscriber    *)
(* from what it knew of the key to what the core now holds of it, a hushed *)
(* release standing for the end of the press.                              *)
LEMMA KeyTells ==
  ASSUME NEW k \in Keys, NEW st \in KeyRecord, NEW d \in Told, Agree(d, st), chord \in BOOLEAN,
         NEW t \in [delay : Nat, interval : Nat]
  PROVE  /\ KeyAfter(k, st, t) \in KeyRecord
         /\ KeyActs(k, st, t) = << >> \/ (\E a : KeyActs(k, st, t) = <<a>>)
              \/ (\E a, b : KeyActs(k, st, t) = <<a, b>>)
         /\ LET told1 == Story(d, KeyActs(k, st, t), Quiet(k))
                told2 == IF told1.is = "freed" THEN KeyUp ELSE told1
            IN /\ told1.is = "freed" => Quiet(k)
               /\ told2 \in Told /\ Agree(told2, KeyAfter(k, st, t))
<1> DEFINE acts == KeyActs(k, st, t)
           long == Act(k, "LONG", 0)
           rep == Act(k, "REPEAT", Repeated(st, t.interval).repeats)
           release == Act(k, "RELEASE", 0)
           short == Act(k, "SHORT", 0)
           q == Quiet(k)
<1>a. \A a, b : /\ << >> \o << >> = << >> /\ << >> \o <<a>> = <<a>> /\ <<a>> \o << >> = <<a>>
                /\ <<a>> \o <<b>> = <<a, b>> /\ <<a, b>> \o << >> = <<a, b>>
  BY Concatenated
<1>b. /\ Story(d, << >>, q) = d
      /\ \A a : Story(d, <<a>>, q) = Then(d, a, q)
      /\ \A a, b : Story(d, <<a, b>>, q) = Then(Then(d, a, q), b, q)
  <2>1. Story(d, << >>, q) = d
    BY ShortStories
  <2>2. ASSUME NEW a PROVE Story(d, <<a>>, q) = Then(d, a, q)
    <3>1. Len(<<a>>) = 1 /\ <<a>>[1] = a
      OBVIOUS
    <3> QED BY <3>1, ShortStories
  <2>3. ASSUME NEW a, NEW b PROVE Story(d, <<a, b>>, q) = Then(Then(d, a, q), b, q)
    <3>1. Len(<<a, b>>) = 2 /\ <<a, b>>[1] = a /\ <<a, b>>[2] = b
      OBVIOUS
    <3> QED BY <3>1, ShortStories
  <2> QED BY <2>1, <2>2, <2>3
<1>c. /\ st.pressed \in BOOLEAN /\ st.long \in BOOLEAN /\ st.repeats \in Nat /\ q \in BOOLEAN
      /\ LongDue(k, st) \in BOOLEAN /\ RepeatDue(k, st) \in BOOLEAN
  BY DEF KeyRecord, Quiet, LongDue, RepeatDue
<1>1. CASE Pressing(st)
  <2>0. ~st.pressed /\ ~Releasing(st) /\ ~Holding(st)
    BY <1>1 DEF Pressing, Releasing, Holding
  <2>1. acts = <<Act(k, "PRESS", 0)>> /\ ~st.pressed
    BY <1>1, <2>0 DEF KeyActs
  <2>2. KeyAfter(k, st, t) = Pressed(st, t)
    BY <1>1, <2>0 DEF KeyAfter
  <2>3. /\ Pressed(st, t) \in KeyRecord /\ Pressed(st, t).pressed /\ ~Pressed(st, t).long
        /\ Pressed(st, t).repeats = 0
    <3>1. t.delay \in Int
      OBVIOUS
    <3> QED BY <3>1 DEF Pressed, KeyRecord
  <2>4. Story(d, acts, q) = [is |-> "down", n |-> 0]
    <3>1. d.is = "up"
      BY <2>1 DEF Agree
    <3> QED BY <1>b, <2>1, <3>1 DEF Then, Legal, Heard, Act
  <2> QED BY <2>1, <2>2, <2>3, <2>4 DEF Told, Agree
<1>2. CASE Releasing(st)
  <2>0. st.pressed /\ ~Pressing(st) /\ ~Holding(st)
    BY <1>2 DEF Releasing, Pressing, Holding
  <2>1. d.is \in {"down", "long"} /\ (d.is = "long" <=> st.long)
    BY <2>0 DEF Agree, Told
  <2>2. KeyAfter(k, st, t) = [st EXCEPT !.pressed = FALSE]
    BY <1>2, <2>0 DEF KeyAfter
  <2>3. KeyAfter(k, st, t) \in KeyRecord /\ ~KeyAfter(k, st, t).pressed
    BY <2>2 DEF KeyRecord
  <2>4. acts = (IF LongDue(k, st) THEN <<long>> ELSE << >>) \o <<release>>
               \o (IF q \/ st.long \/ LongDue(k, st) THEN << >> ELSE <<short>>)
    BY <1>2, <2>0 DEF KeyActs
  <2>5. CASE LongDue(k, st)
    <3>0. ~q /\ ~st.long
      BY <2>5 DEF LongDue
    <3>1. acts = <<long, release>> /\ ~q /\ ~st.long
      <4>1. acts = (<<long>> \o <<release>>) \o << >>
        BY <2>4, <2>5
      <4> HIDE DEF acts, long, release, q
      <4> QED BY <1>a, <3>0, <4>1
    <3>2. Then(d, long, q).is = "long"
      BY <2>1, <3>1 DEF Then, Legal, Heard, Act, Told
    <3> DEFINE e == Then(d, long, q)
    <3>3. Story(d, acts, q) = Then(e, release, q)
      BY <1>b, <3>1
    <3> HIDE DEF e
    <3>4. Then(e, release, q) = KeyUp
      BY <3>2 DEF Then, Legal, Heard, Act, e
    <3> QED BY <2>3, <3>1, <3>3, <3>4 DEF KeyUp, Told, Agree
  <2>6. CASE ~LongDue(k, st) /\ (q \/ st.long)
    <3>1. acts = <<release>>
      BY <1>a, <2>4, <2>6
    <3>2. Story(d, acts, q) = IF d.is = "down" THEN [is |-> "freed", n |-> 0] ELSE KeyUp
      BY <1>b, <2>1, <3>1 DEF Then, Legal, Heard, Act
    <3> QED BY <2>1, <2>3, <2>6, <3>1, <3>2 DEF KeyUp, Told, Agree
  <2>7. CASE ~LongDue(k, st) /\ ~q /\ ~st.long
    <3>1. acts = <<release, short>>
      BY <1>a, <2>4, <2>7
    <3>2. Then(d, release, q) = [is |-> "freed", n |-> 0]
      BY <2>1, <2>7 DEF Then, Legal, Heard, Act
    <3>3. Story(d, acts, q) = Then(Then(d, release, q), short, q)
      BY <1>b, <3>1
    <3> DEFINE e == [is |-> "freed", n |-> 0]
    <3>4. Then(e, short, q) = KeyUp
      BY <2>7 DEF Then, Legal, Heard, Act
    <3> QED BY <2>3, <3>1, <3>2, <3>3, <3>4 DEF KeyUp, Told, Agree
  <2> QED BY <1>c, <2>5, <2>6, <2>7
<1>3. CASE Holding(st)
  <2>0. st.pressed /\ ~Pressing(st) /\ ~Releasing(st)
    BY <1>3 DEF Holding, Pressing
  <2>1. d.is \in {"down", "long"} /\ (d.is = "long" <=> st.long) /\ d.n = st.repeats
    BY <2>0 DEF Agree, Told
  <2> DEFINE st1 == IF RepeatDue(k, st) THEN Repeated(st, t.interval) ELSE st
             d1 == IF RepeatDue(k, st) THEN [d EXCEPT !.n = st1.repeats] ELSE d
             new == KeyAfter(k, st, t)
  <2>2. new = [st1 EXCEPT !.long = @ \/ LongDue(k, st)]
    BY <1>3, <2>0 DEF KeyAfter
  <2>3. /\ st1 \in KeyRecord /\ st1.pressed /\ st1.long = st.long
        /\ RepeatDue(k, st) => st1.repeats = IF st.repeats < RepeatCap THEN st.repeats + 1 ELSE st.repeats
        /\ ~RepeatDue(k, st) => st1 = st
    <3> DEFINE n == IF st.repeats < RepeatCap THEN st.repeats + 1 ELSE st.repeats
               x == IF st.next + t.interval <= st.held THEN st.held + t.interval ELSE st.next + t.interval
    <3>1. n \in Nat /\ x \in Int
      BY DEF KeyRecord
    <3>2. Repeated(st, t.interval) = [st EXCEPT !.repeats = n, !.next = x]
      BY DEF Repeated
    <3> HIDE DEF x
    <3> QED BY <2>0, <3>1, <3>2 DEF KeyRecord
  <2>4. /\ new \in KeyRecord /\ new.pressed /\ (new.long <=> st.long \/ LongDue(k, st))
        /\ new.repeats = st1.repeats
    BY <1>c, <2>2, <2>3 DEF KeyRecord
  <2>5. acts = LET l == IF LongDue(k, st) THEN <<long>> ELSE << >>
                   r == IF RepeatDue(k, st) THEN <<rep>> ELSE << >>
               IN IF RepeatFirst(st) THEN r \o l ELSE l \o r
    BY <1>3, <2>0 DEF KeyActs
  <2>6. RepeatDue(k, st) => rep.repeat = st1.repeats /\ rep.key = k /\ k \in Repeating /\ rep.action = "REPEAT"
    BY DEF Act, RepeatDue
  <2>7. LongDue(k, st) => ~q /\ ~st.long /\ long.action = "LONG"
    BY DEF LongDue, Act
  <2> HIDE DEF st1, new, acts, rep, long, q
  <2>8. d1 \in Told /\ d1.is = d.is /\ d1.n = st1.repeats
    BY <1>c, <2>1, <2>3 DEF Told, KeyRecord
  <2>9. ASSUME RepeatDue(k, st), NEW e \in Told, e.is \in {"down", "long"}, e.n = st.repeats
        PROVE  Then(e, rep, q) = [e EXCEPT !.n = st1.repeats]
    BY <2>3, <2>6, <2>9 DEF Then, Legal, Heard
  <2>10. ASSUME LongDue(k, st), NEW e \in Told, e.is = "down"
         PROVE  Then(e, long, q) = [e EXCEPT !.is = "long"]
    BY <2>7, <2>10 DEF Then, Legal, Heard
  <2> DEFINE d2 == IF LongDue(k, st) THEN [d1 EXCEPT !.is = "long"] ELSE d1
  <2>11. /\ d2 \in Told /\ d2.is \in {"down", "long"} /\ d2.n = st1.repeats
         /\ d2.is = "long" <=> st.long \/ LongDue(k, st)
    BY <1>c, <2>1, <2>8 DEF Told
  <2>12. Story(d, acts, q) = d2
    <3>1. CASE ~RepeatDue(k, st) /\ ~LongDue(k, st)
      BY <1>a, <1>b, <2>5, <3>1
    <3>2. CASE RepeatDue(k, st) /\ ~LongDue(k, st)
      BY <1>a, <1>b, <2>1, <2>5, <2>9, <3>2
    <3>3. CASE ~RepeatDue(k, st) /\ LongDue(k, st)
      BY <1>a, <1>b, <2>1, <2>5, <2>7, <2>10, <3>3
    <3>4. CASE RepeatDue(k, st) /\ LongDue(k, st)
      <4>1. Then(d, rep, q) = d1 /\ Then(d1, long, q) = d2
        BY <2>1, <2>7, <2>8, <2>9, <2>10, <3>4
      <4>2. Then(d, long, q) = [d EXCEPT !.is = "long"]
        BY <2>1, <2>7, <2>10, <3>4
      <4>3. [d EXCEPT !.is = "long"] \in Told /\ [d EXCEPT !.is = "long"].is = "long"
            /\ [d EXCEPT !.is = "long"].n = st.repeats
        BY <2>1 DEF Told
      <4>4. Then(Then(d, long, q), rep, q) = d2
        <5>1. Then(Then(d, long, q), rep, q) = [[d EXCEPT !.is = "long"] EXCEPT !.n = st1.repeats]
          BY <2>9, <3>4, <4>2, <4>3
        <5>2. [[d EXCEPT !.is = "long"] EXCEPT !.n = st1.repeats]
                = [[d EXCEPT !.n = st1.repeats] EXCEPT !.is = "long"]
          BY DEF Told
        <5> QED BY <3>4, <5>1, <5>2
      <4>5. acts = <<rep, long>> \/ acts = <<long, rep>>
        BY <1>a, <2>5, <3>4
      <4> QED BY <1>b, <4>1, <4>4, <4>5
    <3> QED BY <1>c, <3>1, <3>2, <3>3, <3>4
  <2>13. acts = << >> \/ (\E a : acts = <<a>>) \/ (\E a, b : acts = <<a, b>>)
    BY <1>a, <2>5
  <2> HIDE DEF d2
  <2>14. Agree(d2, new)
    BY <2>4, <2>11 DEF Agree
  <2> QED BY <2>4, <2>11, <2>12, <2>13, <2>14 DEF acts, new, q
<1>4. CASE ~Pressing(st) /\ ~Releasing(st) /\ ~Holding(st)
  <2>1. acts = << >> /\ KeyAfter(k, st, t) = st
    BY <1>4 DEF KeyActs, KeyAfter
  <2>2. d.is # "freed"
    BY DEF Told
  <2> QED BY <1>b, <2>1, <2>2
<1> QED BY <1>1, <1>2, <1>3, <1>4

(* Two actions for each key and one for the chord find room, so that none  *)
(* is lost (INPUT_CORE_MAX_ACTIONS).                                       *)
LEMMA AllFindRoom ==
  ASSUME NEW acts, \A k \in Keys : acts[k] = << >> \/ (\E a : acts[k] = <<a>>)
                                     \/ (\E a, b : acts[k] = <<a, b>>)
  PROVE  ~Full(acts) /\ \A k \in Keys : Emitted(acts, k) = acts[k]
<1>1. ASSUME NEW k \in Keys
      PROVE  Len(acts[k]) \in 0 .. 2 /\ SubSeq(acts[k], 1, Len(acts[k])) = acts[k]
  <2>1. CASE acts[k] = << >>
    BY <2>1, Concatenated
  <2>2. CASE \E a : acts[k] = <<a>>
    <3>1. PICK a : acts[k] = <<a>>
      BY <2>2
    <3>2. SubSeq(<<a>>, 1, 1) = <<a>> /\ Len(<<a>>) = 1
      BY Concatenated
    <3> QED BY <3>1, <3>2
  <2>3. CASE \E a, b : acts[k] = <<a, b>>
    <3>1. PICK a, b : acts[k] = <<a, b>>
      BY <2>3
    <3>2. SubSeq(<<a, b>>, 1, 2) = <<a, b>> /\ Len(<<a, b>>) = 2
      BY Concatenated
    <3> QED BY <3>1, <3>2
  <2> QED BY <2>1, <2>2, <2>3
<1>2. /\ Used(acts, "UP") = 0 /\ Used(acts, "OK") = Len(acts["UP"])
      /\ Used(acts, "BACK") = Len(acts["UP"]) + Len(acts["OK"])
  BY DEF Used
<1> DEFINE up == Len(acts["UP"])
           ok == Len(acts["OK"])
           back == Len(acts["BACK"])
<1>a. up \in 0 .. 2 /\ ok \in 0 .. 2 /\ back \in 0 .. 2
  BY <1>1 DEF Keys
<1> HIDE DEF up, ok, back
<1>b. /\ up + ok + back < 7 /\ up <= 7 - 0 /\ ok <= 7 - up /\ back <= 7 - (up + ok)
  BY <1>a
<1>3. MaxActions = 7
  BY DEF MaxActions, KeyCount
<1>4. ~Full(acts)
  <2>1. Full(acts) <=> (up + ok) + back >= MaxActions
    BY <1>2 DEF Full, up, ok, back
  <2> QED BY <1>3, <1>a, <2>1
<1>5. ASSUME NEW k \in Keys PROVE Emitted(acts, k) = acts[k]
  <2>1. Emitted(acts, k) = SubSeq(acts[k], 1, Len(acts[k]))
    <3>1. Len(acts[k]) <= MaxActions - Used(acts, k)
      BY <1>2, <1>3, <1>b DEF Keys, up, ok, back
    <3> QED BY <3>1 DEF Emitted
  <2> QED BY <1>1, <2>1
<1> QED BY <1>4, <1>5

(* One sample.                                                             *)
LEMMA SampleStep ==
  ASSUME InputInv, NEW levels, NEW gap \in Gaps, Sample(levels, gap)
  PROVE  InputInv'
<1> DEFINE t == IF pendingTiming = << >> THEN timing ELSE pendingTiming[1]
           st == [k \in Keys |-> Level(k, k \in levels, gap)]
           down == [k \in Keys |-> KeyAfter(k, st[k], t)]
           latch == ChordAfter(down["OK"].pressed, down["BACK"].pressed)
           acts == [k \in Keys |-> KeyActs(k, st[k], t)]
           after == [k \in Keys |-> Story(told[k], Emitted(acts, k), hushed /\ k \in ChordKeys)]
           held(k) == after[k].is \in {"down", "long"}
<1>1. /\ keyState' = down /\ chord' = latch /\ timing' = t /\ pendingTiming' = << >>
      /\ told' = [k \in Keys |->
                    IF after[k].is = "freed" /\ hushed /\ k \in ChordKeys THEN KeyUp ELSE after[k]]
      /\ hushed' = ((hushed \/ (latch /\ ~chord /\ ~Full(acts))) /\ (held("OK") \/ held("BACK")))
  BY DEF Sample
<1>2. t \in Timings /\ t \in [delay : Nat, interval : Nat] /\ gap \in Nat
  BY InputAssumption DEF InputInv
<1>3. ASSUME NEW k \in Keys
      PROVE  st[k] \in KeyRecord /\ Agree(told[k], st[k]) /\ told[k] \in Told
  <2>1. /\ st[k] \in KeyRecord /\ st[k].pressed = keyState[k].pressed
        /\ st[k].long = keyState[k].long /\ st[k].repeats = keyState[k].repeats
    <3>1. (k \in levels) \in BOOLEAN /\ st[k] = Level(k, k \in levels, gap)
      OBVIOUS
    <3> QED BY <1>2, <3>1, LevelFits
  <2>2. Agree(told[k], keyState[k]) /\ told[k] \in Told
    BY DEF InputInv
  <2> QED BY <2>1, <2>2 DEF Agree
<1> HIDE DEF st, t
<1>4. ASSUME NEW k \in Keys
      PROVE  /\ down[k] \in KeyRecord
             /\ acts[k] = << >> \/ (\E a : acts[k] = <<a>>) \/ (\E a, b : acts[k] = <<a, b>>)
             /\ LET told1 == Story(told[k], acts[k], Quiet(k))
                    told2 == IF told1.is = "freed" THEN KeyUp ELSE told1
                IN /\ told1.is = "freed" => Quiet(k)
                   /\ told2 \in Told /\ Agree(told2, down[k])
  BY <1>2, <1>3, KeyTells DEF InputInv
<1> HIDE DEF acts, down
<1>5. ~Full(acts) /\ \A k \in Keys : Emitted(acts, k) = acts[k]
  BY <1>4, AllFindRoom
<1>6. ASSUME NEW k \in Keys
      PROVE  /\ told'[k] \in Told /\ Agree(told'[k], down[k])
             /\ held(k) <=> down[k].pressed
  <2>1. (hushed /\ k \in ChordKeys) = Quiet(k)
    BY DEF InputInv, Quiet
  <2>2. after[k] = Story(told[k], acts[k], Quiet(k))
    BY <1>5, <2>1
  <2>3. told'[k] = IF after[k].is = "freed" THEN KeyUp ELSE after[k]
    BY <1>1, <1>4, <2>1, <2>2
  <2>4. told'[k] \in Told /\ Agree(told'[k], down[k])
    BY <1>4, <2>2, <2>3
  <2>5. held(k) <=> told'[k].is # "up"
    <3>1. CASE after[k].is = "freed"
      BY <2>3, <3>1 DEF KeyUp
    <3>2. CASE after[k].is # "freed"
      <4>1. told'[k] = after[k]
        BY <2>3, <3>2
      <4> QED BY <2>4, <4>1 DEF Told
    <3> QED BY <3>1, <3>2
  <2> QED BY <2>4, <2>5 DEF Agree
<1>7. "OK" \in Keys /\ "BACK" \in Keys
  BY DEF Keys
<1>8. /\ down["OK"].pressed \in BOOLEAN /\ down["BACK"].pressed \in BOOLEAN
      /\ chord \in BOOLEAN /\ hushed \in BOOLEAN
      /\ hushed <=> chord
  BY <1>4, <1>7 DEF KeyRecord, InputInv
<1>9. held("OK") <=> down["OK"].pressed
  BY <1>6, <1>7
<1>10. held("BACK") <=> down["BACK"].pressed
  BY <1>6, <1>7
<1> HIDE DEF after, held
<1>11. hushed' <=> chord'
  <2>1. hushed' = ((hushed \/ (latch /\ ~chord)) /\ (held("OK") \/ held("BACK")))
    BY <1>1, <1>5
  <2> DEFINE ok == down["OK"].pressed
             back == down["BACK"].pressed
  <2>2. held("OK") <=> ok
    BY <1>9
  <2>3. held("BACK") <=> back
    BY <1>10
  <2>4. chord' = IF chord THEN ok \/ back ELSE ok /\ back
    BY <1>1 DEF ChordAfter
  <2>5. hushed' <=> ((hushed \/ (chord' /\ ~chord)) /\ (ok \/ back))
    BY <1>1, <2>1, <2>2, <2>3
  <2>6. ok \in BOOLEAN /\ back \in BOOLEAN
    BY <1>8
  <2> HIDE DEF ok, back
  <2>7. CASE chord
    BY <1>8, <2>4, <2>5, <2>6, <2>7
  <2>8. CASE ~chord
    <3>1. chord' <=> ok /\ back
      BY <2>4, <2>8
    <3>2. ~hushed
      BY <1>8, <2>8
    <3>3. hushed' <=> chord' /\ (ok \/ back)
      BY <2>5, <2>8, <3>2
    <3> QED BY <3>1, <3>3
  <2> QED BY <2>7, <2>8
<1>12. chord' \in BOOLEAN /\ hushed' \in BOOLEAN
  BY <1>1, <1>8 DEF ChordAfter
<1>13. keyState' \in [Keys -> KeyRecord]
  BY <1>1, <1>4 DEF down
<1>14. told' \in [Keys -> Told]
  <2>1. told' = [k \in Keys |-> told'[k]]
    BY <1>1
  <2> QED BY <1>6, <2>1
<1> QED BY <1>1, <1>2, <1>6, <1>11, <1>12, <1>13, <1>14 DEF InputInv

(* Every press tells one story (input_core_update()): whatever samples     *)
(* come late, in whatever order the keys move, with whatever timings.      *)
THEOREM KeysTellOneStory == InputSpec => []KeysTellTheirStory
<1>1. InputInit => InputInv
  <2> SUFFICES ASSUME InputInit PROVE InputInv
    OBVIOUS
  <2>1. Debounce \in Nat
    BY InputAssumption
  <2>2. keyState \in [Keys -> KeyRecord] /\ \A k \in Keys : ~keyState[k].pressed
    BY <2>1 DEF InputInit, KeyRecord
  <2>3. told \in [Keys -> Told] /\ \A k \in Keys : told[k].is = "up"
    BY DEF InputInit, Told, KeyUp
  <2>4. \A k \in Keys : Agree(told[k], keyState[k])
    BY <2>2, <2>3 DEF Agree
  <2> QED BY <2>2, <2>3, <2>4 DEF InputInit, InputInv
<1>2. InputInv /\ [InputNext]_inputVars => InputInv'
  <2> SUFFICES ASSUME InputInv, [InputNext]_inputVars PROVE InputInv'
    OBVIOUS
  <2>1. ASSUME NEW t \in Timings, SetTiming(t) PROVE InputInv'
    BY <2>1 DEF SetTiming, InputInv
  <2>2. ASSUME NEW levels, NEW gap \in Gaps, Sample(levels, gap) PROVE InputInv'
    BY <2>2, SampleStep
  <2>3. CASE UNCHANGED inputVars
    BY <2>3 DEF inputVars, InputInv
  <2> QED BY <2>1, <2>2, <2>3 DEF InputNext
<1>3. InputInv => KeysTellTheirStory
  BY DEF InputInv, Agree, Told, KeysTellTheirStory
<1> QED BY <1>1, <1>2, <1>3, PTL DEF InputSpec

(***************************************************************************)
(* The panel.  Every event damages at least the cells whose picture it     *)
(* changes, and the damage set keeps what it covers: absorb() ends with a  *)
(* box nothing joins after at most as many rounds as there are rects, and  *)
(* merging the cheapest pair makes room for one more.  First what a finite *)
(* set of numbers has: a smallest one, by well-founded induction.          *)
(***************************************************************************)

(* Some numbers have a smallest.                                           *)
LEMMA SmallestOf ==
  ASSUME NEW S \in SUBSET Nat, S # {}
  PROVE  \E n \in S : \A m \in S : n <= m
<1> DEFINE R == OpToRel(<, Nat)
<1>1. IsWellFoundedOn(R, Nat)
  BY NatLessThanWellFounded, Zenon
<1>2. \A m, n \in Nat : m < n => <<m, n>> \in R
  BY DEF OpToRel
<1> HIDE DEF R
<1>3. PICK n \in S : \A m \in S : ~(<<m, n>> \in R)
  BY <1>1, WFMin
<1>4. \A m \in S : m \in Nat /\ ~(m < n)
  BY <1>2, <1>3
<1> QED BY <1>4

(* A finite set has an element where a number it gives each is least: in a *)
(* smallest set without one, the rest without some element has one.        *)
LEMMA Lowest ==
  ASSUME NEW S, IsFiniteSet(S), S # {}, NEW g, \A s \in S : g[s] \in Int
  PROVE  \E s \in S : \A u \in S : g[s] <= g[u]
<1> DEFINE HasLowest(T) == \E s \in T : \A u \in T : g[s] <= g[u]
           Bad == {n \in Nat : \E T \in SUBSET S : T # {} /\ Cardinality(T) = n /\ ~HasLowest(T)}
<1> SUFFICES ASSUME ~HasLowest(S)  PROVE FALSE
  OBVIOUS
<1>1. Cardinality(S) \in Bad
  BY FS_CardinalityType
<1>2. PICK n \in Bad : \A m \in Bad : n <= m
  <2>1. Bad \in SUBSET Nat /\ Bad # {}
    BY <1>1
  <2> HIDE DEF Bad
  <2> QED BY <2>1, SmallestOf
<1>3. PICK T \in SUBSET S : T # {} /\ Cardinality(T) = n /\ ~HasLowest(T)
  OBVIOUS
<1>4. PICK x \in T : TRUE
  BY <1>3
<1> DEFINE Rest == T \ {x}
<1>5. IsFiniteSet(T)
  BY FS_Subset
<1>6. Cardinality(Rest) = n - 1 /\ IsFiniteSet(Rest)
  BY <1>3, <1>5, FS_RemoveElement
<1>7. Cardinality(Rest) \in Nat /\ n - 1 < n
  BY <1>6, FS_CardinalityType
<1>8. Rest # {}
  <2>1. ASSUME Rest = {}  PROVE FALSE
    <3>1. \A u \in T : u = x
      BY <2>1
    <3>2. g[x] \in Int
      OBVIOUS
    <3>3. \A u \in T : g[x] <= g[u]
      BY <3>1, <3>2
    <3> QED BY <3>3, <1>3
  <2> QED BY <2>1
<1>9. HasLowest(Rest)
  <2>1. ASSUME ~HasLowest(Rest)  PROVE FALSE
    <3>1. n - 1 \in Bad
      BY <1>6, <1>7, <1>8, <2>1
    <3>2. n \in Nat
      OBVIOUS
    <3> HIDE DEF Bad
    <3>3. n <= n - 1
      BY <3>1, <1>2
    <3> QED BY <3>2, <3>3
  <2> QED BY <2>1
<1>10. PICK y \in Rest : \A u \in Rest : g[y] <= g[u]
  BY <1>9
<1>11. g[x] \in Int /\ g[y] \in Int /\ \A u \in T : g[u] \in Int
  OBVIOUS
<1>12. CASE g[y] <= g[x]
  <2>1. \A u \in T : g[y] <= g[u]
    BY <1>10, <1>12
  <2> QED BY <2>1, <1>3
<1>13. CASE ~(g[y] <= g[x])
  <2>1. \A u \in T : g[x] <= g[u]
    BY <1>10, <1>11, <1>13
  <2> QED BY <2>1, <1>3
<1> QED BY <1>12, <1>13

(* The smallest of a finite set of integers, and the greatest.             *)
LEMMA MinIsIn ==
  ASSUME NEW S, IsFiniteSet(S), S # {}, S \subseteq Int
  PROVE  Min(S) \in S /\ \A u \in S : Min(S) <= u
<1> DEFINE g == [s \in S |-> s]
<1>1. \A s \in S : g[s] \in Int /\ g[s] = s
  OBVIOUS
<1> HIDE DEF g
<1>2. \E s \in S : \A u \in S : g[s] <= g[u]
  BY <1>1, Lowest
<1>3. \E s \in S : \A u \in S : s <= u
  BY <1>1, <1>2
<1> QED BY <1>3, Zenon DEF Min

(* Max() is one of them.                                                   *)
LEMMA MaxIsIn ==
  ASSUME NEW S, IsFiniteSet(S), S # {}, S \subseteq Int
  PROVE  Max(S) \in S
<1> DEFINE g == [s \in S |-> -s]
<1>1. \A s \in S : g[s] \in Int /\ g[s] = -s
  OBVIOUS
<1> HIDE DEF g
<1>2. \E s \in S : \A u \in S : g[s] <= g[u]
  BY <1>1, Lowest
<1>3. \E s \in S : \A u \in S : s >= u
  BY <1>1, <1>2
<1> QED BY <1>3, Zenon DEF Max

(* The boxes.                                                              *)
Boxes == [x0 : Int, y0 : Int, x1 : Int, y1 : Int]
Points == Int \X Int
Apart(d) == \A i, j \in DOMAIN d : i # j => ~Joins(d[i], d[j])

(* box_union() covers both boxes.                                          *)
LEMMA AroundCovers ==
  ASSUME NEW a \in Boxes, NEW b \in Boxes
  PROVE  /\ Around(a, b) \in Boxes
         /\ \A c \in Points : Inside(c, a) \/ Inside(c, b) => Inside(c, Around(a, b))
<1>1. /\ a.x0 \in Int /\ a.y0 \in Int /\ a.x1 \in Int /\ a.y1 \in Int
      /\ b.x0 \in Int /\ b.y0 \in Int /\ b.x1 \in Int /\ b.y1 \in Int
  BY DEF Boxes
<1>2. \A m, n \in Int : Least(m, n) \in Int /\ Least(m, n) <= m /\ Least(m, n) <= n
  BY DEF Least
<1>3. \A m, n \in Int : Most(m, n) \in Int /\ m <= Most(m, n) /\ n <= Most(m, n)
  BY DEF Most
<1> DEFINE u == Around(a, b)
<1>4. /\ u.x0 = Least(a.x0, b.x0) /\ u.y0 = Least(a.y0, b.y0)
      /\ u.x1 = Most(a.x1, b.x1) /\ u.y1 = Most(a.y1, b.y1)
  BY DEF Around, Box
<1>5. u \in Boxes
  BY <1>1, <1>2, <1>3 DEF Boxes, Around, Box
<1> HIDE DEF u
<1>6. /\ u.x0 \in Int /\ u.x0 <= a.x0 /\ u.x0 <= b.x0
      /\ u.y0 \in Int /\ u.y0 <= a.y0 /\ u.y0 <= b.y0
      /\ u.x1 \in Int /\ a.x1 <= u.x1 /\ b.x1 <= u.x1
      /\ u.y1 \in Int /\ a.y1 <= u.y1 /\ b.y1 <= u.y1
  <2>1. /\ u.x0 \in Int /\ u.x0 <= a.x0 /\ u.x0 <= b.x0
        /\ u.y0 \in Int /\ u.y0 <= a.y0 /\ u.y0 <= b.y0
    <3>1. /\ Least(a.x0, b.x0) \in Int /\ Least(a.x0, b.x0) <= a.x0 /\ Least(a.x0, b.x0) <= b.x0
          /\ Least(a.y0, b.y0) \in Int /\ Least(a.y0, b.y0) <= a.y0 /\ Least(a.y0, b.y0) <= b.y0
      BY <1>1, <1>2
    <3> QED BY <3>1, <1>4
  <2>2. /\ u.x1 \in Int /\ a.x1 <= u.x1 /\ b.x1 <= u.x1
        /\ u.y1 \in Int /\ a.y1 <= u.y1 /\ b.y1 <= u.y1
    <3>1. /\ Most(a.x1, b.x1) \in Int /\ a.x1 <= Most(a.x1, b.x1) /\ b.x1 <= Most(a.x1, b.x1)
          /\ Most(a.y1, b.y1) \in Int /\ a.y1 <= Most(a.y1, b.y1) /\ b.y1 <= Most(a.y1, b.y1)
      BY <1>1, <1>3
    <3> QED BY <3>1, <1>4
  <2> QED BY <2>1, <2>2
<1>7. ASSUME NEW c \in Points, Inside(c, a) \/ Inside(c, b)  PROVE Inside(c, u)
  <2>1. c[1] \in Int /\ c[2] \in Int
    BY DEF Points
  <2> QED BY <1>1, <1>6, <1>7, <2>1 DEF Inside
<1> QED BY <1>5, <1>7 DEF u

(* joins() does not tell its two boxes apart.                              *)
LEMMA JoinsEitherWay ==
  ASSUME NEW a, NEW b
  PROVE  Joins(a, b) <=> Joins(b, a)
BY Zenon DEF Joins

(* remove_at().                                                            *)
LEMMA RemovedAt ==
  ASSUME NEW S, NEW d \in Seq(S), NEW i \in DOMAIN d
  PROVE  /\ RemoveAt(d, i) \in Seq(S) /\ Len(RemoveAt(d, i)) = Len(d) - 1
         /\ \A j \in 1..Len(d) - 1 : RemoveAt(d, i)[j] = d[IF j < i THEN j ELSE j + 1]
<1> DEFINE p == SubSeq(d, 1, i - 1)
           q == SubSeq(d, i + 1, Len(d))
<1>1. Len(d) \in Nat /\ i \in 1..Len(d)
  OBVIOUS
<1>2. p \in Seq(S) /\ Len(p) = i - 1 /\ \A j \in 1..i - 1 : p[j] = d[j]
  BY <1>1, SubSeqProperties
<1>3. q \in Seq(S) /\ Len(q) = Len(d) - i /\ \A j \in 1..Len(d) - i : q[j] = d[i + j]
  <2>1. CASE i = Len(d)
    BY <2>1, <1>1
  <2>2. CASE i < Len(d)
    <3>1. \A j \in 1..Len(d) - i : (i + 1) + j - 1 = i + j
      BY <1>1
    <3> QED BY <3>1, <1>1, <2>2, SubSeqProperties
  <2> QED BY <1>1, <2>1, <2>2
<1> HIDE DEF p, q
<1>4. p \o q \in Seq(S) /\ Len(p \o q) = Len(d) - 1
  BY <1>1, <1>2, <1>3, ConcatProperties
<1>5. ASSUME NEW j \in 1..Len(d) - 1  PROVE (p \o q)[j] = d[IF j < i THEN j ELSE j + 1]
  <2>1. CASE j < i
    <3>1. (p \o q)[j] = p[j]
      BY <2>1, <1>1, <1>2, <1>3, <1>4
    <3> QED BY <3>1, <2>1, <1>1, <1>2
  <2>2. CASE ~(j < i)
    <3>1. (p \o q)[j] = q[j - (i - 1)]
      BY <2>2, <1>1, <1>2, <1>3, <1>4
    <3>2. j - (i - 1) \in 1..Len(d) - i /\ i + (j - (i - 1)) = j + 1
      BY <2>2, <1>1
    <3> QED BY <3>1, <3>2, <2>2, <1>3
  <2> QED BY <2>1, <2>2
<1> QED BY <1>4, <1>5 DEF RemoveAt, p, q

(* What stays lies apart as before, and only the box removed is uncovered. *)
LEMMA RestOf ==
  ASSUME NEW d \in Seq(Boxes), NEW i \in DOMAIN d
  PROVE  /\ Apart(d) => Apart(RemoveAt(d, i))
         /\ \A c : Covers(d, c) => Covers(RemoveAt(d, i), c) \/ Inside(c, d[i])
<1> DEFINE r == RemoveAt(d, i)
           from(j) == IF j < i THEN j ELSE j + 1
<1>1. r \in Seq(Boxes) /\ Len(r) = Len(d) - 1 /\ \A j \in 1..Len(d) - 1 : r[j] = d[from(j)]
  BY RemovedAt
<1>2. Len(d) \in Nat /\ i \in 1..Len(d)
  OBVIOUS
<1> HIDE DEF r
<1>3. DOMAIN r = 1..Len(d) - 1 /\ DOMAIN d = 1..Len(d)
  BY <1>1
<1>4. \A j \in 1..Len(d) - 1 : from(j) \in 1..Len(d)
  BY <1>2
<1>5. \A j, k \in 1..Len(d) - 1 : j # k => from(j) # from(k)
  BY <1>2
<1>6. \A k \in 1..Len(d) : k # i => \E j \in 1..Len(d) - 1 : from(j) = k
  <2> SUFFICES ASSUME NEW k \in 1..Len(d), k # i  PROVE \E j \in 1..Len(d) - 1 : from(j) = k
    OBVIOUS
  <2> DEFINE j == IF k < i THEN k ELSE k - 1
  <2>1. j \in 1..Len(d) - 1 /\ from(j) = k
    BY <1>2
  <2> QED BY <2>1
<1> HIDE DEF from
<1>7. ASSUME Apart(d)  PROVE Apart(r)
  BY <1>1, <1>3, <1>4, <1>5, <1>7 DEF Apart
<1>8. ASSUME NEW c, Covers(d, c)  PROVE Covers(r, c) \/ Inside(c, d[i])
  <2>1. PICK k \in 1..Len(d) : Inside(c, d[k])
    BY <1>8, <1>3 DEF Covers
  <2>2. CASE k = i
    BY <2>1, <2>2
  <2>3. CASE k # i
    <3>1. PICK j \in 1..Len(d) - 1 : from(j) = k
      BY <2>3, <1>6
    <3>2. Inside(c, r[j])
      BY <3>1, <1>1, <2>1
    <3> QED BY <3>2, <1>3 DEF Covers
  <2> QED BY <2>2, <2>3
<1> QED BY <1>7, <1>8 DEF r

(* One step of absorb(): some box is swallowed and still covered, or none  *)
(* joins the box that grows.                                               *)
Growing == [rects : Seq(Boxes), box : Boxes]
Keeps(s, t) ==
  \A c \in Points : Covers(s.rects, c) \/ Inside(c, s.box) => Covers(t.rects, c) \/ Inside(c, t.box)
Done(s) == \A i \in DOMAIN s.rects : ~Joins(s.rects[i], s.box)

(* A round keeps apart what was, covers what was, and makes one rect less  *)
(* unless nothing joins the box.                                           *)
LEMMA SwallowStep ==
  ASSUME NEW s \in Growing, Apart(s.rects)
  PROVE  /\ Swallow(s) \in Growing /\ Apart(Swallow(s).rects) /\ Keeps(s, Swallow(s))
         /\ Done(s) => Swallow(s) = s
         /\ ~Done(s) => Len(Swallow(s).rects) = Len(s.rects) - 1
<1> DEFINE hits == {i \in DOMAIN s.rects : Joins(s.rects[i], s.box)}
           first == Min(hits)
           t == [rects |-> RemoveAt(s.rects, first), box |-> Around(s.rects[first], s.box)]
<1>1. s.rects \in Seq(Boxes) /\ s.box \in Boxes
  BY DEF Growing
<1>2. Done(s) <=> hits = {}
  BY DEF Done
<1>3. Swallow(s) = IF hits = {} THEN s ELSE t
  BY Zenon DEF Swallow
<1>4. CASE hits = {}
  <2>1. Swallow(s) = s
    BY <1>3, <1>4
  <2>2. Keeps(s, s)
    BY DEF Keeps
  <2> QED BY <2>1, <2>2, <1>2, <1>4
<1>5. CASE hits # {}
  <2>1. IsFiniteSet(hits) /\ hits \subseteq Int
    <3>1. DOMAIN s.rects = 1..Len(s.rects) /\ Len(s.rects) \in Nat
      BY <1>1
    <3>2. IsFiniteSet(1..Len(s.rects))
      BY <3>1, FS_Interval
    <3>3. hits \subseteq 1..Len(s.rects)
      BY <3>1
    <3> HIDE DEF hits
    <3>4. IsFiniteSet(hits)
      BY <3>2, <3>3, FS_Subset
    <3> QED BY <3>3, <3>4
  <2>2. first \in hits
    <3> HIDE DEF hits
    <3> QED BY <2>1, <1>5, MinIsIn
  <2>3. first \in DOMAIN s.rects
    BY <2>2
  <2> HIDE DEF first, hits
  <2>4. s.rects[first] \in Boxes
    BY <1>1, <2>3
  <2>5. t \in Growing /\ Len(t.rects) = Len(s.rects) - 1
    BY <1>1, <2>3, <2>4, RemovedAt, AroundCovers DEF Growing
  <2>6. Apart(t.rects)
    BY <1>1, <2>3, RestOf
  <2>7. ASSUME NEW c \in Points, Covers(s.rects, c) \/ Inside(c, s.box)
        PROVE  Covers(t.rects, c) \/ Inside(c, t.box)
    <3>1. Inside(c, s.rects[first]) \/ Inside(c, s.box) => Inside(c, t.box)
      BY <1>1, <2>4, AroundCovers
    <3>2. Covers(s.rects, c) => Covers(t.rects, c) \/ Inside(c, s.rects[first])
      BY <1>1, <2>3, RestOf
    <3> QED BY <3>1, <3>2, <2>7, Zenon
  <2>8. Keeps(s, t)
    BY <2>7 DEF Keeps
  <2>9. Swallow(s) = t
    BY <1>3, <1>5
  <2> HIDE DEF t
  <2> QED BY <2>5, <2>6, <2>8, <2>9, <1>2, <1>5
<1> QED BY <1>4, <1>5

(* The rounds of absorb() are a function of how many there were.           *)
Rounds(d, b, n, f) ==
  f = [k \in 0..n |-> IF k = 0 THEN [rects |-> d, box |-> b] ELSE Swallow(f[k - 1])]

(* There is such a function: a smallest number of rounds without one would *)
(* have it from one round less.                                            *)
LEMMA RoundsExist ==
  ASSUME NEW d, NEW b, NEW n \in Nat
  PROVE  \E f : Rounds(d, b, n, f)
<1> DEFINE Bad == {m \in Nat : ~\E f : Rounds(d, b, m, f)}
<1>1. ASSUME n \in Bad  PROVE FALSE
  <2>1. PICK m \in Bad : \A l \in Bad : m <= l
    <3>1. Bad \in SUBSET Nat /\ Bad # {}
      BY <1>1
    <3> HIDE DEF Bad
    <3> QED BY <3>1, SmallestOf
  <2>2. m \in Nat /\ ~\E f : Rounds(d, b, m, f)
    OBVIOUS
  <2>3. CASE m = 0
    <3> DEFINE f == [k \in 0..0 |-> [rects |-> d, box |-> b]]
    <3>1. f = [k \in 0..0 |-> IF k = 0 THEN [rects |-> d, box |-> b] ELSE Swallow(f[k - 1])]
      <4>1. \A k \in 0..0 : k = 0
        OBVIOUS
      <4> QED BY <4>1
    <3> QED BY <3>1, <2>2, <2>3 DEF Rounds
  <2>4. CASE m # 0
    <3>1. m - 1 \in Nat /\ ~(m <= m - 1)
      BY <2>2, <2>4
    <3>2. m - 1 \notin Bad
      <4> HIDE DEF Bad
      <4> QED BY <2>1, <3>1
    <3>3. PICK g : Rounds(d, b, m - 1, g)
      BY <3>1, <3>2
    <3> DEFINE f == [k \in 0..m |-> IF k = 0 THEN [rects |-> d, box |-> b] ELSE Swallow(g[k - 1])]
    <3>4. \A k \in 0..m - 1 : f[k] = g[k]
      BY <3>1, <3>3 DEF Rounds
    <3>5. \A k \in 0..m : k # 0 => k - 1 \in 0..m - 1
      BY <3>1
    <3>6. \A k \in 0..m : k # 0 => f[k - 1] = g[k - 1]
      BY <3>4, <3>5
    <3>7. f = [k \in 0..m |-> IF k = 0 THEN [rects |-> d, box |-> b] ELSE Swallow(f[k - 1])]
      BY <3>6
    <3> QED BY <3>7, <2>2 DEF Rounds
  <2> QED BY <2>3, <2>4
<1> QED BY <1>1

(* absorb() and the box put last, after as many rounds as there are rects. *)
LEMMA AbsorbIsRounds ==
  ASSUME NEW d \in Seq(Boxes), NEW b \in Boxes
  PROVE  \E f : /\ Rounds(d, b, Len(d), f)
                /\ Absorb(d, b) = Append(f[Len(d)].rects, f[Len(d)].box)
<1> DEFINE f == CHOOSE f : Rounds(d, b, Len(d), f)
<1>1. Len(d) \in Nat
  OBVIOUS
<1>2. Rounds(d, b, Len(d), f)
  BY <1>1, RoundsExist
<1>3. Absorb(d, b) = Append(f[Len(d)].rects, f[Len(d)].box)
  BY DEF Absorb, Rounds
<1> QED BY <1>2, <1>3

(* What absorb() returns: the rects that did not join, and the grown box,  *)
(* apart from each other; whatever was covered is.                         *)
LEMMA Absorbed ==
  ASSUME NEW d \in Seq(Boxes), NEW b \in Boxes, Apart(d)
  PROVE  /\ Absorb(d, b) \in Seq(Boxes) /\ Apart(Absorb(d, b))
         /\ Len(Absorb(d, b)) \in 1..Len(d) + 1
         /\ \A c \in Points : Covers(d, c) \/ Inside(c, b) => Covers(Absorb(d, b), c)
<1> DEFINE N == Len(d)
           s0 == [rects |-> d, box |-> b]
<1>1. PICK f : Rounds(d, b, N, f) /\ Absorb(d, b) = Append(f[N].rects, f[N].box)
  BY AbsorbIsRounds
<1>2. N \in Nat
  OBVIOUS
<1>3. f[0] = s0 /\ \A k \in 0..N : k # 0 => f[k] = Swallow(f[k - 1])
  BY <1>1, <1>2 DEF Rounds
<1>4. s0 \in Growing /\ Apart(s0.rects) /\ Keeps(s0, s0) /\ Len(s0.rects) = N
  BY DEF Growing, Keeps
<1> HIDE DEF s0, N
<1> DEFINE Good(k) == /\ f[k] \in Growing /\ Apart(f[k].rects) /\ Keeps(s0, f[k])
                      /\ Done(f[k]) \/ Len(f[k].rects) <= N - k
                      /\ Len(f[k].rects) <= N
           Bad == {k \in 0..N : ~Good(k)}
<1>5. ASSUME Bad # {}  PROVE FALSE
  <2>1. PICK k \in Bad : \A l \in Bad : k <= l
    <3>1. Bad \in SUBSET Nat /\ Bad # {}
      BY <1>2, <1>5
    <3> HIDE DEF Bad
    <3> QED BY <3>1, SmallestOf
  <2>2. k \in 0..N /\ ~Good(k)
    OBVIOUS
  <2>3. k # 0
    <3>1. Good(0)
      BY <1>2, <1>3, <1>4
    <3> HIDE DEF Good
    <3> QED BY <3>1, <2>2
  <2>4. k - 1 \in 0..N /\ ~(k <= k - 1)
    BY <1>2, <2>2, <2>3
  <2>5. Good(k - 1)
    <3>1. k - 1 \notin Bad
      <4> HIDE DEF Bad
      <4> QED BY <2>1, <2>4
    <3> HIDE DEF Good
    <3> QED BY <3>1, <2>4
  <2> DEFINE s == f[k - 1]
  <2>6. f[k] = Swallow(s)
    BY <1>3, <2>2, <2>3
  <2>7. /\ s \in Growing /\ Apart(s.rects) /\ Keeps(s0, s)
        /\ Done(s) \/ Len(s.rects) <= N - (k - 1)
        /\ Len(s.rects) <= N
    BY <2>5
  <2> HIDE DEF s, Good, Bad
  <2>8. /\ Swallow(s) \in Growing /\ Apart(Swallow(s).rects) /\ Keeps(s, Swallow(s))
        /\ Done(s) => Swallow(s) = s
        /\ ~Done(s) => Len(Swallow(s).rects) = Len(s.rects) - 1
    BY <2>7, SwallowStep
  <2>9. Keeps(s0, Swallow(s))
    BY <2>7, <2>8, Zenon DEF Keeps
  <2>10. Len(s.rects) \in Nat /\ k \in Nat
    BY <2>7, <2>2 DEF Growing
  <2>11. CASE Done(s)
    <3>1. Swallow(s) = s
      BY <2>8, <2>11
    <3>2. Good(k)
      BY <2>6, <2>7, <2>11, <3>1 DEF Good
    <3> QED BY <3>2, <2>2
  <2>12. CASE ~Done(s)
    <3>1. Len(Swallow(s).rects) = Len(s.rects) - 1
      BY <2>8, <2>12
    <3>2. Len(Swallow(s).rects) <= N - k /\ Len(Swallow(s).rects) <= N
      BY <3>1, <2>7, <2>12, <2>10, <1>2
    <3>3. Good(k)
      BY <2>6, <2>8, <2>9, <3>2 DEF Good
    <3> QED BY <3>3, <2>2
  <2> QED BY <2>11, <2>12
<1>6. Good(N)
  <2>1. N \in 0..N
    BY <1>2
  <2>2. N \notin Bad
    BY <1>5
  <2> HIDE DEF Good
  <2> QED BY <2>1, <2>2
<1> DEFINE r == f[N].rects
           u == f[N].box
<1>7. r \in Seq(Boxes) /\ u \in Boxes /\ Apart(r) /\ Len(r) <= N /\ Keeps(s0, f[N])
  BY <1>6 DEF Growing
<1>8. \A i \in DOMAIN r : ~Joins(r[i], u)
  <2>1. CASE Done(f[N])
    BY <2>1 DEF Done
  <2>2. CASE ~Done(f[N])
    <3>1. Len(r) <= N - N
      BY <1>6, <2>2
    <3>2. DOMAIN r = 1..Len(r) /\ Len(r) \in Nat
      BY <1>7
    <3>3. Len(r) = 0
      BY <3>1, <3>2, <1>2
    <3> QED BY <3>2, <3>3
  <2> QED BY <2>1, <2>2
<1>9. Absorb(d, b) = Append(r, u)
  BY <1>1
<1>10. ASSUME NEW c \in Points, Covers(d, c) \/ Inside(c, b)
       PROVE  Covers(r, c) \/ Inside(c, u)
  <2>1. Covers(s0.rects, c) \/ Inside(c, s0.box)
    BY <1>10 DEF s0
  <2> QED BY <2>1, <1>7 DEF Keeps
<1> HIDE DEF r, u, Good, Bad
<1> DEFINE a == Append(r, u)
<1>11. a \in Seq(Boxes) /\ Len(a) = Len(r) + 1 /\ Len(r) \in Nat
  BY <1>7
<1>12. DOMAIN a = 1..Len(r) + 1 /\ DOMAIN r = 1..Len(r)
  BY <1>7, <1>11
<1>13. a[Len(r) + 1] = u /\ \A i \in 1..Len(r) : a[i] = r[i]
  BY <1>7, <1>11
<1> HIDE DEF a
<1>14. Apart(a)
  <2> SUFFICES ASSUME NEW i \in DOMAIN a, NEW j \in DOMAIN a, i # j
               PROVE  ~Joins(a[i], a[j])
    BY DEF Apart
  <2>1. i \in 1..Len(r) + 1 /\ j \in 1..Len(r) + 1
    BY <1>12
  <2>2. CASE i = Len(r) + 1
    <3>1. j \in 1..Len(r)
      BY <2>1, <2>2, <1>11
    <3>2. ~Joins(r[j], u)
      BY <3>1, <1>8, <1>12
    <3> QED BY <3>1, <3>2, <2>2, <1>13, JoinsEitherWay
  <2>3. CASE j = Len(r) + 1
    <3>1. i \in 1..Len(r)
      BY <2>1, <2>3, <1>11
    <3>2. ~Joins(r[i], u)
      BY <3>1, <1>8, <1>12
    <3> QED BY <3>1, <3>2, <2>3, <1>13
  <2>4. CASE i # Len(r) + 1 /\ j # Len(r) + 1
    <3>1. i \in 1..Len(r) /\ j \in 1..Len(r)
      BY <2>1, <2>4, <1>11
    <3>2. ~Joins(r[i], r[j])
      BY <3>1, <1>7, <1>12 DEF Apart
    <3> QED BY <3>1, <3>2, <1>13
  <2> QED BY <2>2, <2>3, <2>4
<1>15. ASSUME NEW c \in Points, Covers(d, c) \/ Inside(c, b)  PROVE Covers(a, c)
  <2>1. CASE Covers(r, c)
    <3>1. PICK i \in 1..Len(r) : Inside(c, r[i])
      BY <2>1, <1>12 DEF Covers
    <3>2. i \in DOMAIN a /\ a[i] = r[i]
      BY <1>11, <1>12, <1>13
    <3> QED BY <3>1, <3>2, Zenon DEF Covers
  <2>2. CASE Inside(c, u)
    <3>1. Len(r) + 1 \in DOMAIN a
      BY <1>11, <1>12
    <3> QED BY <3>1, <2>2, <1>13, Zenon DEF Covers
  <2> QED BY <2>1, <2>2, <1>10, <1>15
<1>16. Len(a) \in 1..N + 1
  BY <1>7, <1>11, <1>2
<1> QED BY <1>9, <1>11, <1>14, <1>15, <1>16 DEF a, N

(* Among finitely many pairs, the first of those a number is least for.    *)
LEMMA FirstLowest ==
  ASSUME NEW S, IsFiniteSet(S), S # {}, S \subseteq Int \X Int,
         NEW g, \A s \in S : g[s] \in Int
  PROVE  \E s \in S : \A u \in S \ {s} :
           \/ g[s] < g[u]
           \/ g[s] = g[u] /\ (s[1] < u[1] \/ (s[1] = u[1] /\ s[2] < u[2]))
<1>1. PICK a \in S : \A u \in S : g[a] <= g[u]
  BY Lowest
<1> DEFINE T1 == {u \in S : g[u] = g[a]}
           f1 == [u \in T1 |-> u[1]]
<1>2. PICK b \in T1 : \A u \in T1 : b[1] <= u[1]
  <2>1. IsFiniteSet(T1) /\ T1 # {}
    <3>1. T1 \subseteq S /\ a \in T1
      OBVIOUS
    <3> HIDE DEF T1
    <3> QED BY <3>1, FS_Subset
  <2>2. \A u \in T1 : f1[u] \in Int /\ f1[u] = u[1]
    OBVIOUS
  <2> HIDE DEF T1, f1
  <2>3. \E s \in T1 : \A u \in T1 : f1[s] <= f1[u]
    BY <2>1, <2>2, Lowest
  <2> QED BY <2>2, <2>3
<1> DEFINE T2 == {u \in T1 : u[1] = b[1]}
           f2 == [u \in T2 |-> u[2]]
<1>3. PICK s \in T2 : \A u \in T2 : s[2] <= u[2]
  <2>1. IsFiniteSet(T2) /\ T2 # {}
    <3>1. T2 \subseteq S /\ b \in T2
      OBVIOUS
    <3> HIDE DEF T2
    <3> QED BY <3>1, FS_Subset
  <2>2. \A u \in T2 : f2[u] \in Int /\ f2[u] = u[2]
    OBVIOUS
  <2> HIDE DEF T2, f2
  <2>3. \E t \in T2 : \A u \in T2 : f2[t] <= f2[u]
    BY <2>1, <2>2, Lowest
  <2> QED BY <2>2, <2>3
<1>4. s \in S /\ g[s] = g[a] /\ s[1] = b[1]
  OBVIOUS
<1>5. ASSUME NEW u \in S, u # s
      PROVE  \/ g[s] < g[u]
             \/ g[s] = g[u] /\ (s[1] < u[1] \/ (s[1] = u[1] /\ s[2] < u[2]))
  <2>1. g[s] \in Int /\ g[u] \in Int /\ g[s] <= g[u]
    BY <1>1, <1>4
  <2>2. s[1] \in Int /\ s[2] \in Int /\ u[1] \in Int /\ u[2] \in Int
    BY <1>4
  <2>3. ASSUME g[u] = g[s]  PROVE s[1] <= u[1]
    BY <2>3, <1>2, <1>4
  <2>4. ASSUME g[u] = g[s], u[1] = s[1]  PROVE s[2] <= u[2]
    BY <2>4, <1>3, <1>4
  <2>5. s = <<s[1], s[2]>> /\ u = <<u[1], u[2]>>
    BY <1>4
  <2>6. u[1] # s[1] \/ u[2] # s[2]
    BY <2>5, <1>5
  <2> HIDE DEF T1, T2
  <2> QED BY <2>1, <2>2, <2>3, <2>4, <2>6
<1> QED BY <1>4, <1>5

(* With two rects that become one there is one rect less at least.         *)
LEMMA MergedCheapest ==
  ASSUME NEW d \in Seq(Boxes), Apart(d), Len(d) >= 2
  PROVE  /\ MergeCheapest(d) \in Seq(Boxes) /\ Apart(MergeCheapest(d))
         /\ Len(MergeCheapest(d)) < Len(d)
         /\ \A c \in Points : Covers(d, c) => Covers(MergeCheapest(d), c)
<1> DEFINE pairs == {p \in (DOMAIN d) \X (DOMAIN d) : p[1] < p[2]}
           growth(p) == Area(Around(d[p[1]], d[p[2]])) - Area(d[p[1]]) - Area(d[p[2]])
           before(p, q) == \/ growth(p) < growth(q)
                           \/ growth(p) = growth(q) /\ (p[1] < q[1] \/ (p[1] = q[1] /\ p[2] < q[2]))
           best == CHOOSE p \in pairs : \A q \in pairs \ {p} : before(p, q)
           g == [p \in pairs |-> growth(p)]
<1>1. Len(d) \in Nat /\ DOMAIN d = 1..Len(d)
  OBVIOUS
<1>2. \A i \in DOMAIN d : d[i] \in Boxes
  OBVIOUS
<1>3. \A b \in Boxes : Area(b) \in Int
  BY DEF Boxes, Area
<1>4. \A p \in pairs : growth(p) \in Int
  <2> SUFFICES ASSUME NEW p \in pairs  PROVE growth(p) \in Int
    OBVIOUS
  <2>1. d[p[1]] \in Boxes /\ d[p[2]] \in Boxes
    BY <1>2
  <2>2. Around(d[p[1]], d[p[2]]) \in Boxes
    BY <2>1, AroundCovers
  <2> QED BY <2>1, <2>2, <1>3
<1>5. IsFiniteSet(pairs) /\ pairs # {} /\ pairs \subseteq Int \X Int
  <2>1. IsFiniteSet((DOMAIN d) \X (DOMAIN d))
    <3>1. IsFiniteSet(DOMAIN d)
      BY <1>1, FS_Interval
    <3> QED BY <3>1, FS_Product
  <2>2. pairs \subseteq (DOMAIN d) \X (DOMAIN d)
    OBVIOUS
  <2>3. <<1, 2>> \in pairs
    BY <1>1
  <2>4. pairs \subseteq Int \X Int
    BY <1>1
  <2> HIDE DEF pairs
  <2>5. IsFiniteSet(pairs)
    BY <2>1, <2>2, FS_Subset
  <2> QED BY <2>3, <2>4, <2>5
<1>6. best \in pairs
  <2> HIDE DEF growth, pairs
  <2>1. \A p \in pairs : g[p] = growth(p) /\ g[p] \in Int
    BY <1>4
  <2> HIDE DEF g
  <2>2. \E p \in pairs : \A q \in pairs \ {p} :
           \/ g[p] < g[q]
           \/ g[p] = g[q] /\ (p[1] < q[1] \/ (p[1] = q[1] /\ p[2] < q[2]))
    BY <1>5, <2>1, FirstLowest
  <2>3. \E p \in pairs : \A q \in pairs \ {p} : before(p, q)
    BY <2>1, <2>2
  <2> HIDE DEF before
  <2> QED BY <2>3
<1> DEFINE i == best[1]
           j == best[2]
           d1 == RemoveAt(d, j)
           d2 == RemoveAt(d1, i)
           u == Around(d[i], d[j])
<1>7. MergeCheapest(d) = Absorb(d2, u)
  BY Zenon DEF MergeCheapest
<1> HIDE DEF best, growth, before, g
<1>8. i \in 1..Len(d) /\ j \in 1..Len(d) /\ i < j
  BY <1>6, <1>1
<1> HIDE DEF i, j, pairs
<1>9. d[i] \in Boxes /\ d[j] \in Boxes
  BY <1>8, <1>1, <1>2
<1>10. u \in Boxes /\ \A c \in Points : Inside(c, d[i]) \/ Inside(c, d[j]) => Inside(c, u)
  BY <1>9, AroundCovers
<1>11. /\ d1 \in Seq(Boxes) /\ Len(d1) = Len(d) - 1 /\ d1[i] = d[i] /\ Apart(d1)
       /\ \A c : Covers(d, c) => Covers(d1, c) \/ Inside(c, d[j])
  <2>1. i \in 1..Len(d) - 1 /\ j \in DOMAIN d
    BY <1>8, <1>1
  <2>2. /\ d1 \in Seq(Boxes) /\ Len(d1) = Len(d) - 1
        /\ d1[i] = d[IF i < j THEN i ELSE i + 1]
    BY <2>1, RemovedAt
  <2>3. d1[i] = d[i]
    BY <2>2, <1>8
  <2>4. Apart(d1) /\ \A c : Covers(d, c) => Covers(d1, c) \/ Inside(c, d[j])
    BY <2>1, RestOf
  <2> QED BY <2>2, <2>3, <2>4
<1> HIDE DEF d1, u
<1>12. i \in DOMAIN d1
  BY <1>1, <1>8, <1>11
<1>13. /\ d2 \in Seq(Boxes) /\ Len(d2) = Len(d) - 2 /\ Apart(d2)
       /\ \A c : Covers(d1, c) => Covers(d2, c) \/ Inside(c, d[i])
  <2>1. d2 \in Seq(Boxes) /\ Len(d2) = Len(d1) - 1
    BY <1>11, <1>12, RemovedAt
  <2>2. Apart(d2) /\ \A c : Covers(d1, c) => Covers(d2, c) \/ Inside(c, d1[i])
    BY <1>11, <1>12, RestOf
  <2> QED BY <2>1, <2>2, <1>1, <1>11
<1> HIDE DEF d2
<1>14. /\ Absorb(d2, u) \in Seq(Boxes) /\ Apart(Absorb(d2, u))
       /\ Len(Absorb(d2, u)) \in 1..Len(d2) + 1
       /\ \A c \in Points : Covers(d2, c) \/ Inside(c, u) => Covers(Absorb(d2, u), c)
  BY <1>10, <1>13, Absorbed
<1>15. Len(Absorb(d2, u)) < Len(d)
  BY <1>14, <1>13, <1>1
<1>16. \A c \in Points : Covers(d, c) => Covers(Absorb(d2, u), c)
  BY <1>10, <1>11, <1>13, <1>14, Zenon
<1> QED BY <1>7, <1>14, <1>15, <1>16

(* ui_damage_add(): the damage set stays disjoint and in its bound, and    *)
(* covers what it did and the new area.                                    *)
LEMMA DamageAdded ==
  ASSUME NEW d \in Seq(Boxes), NEW b \in Boxes, Apart(d), Len(d) <= DamageMax
  PROVE  /\ WithDamage(d, b) \in Seq(Boxes) /\ Apart(WithDamage(d, b))
         /\ Len(WithDamage(d, b)) <= DamageMax
         /\ \A c \in Points : Covers(d, c) \/ Inside(c, b) => Covers(WithDamage(d, b), c)
<1>1. DamageMax \in Nat /\ DamageMax >= 1
  BY ScreensAssumption
<1>2. CASE IsEmpty(b)
  <2>1. \A c \in Points : ~Inside(c, b)
    BY <1>2 DEF IsEmpty, Inside, Points, Boxes
  <2>2. WithDamage(d, b) = d
    BY <1>2 DEF WithDamage
  <2> QED BY <2>1, <2>2
<1>3. CASE ~IsEmpty(b)
  <2> DEFINE all == Absorb(d, b)
  <2>1. /\ all \in Seq(Boxes) /\ Apart(all) /\ Len(all) \in 1..Len(d) + 1
        /\ \A c \in Points : Covers(d, c) \/ Inside(c, b) => Covers(all, c)
    BY Absorbed
  <2>2. WithDamage(d, b) = IF Len(all) <= DamageMax THEN all ELSE MergeCheapest(all)
    BY <1>3 DEF WithDamage
  <2> HIDE DEF all
  <2>3. CASE Len(all) <= DamageMax
    BY <2>1, <2>2, <2>3
  <2>4. CASE ~(Len(all) <= DamageMax)
    <3>1. Len(all) >= 2 /\ Len(all) = DamageMax + 1
      <4>1. Len(d) \in Nat
        OBVIOUS
      <4> QED BY <4>1, <2>1, <2>4, <1>1
    <3>2. /\ MergeCheapest(all) \in Seq(Boxes) /\ Apart(MergeCheapest(all))
          /\ Len(MergeCheapest(all)) < Len(all)
          /\ \A c \in Points : Covers(all, c) => Covers(MergeCheapest(all), c)
      BY <2>1, <3>1, MergedCheapest
    <3>3. Len(MergeCheapest(all)) <= DamageMax
      <4>1. Len(MergeCheapest(all)) \in Nat
        BY <3>2
      <4> QED BY <4>1, <3>1, <3>2, <1>1
    <3>4. WithDamage(d, b) = MergeCheapest(all)
      BY <2>2, <2>4
    <3>5. \A c \in Points : Covers(d, c) \/ Inside(c, b) => Covers(MergeCheapest(all), c)
      BY <2>1, <3>2, Zenon
    <3> QED BY <3>2, <3>3, <3>4, <3>5
  <2> QED BY <2>3, <2>4
<1> QED BY <1>2, <1>3

(***************************************************************************)
(* The selection and its window.                                           *)
(***************************************************************************)
Directions == {-1, 1}
Selections == [sel : Nat, top : Nat, has : BOOLEAN]

\* The row is in the window, and so is the header over it if the rows of heads are headers.
InView(n, heads, t) ==
  t.has => /\ t.top <= t.sel /\ t.sel < t.top + VisibleRows /\ t.sel < n
           /\ t.top > 0 => t.top + VisibleRows <= n
           /\ t.sel = t.top => t.sel - 1 \notin heads

\* The menu m has n rows, those in on enabled and those in heads headers.
MenuFits(n, on, heads, m) ==
  /\ n \in Nat /\ on \in SUBSET (0..n - 1) /\ heads \in SUBSET Nat /\ heads \cap on = {}
  /\ m \in Selections /\ InView(n, heads, m)

(* follow(): whatever row is selected from whatever window, the window     *)
(* holds it, and a header right above it.                                  *)
LEMMA FollowShows ==
  ASSUME NEW n \in Nat, NEW on \in SUBSET (0..n - 1), NEW heads \in SUBSET Nat,
         heads \cap on = {}, NEW sel \in on, NEW top \in Nat
  PROVE  /\ Placed(n, on, sel, top) \in Selections
         /\ InView(n, heads, Placed(n, on, sel, top))
<1> DEFINE f == Follow(n, on, sel, top)
           near == IF sel < top THEN sel
                   ELSE IF sel >= top + VisibleRows THEN sel + 1 - VisibleRows ELSE top
           last == Least(near, n - VisibleRows)
<1>1. VisibleRows \in Nat /\ VisibleRows >= 2
  BY ScreensAssumption
<1>2. sel \in Nat /\ sel < n
  OBVIOUS
<1>3. f = IF n <= VisibleRows THEN 0
          ELSE IF VisibleRows >= 2 /\ sel = last /\ last > 0 /\ last - 1 \notin on THEN last - 1
          ELSE last
  BY DEF Follow
<1>4. near \in Nat /\ near <= sel /\ sel < near + VisibleRows
  BY <1>1, <1>2
<1> HIDE DEF near, f
<1>5. CASE n <= VisibleRows
  <2>1. f = 0
    BY <1>3, <1>5
  <2>2. f \in Nat /\ f <= sel /\ sel < f + VisibleRows /\ ~(f > 0)
    BY <2>1, <1>1, <1>2, <1>5
  <2>3. ASSUME sel = f  PROVE sel - 1 \notin heads
    BY <2>1, <2>3
  <2> QED BY <2>2, <2>3, <1>2 DEF Placed, Selections, InView, f
<1>6. CASE ~(n <= VisibleRows)
  <2>1. last \in Nat /\ last <= sel /\ sel < last + VisibleRows /\ last + VisibleRows <= n
    BY <1>1, <1>2, <1>4, <1>6 DEF Least
  <2> HIDE DEF last
  <2>2. CASE sel = last /\ last > 0 /\ last - 1 \notin on
    <3>1. f = last - 1
      BY <1>1, <1>3, <1>6, <2>2
    <3>2. f \in Nat /\ f <= sel /\ sel < f + VisibleRows /\ f + VisibleRows <= n /\ sel # f
      BY <3>1, <2>1, <2>2, <1>1, <1>2
    <3> QED BY <3>2, <1>2 DEF Placed, Selections, InView, f
  <2>3. CASE ~(sel = last /\ last > 0 /\ last - 1 \notin on)
    <3>1. f = last
      BY <1>1, <1>3, <1>6, <2>3
    <3>2. f \in Nat /\ f <= sel /\ sel < f + VisibleRows /\ f + VisibleRows <= n
      BY <3>1, <2>1
    <3>3. ASSUME sel = f  PROVE sel - 1 \notin heads
      <4>1. CASE last > 0
        <5>1. sel - 1 \in on
          BY <4>1, <2>3, <3>1, <3>3
        <5> QED BY <5>1
      <4>2. CASE ~(last > 0)
        <5>1. sel = 0
          BY <4>2, <2>1, <3>1, <3>3
        <5>2. sel - 1 \notin Nat
          BY <5>1
        <5> QED BY <5>2
      <4> QED BY <4>1, <4>2
    <3> QED BY <3>2, <3>3, <1>2 DEF Placed, Selections, InView, f
  <2> QED BY <2>2, <2>3
<1> QED BY <1>5, <1>6

(* Rows of a menu are finitely many, so the first or nearest of some is.   *)
LEMMA SomeRows ==
  ASSUME NEW n \in Nat, NEW on \in SUBSET (0..n - 1)
  PROVE  IsFiniteSet(on) /\ on \subseteq Int
<1>1. IsFiniteSet(0..n - 1)
  BY FS_Interval
<1>2. IsFiniteSet(on)
  BY <1>1, FS_Subset
<1> QED BY <1>2

(* ui_menu_model_init().                                                   *)
LEMMA InitShows ==
  ASSUME NEW n \in Nat, NEW on \in SUBSET (0..n - 1), NEW heads \in SUBSET Nat, heads \cap on = {}
  PROVE  MenuInit(n, on) \in Selections /\ InView(n, heads, MenuInit(n, on))
<1>1. CASE on = {}
  BY <1>1 DEF MenuInit, Selections, InView
<1>2. CASE on # {}
  <2>1. Min(on) \in on
    BY <1>2, SomeRows, MinIsIn
  <2>2. MenuInit(n, on) = Placed(n, on, Min(on), 0)
    BY <1>2 DEF MenuInit
  <2>3. 0 \in Nat
    OBVIOUS
  <2> QED BY <2>1, <2>2, <2>3, FollowShows
<1> QED BY <1>1, <1>2

(* ui_menu_model_move(): to some enabled row, or nowhere.                  *)
LEMMA MoveShows ==
  ASSUME NEW n, NEW on, NEW heads, NEW m, MenuFits(n, on, heads, m), NEW d \in Directions
  PROVE  /\ MenuMove(n, on, m, d) \in Selections /\ InView(n, heads, MenuMove(n, on, m, d))
         /\ MenuMove(n, on, m, d).has = m.has
<1> DEFINE others == on \ {m.sel}
           ahead(i) == ((i - m.sel) * d) % n
           next == CHOOSE i \in others : \A j \in others : ahead(i) <= ahead(j)
           g == [i \in others |-> ahead(i)]
           t == MenuMove(n, on, m, d)
<1>0. /\ n \in Nat /\ on \in SUBSET (0..n - 1) /\ heads \in SUBSET Nat /\ heads \cap on = {}
      /\ m \in Selections /\ InView(n, heads, m)
  BY DEF MenuFits
<1>1. t = IF m.has /\ others # {} THEN Placed(n, on, next, m.top) ELSE m
  BY DEF MenuMove
<1>2. CASE ~(m.has /\ others # {})
  <2>1. t = m
    BY <1>0, <1>1, <1>2, Zenon
  <2> QED BY <1>0, <2>1, Zenon
<1>3. CASE m.has /\ others # {}
  <2>1. n > 0 /\ m.sel \in Nat /\ m.top \in Nat
    <3>1. PICK i \in others : TRUE
      BY <1>3
    <3>2. i \in 0..n - 1
      BY <1>0
    <3>3. m.sel \in Nat /\ m.top \in Nat
      BY <1>0 DEF Selections
    <3> QED BY <1>0, <3>2, <3>3
  <2>2. IsFiniteSet(others) /\ others \subseteq Int
    BY <1>0, SomeRows
  <2>3. \A i \in others : ahead(i) \in Int
    <3>1. \A x \in Int : x % n \in Int
      BY <1>0, <2>1
    <3>2. \A i \in others : (i - m.sel) * d \in Int
      BY <2>1, <2>2 DEF Directions
    <3> QED BY <3>1, <3>2
  <2>4. next \in others
    <3> HIDE DEF ahead, others
    <3>1. \A i \in others : g[i] = ahead(i) /\ g[i] \in Int
      BY <2>3
    <3> HIDE DEF g
    <3>2. \E i \in others : \A j \in others : g[i] <= g[j]
      BY <3>1, <2>2, <1>3, Lowest
    <3>3. \E i \in others : \A j \in others : ahead(i) <= ahead(j)
      BY <3>1, <3>2
    <3> QED BY <3>3
  <2>5. next \in on
    BY <2>4
  <2> HIDE DEF next
  <2>6. t = Placed(n, on, next, m.top)
    BY <1>1, <1>3
  <2>7. t \in Selections /\ InView(n, heads, t)
    BY <1>0, <2>1, <2>5, <2>6, FollowShows
  <2>8. t.has = TRUE /\ m.has = TRUE
    BY <2>6, <1>3 DEF Placed, Selections
  <2> QED BY <2>7, <2>8
<1> QED BY <1>2, <1>3

(* ui_menu_model_page().                                                   *)
LEMMA PageShows ==
  ASSUME NEW n, NEW on, NEW heads, NEW m, MenuFits(n, on, heads, m), NEW d \in Directions
  PROVE  /\ MenuPage(n, on, m, d) \in Selections /\ InView(n, heads, MenuPage(n, on, m, d))
         /\ MenuPage(n, on, m, d).has = m.has
<1> DEFINE target == IF d > 0 THEN Least(m.sel + VisibleRows, n - 1) ELSE Most(m.sel - VisibleRows, 0)
           beyond == {i \in on : (i - target) * d >= 0}
           pick == IF d > 0 THEN IF beyond # {} THEN Min(beyond) ELSE Max(on)
                   ELSE IF beyond # {} THEN Max(beyond) ELSE Min(on)
           t == MenuPage(n, on, m, d)
<1>0. /\ n \in Nat /\ on \in SUBSET (0..n - 1) /\ heads \in SUBSET Nat /\ heads \cap on = {}
      /\ m \in Selections /\ InView(n, heads, m)
  BY DEF MenuFits
<1>1. t = IF m.has /\ on # {} /\ pick # m.sel THEN Placed(n, on, pick, m.top) ELSE m
  BY DEF MenuPage
<1>2. CASE ~(m.has /\ on # {} /\ pick # m.sel)
  <2> HIDE DEF pick
  <2>1. t = m
    BY <1>0, <1>1, <1>2, Zenon
  <2> QED BY <1>0, <2>1, Zenon
<1>3. CASE m.has /\ on # {} /\ pick # m.sel
  <2>1. m.top \in Nat
    BY <1>0 DEF Selections
  <2>2. IsFiniteSet(on) /\ on \subseteq Int
    BY <1>0, SomeRows
  <2>3. IsFiniteSet(beyond) /\ beyond \subseteq Int /\ beyond \subseteq on
    <3>1. beyond \subseteq on
      OBVIOUS
    <3> HIDE DEF beyond
    <3>2. IsFiniteSet(beyond)
      BY <2>2, <3>1, FS_Subset
    <3> QED BY <2>2, <3>1, <3>2
  <2>4. pick \in on
    <3> HIDE DEF beyond
    <3>1. Min(on) \in on /\ Max(on) \in on
      BY <2>2, <1>3, MinIsIn, MaxIsIn
    <3>2. ASSUME beyond # {}  PROVE Min(beyond) \in on /\ Max(beyond) \in on
      BY <3>2, <2>3, MinIsIn, MaxIsIn
    <3> QED BY <3>1, <3>2
  <2> HIDE DEF pick
  <2>5. t = Placed(n, on, pick, m.top)
    BY <1>1, <1>3
  <2>6. t \in Selections /\ InView(n, heads, t)
    BY <1>0, <2>1, <2>4, <2>5, FollowShows
  <2>7. t.has = TRUE /\ m.has = TRUE
    BY <2>5, <1>3 DEF Placed, Selections
  <2> QED BY <2>6, <2>7
<1> QED BY <1>2, <1>3

(* ui_menu_refresh().                                                      *)
LEMMA RefreshShows ==
  ASSUME NEW on \in CapSets, NEW m \in Selections, InView(LauncherRows, Headers, m)
  PROVE  Refreshed(m, on) \in Selections /\ InView(LauncherRows, Headers, Refreshed(m, on))
<1> DEFINE next == MenuMove(LauncherRows, on, m, 1)
           first == MenuInit(LauncherRows, on)
           r == Refreshed(m, on)
<1>1. /\ LauncherRows \in Nat /\ on \in SUBSET (0..LauncherRows - 1)
      /\ Headers \in SUBSET Nat /\ Headers \cap on = {}
  BY ScreensAssumption
<1>2. 1 \in Directions
  BY DEF Directions
<1>3. next \in Selections /\ InView(LauncherRows, Headers, next)
  <2>1. MenuFits(LauncherRows, on, Headers, m)
    BY <1>1, Zenon DEF MenuFits
  <2> QED BY <2>1, <1>2, MoveShows
<1>4. first \in Selections /\ InView(LauncherRows, Headers, first)
  BY <1>1, InitShows
<1>5. r = IF m.has /\ m.sel \in on THEN m ELSE IF m.has /\ next # m THEN next ELSE first
  BY DEF Refreshed
<1> HIDE DEF next, first, r
<1>6. r = m \/ r = next \/ r = first
  BY <1>5
<1>7. r \in Selections /\ InView(LauncherRows, Headers, r)
  <2>1. CASE r = m
    BY <2>1
  <2>2. CASE r = next
    BY <2>2, <1>3
  <2>3. CASE r = first
    BY <2>3, <1>4
  <2> QED BY <2>1, <2>2, <2>3, <1>6
<1> QED BY <1>7 DEF r

(***************************************************************************)
(* The invariant.                                                          *)
(***************************************************************************)
Menus == {"launcher", "app"}
Kinds == {"launcher", "app", "dialog"}
Stacks == {<<"launcher">>, <<"launcher", "app">>, <<"launcher", "dialog">>,
           <<"launcher", "app", "dialog">>}
HeadersOf(m) == IF m = "launcher" THEN Headers ELSE {}

MenusFit ==
  /\ scrMenus \in [Menus -> Selections]
  /\ \A m \in Menus : InView(Count(m), HeadersOf(m), scrMenus[m])
DamageFits ==
  /\ scrDamage \in [Kinds -> Seq(Boxes)]
  /\ \A s \in Kinds : Apart(scrDamage[s]) /\ Len(scrDamage[s]) <= DamageMax
ScreensInv ==
  /\ scrStack \in Stacks /\ scrOn \in CapSets /\ scrStatus \in Boxes
  /\ MenusFit /\ DamageFits /\ PanelIsCurrent

(* What the invariant says is what the runs check.                         *)
LEMMA ScreensInvShows == ScreensInv => ScreenIsCurrent
<1> SUFFICES ASSUME ScreensInv  PROVE ScreenIsCurrent
  OBVIOUS
<1>1. SelectionInView
  <2>1. DOMAIN scrMenus = Menus
    BY DEF ScreensInv, MenusFit
  <2> SUFFICES ASSUME NEW m \in Menus, scrMenus[m].has
      PROVE  /\ scrMenus[m].top <= scrMenus[m].sel /\ scrMenus[m].sel < scrMenus[m].top + VisibleRows
             /\ scrMenus[m].sel < Count(m)
             /\ scrMenus[m].top > 0 => scrMenus[m].top + VisibleRows <= Count(m)
             /\ m = "launcher" /\ scrMenus[m].sel = scrMenus[m].top => scrMenus[m].sel - 1 \notin Headers
    BY <2>1, Zenon DEF SelectionInView
  <2>2. InView(Count(m), HeadersOf(m), scrMenus[m])
    BY DEF ScreensInv, MenusFit
  <2>3. m = "launcher" => HeadersOf(m) = Headers
    BY DEF HeadersOf
  <2> QED BY <2>2, <2>3, Zenon DEF InView
<1>2. DamageIsDisjoint
  <2>1. DOMAIN scrDamage = Kinds
    BY DEF ScreensInv, DamageFits
  <2> QED BY <2>1, Zenon DEF ScreensInv, DamageFits, DamageIsDisjoint, Apart
<1> QED BY <1>1, <1>2 DEF ScreensInv, ScreenIsCurrent

(* Every cell is below the status bar or in it.                            *)
LEMMA CellsAreInside ==
  ASSUME NEW c \in Cells
  PROVE  c \in Points /\ (Inside(c, StatusBar) \/ Inside(c, Content))
<1>1. VisibleRows \in Nat
  BY ScreensAssumption
<1>2. c \in (0..1) \X (0..VisibleRows) /\ c[1] \in 0..1 /\ c[2] \in 0..VisibleRows
  BY DEF Cells
<1> QED BY <1>1, <1>2 DEF Points, Inside, StatusBar, Content, Box

(* The boxes the events damage are boxes, and one alone is a damage set.   *)
LEMMA ContentAlone ==
  /\ Content \in Boxes /\ StatusBar \in Boxes /\ CardIcon \in Boxes /\ Empty \in Boxes
  /\ <<Content>> \in Seq(Boxes) /\ Apart(<<Content>>) /\ Len(<<Content>>) <= DamageMax
  /\ << >> \in Seq(Boxes) /\ Apart(<< >>) /\ Len(<< >>) <= DamageMax
  /\ \A c : Inside(c, Content) => Covers(<<Content>>, c)
<1>1. VisibleRows \in Nat /\ DamageMax \in Nat /\ DamageMax >= 1
  BY ScreensAssumption
<1>2. Content \in Boxes /\ StatusBar \in Boxes /\ CardIcon \in Boxes /\ Empty \in Boxes
  BY <1>1 DEF Content, StatusBar, CardIcon, Empty, Box, Boxes
<1> DEFINE d == <<Content>>
<1>3. d \in Seq(Boxes) /\ Len(d) = 1 /\ DOMAIN d = {1} /\ d[1] = Content
  BY <1>2
<1> HIDE DEF d
<1>4. Apart(d) /\ Len(d) <= DamageMax /\ \A c : Inside(c, Content) => Covers(d, c)
  BY <1>1, <1>3 DEF Apart, Covers
<1> DEFINE e == << >>
<1>5. e \in Seq(Boxes) /\ Len(e) = 0 /\ DOMAIN e = {}
  OBVIOUS
<1> HIDE DEF e
<1>6. Apart(e) /\ Len(e) <= DamageMax
  BY <1>1, <1>5 DEF Apart
<1> QED BY <1>2, <1>3, <1>4, <1>5, <1>6 DEF d, e

(* With the content and the status bar damaged every cell is.              *)
LEMMA AllDamaged ==
  \A c \in Cells : Inside(c, StatusBar) \/ Covers(<<Content>>, c)
BY CellsAreInside, ContentAlone

(* All but the last of a sequence.                                         *)
LEMMA FrontOf ==
  ASSUME NEW S, NEW s \in Seq(S), Len(s) > 1
  PROVE  /\ Front(s) \in Seq(S) /\ Len(Front(s)) = Len(s) - 1
         /\ \A i \in 1..Len(s) - 1 : Front(s)[i] = s[i]
<1>1. Len(s) \in Nat /\ \A i \in 1..Len(s) - 1 : s[i] \in S
  OBVIOUS
<1>2. 1 \in Int /\ Len(s) - 1 \in Int /\ 1 <= Len(s) - 1
  BY <1>1
<1> QED BY <1>1, <1>2, SubSeqProperties DEF Front

(* Some screen is on top of every stack, and under it is a stack; a dialog *)
(* goes on top of any other screen.                                        *)
LEMMA StacksEnd ==
  ASSUME NEW s \in Stacks
  PROVE  /\ Last(s) \in Kinds
         /\ Last(s) # "dialog" => Append(s, "dialog") \in Stacks
         /\ Len(s) > 1 => Front(s) \in Stacks
<1>1. CASE s = <<"launcher">>
  <2>1. Len(s) = 1 /\ s[1] = "launcher" /\ s \in Seq(Kinds)
    BY <1>1 DEF Kinds
  <2> DEFINE a == Append(s, "dialog")
  <2>2. a = <<"launcher", "dialog">>
    <3>1. "dialog" \in Kinds
      BY DEF Kinds
    <3>2. a \in Seq(Kinds) /\ Len(a) = 2 /\ a[1] = "launcher" /\ a[2] = "dialog"
      <4>1. s \in Seq(Kinds)
        BY <2>1
      <4>2. /\ a \in Seq(Kinds) /\ Len(a) = Len(s) + 1
            /\ a[Len(s) + 1] = "dialog" /\ \A i \in 1..Len(s) : a[i] = s[i]
        BY <4>1, <3>1, AppendProperties
      <4> HIDE DEF a
      <4> QED BY <2>1, <4>2
    <3> HIDE DEF a
    <3> QED BY <3>2
  <2>3. Last(s) = "launcher" /\ ~(Len(s) > 1)
    BY <2>1 DEF Last
  <2> QED BY <2>2, <2>3, Zenon DEF Kinds, Stacks
<1>2. CASE s = <<"launcher", "app">>
  <2>1. Len(s) = 2 /\ s[1] = "launcher" /\ s[2] = "app" /\ s \in Seq(Kinds)
    BY <1>2 DEF Kinds
  <2> DEFINE f == Front(s)
             a == Append(s, "dialog")
  <2>2. f = <<"launcher">>
    <3>1. f \in Seq(Kinds) /\ Len(f) = 1 /\ f[1] = "launcher"
      <4>1. Len(s) > 1 /\ Len(s) - 1 = 1
        BY <2>1
      <4>2. f \in Seq(Kinds) /\ Len(f) = Len(s) - 1 /\ \A i \in 1..Len(s) - 1 : f[i] = s[i]
        BY <2>1, <4>1, FrontOf
      <4> HIDE DEF f
      <4>3. \A i \in 1..1 : f[i] = s[i]
        BY <4>1, <4>2
      <4> QED BY <2>1, <4>1, <4>2, <4>3
    <3> HIDE DEF f
    <3> QED BY <3>1
  <2>3. a = <<"launcher", "app", "dialog">>
    <3>1. "dialog" \in Kinds
      BY DEF Kinds
    <3>2. a \in Seq(Kinds) /\ Len(a) = 3 /\ a[1] = "launcher" /\ a[2] = "app" /\ a[3] = "dialog"
      <4>1. s \in Seq(Kinds)
        BY <2>1
      <4>2. /\ a \in Seq(Kinds) /\ Len(a) = Len(s) + 1
            /\ a[Len(s) + 1] = "dialog" /\ \A i \in 1..Len(s) : a[i] = s[i]
        BY <4>1, <3>1, AppendProperties
      <4> HIDE DEF a
      <4> QED BY <2>1, <4>2
    <3> HIDE DEF a
    <3> QED BY <3>2
  <2>4. Last(s) = "app"
    BY <2>1 DEF Last
  <2> QED BY <2>2, <2>3, <2>4, Zenon DEF Kinds, Stacks
<1>3. CASE s = <<"launcher", "dialog">>
  <2>1. Len(s) = 2 /\ s[1] = "launcher" /\ s[2] = "dialog" /\ s \in Seq(Kinds)
    BY <1>3 DEF Kinds
  <2> DEFINE f == Front(s)
  <2>2. f = <<"launcher">>
    <3>1. f \in Seq(Kinds) /\ Len(f) = 1 /\ f[1] = "launcher"
      <4>1. Len(s) > 1 /\ Len(s) - 1 = 1
        BY <2>1
      <4>2. f \in Seq(Kinds) /\ Len(f) = Len(s) - 1 /\ \A i \in 1..Len(s) - 1 : f[i] = s[i]
        BY <2>1, <4>1, FrontOf
      <4> HIDE DEF f
      <4>3. \A i \in 1..1 : f[i] = s[i]
        BY <4>1, <4>2
      <4> QED BY <2>1, <4>1, <4>2, <4>3
    <3> HIDE DEF f
    <3> QED BY <3>1
  <2>3. Last(s) = "dialog"
    BY <2>1 DEF Last
  <2> QED BY <2>2, <2>3 DEF Kinds, Stacks
<1>4. CASE s = <<"launcher", "app", "dialog">>
  <2>1. Len(s) = 3 /\ s[1] = "launcher" /\ s[2] = "app" /\ s[3] = "dialog" /\ s \in Seq(Kinds)
    BY <1>4 DEF Kinds
  <2> DEFINE f == Front(s)
  <2>2. f = <<"launcher", "app">>
    <3>1. f \in Seq(Kinds) /\ Len(f) = 2 /\ f[1] = "launcher" /\ f[2] = "app"
      <4>1. Len(s) > 1 /\ Len(s) - 1 = 2
        BY <2>1
      <4>2. f \in Seq(Kinds) /\ Len(f) = Len(s) - 1 /\ \A i \in 1..Len(s) - 1 : f[i] = s[i]
        BY <2>1, <4>1, FrontOf
      <4> HIDE DEF f
      <4>3. \A i \in 1..2 : f[i] = s[i]
        BY <4>1, <4>2
      <4> QED BY <2>1, <4>1, <4>2, <4>3
    <3> HIDE DEF f
    <3> QED BY <3>1
  <2>3. Last(s) = "dialog"
    BY <2>1 DEF Last
  <2> QED BY <2>2, <2>3 DEF Kinds, Stacks
<1> QED BY <1>1, <1>2, <1>3, <1>4 DEF Stacks

(* What is on top, and under a dialog.                                     *)
LEMMA OnTheStack ==
  ASSUME scrStack \in Stacks
  PROVE  /\ ScreenOnTop \in Kinds /\ Beneath \in Menus
         /\ HasDialog <=> ScreenOnTop = "dialog"
         /\ ~HasDialog => Beneath = ScreenOnTop
         /\ Beneath = IF HasApp THEN "app" ELSE "launcher"
<1>1. CASE scrStack = <<"launcher">>
  <2>1. Len(scrStack) = 1 /\ scrStack[1] = "launcher"
    BY <1>1
  <2> QED BY <2>1 DEF ScreenOnTop, Last, Kinds, Menus, HasDialog, Beneath, HasApp, Contains
<1>2. CASE scrStack = <<"launcher", "app">>
  <2>1. Len(scrStack) = 2 /\ scrStack[1] = "launcher" /\ scrStack[2] = "app"
    BY <1>2
  <2> QED BY <2>1 DEF ScreenOnTop, Last, Kinds, Menus, HasDialog, Beneath, HasApp, Contains
<1>3. CASE scrStack = <<"launcher", "dialog">>
  <2>1. Len(scrStack) = 2 /\ scrStack[1] = "launcher" /\ scrStack[2] = "dialog"
    BY <1>3
  <2> QED BY <2>1 DEF ScreenOnTop, Last, Kinds, Menus, HasDialog, Beneath, HasApp, Contains
<1>4. CASE scrStack = <<"launcher", "app", "dialog">>
  <2>1. Len(scrStack) = 3 /\ scrStack[1] = "launcher" /\ scrStack[2] = "app" /\ scrStack[3] = "dialog"
    BY <1>4
  <2> QED BY <2>1 DEF ScreenOnTop, Last, Kinds, Menus, HasDialog, Beneath, HasApp, Contains
<1> QED BY <1>1, <1>2, <1>3, <1>4 DEF Stacks

(* The rows of either menu, and its headers.                               *)
LEMMA RowsFit ==
  ASSUME scrOn \in CapSets, NEW m \in Menus
  PROVE  /\ Count(m) \in Nat /\ On(m) \in SUBSET (0..Count(m) - 1)
         /\ HeadersOf(m) \in SUBSET Nat /\ HeadersOf(m) \cap On(m) = {}
<1>1. CASE m = "launcher"
  BY <1>1, ScreensAssumption DEF Count, On, HeadersOf
<1>2. CASE m # "launcher"
  <2>1. Count(m) = AppRows /\ On(m) = 0..AppRows - 1 /\ HeadersOf(m) = {}
    BY <1>2 DEF Count, On, HeadersOf
  <2> QED BY <2>1, ScreensAssumption
<1> QED BY <1>1, <1>2

(* One menu changes to a selection in view.                                *)
LEMMA MenuPut ==
  ASSUME MenusFit, NEW m \in Menus, NEW t \in Selections, InView(Count(m), HeadersOf(m), t),
         scrMenus' = [scrMenus EXCEPT ![m] = t]
  PROVE  MenusFit'
<1>1. scrMenus' \in [Menus -> Selections] /\ scrMenus'[m] = t
      /\ \A o \in Menus : o # m => scrMenus'[o] = scrMenus[o]
  BY DEF MenusFit
<1>2. ASSUME NEW o \in Menus  PROVE InView(Count(o), HeadersOf(o), scrMenus'[o])
  <2>1. CASE o = m
    BY <2>1, <1>1
  <2>2. CASE o # m
    BY <2>2, <1>1 DEF MenusFit
  <2> QED BY <2>1, <2>2
<1> QED BY <1>1, <1>2 DEF MenusFit, Count

(* One screen's damage changes to a set that fits.                         *)
LEMMA DamagePut ==
  ASSUME DamageFits, NEW s \in Kinds, NEW d \in Seq(Boxes), Apart(d), Len(d) <= DamageMax,
         scrDamage' = [scrDamage EXCEPT ![s] = d]
  PROVE  DamageFits'
<1>1. /\ scrDamage' \in [Kinds -> Seq(Boxes)] /\ scrDamage'[s] = d
      /\ \A o \in Kinds : o # s => scrDamage'[o] = scrDamage[o]
  BY DEF DamageFits
<1>2. ASSUME NEW o \in Kinds  PROVE Apart(scrDamage'[o]) /\ Len(scrDamage'[o]) <= DamageMax
  <2>1. CASE o = s
    BY <2>1, <1>1
  <2>2. CASE o # s
    BY <2>2, <1>1 DEF DamageFits
  <2> QED BY <2>1, <2>2
<1> QED BY <1>1, <1>2 DEF DamageFits

(* redraw_all().                                                           *)
LEMMA Redrawn ==
  ASSUME DamageFits, NEW s \in Stacks, Redraw(s)
  PROVE  scrStack' \in Stacks /\ DamageFits' /\ scrStatus' \in Boxes /\ PanelIsCurrent'
<1>1. scrStack' = s /\ scrStatus' = StatusBar
  BY DEF Redraw
<1>2. DOMAIN scrDamage = Kinds
  BY DEF DamageFits
<1>3. scrDamage' = [x \in Kinds |-> IF x = Last(s) THEN <<Content>>
                                    ELSE IF Contains(s, x) THEN scrDamage[x] ELSE << >>]
  BY <1>2 DEF Redraw
<1>4. \A x \in Kinds : scrDamage'[x] \in {<<Content>>, scrDamage[x], << >>}
  BY <1>3
<1>5. \A x \in Kinds : /\ scrDamage'[x] \in Seq(Boxes)
                       /\ Apart(scrDamage'[x]) /\ Len(scrDamage'[x]) <= DamageMax
  <2> SUFFICES ASSUME NEW x \in Kinds
               PROVE  /\ scrDamage'[x] \in Seq(Boxes)
                      /\ Apart(scrDamage'[x]) /\ Len(scrDamage'[x]) <= DamageMax
    OBVIOUS
  <2>1. scrDamage[x] \in Seq(Boxes) /\ Apart(scrDamage[x]) /\ Len(scrDamage[x]) <= DamageMax
    BY DEF DamageFits
  <2>2. CASE scrDamage'[x] = <<Content>>
    BY <2>2, ContentAlone, Zenon
  <2>3. CASE scrDamage'[x] = scrDamage[x]
    BY <2>1, <2>3, Zenon
  <2>4. CASE scrDamage'[x] = << >>
    BY <2>4, ContentAlone, Zenon
  <2> QED BY <1>4, <2>2, <2>3, <2>4
<1>6. DamageFits'
  <2>1. scrDamage' \in [Kinds -> Seq(Boxes)]
    <3>1. scrDamage' = [x \in Kinds |-> scrDamage'[x]]
      BY <1>3
    <3> QED BY <3>1, <1>5
  <2> QED BY <2>1, <1>5 DEF DamageFits
<1>7. PanelIsCurrent'
  <2>1. ScreenOnTop' = Last(s)
    BY <1>1 DEF ScreenOnTop
  <2>2. scrDamage'[ScreenOnTop'] = <<Content>>
    BY <2>1, <1>3, StacksEnd
  <2> QED BY <2>2, <1>1, AllDamaged, Zenon DEF PanelIsCurrent
<1> QED BY <1>1, <1>6, <1>7, ContentAlone

(* Damage grows where the picture changes: the cells whose picture is      *)
(* another are damaged, and what was damaged is.                           *)
LEMMA StaysCurrent ==
  ASSUME PanelIsCurrent, scrStack' = scrStack, scrPanel' = scrPanel,
         \A c \in Cells : Inside(c, scrStatus) => Inside(c, scrStatus'),
         \A c \in Cells : Covers(scrDamage[ScreenOnTop], c) => Covers(scrDamage'[ScreenOnTop], c),
         \A c \in Cells : Covers(scrDamage[Beneath], c) => Covers(scrDamage'[Beneath], c),
         \A c \in Cells : \/ Picture(c)' = Picture(c)
                          \/ Inside(c, scrStatus')
                          \/ Covers(scrDamage'[ScreenOnTop], c)
                          \/ HasDialog /\ ~Inside(c, DialogBox) /\ Covers(scrDamage'[Beneath], c)
  PROVE  PanelIsCurrent'
<1>1. ScreenOnTop' = ScreenOnTop /\ Beneath' = Beneath /\ HasDialog' = HasDialog
  BY DEF ScreenOnTop, Beneath, HasDialog
<1> SUFFICES ASSUME NEW c \in Cells
             PROVE  \/ scrPanel'[c] \in {Picture(c)', Unknown}
                    \/ Inside(c, scrStatus')
                    \/ Covers(scrDamage'[ScreenOnTop], c)
                    \/ HasDialog /\ ~Inside(c, DialogBox) /\ Covers(scrDamage'[Beneath], c)
  BY <1>1, Zenon DEF PanelIsCurrent
<1>2. \/ scrPanel[c] \in {Picture(c), Unknown}
      \/ Inside(c, scrStatus)
      \/ Covers(scrDamage[ScreenOnTop], c)
      \/ HasDialog /\ ~Inside(c, DialogBox) /\ Covers(scrDamage[Beneath], c)
  BY Zenon DEF PanelIsCurrent
<1>3. CASE scrPanel[c] \in {Picture(c), Unknown}
  BY <1>3, Zenon
<1>4. CASE ~(scrPanel[c] \in {Picture(c), Unknown})
  BY <1>2, <1>4, Zenon
<1> QED BY <1>3, <1>4

(* The picture of a cell is the status bar's, the dialog's or the menu's.  *)
LEMMA SamePicture ==
  ASSUME NEW c, scrStack' = scrStack, Inside(c, StatusBar) => StatusCell(c)' = StatusCell(c),
         ~Inside(c, StatusBar) /\ ~(HasDialog /\ Inside(c, DialogBox))
           => MenuCell(Beneath, c)' = MenuCell(Beneath, c)
  PROVE  Picture(c)' = Picture(c)
<1>1. HasDialog' = HasDialog /\ DialogCell(c)' = DialogCell(c)
  BY DEF HasDialog, ScreenOnTop, DialogCell, Plain, Shows
<1>2. CASE Inside(c, StatusBar)
  BY <1>2, <1>1 DEF Picture
<1>3. CASE ~Inside(c, StatusBar) /\ HasDialog /\ Inside(c, DialogBox)
  BY <1>3, <1>1 DEF Picture
<1>4. CASE ~Inside(c, StatusBar) /\ ~(HasDialog /\ Inside(c, DialogBox))
  BY <1>4, <1>1 DEF Picture
<1> QED BY <1>2, <1>3, <1>4

(* selection_changed(): the rows damaged are those that change.            *)
LEMMA RowsThatChange ==
  ASSUME MenusFit, scrOn \in CapSets, NEW m \in Menus, NEW t \in Selections,
         t.top = scrMenus[m].top, t.has = scrMenus[m].has,
         scrMenus' = [scrMenus EXCEPT ![m] = t], scrOn' = scrOn, scrValue' = scrValue,
         NEW c \in Cells, ~Inside(c, StatusBar),
         ~Inside(c, RowRect(m, scrMenus[m].sel)), ~Inside(c, RowRect(m, t.sel))
  PROVE  MenuCell(m, c)' = MenuCell(m, c)
<1> DEFINE o == scrMenus[m]
           i == o.top + c[2] - 1
<1>1. o \in Selections /\ scrMenus'[m] = t
  BY DEF MenusFit
<1>2. o.sel \in Nat /\ o.top \in Nat /\ t.sel \in Nat
  BY <1>1 DEF Selections
<1>3. c[1] \in 0..1 /\ c[2] \in 0..VisibleRows /\ VisibleRows \in Nat
  BY ScreensAssumption DEF Cells
<1>4. On(m)' = On(m)
  BY DEF On
<1>5. CASE c[1] = 1 /\ TooLong(m)
  <2>1. MenuCell(m, c) = Shows("bar", o.top, FALSE, FALSE, 0)
    BY <1>5, Zenon DEF MenuCell
  <2>2. MenuCell(m, c)' = Shows("bar", scrMenus'[m].top, FALSE, FALSE, 0)
    BY <1>5, Zenon DEF MenuCell
  <2> QED BY <2>1, <2>2, <1>1
<1>6. CASE ~(c[1] = 1 /\ TooLong(m)) /\ i >= Count(m)
  BY <1>1, <1>6 DEF MenuCell
<1>7. CASE ~(c[1] = 1 /\ TooLong(m)) /\ ~(i >= Count(m))
  <2>1. \A n \in Nat : n = i => Inside(c, RowRect(m, n))
    <3> SUFFICES ASSUME NEW n \in Nat, n = i  PROVE Inside(c, RowRect(m, n))
      OBVIOUS
    <3> DEFINE r == RowRect(m, n)
    <3>1. r.x0 = 0 /\ r.y0 = 1 + n - o.top /\ r.y1 = 1 + n - o.top + 1
          /\ r.x1 = IF TooLong(m) THEN 1 ELSE 2
      BY DEF RowRect, Box
    <3> HIDE DEF r
    <3>2. r.y0 = c[2] /\ r.y1 = c[2] + 1
      BY <3>1, <1>2, <1>3
    <3>3. c[1] < r.x1
      BY <3>1, <1>3, <1>7
    <3>4. Inside(c, r)
      BY <3>1, <3>2, <3>3, <1>3 DEF Inside
    <3> QED BY <3>4 DEF r
  <2>2. o.sel # i /\ t.sel # i
    BY <2>1, <1>2
  <2> DEFINE v == IF m = "app" /\ i = 0 THEN scrValue ELSE 0
  <2>3. MenuCell(m, c) = Shows(m, i, o.has /\ o.sel = i, i \in On(m), v)
    BY <1>7 DEF MenuCell
  <2>4. MenuCell(m, c)' = Shows(m, i, t.has /\ t.sel = i, i \in On(m), v)
    BY <1>7, <1>1, <1>4 DEF MenuCell
  <2>5. (o.has /\ o.sel = i) = FALSE /\ (t.has /\ t.sel = i) = FALSE
    BY <2>2
  <2> HIDE DEF i, v, o
  <2> QED BY <2>3, <2>4, <2>5
<1> QED BY <1>5, <1>6, <1>7

(* A selection on the screen on top.                                       *)
LEMMA Selected ==
  ASSUME ScreensInv, ~HasDialog, NEW m \in Menus, m = ScreenOnTop,
         NEW t \in Selections, InView(Count(m), HeadersOf(m), t), t.has = scrMenus[m].has,
         Select(m, t)
  PROVE  ScreensInv'
<1> DEFINE d == scrDamage[m]
           d1 == WithDamage(d, RowRect(m, scrMenus[m].sel))
           new == IF t.top # scrMenus[m].top THEN WithDamage(d, Content)
                  ELSE WithDamage(d1, RowRect(m, t.sel))
<1>1. /\ scrMenus' = [scrMenus EXCEPT ![m] = t] /\ scrDamage' = [scrDamage EXCEPT ![m] = new]
      /\ scrStack' = scrStack /\ scrOn' = scrOn /\ scrValue' = scrValue /\ scrCard' = scrCard
      /\ scrStatus' = scrStatus /\ scrPanel' = scrPanel
  BY DEF Select, panelVars
<1>2. /\ scrStack \in Stacks /\ scrOn \in CapSets /\ scrStatus \in Boxes
      /\ MenusFit /\ DamageFits /\ PanelIsCurrent
  BY DEF ScreensInv
<1>3. m \in Kinds /\ d \in Seq(Boxes) /\ Apart(d) /\ Len(d) <= DamageMax
  BY <1>2 DEF DamageFits, Menus, Kinds
<1>4. \A s \in Selections, n \in Nat : RowRect(m, n) \in Boxes
  <2>1. scrMenus[m].top \in Nat
    BY <1>2 DEF MenusFit, Selections
  <2> QED BY <2>1 DEF RowRect, Box, Boxes
<1>5. RowRect(m, scrMenus[m].sel) \in Boxes /\ RowRect(m, t.sel) \in Boxes
  <2>1. scrMenus[m] \in Selections
    BY <1>2 DEF MenusFit
  <2>2. scrMenus[m].sel \in Nat /\ t.sel \in Nat
    BY <2>1 DEF Selections
  <2> QED BY <2>2, <1>4
<1> HIDE DEF d
<1>6. /\ d1 \in Seq(Boxes) /\ Apart(d1) /\ Len(d1) <= DamageMax
      /\ \A c \in Points : Covers(d, c) \/ Inside(c, RowRect(m, scrMenus[m].sel)) => Covers(d1, c)
  BY <1>3, <1>5, DamageAdded
<1> HIDE DEF d1
<1>7. /\ new \in Seq(Boxes) /\ Apart(new) /\ Len(new) <= DamageMax
      /\ \A c \in Points : Covers(d, c) => Covers(new, c)
      /\ t.top # scrMenus[m].top => \A c \in Points : Inside(c, Content) => Covers(new, c)
      /\ t.top = scrMenus[m].top =>
           \A c \in Points : Inside(c, RowRect(m, scrMenus[m].sel)) \/ Inside(c, RowRect(m, t.sel))
                               => Covers(new, c)
  <2>1. CASE t.top # scrMenus[m].top
    <3>1. new = WithDamage(d, Content)
      BY <2>1
    <3> QED BY <2>1, <3>1, <1>3, ContentAlone, DamageAdded
  <2>2. CASE t.top = scrMenus[m].top
    <3>1. new = WithDamage(d1, RowRect(m, t.sel))
      BY <2>2
    <3> QED BY <2>2, <3>1, <1>5, <1>6, DamageAdded
  <2> QED BY <2>1, <2>2
<1> HIDE DEF new
<1>8. MenusFit'
  BY <1>1, <1>2, MenuPut
<1>9. DamageFits'
  BY <1>1, <1>2, <1>3, <1>7, DamagePut
<1>10. Beneath = m
  BY <1>2, OnTheStack
<1>11. scrDamage'[m] = new
  BY <1>1, <1>2, <1>3 DEF DamageFits
<1>12. \A c \in Cells : Covers(d, c) => Covers(new, c)
  BY <1>7, CellsAreInside
<1>13. ASSUME NEW c \in Cells  PROVE Picture(c)' = Picture(c) \/ Covers(new, c)
  <2>1. CASE Inside(c, StatusBar)
    <3>1. StatusCell(c)' = StatusCell(c)
      BY <1>1 DEF StatusCell, Beneath, HasDialog, ScreenOnTop
    <3> QED BY <2>1, <3>1, <1>1, SamePicture
  <2>2. CASE ~Inside(c, StatusBar) /\ t.top # scrMenus[m].top
    BY <2>2, <1>7, CellsAreInside
  <2>3. CASE ~Inside(c, StatusBar) /\ t.top = scrMenus[m].top
    <3>1. CASE Inside(c, RowRect(m, scrMenus[m].sel)) \/ Inside(c, RowRect(m, t.sel))
      BY <2>3, <3>1, <1>7, CellsAreInside
    <3>2. CASE ~(Inside(c, RowRect(m, scrMenus[m].sel)) \/ Inside(c, RowRect(m, t.sel)))
      <4>1. MenuCell(m, c)' = MenuCell(m, c)
        BY <2>3, <3>2, <1>1, <1>2, RowsThatChange
      <4>2. Beneath' = Beneath
        BY <1>1 DEF Beneath, HasDialog, ScreenOnTop
      <4>3. MenuCell(Beneath, c)' = MenuCell(Beneath, c)
        BY <4>1, <4>2, <1>10
      <4> QED BY <4>3, <2>3, <1>1, SamePicture
    <3> QED BY <3>1, <3>2
  <2> QED BY <2>1, <2>2, <2>3
<1>14. PanelIsCurrent'
  <2>1. scrDamage[ScreenOnTop] = d /\ scrDamage'[ScreenOnTop] = new
        /\ scrDamage[Beneath] = d /\ scrDamage'[Beneath] = new
    BY <1>10, <1>11 DEF d
  <2> QED BY <2>1, <1>1, <1>2, <1>12, <1>13, StaysCurrent
<1> QED BY <1>1, <1>2, <1>8, <1>9, <1>14 DEF ScreensInv

(* UP, DOWN and the pages select a row.                                    *)
LEMMA KeysKeep ==
  ASSUME ScreensInv, NEW d \in Directions, KeyUpDown(d) \/ KeyPage(d)
  PROVE  ScreensInv'
<1>0. scrStack \in Stacks /\ scrOn \in CapSets /\ MenusFit
  BY DEF ScreensInv
<1>1. CASE KeyUpDown(d)
  <2> DEFINE m == ScreenOnTop
             t == MenuMove(Count(m), On(m), scrMenus[m], d)
  <2>1. ~HasDialog /\ Select(m, t)
    BY <1>1 DEF KeyUpDown
  <2>2. m \in Menus
    BY <1>0, <2>1, OnTheStack
  <2>3. scrMenus[m] \in Selections /\ InView(Count(m), HeadersOf(m), scrMenus[m])
    BY <1>0, <2>2 DEF MenusFit
  <2>4. /\ Count(m) \in Nat /\ On(m) \in SUBSET (0..Count(m) - 1)
        /\ HeadersOf(m) \in SUBSET Nat /\ HeadersOf(m) \cap On(m) = {}
    BY <1>0, <2>2, RowsFit
  <2> HIDE DEF m
  <2>5. t \in Selections /\ InView(Count(m), HeadersOf(m), t) /\ t.has = scrMenus[m].has
    <3> DEFINE n == Count(m)
               on == On(m)
               h == HeadersOf(m)
               o == scrMenus[m]
    <3>1. MenuFits(n, on, h, o)
      BY <2>3, <2>4, Zenon DEF MenuFits
    <3>2. t = MenuMove(n, on, o, d)
      BY Zenon
    <3> HIDE DEF n, on, h, o, t
    <3>3. /\ MenuMove(n, on, o, d) \in Selections /\ InView(n, h, MenuMove(n, on, o, d))
          /\ MenuMove(n, on, o, d).has = o.has
      BY <3>1, MoveShows
    <3> QED BY <3>2, <3>3 DEF n, h, o
  <2>6. m = ScreenOnTop
    BY DEF m
  <2> HIDE DEF t
  <2> QED BY <2>1, <2>2, <2>5, <2>6, Selected
<1>2. CASE KeyPage(d)
  <2> DEFINE m == "launcher"
             t == MenuPage(LauncherRows, scrOn, scrMenus["launcher"], d)
  <2>1. ScreenOnTop = m /\ Select(m, t)
    BY <1>2 DEF KeyPage
  <2>2. m \in Menus /\ ~HasDialog
    BY <2>1 DEF Menus, HasDialog
  <2>3. scrMenus[m] \in Selections /\ InView(Count(m), HeadersOf(m), scrMenus[m])
    BY <1>0, <2>2 DEF MenusFit
  <2>4. /\ Count(m) \in Nat /\ On(m) \in SUBSET (0..Count(m) - 1)
        /\ HeadersOf(m) \in SUBSET Nat /\ HeadersOf(m) \cap On(m) = {}
    BY <1>0, <2>2, RowsFit
  <2>5. Count(m) = LauncherRows /\ On(m) = scrOn
    BY DEF Count, On
  <2>6. t \in Selections /\ InView(Count(m), HeadersOf(m), t) /\ t.has = scrMenus[m].has
    <3> DEFINE n == Count(m)
               on == On(m)
               h == HeadersOf(m)
               o == scrMenus[m]
    <3>1. MenuFits(n, on, h, o)
      BY <2>3, <2>4, Zenon DEF MenuFits
    <3>2. t = MenuPage(n, on, o, d)
      BY <2>5, Zenon
    <3> HIDE DEF n, on, h, o, t
    <3>3. /\ MenuPage(n, on, o, d) \in Selections /\ InView(n, h, MenuPage(n, on, o, d))
          /\ MenuPage(n, on, o, d).has = o.has
      BY <3>1, PageShows
    <3> QED BY <3>2, <3>3 DEF n, h, o
  <2> HIDE DEF t
  <2> QED BY <2>1, <2>2, <2>6, Selected
<1> QED BY <1>1, <1>2

(* A value changes and its row is damaged.                                 *)
LEMMA AdjustKeeps ==
  ASSUME ScreensInv, NEW d, KeyAdjust(d)
  PROVE  ScreensInv'
<1> DEFINE r == RowRect("app", 0)
           old == scrDamage["app"]
           new == WithDamage(old, r)
<1>1. /\ ScreenOnTop = "app" /\ scrMenus["app"].sel = 0
      /\ scrDamage' = [scrDamage EXCEPT !["app"] = new]
      /\ scrStack' = scrStack /\ scrOn' = scrOn /\ scrMenus' = scrMenus /\ scrCard' = scrCard
      /\ scrStatus' = scrStatus /\ scrPanel' = scrPanel
  BY DEF KeyAdjust, panelVars
<1>2. /\ scrStack \in Stacks /\ scrOn \in CapSets /\ scrStatus \in Boxes
      /\ MenusFit /\ DamageFits /\ PanelIsCurrent
  BY DEF ScreensInv
<1>3. scrMenus["app"] \in Selections
  BY <1>2 DEF MenusFit, Menus
<1>4. scrMenus["app"].top \in Nat
  BY <1>3 DEF Selections
<1>5. r \in Boxes
  BY <1>4 DEF RowRect, Box, Boxes
<1>6. "app" \in Kinds /\ old \in Seq(Boxes) /\ Apart(old) /\ Len(old) <= DamageMax
  BY <1>2 DEF DamageFits, Kinds
<1> HIDE DEF old, r
<1>7. /\ new \in Seq(Boxes) /\ Apart(new) /\ Len(new) <= DamageMax
      /\ \A c \in Points : Covers(old, c) \/ Inside(c, r) => Covers(new, c)
  BY <1>5, <1>6, DamageAdded
<1> HIDE DEF new
<1>8. DamageFits'
  BY <1>1, <1>2, <1>6, <1>7, DamagePut
<1>9. MenusFit'
  BY <1>1, <1>2, Zenon DEF MenusFit, Count
<1>10. scrDamage["app"] = old /\ scrDamage'["app"] = new
  <2>1. scrDamage'["app"] = new
    BY <1>1, <1>2, <1>6 DEF DamageFits
  <2> QED BY <2>1 DEF old
<1>11. Beneath = "app"
  <2>1. ~HasDialog
    BY <1>1 DEF HasDialog
  <2> QED BY <2>1, <1>1, <1>2, OnTheStack
<1>12. ASSUME NEW c \in Cells  PROVE Picture(c)' = Picture(c) \/ Covers(new, c)
  <2>1. Beneath' = Beneath /\ StatusCell(c)' = StatusCell(c)
    BY <1>1 DEF StatusCell, Beneath, HasDialog, ScreenOnTop
  <2>2. CASE Inside(c, r)
    BY <2>2, <1>7, CellsAreInside
  <2>3. CASE ~Inside(c, r) /\ Inside(c, StatusBar)
    BY <2>1, <2>3, <1>1, SamePicture
  <2>4. CASE ~Inside(c, r) /\ ~Inside(c, StatusBar)
    <3> DEFINE m == "app"
               i == scrMenus[m].top + c[2] - 1
    <3>1. On(m)' = On(m)
      BY DEF On
    <3>2. c[1] \in 0..1 /\ c[2] \in 0..VisibleRows /\ VisibleRows \in Nat
      BY ScreensAssumption DEF Cells
    <3>3. CASE c[1] = 1 /\ TooLong(m)
      <4>1. MenuCell(m, c) = Shows("bar", scrMenus[m].top, FALSE, FALSE, 0)
        BY <3>3, Zenon DEF MenuCell
      <4>2. MenuCell(m, c)' = Shows("bar", scrMenus'[m].top, FALSE, FALSE, 0)
        BY <3>3, Zenon DEF MenuCell
      <4>3. MenuCell(Beneath, c)' = MenuCell(Beneath, c)
        BY <4>1, <4>2, <2>1, <1>1, <1>11
      <4> QED BY <4>3, <2>4, <1>1, SamePicture
    <3>4. CASE ~(c[1] = 1 /\ TooLong(m))
      <4>1. i # 0
        <5> SUFFICES ASSUME i = 0  PROVE FALSE
          OBVIOUS
        <5>1. r.x0 = 0 /\ r.y0 = 1 + 0 - scrMenus[m].top /\ r.y1 = 1 + 0 - scrMenus[m].top + 1
              /\ r.x1 = IF TooLong(m) THEN 1 ELSE 2
          BY DEF RowRect, Box, r
        <5>2. r.y0 = c[2] /\ r.y1 = c[2] + 1
          BY <5>1, <1>4, <3>2
        <5>3. c[1] < r.x1
          BY <5>1, <3>2, <3>4
        <5>4. Inside(c, r)
          BY <5>1, <5>2, <5>3, <3>2 DEF Inside
        <5> QED BY <5>4, <2>4
      <4>2. MenuCell(m, c)' = MenuCell(m, c)
        BY <1>1, <3>1, <3>4, <4>1 DEF MenuCell
      <4>3. MenuCell(Beneath, c)' = MenuCell(Beneath, c)
        BY <4>2, <2>1, <1>11
      <4> QED BY <4>3, <2>4, <1>1, SamePicture
    <3> QED BY <3>3, <3>4
  <2> QED BY <2>2, <2>3, <2>4
<1>13. PanelIsCurrent'
  <2>1. scrDamage[ScreenOnTop] = old /\ scrDamage'[ScreenOnTop] = new
        /\ scrDamage[Beneath] = old /\ scrDamage'[Beneath] = new
    BY <1>1, <1>10, <1>11
  <2>2. \A c \in Cells : Covers(old, c) => Covers(new, c)
    BY <1>7, CellsAreInside
  <2> QED BY <2>1, <2>2, <1>1, <1>2, <1>12, StaysCurrent
<1> QED BY <1>1, <1>2, <1>8, <1>9, <1>13 DEF ScreensInv

(* What the launcher shows after its rows were enabled and disabled.       *)
LEMMA RefreshKeeps ==
  ASSUME MenusFit, NEW on \in CapSets, Refresh(on)
  PROVE  MenusFit'
<1> DEFINE m == "launcher"
           t == Refreshed(scrMenus[m], on)
<1>1. scrMenus' = [scrMenus EXCEPT ![m] = t]
  BY DEF Refresh
<1>2. m \in Menus /\ Count(m) = LauncherRows /\ HeadersOf(m) = Headers
  BY DEF Menus, Count, HeadersOf
<1>3. scrMenus[m] \in Selections /\ InView(LauncherRows, Headers, scrMenus[m])
  BY <1>2 DEF MenusFit
<1>4. t \in Selections /\ InView(Count(m), HeadersOf(m), t)
  BY <1>2, <1>3, RefreshShows
<1> HIDE DEF t
<1> QED BY <1>1, <1>2, <1>4, MenuPut

(* The launcher catches up when an application's screen goes, or nothing   *)
(* happens to the menus.                                                   *)
LEMMA CatchingUpKeeps ==
  ASSUME MenusFit, scrOn \in CapSets, NEW gone, LauncherCatchesUp(gone)
  PROVE  MenusFit'
<1>1. CASE Refresh(scrOn)
  BY <1>1, RefreshKeeps
<1>2. CASE UNCHANGED scrMenus
  BY <1>2, Zenon DEF MenusFit, Count
<1> QED BY <1>1, <1>2 DEF LauncherCatchesUp

(* A screen is pushed or popped, and everything is drawn again.            *)
LEMMA StackKeeps ==
  ASSUME ScreensInv, KeyOk \/ Pop \/ BackLong \/ Fault
  PROVE  ScreensInv'
<1>1. /\ scrStack \in Stacks /\ scrOn \in CapSets /\ MenusFit /\ DamageFits
  BY DEF ScreensInv
<1>2. scrOn' = scrOn
  BY DEF KeyOk, Pop, BackLong, Fault
<1>3. CASE KeyOk
  <2>1. ASSUME scrMenus' = [scrMenus EXCEPT !["app"] = Opened("app")], Redraw(<<"launcher", "app">>)
        PROVE  ScreensInv'
    <3> DEFINE m == "app"
               t == Opened(m)
    <3>1. m \in Menus /\ <<"launcher", "app">> \in Stacks
      BY DEF Menus, Stacks
    <3>2. /\ Count(m) \in Nat /\ On(m) \in SUBSET (0..Count(m) - 1)
          /\ HeadersOf(m) \in SUBSET Nat /\ HeadersOf(m) \cap On(m) = {}
      BY <1>1, <3>1, RowsFit
    <3>3. t \in Selections /\ InView(Count(m), HeadersOf(m), t)
      BY <3>2, InitShows DEF Opened
    <3> HIDE DEF t
    <3>4. MenusFit'
      BY <2>1, <3>1, <3>3, <1>1, MenuPut DEF t
    <3>5. scrStack' \in Stacks /\ DamageFits' /\ scrStatus' \in Boxes /\ PanelIsCurrent'
      BY <2>1, <3>1, <1>1, Redrawn
    <3> QED BY <3>4, <3>5, <1>1, <1>2 DEF ScreensInv
  <2>2. ASSUME ScreenOnTop = "app", Redraw(Append(scrStack, "dialog")), UNCHANGED scrMenus
        PROVE  ScreensInv'
    <3>1. Append(scrStack, "dialog") \in Stacks
      BY <1>1, <2>2, StacksEnd DEF ScreenOnTop
    <3>2. scrStack' \in Stacks /\ DamageFits' /\ scrStatus' \in Boxes /\ PanelIsCurrent'
      BY <2>2, <3>1, <1>1, Redrawn
    <3>3. MenusFit'
      BY <2>2, <1>1, Zenon DEF MenusFit, Count
    <3> QED BY <3>2, <3>3, <1>1, <1>2 DEF ScreensInv
  <2> QED BY <1>3, <2>1, <2>2, Zenon DEF KeyOk
<1>4. CASE Pop
  <2>1. Len(scrStack) > 1 /\ LauncherCatchesUp(ScreenOnTop = "app") /\ Redraw(Front(scrStack))
    BY <1>4 DEF Pop
  <2>2. Front(scrStack) \in Stacks
    BY <2>1, <1>1, StacksEnd
  <2>3. MenusFit'
    BY <2>1, <1>1, CatchingUpKeeps
  <2>4. scrStack' \in Stacks /\ DamageFits' /\ scrStatus' \in Boxes /\ PanelIsCurrent'
    BY <2>1, <2>2, <1>1, Redrawn
  <2> QED BY <2>3, <2>4, <1>1, <1>2 DEF ScreensInv
<1>5. CASE BackLong
  <2>1. LauncherCatchesUp(HasApp) /\ Redraw(<<"launcher">>)
    BY <1>5 DEF BackLong
  <2>2. MenusFit'
    BY <2>1, <1>1, CatchingUpKeeps
  <2>3. scrStack' \in Stacks /\ DamageFits' /\ scrStatus' \in Boxes /\ PanelIsCurrent'
    BY <2>1, <1>1, Redrawn DEF Stacks
  <2> QED BY <2>2, <2>3, <1>1, <1>2 DEF ScreensInv
<1>6. CASE Fault
  <2>1. /\ LauncherCatchesUp(TRUE)
        /\ scrStack' = <<"launcher", "dialog">> /\ scrStatus' = StatusBar
        /\ scrDamage' = [NoDamage EXCEPT !["launcher"] = <<Content>>, !["dialog"] = <<Content>>]
    BY <1>6 DEF Fault
  <2>2. MenusFit'
    BY <2>1, <1>1, CatchingUpKeeps
  <2>3. scrStack' \in Stacks /\ scrStatus' \in Boxes
    BY <2>1, ContentAlone DEF Stacks
  <2>4. scrDamage' = [s \in Kinds |-> IF s = "app" THEN << >> ELSE <<Content>>]
    BY <2>1 DEF NoDamage, Kinds
  <2>5. DamageFits'
    <3>1. \A s \in Kinds : scrDamage'[s] \in {<< >>, <<Content>>}
      BY <2>4
    <3>2. scrDamage' \in [Kinds -> Seq(Boxes)]
      BY <2>4, ContentAlone
    <3> QED BY <3>1, <3>2, ContentAlone DEF DamageFits
  <2>6. PanelIsCurrent'
    <3>1. ScreenOnTop' = "dialog"
      BY <2>1 DEF ScreenOnTop, Last
    <3>2. scrDamage'[ScreenOnTop'] = <<Content>>
      BY <3>1, <2>4 DEF Kinds
    <3> QED BY <3>2, <2>1, AllDamaged, Zenon DEF PanelIsCurrent
  <2> QED BY <2>2, <2>3, <2>5, <2>6, <1>1, <1>2 DEF ScreensInv
<1> QED BY <1>3, <1>4, <1>5, <1>6

(* Capabilities come and go: the launcher's rows are painted again, unless *)
(* an application hides them.                                              *)
LEMMA CapsKeep ==
  ASSUME ScreensInv, NEW on \in CapSets, SetCaps(on)
  PROVE  ScreensInv'
<1> DEFINE old == scrDamage["launcher"]
           new == WithDamage(old, Content)
<1>1. /\ scrOn' = on /\ scrStack' = scrStack /\ scrValue' = scrValue /\ scrCard' = scrCard
      /\ scrStatus' = scrStatus /\ scrPanel' = scrPanel
  BY DEF SetCaps, panelVars
<1>2. /\ scrStack \in Stacks /\ scrOn \in CapSets /\ scrStatus \in Boxes
      /\ MenusFit /\ DamageFits /\ PanelIsCurrent
  BY DEF ScreensInv
<1>3. \A c \in Cells : StatusCell(c)' = StatusCell(c)
  BY <1>1 DEF StatusCell, Beneath, HasDialog, ScreenOnTop
<1>4. Beneath' = Beneath
  BY <1>1 DEF Beneath, HasDialog, ScreenOnTop
<1>5. CASE HasApp
  <2>1. scrMenus' = scrMenus /\ scrDamage' = scrDamage
    BY <1>5 DEF SetCaps
  <2>2. MenusFit' /\ DamageFits'
    BY <2>1, <1>2, Zenon DEF MenusFit, DamageFits, Count
  <2>3. Beneath = "app"
    BY <1>2, <1>5, OnTheStack
  <2>4. ASSUME NEW c \in Cells  PROVE Picture(c)' = Picture(c)
    <3>1. On("app")' = On("app")
      BY DEF On
    <3>2. MenuCell("app", c)' = MenuCell("app", c)
      BY <3>1, <2>1, <1>1, Zenon DEF MenuCell
    <3>3. MenuCell(Beneath, c)' = MenuCell(Beneath, c)
      BY <3>2, <2>3, <1>4
    <3> QED BY <3>3, <1>1, <1>3, SamePicture
  <2>5. PanelIsCurrent'
    BY <2>1, <2>4, <1>1, <1>2, StaysCurrent
  <2> QED BY <2>2, <2>5, <1>1, <1>2 DEF ScreensInv
<1>6. CASE ~HasApp
  <2>1. Refresh(on) /\ scrDamage' = [scrDamage EXCEPT !["launcher"] = new]
    BY <1>6 DEF SetCaps
  <2>2. MenusFit'
    BY <2>1, <1>2, RefreshKeeps
  <2>3. "launcher" \in Kinds /\ old \in Seq(Boxes) /\ Apart(old) /\ Len(old) <= DamageMax
    BY <1>2 DEF DamageFits, Kinds
  <2> HIDE DEF old
  <2>4. /\ new \in Seq(Boxes) /\ Apart(new) /\ Len(new) <= DamageMax
        /\ \A c \in Points : Covers(old, c) \/ Inside(c, Content) => Covers(new, c)
    BY <2>3, ContentAlone, DamageAdded
  <2> HIDE DEF new
  <2>5. DamageFits'
    BY <1>2, <2>1, <2>3, <2>4, DamagePut
  <2>6. Beneath = "launcher"
    BY <1>2, <1>6, OnTheStack
  <2>7. /\ scrDamage["launcher"] = old /\ scrDamage'["launcher"] = new
        /\ \A x \in Kinds : x # "launcher" => scrDamage'[x] = scrDamage[x]
    BY <1>2, <2>1, <2>3 DEF DamageFits, old
  <2>8. \A c \in Cells : Covers(old, c) \/ Inside(c, Content) => Covers(new, c)
    BY <2>4, CellsAreInside
  <2>9. \A x \in Kinds, c \in Cells : Covers(scrDamage[x], c) => Covers(scrDamage'[x], c)
    <3> SUFFICES ASSUME NEW x \in Kinds, NEW c \in Cells, Covers(scrDamage[x], c)
                 PROVE  Covers(scrDamage'[x], c)
      OBVIOUS
    <3>1. CASE x = "launcher"
      BY <3>1, <2>7, <2>8
    <3>2. CASE x # "launcher"
      BY <3>2, <2>7
    <3> QED BY <3>1, <3>2
  <2>10. ASSUME NEW c \in Cells
         PROVE  \/ Picture(c)' = Picture(c)
                \/ Covers(scrDamage'[ScreenOnTop], c)
                \/ HasDialog /\ ~Inside(c, DialogBox) /\ Covers(scrDamage'[Beneath], c)
    <3>1. CASE Inside(c, StatusBar) \/ (HasDialog /\ Inside(c, DialogBox))
      <4>1. HasDialog' = HasDialog /\ DialogCell(c)' = DialogCell(c) /\ StatusCell(c)' = StatusCell(c)
        BY <1>1, <1>3 DEF HasDialog, ScreenOnTop, DialogCell, Plain, Shows
      <4> QED BY <4>1, <3>1, <1>1, SamePicture
    <3>2. CASE ~Inside(c, StatusBar) /\ ~(HasDialog /\ Inside(c, DialogBox))
      <4>1. Covers(new, c)
        BY <3>2, <2>8, CellsAreInside
      <4>2. CASE HasDialog
        BY <4>1, <4>2, <3>2, <2>6, <2>7
      <4>3. CASE ~HasDialog
        <5>1. ScreenOnTop = "launcher"
          BY <4>3, <1>2, <2>6, OnTheStack
        <5> QED BY <5>1, <4>1, <2>7
      <4> QED BY <4>2, <4>3
    <3> QED BY <3>1, <3>2
  <2>11. PanelIsCurrent'
    <3>1. ScreenOnTop \in Kinds /\ Beneath \in Kinds
      BY <1>2, OnTheStack DEF Menus, Kinds
    <3>2. \A c \in Cells : Covers(scrDamage[ScreenOnTop], c) => Covers(scrDamage'[ScreenOnTop], c)
      BY <3>1, <2>9
    <3>3. \A c \in Cells : Covers(scrDamage[Beneath], c) => Covers(scrDamage'[Beneath], c)
      BY <3>1, <2>9
    <3> QED BY <3>2, <3>3, <2>10, <1>1, <1>2, StaysCurrent
  <2> QED BY <2>2, <2>5, <2>11, <1>1, <1>2 DEF ScreensInv
<1> QED BY <1>5, <1>6

(* The card changes its state: the icon, or an alert.                      *)
LEMMA CardKeeps ==
  ASSUME ScreensInv, NEW state, CardEvent(state)
  PROVE  ScreensInv'
<1>1. scrMenus' = scrMenus /\ scrOn' = scrOn /\ scrValue' = scrValue /\ scrPanel' = scrPanel
      /\ scrCard' = state
  BY DEF CardEvent, panelVars
<1>2. /\ scrStack \in Stacks /\ scrOn \in CapSets /\ scrStatus \in Boxes
      /\ MenusFit /\ DamageFits /\ PanelIsCurrent
  BY DEF ScreensInv
<1>3. MenusFit'
  BY <1>1, <1>2, Zenon DEF MenusFit, Count
<1>4. ASSUME ~HasDialog, Redraw(Append(scrStack, "dialog"))  PROVE ScreensInv'
  <2>1. Append(scrStack, "dialog") \in Stacks
    BY <1>2, <1>4, StacksEnd DEF ScreenOnTop, HasDialog
  <2>2. scrStack' \in Stacks /\ DamageFits' /\ scrStatus' \in Boxes /\ PanelIsCurrent'
    BY <1>4, <2>1, <1>2, Redrawn
  <2> QED BY <2>2, <1>1, <1>2, <1>3 DEF ScreensInv
<1>5. ASSUME SetIcon(IconFor(state)), scrStack' = scrStack, scrDamage' = scrDamage  PROVE ScreensInv'
  <2>1. DamageFits'
    BY <1>2, <1>5, Zenon DEF DamageFits
  <2>2. \/ scrStatus' = scrStatus /\ IconFor(scrCard') = IconFor(scrCard)
        \/ IsEmpty(scrStatus) /\ scrStatus' = CardIcon
        \/ scrStatus' = Around(scrStatus, CardIcon)
    BY <1>1, <1>5 DEF SetIcon
  <2>3. /\ scrStatus' \in Boxes
        /\ \A c \in Cells : Inside(c, scrStatus) => Inside(c, scrStatus')
        /\ IconFor(scrCard') = IconFor(scrCard) \/ \A c \in Cells : Inside(c, CardIcon) => Inside(c, scrStatus')
    <3>1. CASE scrStatus' = scrStatus /\ IconFor(scrCard') = IconFor(scrCard)
      BY <3>1, <1>2
    <3>2. CASE IsEmpty(scrStatus) /\ scrStatus' = CardIcon
      <4>1. \A c \in Points : ~Inside(c, scrStatus)
        BY <3>2, <1>2 DEF IsEmpty, Inside, Points, Boxes
      <4> QED BY <4>1, <3>2, ContentAlone, CellsAreInside
    <3>3. CASE scrStatus' = Around(scrStatus, CardIcon)
      <4>1. /\ Around(scrStatus, CardIcon) \in Boxes
            /\ \A c \in Points : Inside(c, scrStatus) \/ Inside(c, CardIcon)
                                   => Inside(c, Around(scrStatus, CardIcon))
        BY <1>2, ContentAlone, AroundCovers
      <4>2. \A c \in Cells : c \in Points
        BY CellsAreInside
      <4> QED BY <4>1, <4>2, <3>3
    <3> QED BY <2>2, <3>1, <3>2, <3>3
  <2>4. ASSUME NEW c \in Cells  PROVE Picture(c)' = Picture(c) \/ Inside(c, scrStatus')
    <3>1. Beneath' = Beneath
      BY <1>5 DEF Beneath, HasDialog, ScreenOnTop
    <3>2. CASE Inside(c, CardIcon) /\ IconFor(scrCard') # IconFor(scrCard)
      BY <3>2, <2>3
    <3>3. CASE ~(Inside(c, CardIcon) /\ IconFor(scrCard') # IconFor(scrCard))
      <4>1. StatusCell(c)' = StatusCell(c)
        BY <3>1, <3>3 DEF StatusCell
      <4>2. On(Beneath)' = On(Beneath)
        BY <1>1, <3>1 DEF On
      <4>3. MenuCell(Beneath, c)' = MenuCell(Beneath, c)
        BY <1>1, <3>1, <4>2, Zenon DEF MenuCell
      <4> QED BY <4>1, <4>3, <1>5, SamePicture
    <3> QED BY <3>2, <3>3
  <2>5. PanelIsCurrent'
    BY <2>3, <2>4, <1>1, <1>2, <1>5, StaysCurrent
  <2> QED BY <2>1, <2>3, <2>5, <1>1, <1>2, <1>3, <1>5 DEF ScreensInv
<1> QED BY <1>4, <1>5 DEF CardEvent

(* stark_ui_tick(): what was damaged on the screen on top is painted, or a *)
(* render gave up on it.                                                   *)
LEMMA TickKeeps ==
  ASSUME ScreensInv, UiTick
  PROVE  ScreensInv'
<1> DEFINE old == scrDamage[ScreenOnTop]
           areas == WithDamage(old, scrStatus)
           covered == {c \in Cells : Covers(areas, c)}
<1>1. /\ scrStack' = scrStack /\ scrMenus' = scrMenus /\ scrOn' = scrOn /\ scrValue' = scrValue
      /\ scrCard' = scrCard
      /\ scrDamage' = [scrDamage EXCEPT ![ScreenOnTop] = << >>] /\ scrStatus' = Empty
  BY DEF UiTick
<1>2. PICK missed : scrPanel' = [c \in Cells |-> IF c \in missed THEN Unknown
                                        ELSE IF c \in covered THEN Picture(c) ELSE scrPanel[c]]
  BY Zenon DEF UiTick
<1>3. /\ scrStack \in Stacks /\ scrOn \in CapSets /\ scrStatus \in Boxes
      /\ MenusFit /\ DamageFits /\ PanelIsCurrent
  BY DEF ScreensInv
<1>4. ScreenOnTop \in Kinds /\ Beneath \in Kinds
  BY <1>3, OnTheStack DEF Menus, Kinds
<1>5. old \in Seq(Boxes) /\ Apart(old) /\ Len(old) <= DamageMax
  BY <1>3, <1>4 DEF DamageFits
<1> HIDE DEF old
<1>6. \A c \in Points : Covers(old, c) \/ Inside(c, scrStatus) => Covers(areas, c)
  BY <1>3, <1>5, DamageAdded
<1> HIDE DEF areas
<1>7. \A c \in Cells : Covers(old, c) \/ Inside(c, scrStatus) => c \in covered
  BY <1>6, CellsAreInside
<1> HIDE DEF covered
<1>8. DamageFits'
  BY <1>1, <1>3, <1>4, ContentAlone, DamagePut
<1>9. MenusFit'
  BY <1>1, <1>3, Zenon DEF MenusFit, Count
<1>10. ScreenOnTop' = ScreenOnTop /\ Beneath' = Beneath /\ HasDialog' = HasDialog
  BY <1>1 DEF ScreenOnTop, Beneath, HasDialog
<1>11. \A c \in Cells : Picture(c)' = Picture(c)
  <2> SUFFICES ASSUME NEW c \in Cells  PROVE Picture(c)' = Picture(c)
    OBVIOUS
  <2>1. StatusCell(c)' = StatusCell(c)
    BY <1>1, <1>10 DEF StatusCell
  <2>2. On(Beneath)' = On(Beneath)
    BY <1>1, <1>10 DEF On
  <2>3. MenuCell(Beneath, c)' = MenuCell(Beneath, c)
    BY <1>1, <1>10, <2>2, Zenon DEF MenuCell
  <2> QED BY <2>1, <2>3, <1>1, SamePicture
<1>12. HasDialog => scrDamage'[Beneath] = scrDamage[Beneath]
  <2>1. HasDialog => Beneath # ScreenOnTop
    BY <1>3, OnTheStack DEF Menus
  <2> QED BY <2>1, <1>1, <1>3, <1>4 DEF DamageFits
<1>13. PanelIsCurrent'
  <2> SUFFICES ASSUME NEW c \in Cells
      PROVE  \/ scrPanel'[c] \in {Picture(c)', Unknown}
             \/ HasDialog /\ ~Inside(c, DialogBox) /\ Covers(scrDamage'[Beneath], c)
    BY <1>10, Zenon DEF PanelIsCurrent
  <2>1. scrPanel'[c] = IF c \in missed THEN Unknown
                       ELSE IF c \in covered THEN Picture(c) ELSE scrPanel[c]
    BY <1>2
  <2>2. CASE c \in missed \/ c \in covered
    BY <2>1, <2>2, <1>11
  <2>3. CASE ~(c \in missed \/ c \in covered)
    <3>1. scrPanel'[c] = scrPanel[c]
      BY <2>1, <2>3
    <3>2. ~Covers(scrDamage[ScreenOnTop], c) /\ ~Inside(c, scrStatus)
      BY <2>3, <1>7 DEF old
    <3>3. \/ scrPanel[c] \in {Picture(c), Unknown}
          \/ HasDialog /\ ~Inside(c, DialogBox) /\ Covers(scrDamage[Beneath], c)
      BY <3>2, <1>3, Zenon DEF PanelIsCurrent
    <3> QED BY <3>1, <3>3, <1>11, <1>12
  <2> QED BY <2>2, <2>3
<1> QED BY <1>1, <1>3, <1>8, <1>9, <1>13, ContentAlone DEF ScreensInv

(* Everything is damaged to begin with.                                    *)
LEMMA ScreensStart == ScreensInit => ScreensInv
<1> SUFFICES ASSUME ScreensInit  PROVE ScreensInv
  OBVIOUS
<1>1. /\ scrStack = <<"launcher">> /\ scrOn \in CapSets /\ scrStatus = StatusBar
      /\ scrMenus = [m \in Menus |-> Opened(m)]
      /\ scrDamage = [NoDamage EXCEPT !["launcher"] = <<Content>>]
  BY DEF ScreensInit, Menus
<1>2. scrStack \in Stacks /\ scrStatus \in Boxes
  BY <1>1, ContentAlone DEF Stacks
<1>3. MenusFit
  <2>1. ASSUME NEW m \in Menus
        PROVE  Opened(m) \in Selections /\ InView(Count(m), HeadersOf(m), Opened(m))
    <3>1. /\ Count(m) \in Nat /\ On(m) \in SUBSET (0..Count(m) - 1)
          /\ HeadersOf(m) \in SUBSET Nat /\ HeadersOf(m) \cap On(m) = {}
      BY <1>1, RowsFit
    <3> QED BY <3>1, InitShows DEF Opened
  <2> QED BY <2>1, <1>1 DEF MenusFit
<1>4. scrDamage = [s \in Kinds |-> IF s = "launcher" THEN <<Content>> ELSE << >>]
  BY <1>1 DEF NoDamage, Kinds
<1>5. DamageFits
  <2>1. \A s \in Kinds : scrDamage[s] \in {<< >>, <<Content>>}
    BY <1>4
  <2>2. scrDamage \in [Kinds -> Seq(Boxes)]
    BY <1>4, ContentAlone
  <2> QED BY <2>1, <2>2, ContentAlone DEF DamageFits
<1>6. PanelIsCurrent
  <2>1. ScreenOnTop = "launcher"
    BY <1>1 DEF ScreenOnTop, Last
  <2>2. scrDamage[ScreenOnTop] = <<Content>>
    BY <2>1, <1>4 DEF Kinds
  <2> QED BY <2>2, <1>1, AllDamaged, Zenon DEF PanelIsCurrent
<1> QED BY <1>1, <1>2, <1>3, <1>5, <1>6 DEF ScreensInv

(* Every event and every frame keeps the invariant.                        *)
LEMMA ScreensStep == ScreensInv /\ [ScreensNext]_scrVars => ScreensInv'
<1> SUFFICES ASSUME ScreensInv, [ScreensNext]_scrVars  PROVE ScreensInv'
  OBVIOUS
<1>1. CASE UNCHANGED scrVars
  <2>1. /\ scrStack' = scrStack /\ scrOn' = scrOn /\ scrStatus' = scrStatus /\ scrMenus' = scrMenus
        /\ scrDamage' = scrDamage /\ scrPanel' = scrPanel /\ scrValue' = scrValue /\ scrCard' = scrCard
    BY <1>1 DEF scrVars
  <2>2. MenusFit' /\ DamageFits'
    BY <2>1, Zenon DEF ScreensInv, MenusFit, DamageFits, Count
  <2>3. PanelIsCurrent'
    <3>1. ScreenOnTop' = ScreenOnTop /\ Beneath' = Beneath /\ HasDialog' = HasDialog
      BY <2>1 DEF ScreenOnTop, Beneath, HasDialog
    <3>2. ASSUME NEW c \in Cells  PROVE Picture(c)' = Picture(c)
      <4>1. StatusCell(c)' = StatusCell(c)
        BY <2>1, <3>1 DEF StatusCell
      <4>2. On(Beneath)' = On(Beneath)
        BY <2>1, <3>1 DEF On
      <4>3. MenuCell(Beneath, c)' = MenuCell(Beneath, c)
        BY <2>1, <3>1, <4>2, Zenon DEF MenuCell
      <4> QED BY <4>1, <4>3, <2>1, SamePicture
    <3>3. PanelIsCurrent
      BY DEF ScreensInv
    <3> QED BY <3>2, <3>3, <2>1, StaysCurrent
  <2> QED BY <2>1, <2>2, <2>3 DEF ScreensInv
<1>2. CASE UiEvent
  <2>1. CASE \E d \in Directions : KeyUpDown(d) \/ KeyPage(d) \/ KeyAdjust(d)
    <3>1. PICK d \in Directions : KeyUpDown(d) \/ KeyPage(d) \/ KeyAdjust(d)
      BY <2>1
    <3> QED BY <3>1, KeysKeep, AdjustKeeps
  <2>2. CASE KeyOk \/ Pop \/ BackLong \/ Fault
    BY <2>2, StackKeeps
  <2>3. CASE \E on \in CapSets : SetCaps(on)
    BY <2>3, CapsKeep
  <2>4. CASE \E state \in CardStates : CardEvent(state)
    BY <2>4, CardKeeps
  <2> QED BY <1>2, <2>1, <2>2, <2>3, <2>4, Zenon DEF UiEvent, Directions
<1>3. CASE UiTick
  BY <1>3, TickKeeps
<1> QED BY <1>1, <1>2, <1>3 DEF ScreensNext

(* The panel shows what it should or is damaged there, whatever rows are   *)
(* enabled and however many, however long the window and however few rects *)
(* the damage set holds; the selection is in view, and no rects overlap    *)
(* (ui_stack.c, ui_damage.c, ui_menu.c, ui_menu_model.c).                  *)
THEOREM PanelTellsTheTruth == ScreensInit /\ [][ScreensNext]_scrVars => []ScreenIsCurrent
<1>1. ScreensInit /\ [][ScreensNext]_scrVars => []ScreensInv
  BY ScreensStart, ScreensStep, PTL
<1> QED BY <1>1, ScreensInvShows, PTL
=============================================================================
