----------------------------- MODULE IrService -----------------------------
(***************************************************************************)
(* The infrared service (stark_ir): the receiver that interrupts once per  *)
(* frame and must be armed again, the queue to the IR task, the captures,  *)
(* and transmissions behind their gate.  The UI task starts and stops the  *)
(* receiver and asks for transmissions; its calls are split where another  *)
(* processor can come in between.                                          *)
(***************************************************************************)
EXTENDS Naturals, Sequences, SequencesExt

CONSTANTS IrQueueLen,   \* messages the queue holds
          CaptureSlots,
          IrSignals,    \* signals an application may ask to send
          IrRepeats,    \* and the repeats it may ask for
          MinInterval   \* ticks between two transmissions

\* stark_ir_init() makes a queue of four: besides the one "tx" there is room for a frame.
ASSUME IrAssumption ==
    /\ IrQueueLen \in Nat \ {0, 1} /\ CaptureSlots \in Nat \ {0} /\ MinInterval \in Nat
    /\ IrRepeats \subseteq Nat

VARIABLES
    irOn,       \* s_rx_on
    irEnabled,  \* the receive channel is enabled
    irArmed,    \* a receive is under way
    irQueue,    \* s_queue: "frame" or "long" (too many symbols), and "tx"
    captures,   \* captures in s_ring
    irTask,     \* where the IR task is
    txBusy,     \* s_tx_busy
    txSignal,   \* s_tx_signal and s_tx_repeats
    txFrames,   \* frames of the transmission still to send
    sinceTx,    \* ticks since the last transmission ended, up to MinInterval
    irCaller    \* where the UI task is, and the signal it carries

irVars == <<irOn, irEnabled, irArmed, irQueue, captures, irTask, txBusy, txSignal, txFrames,
            sinceTx, irCaller>>

(***************************************************************************)
(* The gate: what may be sent, and the time it takes.                      *)
(***************************************************************************)
MaxDurations == 256
TxMinUs == 50
TxMaxTotalUs == 1000000
TxMaxRepeats == 3
TxCarrier == 30000..60000

SignalUs(s) == FoldSeq(LAMBDA us, total : us + total, 0, s.timings)

TxAccepts(s, repeats) ==
    /\ Len(s.timings) \in 1..MaxDurations /\ Len(s.timings) % 2 = 1
    /\ repeats <= TxMaxRepeats /\ s.carrier \in TxCarrier
    /\ \A i \in DOMAIN s.timings : s.timings[i] >= TxMinUs
    /\ SignalUs(s) * (repeats + 1) <= TxMaxTotalUs

RateAllows == sinceTx >= MinInterval

(***************************************************************************)
(* The receiver and its interrupt.                                         *)
(***************************************************************************)
ArmEffect == irArmed' = (irArmed \/ (irOn /\ irEnabled))

\* on_recv_done(): one message per frame; a full queue loses it.
FrameArrives(kind) ==
    /\ irArmed /\ irArmed' = FALSE
    /\ irQueue' = IF Len(irQueue) < IrQueueLen THEN Append(irQueue, kind) ELSE irQueue
    /\ UNCHANGED <<irOn, irEnabled, captures, irTask, txBusy, txSignal, txFrames, sinceTx, irCaller>>

(***************************************************************************)
(* The IR task.                                                            *)
(***************************************************************************)
TakeMessage ==
    /\ irTask = "wait" /\ irQueue # <<>> /\ irQueue' = Tail(irQueue)
    /\ irTask' = (CASE Head(irQueue) = "tx" -> "send"
                    [] Head(irQueue) # "tx" /\ irOn -> Head(irQueue)
                    [] OTHER -> "wait")
    /\ txFrames' = IF Head(irQueue) = "tx" THEN txSignal.repeats + 1 ELSE txFrames
    /\ UNCHANGED <<irOn, irEnabled, irArmed, captures, txBusy, txSignal, sinceTx, irCaller>>

\* The ring of captures: the oldest makes room.
NoCaptures == 0
CapturePush(n) == IF n = CaptureSlots THEN n ELSE n + 1
CaptureTake == captures > 0 /\ captures' = captures - 1

\* Slip: the receiver is not armed again after a frame that does not fit.
HandleRxSlip ==
    /\ irTask \in {"frame", "long"}
    /\ irTask' = IF irTask = "long" THEN "wait" ELSE "arm"
    /\ captures' = IF irTask = "frame" THEN CapturePush(captures) ELSE captures
    /\ UNCHANGED <<irOn, irEnabled, irArmed, irQueue, txBusy, txSignal, txFrames, sinceTx, irCaller>>

HandleRx ==
    /\ irTask \in {"frame", "long"} /\ irTask' = "arm"
    /\ captures' = IF irTask = "frame" THEN CapturePush(captures) ELSE captures
    /\ UNCHANGED <<irOn, irEnabled, irArmed, irQueue, txBusy, txSignal, txFrames, sinceTx, irCaller>>

RearmRx ==
    /\ irTask = "arm" /\ irTask' = "wait" /\ ArmEffect
    /\ UNCHANGED <<irOn, irEnabled, irQueue, captures, txBusy, txSignal, txFrames, sinceTx, irCaller>>

\* A frame is sent, or an error ends the loop.
SendFrame ==
    /\ irTask = "send" /\ txFrames > 0 /\ txFrames' \in {0, txFrames - 1}
    /\ UNCHANGED <<irOn, irEnabled, irArmed, irQueue, captures, irTask, txBusy, txSignal, sinceTx,
                   irCaller>>

SendEnds ==
    /\ irTask = "send" /\ txFrames = 0
    /\ sinceTx' = 0 /\ irTask' = "sent"
    /\ UNCHANGED <<irOn, irEnabled, irArmed, irQueue, captures, txBusy, txSignal, txFrames, irCaller>>

SendAnswered ==
    /\ irTask = "sent" /\ txBusy' = FALSE /\ irTask' = "wait"
    /\ UNCHANGED <<irOn, irEnabled, irArmed, irQueue, captures, txSignal, txFrames, sinceTx, irCaller>>

IrTaskStep ==
    \/ TakeMessage \/ HandleRx \/ RearmRx \/ SendFrame \/ SendEnds \/ SendAnswered

(***************************************************************************)
(* The UI task's calls.                                                    *)
(***************************************************************************)
Calls(label) == irCaller' = [irCaller EXCEPT !.at = label]
callVars == <<irTask, captures, txFrames>>

RxStart ==
    /\ irCaller.at = "out" /\ ~irOn /\ irOn' = TRUE /\ Calls("start")
    /\ UNCHANGED <<callVars, irEnabled, irArmed, irQueue, txBusy, txSignal, sinceTx>>

RxEnable ==
    /\ irCaller.at = "start"
    /\ \/ irEnabled' = TRUE /\ Calls("arm") /\ UNCHANGED irOn
       \/ irOn' = FALSE /\ Calls("out") /\ UNCHANGED irEnabled
    /\ UNCHANGED <<callVars, irArmed, irQueue, txBusy, txSignal, sinceTx>>

RxArm ==
    /\ irCaller.at = "arm" /\ ArmEffect /\ Calls("out")
    /\ UNCHANGED <<callVars, irOn, irEnabled, irQueue, txBusy, txSignal, sinceTx>>

RxStop ==
    /\ irCaller.at = "out" /\ irOn /\ irOn' = FALSE /\ Calls("stop")
    /\ UNCHANGED <<callVars, irEnabled, irArmed, irQueue, txBusy, txSignal, sinceTx>>

RxDisable ==
    /\ irCaller.at = "stop" /\ irEnabled' = FALSE /\ irArmed' = FALSE /\ Calls("out")
    /\ UNCHANGED <<callVars, irOn, irQueue, txBusy, txSignal, sinceTx>>

\* The gate, and the rate limit against the end of the last transmission.
TransmitCheck(s, repeats) ==
    /\ irCaller.at = "out" /\ TxAccepts(s, repeats) /\ RateAllows
    /\ irCaller' = [at |-> "checked", signal |-> [s |-> s, repeats |-> repeats]]
    /\ UNCHANGED <<callVars, irOn, irEnabled, irArmed, irQueue, txBusy, txSignal, sinceTx>>

TransmitClaim ==
    /\ irCaller.at = "checked"
    /\ IF txBusy THEN Calls("out") /\ UNCHANGED <<txBusy, txSignal>>
       ELSE txBusy' = TRUE /\ txSignal' = irCaller.signal /\ Calls("claimed")
    /\ UNCHANGED <<callVars, irOn, irEnabled, irArmed, irQueue, sinceTx>>

\* Slip: a message that finds the queue full leaves the transmitter claimed.
TransmitQueueSlip ==
    /\ irCaller.at = "claimed" /\ Calls("out")
    /\ irQueue' = IF Len(irQueue) < IrQueueLen THEN Append(irQueue, "tx") ELSE irQueue
    /\ UNCHANGED <<callVars, irOn, irEnabled, irArmed, txBusy, txSignal, sinceTx>>

TransmitQueue ==
    /\ irCaller.at = "claimed" /\ Calls("out")
    /\ IF Len(irQueue) < IrQueueLen
       THEN irQueue' = Append(irQueue, "tx") /\ UNCHANGED txBusy
       ELSE txBusy' = FALSE /\ UNCHANGED irQueue
    /\ UNCHANGED <<callVars, irOn, irEnabled, irArmed, txSignal, sinceTx>>

TakeCapture ==
    /\ irCaller.at = "out" /\ CaptureTake
    /\ UNCHANGED <<irOn, irEnabled, irArmed, irQueue, irTask, txBusy, txSignal, txFrames, sinceTx,
                   irCaller>>

IrCall ==
    \/ RxStart \/ RxEnable \/ RxArm \/ RxStop \/ RxDisable
    \/ TransmitClaim \/ TransmitQueue \/ TakeCapture
    \/ \E s \in IrSignals, r \in IrRepeats : TransmitCheck(s, r)

IrTick ==
    /\ sinceTx < MinInterval /\ sinceTx' = sinceTx + 1
    /\ UNCHANGED <<irOn, irEnabled, irArmed, irQueue, captures, irTask, txBusy, txSignal, txFrames,
                   irCaller>>

NoSignal == [s |-> [timings |-> <<>>, carrier |-> 0, protocol |-> "UNKNOWN"], repeats |-> 0]

\* stark_ir_init(): the channels and the task exist, the receiver is off; no last
\* transmission counts as one long ago.
IrInit ==
    /\ irOn = FALSE /\ irEnabled = FALSE /\ irArmed = FALSE /\ irQueue = <<>>
    /\ captures = NoCaptures
    /\ irTask = "wait" /\ txBusy = FALSE /\ txSignal = NoSignal /\ txFrames = 0
    /\ sinceTx = MinInterval /\ irCaller = [at |-> "out", signal |-> NoSignal]

IrNext == IrTaskStep \/ IrCall \/ IrTick \/ \E k \in {"frame", "long"} : FrameArrives(k)

IrSpec == IrInit /\ [][IrNext]_irVars

(***************************************************************************)
(* Properties.                                                             *)
(***************************************************************************)
IrTypeOK ==
    /\ {irOn, irEnabled, irArmed, txBusy} \subseteq BOOLEAN
    /\ Len(irQueue) <= IrQueueLen /\ captures \in 0..CaptureSlots
    /\ sinceTx \in 0..MinInterval /\ txFrames \in 0..TxMaxRepeats + 1

\* A receiver that is on and not listening has somebody left to arm it: the frame
\* that stopped it, or an older one, is still to be handled.  The interrupt may find
\* the queue full, and frames of before a stop are handled after the next start.
NeverDeaf ==
    /\ IrTypeOK
    /\ irOn /\ ~irArmed /\ irCaller.at \notin {"start", "arm"} =>
          irTask \in {"frame", "long", "arm"} \/ \E i \in DOMAIN irQueue : irQueue[i] # "tx"

\* A transmission that was accepted is answered, and one refused by the full queue
\* gives the transmitter back.
TransmitAnswered == []<>~txBusy
=============================================================================
