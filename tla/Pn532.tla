-------------------------------- MODULE Pn532 --------------------------------
(***************************************************************************)
(* The PN532 driver (stark_nfc/pn532.c): a command is written until it is  *)
(* acknowledged, then its answer is awaited, asked again when damaged, and *)
(* given up with an abort.  Commands follow one another with the same code *)
(* (RFConfiguration twice in pn532_detect(), one exchange per page of a    *)
(* dump), so the code in an answer does not tell which one it answers.     *)
(*                                                                         *)
(* The chip is external: one command at a time, a new one replaces the     *)
(* old, ACK then answer, an abort from the host, the last answer again on  *)
(* a NACK.  Each transfer over I2C may fail, before or after the chip took *)
(* its part; a frame read may be damaged.  Frames are their kinds here.    *)
(***************************************************************************)
EXTENDS Naturals, Sequences

CONSTANTS Script,   \* the codes of the commands of a behaviour, in order
          Retries,  \* PN532_RETRIES
          Resends   \* PN532_RESENDS

ASSUME PnAssumption == {Retries, Resends} \subseteq Nat

VARIABLES at,        \* "idle", "write", "ack", "answer": where pn532_command() is
          cmd,       \* the number of the command in Script
          attempt,   \* repetitions of the command frame
          resend,    \* repetitions of the answer
          answered,  \* the command whose answer was returned as cmd's, or 0
          chip       \* external: [cmd, does], does = "nothing", "ack", "work", "answer", "sent"

pnVars == <<at, cmd, attempt, resend, answered, chip>>

\* What a transfer comes to: STARK_OK, STARK_ERR_NOT_FOUND, any other error.
Outcomes == {"ok", "absent", "error"}

Frame == IF chip.does = "ack" THEN [kind |-> "ack", cmd |-> 0] ELSE [kind |-> "data", cmd |-> chip.cmd]
NoFrame == [kind |-> "none", cmd |-> 0]
Damaged == [kind |-> "bad", cmd |-> 0]
Extended == [kind |-> "extended", cmd |-> 0]

ChipReady == chip.does \in {"ack", "answer"}
ChipRead == chip' = [chip EXCEPT !.does = IF @ = "ack" THEN "work" ELSE "sent"]

------------------------------------------------------------------------------
PnInit ==
  /\ at = "idle" /\ cmd = 0 /\ attempt = 0 /\ resend = 0 /\ answered = 0
  /\ chip = [cmd |-> 0, does |-> "nothing"]

\* pn532_command() returns: an error, or the answer of command a.
Returns(a) == at' = "idle" /\ answered' = a /\ UNCHANGED <<cmd, attempt, resend>>

Start ==
  /\ at = "idle" /\ cmd < Len(Script)
  /\ cmd' = cmd + 1 /\ at' = "write" /\ attempt' = 0 /\ resend' = 0 /\ answered' = 0
  /\ UNCHANGED chip

\* send_acked(): the frame once more, or the error of the last attempt.
TryAgain ==
  IF attempt < Retries THEN attempt' = attempt + 1 /\ at' = "write" /\ UNCHANGED <<cmd, resend, answered>>
                       ELSE Returns(0)

\* Slip: a write that failed is waited for like one that did not.
WriteCommandSlip(out, took) ==
  /\ at = "write"
  /\ chip' = IF took THEN [cmd |-> cmd, does |-> "ack"] ELSE chip
  /\ out = "absent" => ~took
  /\ at' = "ack" /\ UNCHANGED <<cmd, attempt, resend, answered>>

\* One write of the command frame; a failed one may have reached the chip all the same.
WriteCommand(out, took) ==
  /\ at = "write"
  /\ out = "ok" => took
  /\ out = "absent" => ~took
  /\ chip' = IF took THEN [cmd |-> cmd, does |-> "ack"] ELSE chip
  /\ CASE out = "ok"     -> at' = "ack" /\ UNCHANGED <<cmd, attempt, resend, answered>>
       [] out = "absent" -> Returns(0)
       [] out = "error"  -> TryAgain

\* read_ready(): the frame f the chip had, NoFrame when time ran out; out is the
\* error of a transfer otherwise, after which the chip may think it has sent its frame.
ReadReady(out, f) ==
  CASE out = "ok" /\ f # NoFrame -> ChipReady /\ ChipRead /\ f \in {Frame, Damaged, Extended}
    [] out = "absent"            -> UNCHANGED chip
    [] OTHER                     -> UNCHANGED chip \/ (out = "error" /\ ChipReady /\ ChipRead)

ReadAck(out, f) ==
  /\ at = "ack"
  /\ ReadReady(out, f)
  /\ CASE out = "absent"                -> Returns(0)
       [] out = "ok" /\ f.kind = "ack"  -> at' = "answer" /\ UNCHANGED <<cmd, attempt, resend, answered>>
       [] OTHER                         -> TryAgain

\* The host's ACK aborts a command that did not answer in time; nobody looks whether it arrived.
GiveUp(took) ==
  /\ at = "answer"
  /\ Returns(0)
  /\ chip' = IF took THEN [cmd |-> 0, does |-> "nothing"] ELSE chip

\* The answer as read: returned, refused, or asked for again with a NACK.
ReadAnswer(out, f) ==
  /\ at = "answer" /\ f # NoFrame
  /\ ReadReady(out, f)
  /\ CASE out # "ok"                         -> Returns(0)
       [] out = "ok" /\ f.kind = "bad" /\ resend < Resends ->
            at' = "nack" /\ resend' = resend + 1 /\ UNCHANGED <<cmd, attempt, answered>>
       [] out = "ok" /\ f.kind = "data" /\ Script[f.cmd] = Script[cmd] -> Returns(f.cmd)
       [] OTHER                              -> Returns(0)

Nack(out, took) ==
  /\ at = "nack"
  /\ out = "ok" => took
  /\ chip' = IF took /\ chip.does = "sent" THEN [chip EXCEPT !.does = "answer"] ELSE chip
  /\ IF out = "ok" THEN at' = "answer" /\ UNCHANGED <<cmd, attempt, resend, answered>> ELSE Returns(0)

\* The chip finishes its command.
ChipAnswers ==
  /\ chip.does = "work"
  /\ chip' = [chip EXCEPT !.does = "answer"]
  /\ UNCHANGED <<at, cmd, attempt, resend, answered>>

PnNext ==
  \/ Start
  \/ \E out \in Outcomes, took \in BOOLEAN : WriteCommand(out, took) \/ Nack(out, took)
  \/ \E out \in Outcomes, f \in {Frame, NoFrame, Damaged, Extended} : ReadAck(out, f) \/ ReadAnswer(out, f)
  \/ \E took \in BOOLEAN : GiveUp(took)
  \/ ChipAnswers

PnSpec == PnInit /\ [][PnNext]_pnVars

------------------------------------------------------------------------------
\* An answer that is returned answers the command it was asked for, never an earlier one
\* with the same code that was given up while the chip still worked on it (the ACK
\* between them sees to it, pn532_command()).
AnswersAreCurrent == answered \in {0, cmd}

==============================================================================
