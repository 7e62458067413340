---------------------------- MODULE ModuleBridge ----------------------------
(***************************************************************************)
(* The way of a capability from a driver's word to the launcher: the NFC   *)
(* task, module_bridge.c on the main task (boot) and on the UI task (its   *)
(* bus handler), the slot table of ModuleCore, and the app manager's copy. *)
(*                                                                         *)
(* The bus is the set of the events on their way to the handler.  Each     *)
(* makes the handler look at current state, so two of a kind count as one. *)
(***************************************************************************)
EXTENDS ModuleCore

CONSTANT IrFitted   \* stark_ir_fitted()

ASSUME IrFittedOK == IrFitted \in BOOLEAN

VARIABLES
  bootRounds,   \* rounds stark_module_init() has still to make
  nfc,          \* [pc, ready]: the NFC task, and s_module = STARK_NFC_READY
  events,       \* on their way to on_system()
  main,         \* [pc, word]: the main task in module_bridge_start()
  ui,           \* [pc, word]: the UI task in on_system()
  launcher      \* s_caps of the app manager

bridgeVars == <<bootRounds, nfc, events, main, ui, launcher>>
bridgeAllVars == <<vars, bridgeVars>>

(* The UI task runs before the table is set up.  What the NFC task has     *)
(* published so far may have been handled, with no effect, or not.         *)
BridgeInit ==
  /\ Init
  /\ bootRounds = 2
  /\ nfc \in [pc : {"idle"}, ready : BOOLEAN]
  /\ events \in {{}, {"nfc"}}
  /\ main = [pc |-> "ir", word |-> FALSE]
  /\ ui = [pc |-> "idle", word |-> FALSE]
  /\ launcher = {}

(* The NFC task stores the new state, then publishes.                      *)
ReaderChanges ==
  /\ nfc.pc = "idle"
  /\ Disturb
  /\ nfc' = [pc |-> "publish", ready |-> ~nfc.ready]
  /\ UNCHANGED <<fitted, coreVars, pollVars, leaseVars, bootRounds, events, main, ui, launcher>>

ReaderPublishes ==
  /\ nfc.pc = "publish"
  /\ nfc' = [nfc EXCEPT !.pc = "idle"]
  /\ events' = events \cup {"nfc"}
  /\ UNCHANGED <<vars, bootRounds, main, ui, launcher>>

(* The rounds of stark_module_init() publish nothing.                      *)
ModuleRound ==
  /\ EndRound
  /\ bootRounds' = IF bootRounds = 0 THEN 0 ELSE bootRounds - 1
  /\ events' = IF poll.changed /\ bootRounds = 0 THEN events \cup {"module"} ELSE events
  /\ UNCHANGED <<nfc, main, ui, launcher>>

(* module_bridge_start().  stark_module_confirm() publishes a change with  *)
(* the table's lock released: a step of its own.                           *)
MainConfirmsIr ==
  /\ main.pc = "ir"
  /\ bootRounds = 0
  /\ Confirm({"ir"}, IrFitted)
  /\ main' = [main EXCEPT !.pc = IF caps' # caps THEN "publish_ir" ELSE "read"]
  /\ UNCHANGED <<bootRounds, nfc, events, ui, launcher>>

MainReads ==
  /\ main.pc = "read"
  /\ main' = [pc |-> "confirm", word |-> nfc.ready]
  /\ UNCHANGED <<vars, bootRounds, nfc, events, ui, launcher>>

MainConfirmsNfc ==
  /\ main.pc = "confirm"
  /\ Confirm({"nfc"}, main.word)
  /\ main' = [main EXCEPT !.pc = IF caps' # caps THEN "publish_nfc" ELSE "done"]
  /\ UNCHANGED <<bootRounds, nfc, events, ui, launcher>>

MainPublishes ==
  /\ main.pc \in {"publish_ir", "publish_nfc"}
  /\ main' = [main EXCEPT !.pc = IF @ = "publish_ir" THEN "read" ELSE "done"]
  /\ events' = events \cup {"module"}
  /\ UNCHANGED <<vars, bootRounds, nfc, ui, launcher>>

(* on_system() for the reader's event ...                                  *)
UiReads ==
  /\ ui.pc = "idle"
  /\ "nfc" \in events
  /\ events' = events \ {"nfc"}
  /\ ui' = [pc |-> "confirm", word |-> nfc.ready]
  /\ UNCHANGED <<vars, bootRounds, nfc, main, launcher>>

(* Slip: the loss of a reader is confirmed and not published.                *)
UiConfirmsSlip ==
  /\ ui.pc = "confirm"
  /\ Confirm({"nfc"}, ui.word)
  /\ ui' = [ui EXCEPT !.pc = IF caps' # caps /\ ui.word THEN "publish" ELSE "idle"]
  /\ UNCHANGED <<bootRounds, nfc, events, main, launcher>>

UiConfirms ==
  /\ ui.pc = "confirm"
  /\ Confirm({"nfc"}, ui.word)
  /\ ui' = [ui EXCEPT !.pc = IF caps' # caps THEN "publish" ELSE "idle"]
  /\ UNCHANGED <<bootRounds, nfc, events, main, launcher>>

UiPublishes ==
  /\ ui.pc = "publish"
  /\ ui' = [ui EXCEPT !.pc = "idle"]
  /\ events' = events \cup {"module"}
  /\ UNCHANGED <<vars, bootRounds, nfc, main, launcher>>

(* ... and for the module service's: stark_app_set_caps().                 *)
UiTakesCaps ==
  /\ ui.pc = "idle"
  /\ "module" \in events
  /\ events' = events \ {"module"}
  /\ launcher' = caps
  /\ UNCHANGED <<vars, bootRounds, nfc, main, ui>>

(* Claims touch no capability and are left out.                            *)
BridgeNext ==
  \/ /\ \/ \E s \in Slots, c \in Contents \cup {None} : Fit(s, c)
        \/ BusCalls \/ Apply \/ RecomputeRound
     /\ UNCHANGED bridgeVars
  \/ ModuleRound
  \/ ReaderChanges \/ ReaderPublishes
  \/ MainConfirmsIr \/ MainReads \/ MainConfirmsNfc \/ MainPublishes
  \/ UiReads \/ UiConfirms \/ UiPublishes \/ UiTakesCaps

BridgeSpec == BridgeInit /\ [][BridgeNext]_bridgeAllVars

-----------------------------------------------------------------------------
(* Properties.                                                             *)

Quiet ==
  /\ events = {} /\ nfc.pc = "idle" /\ ui.pc = "idle" /\ main.pc = "done"
  /\ ~poll.changed

(* "Changes publish STARK_SYS_MODULE; module_bridge.c passes them to       *)
(* stark_app_set_caps()": the launcher's copy is right whenever nothing is *)
(* on its way.                                                             *)
LauncherIsCurrent == Quiet => launcher = caps
=============================================================================
