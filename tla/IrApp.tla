------------------------------- MODULE IrApp -------------------------------
(***************************************************************************)
(* The IR application (app_ir): one menu over the captures and the saved   *)
(* files, a worker that lists, loads and saves through the one work area   *)
(* irapp_work, and the confirmation before a transmission.  The UI task    *)
(* takes keys and the worker's notes from one queue; which row the         *)
(* selection is on when OK is pressed is left open.                        *)
(***************************************************************************)
EXTENDS Naturals, Sequences

CONSTANTS SavedSignals, \* the saved files, each named by the signal in it
          Captured,     \* a captured signal
          NoWork,
          MaxKeys       \* bound: events waiting for the UI task

VARIABLES
    irUiQueue,  \* keys and notes on the way to the UI task
    irRun,      \* "launcher", "running", or "stopping": on_exit joins the worker
    irMode,     \* s_mode
    irDialog,   \* the dialog on top
    irShown,    \* the signal the confirmation describes
    irWork,     \* irapp_work.signal
    irBusy,     \* s_busy of ir_browse.c
    irListed,   \* the valid rows of s_list, up to s_count
    irPick,     \* s_list[s_pick]
    irWorker,   \* the worker's job, and the files it still has to list
    irSent      \* history: the last transmission, and what its confirmation said

irAppVars == <<irUiQueue, irRun, irMode, irDialog, irShown, irWork, irBusy, irListed, irPick,
               irWorker, irSent>>
screenVars == <<irRun, irMode, irDialog, irShown>>
browseVars == <<irListed, irPick>>

NoJob == [job |-> "none", todo |-> {}]

IrAppInit ==
    /\ irUiQueue = <<>> /\ irRun = "launcher" /\ irMode = "view" /\ irDialog = "none"
    /\ irShown = NoWork /\ irWork = NoWork /\ irBusy = FALSE /\ irListed = {}
    /\ irPick = NoWork /\ irWorker = NoJob
    /\ irSent = [signal |-> NoWork, shown |-> NoWork]

\* stark_app_worker_start() is refused while the last worker has not returned.
CanStart == irWorker.job = "none"
Starts(job) == irWorker' = [job |-> job, todo |-> {}]

(***************************************************************************)
(* The worker.                                                             *)
(***************************************************************************)
Notify(note) == irUiQueue' = Append(irUiQueue, note)

\* The rows get their names; their flags are still those of the listing before.
ListCollect ==
    /\ irWorker.job = "list" /\ irListed' \in SUBSET SavedSignals
    /\ \/ irWorker' = [job |-> "parse", todo |-> SavedSignals]
       \/ irListed' = {} /\ Starts("parse")
    /\ UNCHANGED <<screenVars, irUiQueue, irWork, irBusy, irPick, irSent>>

\* irapp_load(): a file that cannot be opened leaves the work area, one that cannot
\* be read or parsed leaves no signal in it.
Load(f, loaded) ==
    irWork' \in IF loaded THEN {f} ELSE {irWork, NoWork}

\* Every listed file is loaded into the work area, unless the worker is to stop.
ListParse(f, loaded) ==
    /\ irWorker.job = "parse" /\ f \in irWorker.todo /\ irRun # "stopping"
    /\ irWorker' = [irWorker EXCEPT !.todo = @ \ {f}]
    /\ Load(f, loaded) /\ irListed' = IF loaded THEN irListed \cup {f} ELSE irListed \ {f}
    /\ UNCHANGED <<screenVars, irPick, irUiQueue, irBusy, irSent>>

ListNotify ==
    /\ irWorker.job = "parse" /\ (irWorker.todo = {} \/ irRun = "stopping")
    /\ Notify("listed") /\ Starts("return")
    /\ UNCHANGED <<screenVars, browseVars, irWork, irBusy, irSent>>

LoadRead(loaded) ==
    /\ irWorker.job = "load" /\ Load(irPick, loaded)
    /\ Starts(IF loaded THEN "loaded" ELSE "failed")
    /\ UNCHANGED <<screenVars, browseVars, irUiQueue, irBusy, irSent>>

LoadNotify ==
    /\ irWorker.job \in {"loaded", "failed"} /\ Notify(irWorker.job) /\ Starts("return")
    /\ UNCHANGED <<screenVars, browseVars, irWork, irBusy, irSent>>

\* The saved text is made from the work area; a worker that has returned may be reaped.
WorkerEnds ==
    /\ irWorker.job \in {"save", "return"} /\ irWorker' = NoJob
    /\ UNCHANGED <<screenVars, browseVars, irUiQueue, irWork, irBusy, irSent>>

IrWorkerStep ==
    \/ ListCollect \/ ListNotify \/ LoadNotify \/ WorkerEnds
    \/ \E loaded \in BOOLEAN : LoadRead(loaded) \/ \E f \in SavedSignals : ListParse(f, loaded)

(***************************************************************************)
(* The UI task: one event at a time, to the top of the screen stack.       *)
(***************************************************************************)
Handles(e) == irUiQueue # <<>> /\ Head(irUiQueue) = e /\ irUiQueue' = Tail(irUiQueue)
OnTop == irRun = "running" /\ irDialog = "none"
ShowMode(m) == irMode' = m /\ UNCHANGED <<irRun, irDialog, irShown>>

\* irapp_save(), from either save row.
Save ==
    /\ Handles("ok") /\ OnTop /\ irMode = "view"
    /\ IF irBusy THEN UNCHANGED <<irWork, irWorker>>
       ELSE irWork' = Captured /\ (IF CanStart THEN Starts("save") ELSE UNCHANGED irWorker)
    /\ UNCHANGED <<screenVars, browseVars, irBusy, irSent>>

\* No row is left; a listing under way has nothing more to parse.
NoRows == irListed' = {}
Cut == irWorker' = [irWorker EXCEPT !.todo = {}]

\* irbrowse_open(): without a card, or when the worker cannot start, an empty list.
BrowseOpen(mounted) ==
    /\ Handles("ok") /\ OnTop /\ irMode = "view" /\ NoRows
    /\ IF mounted /\ CanStart
       THEN Starts("list") /\ irBusy' = TRUE /\ UNCHANGED screenVars
       ELSE ShowMode("browse") /\ irBusy' = (irBusy /\ ~mounted) /\ Cut
    /\ UNCHANGED <<irWork, irPick, irSent>>

BrowseActivate(f) ==
    /\ Handles("ok") /\ OnTop /\ irMode = "browse" /\ f \in irListed
    /\ irPick' = f /\ irBusy' = CanStart
    /\ IF CanStart THEN Starts("load") ELSE UNCHANGED irWorker
    /\ UNCHANGED <<screenVars, irListed, irWork, irSent>>

LeaveBrowse ==
    /\ Handles("back") /\ OnTop /\ irMode = "browse" /\ ShowMode("view")
    /\ UNCHANGED <<browseVars, irWork, irBusy, irWorker, irSent>>

\* irbrowse_event(): a note ends the wait; a loaded file is confirmed.
NoteListed ==
    /\ Handles("listed") /\ OnTop /\ irBusy' = FALSE /\ ShowMode("browse")
    /\ UNCHANGED <<browseVars, irWork, irWorker, irSent>>

NoteFailed ==
    /\ Handles("failed") /\ OnTop /\ irBusy' = FALSE
    /\ UNCHANGED <<screenVars, browseVars, irWork, irWorker, irSent>>

\* irsend_confirm(): what is in the work area is described, unless it is outside the
\* transmit limits (TxAccepts of IrService).
NoteLoaded ==
    /\ Handles("loaded") /\ OnTop /\ irBusy' = FALSE
    /\ \/ UNCHANGED screenVars
       \/ irWork # NoWork /\ irDialog' = "confirm" /\ irShown' = irWork /\ UNCHANGED <<irRun, irMode>>
    /\ UNCHANGED <<browseVars, irWork, irWorker, irSent>>

\* send_confirmed(): the transmission takes the work area as it is now.
Confirm(answer) ==
    /\ irDialog = "confirm" /\ Handles("ok") /\ UNCHANGED <<irRun, irMode, irShown>>
    /\ \/ answer = "accepted" /\ irWork # NoWork
          /\ irSent' = [signal |-> irWork, shown |-> irShown] /\ irDialog' = "none"
       \/ answer = "busy" /\ irDialog' = "alert" /\ UNCHANGED irSent
       \/ answer = "refused" /\ irDialog' = "none" /\ UNCHANGED irSent
    /\ UNCHANGED <<browseVars, irWork, irBusy, irWorker>>

CloseDialog ==
    /\ \/ irDialog # "none" /\ Handles("back")
       \/ irDialog = "alert" /\ Handles("ok")
    /\ irDialog' = "none" /\ UNCHANGED <<irRun, irMode, irShown>>
    /\ UNCHANGED <<browseVars, irWork, irBusy, irWorker, irSent>>

\* A note that finds the launcher or a dialog on top, the application's own confirmation
\* too, is lost: nothing else of it happens.  So is BACK at the root.
NoteLost ==
    /\ \/ irDialog # "none" /\ \E n \in {"listed", "loaded", "failed"} : Handles(n)
       \/ irRun = "launcher" /\ \E e \in {"listed", "loaded", "failed", "back"} : Handles(e)
    /\ UNCHANGED <<screenVars, browseVars, irWork, irBusy, irWorker, irSent>>

\* The card alert, or another part's, comes up over the application.
AlertOpens ==
    /\ OnTop /\ irDialog' = "alert"
    /\ UNCHANGED <<irUiQueue, irRun, irMode, irShown, browseVars, irWork, irBusy, irWorker, irSent>>

Launch ==
    /\ irRun = "launcher" /\ Handles("ok") /\ irRun' = "running" /\ irMode' = "view"
    /\ UNCHANGED <<browseVars, irDialog, irShown, irWork, irBusy, irWorker, irSent>>

\* BACK on the view leaves the app: the UI task waits for the worker, then on_stop.
Leave ==
    /\ Handles("back") /\ OnTop /\ irMode = "view" /\ irRun' = "stopping"
    /\ UNCHANGED <<browseVars, irMode, irDialog, irShown, irWork, irBusy, irWorker, irSent>>

\* Slip: irbrowse_stop() forgets the list, not that it waits.
StoppedSlip ==
    /\ irRun = "stopping" /\ CanStart /\ irRun' = "launcher"
    /\ irListed' = {} /\ UNCHANGED irBusy
    /\ UNCHANGED <<irUiQueue, irMode, irDialog, irShown, irWork, irPick, irWorker, irSent>>

Stopped ==
    /\ irRun = "stopping" /\ CanStart /\ irRun' = "launcher"
    /\ irListed' = {} /\ irBusy' = FALSE
    /\ UNCHANGED <<irUiQueue, irMode, irDialog, irShown, irWork, irPick, irWorker, irSent>>

IrUiStep ==
    /\ irRun # "stopping"
    /\ \/ Save \/ LeaveBrowse \/ NoteListed \/ NoteFailed \/ NoteLoaded
       \/ CloseDialog \/ NoteLost \/ Launch \/ Leave
       \/ \E m \in BOOLEAN : BrowseOpen(m)
       \/ \E f \in SavedSignals : BrowseActivate(f)
       \/ \E a \in {"accepted", "busy", "refused"} : Confirm(a)

\* OK where there is nothing to choose: a row that is disabled or missing, no capture
\* to save, or no card to save it on.
NoRow ==
    /\ Handles("ok") /\ OnTop
    /\ UNCHANGED <<screenVars, browseVars, irWork, irBusy, irWorker, irSent>>

\* The storage service says the card is gone while the list is shown.
CardGone ==
    /\ OnTop /\ irMode = "browse" /\ NoRows /\ Cut
    /\ UNCHANGED <<screenVars, irUiQueue, irWork, irBusy, irPick, irSent>>

KeyPressed(k) ==
    /\ Len(irUiQueue) < MaxKeys /\ irUiQueue' = Append(irUiQueue, k)
    /\ UNCHANGED <<screenVars, browseVars, irWork, irBusy, irWorker, irSent>>

IrProgram == IrWorkerStep \/ IrUiStep \/ NoRow \/ Stopped
IrAppNext == IrProgram \/ CardGone \/ AlertOpens \/ \E k \in {"ok", "back"} : KeyPressed(k)

(***************************************************************************)
(* Properties.                                                             *)
(***************************************************************************)
\* A user who wants out: from some time on no key but BACK, which comes again and again,
\* and no more dialogs of other parts.
WantsOut ==
    /\ []<><<KeyPressed("back")>>_irAppVars
    /\ <>[][~KeyPressed("ok") /\ ~AlertOpens]_irAppVars

\* A user who goes on: more lists and loads, and from some time on no dialog.
GoesOn ==
    /\ []<><<CanStart /\ irWorker'.job \in {"list", "load"}>>_irAppVars
    /\ <>[](irDialog = "none")

\* Saving is refused while s_busy is set, and a note that goes to a dialog, of another part
\* or the application's own, clears nothing.  Whatever became of earlier notes, the wait is
\* over again and again for who leaves with BACK and for who goes on without dialogs.
BrowseBusyEnds == WantsOut \/ GoesOn => []<>~irBusy

\* "shown in a confirmation that says exactly what will be sent" (ir_send.c, after
\* SECURITY_SCOPE 4.2): what is transmitted is what the user was shown.
SentIsConfirmed == [][irSent' # irSent => irSent'.signal = irSent'.shown]_irAppVars
=============================================================================
