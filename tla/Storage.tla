------------------------------ MODULE Storage -------------------------------
(***************************************************************************)
(* The storage service: the mount state machine storage_core.c, the task   *)
(* stark_storage.c that performs what it decides, the handle table of the  *)
(* file helpers storage_file.c and the card behind medium_sdspi.c.         *)
(*                                                                         *)
(* s_lock is held by the storage task from "eject" to "release"; a helper  *)
(* called by another task holds it for one action.  The atomic flags, the  *)
(* shown state and the card itself change at any moment.  A board without  *)
(* a card slot starts no task and is left out.                             *)
(***************************************************************************)
EXTENDS Integers, FiniteSets

CONSTANTS
  Clients,     \* tasks that use the file helpers
  Requesters,  \* tasks that request an eject or a mount
  NSlots,      \* STORAGE_FILE_SLOTS
  GenRange,    \* 2^32, the range of the mount generation
  MaxLines     \* bound: bursts of log lines in a behaviour

ASSUME StorageConstantsOK ==
  /\ NSlots \in Nat \ {0}
  /\ GenRange \in Nat \ {0, 1}
  /\ MaxLines \in Nat
  /\ "log" \notin Clients /\ "nobody" \notin Clients

VARIABLES
  card,       \* what is in the slot
  volume,     \* the medium's mount: its card is "live", or "gone" from under it
  core,       \* s_core: [state, announced, due, generation]
  shown,      \* s_state, which any task reads
  reqEject,   \* s_req_eject
  reqMount,   \* s_req_mount
  ioError,    \* s_io_error
  notified,   \* the storage task's notification
  pc,         \* where the storage task stands
  action,     \* run(): step.action
  goesOn,     \* run(): where the task goes on when it returns
  handles,    \* s_files
  fds,        \* slots whose descriptor is open in the volume's file system
  buffered,   \* the capture ring holds lines
  lines,      \* bursts of lines logged so far
  requestPc,  \* where each requester stands
  told,       \* history: since the last eject a mount was requested, or ABSENT
              \* was shown to the other tasks
  released    \* history: since the last eject a mount was requested, or the
              \* slot was empty

cardVars == <<card, volume, released>>
flagVars == <<reqEject, reqMount, ioError, notified>>
runVars == <<core, shown, action, goesOn, told>>
fileVars == <<handles, fds>>
logVars == <<buffered, lines>>
storageVars == <<cardVars, flagVars, runVars, fileVars, logVars, pc, requestPc>>

Slots == 1..NSlots
States == {"absent", "mounted", "unusable", "removed", "ejected"}
Actions == {"none", "try_mount", "probe", "present_check", "unmount"}
Free == [owner |-> "nobody", stale |-> FALSE, generation |-> 0]

-----------------------------------------------------------------------------
(* Definitions with Slip in their name are plausible mistakes in the one   *)
(* they precede; they are used only to show that a property can fail.      *)

(* storage_core.c: every input maps the core to a step, the core after it, *)
(* the action to perform and whether the state is to be reported.  due is  *)
(* due_now, or due_ms has passed.                                          *)

Stay(c) == [core |-> c, action |-> "none", changed |-> FALSE]
Ask(c, act) == [core |-> c, action |-> act, changed |-> FALSE]
Enter(c, next, act) ==
  [core |-> [c EXCEPT !.state = next, !.announced = TRUE],
   action |-> act,
   changed |-> next # c.state \/ ~c.announced]

Schedule(c) == [c EXCEPT !.due = FALSE]
NextGeneration(c) == [c EXCEPT !.generation = (@ + 1) % GenRange]

TickActionSlip(state) == IF state = "mounted" THEN "probe" ELSE "try_mount"
TickAction(state) ==
  CASE state = "mounted" -> "probe"
    [] state = "ejected" -> "present_check"
    [] OTHER -> "try_mount"

OnTick(c) == IF c.due THEN Ask(Schedule(c), TickAction(c.state)) ELSE Stay(c)

OnMountResult(c, result) ==
  CASE result = "ok" -> Enter(Schedule(c), "mounted", "none")
    [] result = "not_found" ->
         IF c.state = "removed" THEN Stay(c) ELSE Enter(c, "absent", "none")
    [] OTHER -> Enter(c, "unusable", "none")

OnProbeResult(c, result) ==
  IF result = "ok" THEN Stay(c)
  ELSE Enter(Schedule(NextGeneration(c)), "removed", "unmount")

OnPresentResult(c, result) ==
  IF c.state = "ejected" /\ result # "ok" THEN Enter(c, "absent", "none") ELSE Stay(c)

OnReqMount(c) ==
  IF c.state # "mounted" THEN Ask(Schedule(c), "try_mount") ELSE Stay(c)

OnReqEject(c) ==
  IF c.state = "mounted" THEN Enter(Schedule(NextGeneration(c)), "ejected", "unmount")
  ELSE Stay(c)

OnIoError(c) == Stay([c EXCEPT !.due = @ \/ c.state = "mounted"])

-----------------------------------------------------------------------------
(* medium_sdspi.c.  A card that is there may fail to answer once; one that *)
(* was pulled never answers again for the mount it had.                    *)

MountResults ==
  CASE volume # "none" -> {"state"}
    [] volume = "none" /\ card = "none" -> {"not_found"}
    [] volume = "none" /\ card = "blank" -> {"not_found", "not_supported"}
    [] OTHER -> {"ok", "not_found", "io"}

ProbeResults ==
  CASE volume = "none" -> {"state"}
    [] volume = "gone" -> {"not_found"}
    [] OTHER -> {"ok", "not_found"}

PresentResults ==
  CASE volume # "none" -> {"state"}
    [] volume = "none" /\ card = "none" -> {"not_found"}
    [] OTHER -> {"ok", "not_found"}

-----------------------------------------------------------------------------
(* The file helpers (storage_file.c).                                      *)

LockHeld == pc \in {"eject", "mount", "io_error", "tick", "act", "release"}

Usable(s) ==
  /\ handles[s] # Free
  /\ ~handles[s].stale
  /\ core.state = "mounted"
  /\ handles[s].generation = core.generation

OpenCountSlip == Cardinality({s \in Slots : handles[s].stale})
OpenCount == Cardinality({s \in Slots : handles[s] # Free})

(* A call that failed with an I/O error asks the task for a probe.         *)
IoErrorRaised == ioError' = TRUE /\ notified' = TRUE
NoIoError == UNCHANGED <<ioError, notified>>

OpenFileSlip(owner, s) ==
  /\ ~LockHeld
  /\ core.state = "mounted"
  /\ handles[s] = Free
  /\ handles' = [handles EXCEPT ![s] = [owner |-> owner, stale |-> FALSE, generation |-> 0]]
  /\ fds' = fds \cup {s}

OpenFile(owner, s) ==
  /\ ~LockHeld
  /\ core.state = "mounted"
  /\ handles[s] = Free
  /\ \A t \in 1..s - 1 : handles[t] # Free
  /\ handles' = [handles EXCEPT ![s] =
       [owner |-> owner, stale |-> FALSE, generation |-> core.generation]]
  /\ fds' = fds \cup {s}

(* close and discard: a stale handle has no descriptor left; a close may   *)
(* fail, and frees the handle all the same.                                *)
CloseFile(owner, s) ==
  /\ ~LockHeld
  /\ handles[s].owner = owner
  /\ IF Usable(s)
     THEN fds' = fds \ {s} /\ (NoIoError \/ IoErrorRaised)
     ELSE NoIoError /\ UNCHANGED fds
  /\ handles' = [handles EXCEPT ![s] = Free]

Open(c, s) ==
  /\ OpenFile(c, s)
  /\ UNCHANGED <<cardVars, flagVars, runVars, logVars, pc, requestPc>>

Close(c, s) ==
  /\ CloseFile(c, s)
  /\ UNCHANGED <<cardVars, reqEject, reqMount, runVars, logVars, pc, requestPc>>

(* Any helper, with a handle or with a name.  What it does to the files'   *)
(* contents is not modelled here.                                          *)
HelperFails ==
  /\ ~LockHeld
  /\ core.state = "mounted"
  /\ IoErrorRaised
  /\ UNCHANGED <<cardVars, reqEject, reqMount, runVars, fileVars, logVars, pc, requestPc>>

-----------------------------------------------------------------------------
(* Requests: the flag first, then the notification.                        *)

RequestEject(r) ==
  /\ requestPc[r] = "idle"
  /\ reqEject' = TRUE
  /\ requestPc' = [requestPc EXCEPT ![r] = "notify"]
  /\ UNCHANGED <<cardVars, reqMount, ioError, notified, runVars, fileVars, buffered, lines, pc>>

RequestMount(r) ==
  /\ requestPc[r] = "idle"
  /\ reqMount' = TRUE
  /\ requestPc' = [requestPc EXCEPT ![r] = "notify"]
  /\ UNCHANGED <<cardVars, reqEject, ioError, notified, runVars, fileVars, logVars, pc>>

Notify(r) ==
  /\ requestPc[r] = "notify"
  /\ notified' = TRUE
  /\ requestPc' = [requestPc EXCEPT ![r] = "idle"]
  /\ UNCHANGED <<cardVars, reqEject, reqMount, ioError, runVars, fileVars, logVars, pc>>

-----------------------------------------------------------------------------
(* The surroundings: cards, log lines, the clock.                          *)

Insert(kind) ==
  /\ card = "none"
  /\ card' = kind
  /\ UNCHANGED <<volume, released, flagVars, runVars, fileVars, logVars, pc, requestPc>>

Pull ==
  /\ card # "none"
  /\ card' = "none"
  /\ volume' = IF volume = "none" THEN "none" ELSE "gone"
  /\ released' = TRUE
  /\ UNCHANGED <<flagVars, runVars, fileVars, logVars, pc, requestPc>>

LogLines ==
  /\ lines < MaxLines
  /\ lines' = lines + 1
  /\ buffered' = TRUE
  /\ UNCHANGED <<cardVars, flagVars, runVars, fileVars, pc, requestPc>>

TimePasses ==
  /\ ~core.due
  /\ core' = [core EXCEPT !.due = TRUE]
  /\ UNCHANGED <<cardVars, flagVars, shown, action, goesOn, told, fileVars,
                 logVars, pc, requestPc>>

-----------------------------------------------------------------------------
(* The storage task.                                                       *)

(* Flush when an eject waits, or when the period has passed.               *)
LoopTop ==
  /\ pc = "top"
  /\ \/ pc' = "flush"
     \/ ~reqEject /\ pc' = "lock"
  /\ UNCHANGED <<cardVars, flagVars, runVars, fileVars, logVars, requestPc>>

(* flush_log(): not while the shown state is another than MOUNTED; a chunk *)
(* leaves the ring before the file is opened.                              *)
FlushTake ==
  /\ pc = "flush"
  /\ IF shown = "mounted" /\ buffered
     THEN pc' = "log_open" /\ buffered' = FALSE
     ELSE pc' = "lock" /\ UNCHANGED buffered
  /\ UNCHANGED <<cardVars, flagVars, runVars, fileVars, lines, requestPc>>

LogOpen ==
  /\ pc = "log_open"
  /\ \E s \in Slots : OpenFile("log", s)
  /\ pc' = "log_close"
  /\ UNCHANGED <<cardVars, flagVars, runVars, logVars, requestPc>>

(* Not mounted, no slot, or an I/O error: the chunk is lost.               *)
LogOpenFails ==
  /\ pc = "log_open"
  /\ \/ core.state = "mounted" /\ IoErrorRaised
     \/ core.state # "mounted" /\ NoIoError
     \/ OpenCount = NSlots /\ NoIoError
  /\ pc' = "lock"
  /\ UNCHANGED <<cardVars, reqEject, reqMount, runVars, fileVars, logVars, requestPc>>

LogClose ==
  /\ pc = "log_close"
  /\ \E s \in Slots : CloseFile("log", s)
  /\ pc' \in {"flush", "lock"}
  /\ UNCHANGED <<cardVars, reqEject, reqMount, runVars, logVars, requestPc>>

Lock ==
  /\ pc = "lock"
  /\ pc' = "eject"
  /\ UNCHANGED <<cardVars, flagVars, runVars, fileVars, logVars, requestPc>>

(* run(): report a change, then perform the action.  Reporting MOUNTED     *)
(* prepares the directories, which may fail.                               *)
Take(step, then) ==
  /\ core' = step.core
  /\ action' = step.action
  /\ goesOn' = then
  /\ pc' = IF step.action = "none" THEN then ELSE "act"
  /\ shown' = IF step.changed THEN step.core.state ELSE shown
  /\ \/ NoIoError
     \/ step.changed /\ step.core.state = "mounted" /\ IoErrorRaised

ServeEject ==
  /\ pc = "eject"
  /\ reqEject' = FALSE
  /\ LET refused == OpenCount > 0 /\ core.state = "mounted"
         step == IF reqEject /\ ~refused THEN OnReqEject(core) ELSE Stay(core)
     IN  /\ Take(step, "mount")
         /\ told' = (told /\ ~step.changed)
         /\ released' = IF step.changed THEN card = "none" ELSE released
  /\ UNCHANGED <<card, volume, reqMount, fileVars, logVars, requestPc>>

ServeMountSlip ==
  /\ pc = "mount"
  /\ Take(IF reqMount THEN OnReqMount(core) ELSE Stay(core), "io_error")
  /\ told' = (told \/ reqMount)
  /\ released' = (released \/ reqMount)
  /\ UNCHANGED <<card, volume, reqEject, reqMount, fileVars, logVars, requestPc>>

ServeMount ==
  /\ pc = "mount"
  /\ reqMount' = FALSE
  /\ Take(IF reqMount THEN OnReqMount(core) ELSE Stay(core), "io_error")
  /\ told' = (told \/ reqMount)
  /\ released' = (released \/ reqMount)
  /\ UNCHANGED <<card, volume, reqEject, fileVars, logVars, requestPc>>

ServeIoError ==
  /\ pc = "io_error"
  /\ ioError' = FALSE
  /\ core' = IF ioError THEN OnIoError(core).core ELSE core
  /\ pc' = "tick"
  /\ UNCHANGED <<cardVars, reqEject, reqMount, notified, shown, action, goesOn, told,
                 fileVars, logVars, requestPc>>

Tick ==
  /\ pc = "tick"
  /\ Take(OnTick(core), "release")
  /\ UNCHANGED <<cardVars, reqEject, reqMount, told, fileVars, logVars, requestPc>>

TryMount ==
  /\ pc = "act" /\ action = "try_mount"
  /\ \E result \in MountResults :
       LET step == OnMountResult(core, result)
       IN  /\ Take(step, goesOn)
           /\ volume' = IF result = "ok" THEN "live" ELSE volume
           /\ UNCHANGED <<card, released, reqEject, reqMount, told, fileVars, logVars, requestPc>>

Probe ==
  /\ pc = "act" /\ action = "probe"
  /\ \E result \in ProbeResults : Take(OnProbeResult(core, result), goesOn)
  /\ UNCHANGED <<cardVars, reqEject, reqMount, told, fileVars, logVars, requestPc>>

PresentCheck ==
  /\ pc = "act" /\ action = "present_check"
  /\ \E result \in PresentResults :
       /\ Take(OnPresentResult(core, result), goesOn)
       /\ told' = (told \/ shown' = "absent")
  /\ UNCHANGED <<cardVars, reqEject, reqMount, fileVars, logVars, requestPc>>

(* storage_files_invalidate(), then the medium.                            *)
Unmount ==
  /\ pc = "act" /\ action = "unmount"
  /\ handles' = [s \in Slots |->
       IF handles[s] = Free THEN Free ELSE [handles[s] EXCEPT !.stale = TRUE]]
  /\ fds' = {s \in fds : handles[s] = Free \/ handles[s].stale}
  /\ volume' = "none"
  /\ action' = "none"
  /\ pc' = goesOn
  /\ UNCHANGED <<card, released, flagVars, core, shown, goesOn, told, logVars, requestPc>>

Release ==
  /\ pc = "release"
  /\ pc' = "wait"
  /\ UNCHANGED <<cardVars, flagVars, runVars, fileVars, logVars, requestPc>>

WakeSlip ==
  /\ pc = "wait"
  /\ notified
  /\ notified' = FALSE
  /\ pc' = "top"
  /\ UNCHANGED <<cardVars, reqEject, reqMount, ioError, runVars, fileVars, logVars, requestPc>>

(* A notification, the next tick, or while mounted the next flush.         *)
Wake ==
  /\ pc = "wait"
  /\ notified \/ core.due \/ core.state = "mounted"
  /\ notified' = FALSE
  /\ pc' = "top"
  /\ UNCHANGED <<cardVars, reqEject, reqMount, ioError, runVars, fileVars, logVars, requestPc>>

-----------------------------------------------------------------------------
(* stark_storage_init() on a board with a slot: the first tick is due at   *)
(* once and its outcome is reported even if it changes nothing.            *)
StorageInit ==
  /\ card \in {"none", "blank", "fat"}
  /\ volume = "none"
  /\ core = [state |-> "absent", announced |-> FALSE, due |-> TRUE, generation |-> 0]
  /\ shown = "not_fitted"
  /\ reqEject = FALSE /\ reqMount = FALSE /\ ioError = FALSE /\ notified = FALSE
  /\ pc = "top"
  /\ action = "none"
  /\ goesOn = "release"
  /\ handles = [s \in Slots |-> Free]
  /\ fds = {}
  /\ buffered = FALSE /\ lines = 0
  /\ requestPc = [r \in Requesters |-> "idle"]
  /\ told = TRUE /\ released = TRUE

TaskStep ==
  \/ LoopTop \/ FlushTake \/ LogOpen \/ LogOpenFails \/ LogClose \/ Lock
  \/ ServeEject \/ ServeMount \/ ServeIoError \/ Tick
  \/ TryMount \/ Probe \/ PresentCheck \/ Unmount
  \/ Release \/ Wake

StorageNext ==
  \/ TaskStep
  \/ \E c \in Clients, s \in Slots : Open(c, s) \/ Close(c, s)
  \/ HelperFails
  \/ \E r \in Requesters : RequestEject(r) \/ RequestMount(r) \/ Notify(r)
  \/ \E kind \in {"blank", "fat"} : Insert(kind)
  \/ Pull
  \/ LogLines
  \/ TimePasses

(* The task runs when it can, a requester finishes its call, the clock     *)
(* advances.  No client has to close its file and nobody touches the card. *)
StorageFairness ==
  /\ WF_storageVars(TaskStep)
  /\ \A r \in Requesters : WF_storageVars(Notify(r))
  /\ WF_storageVars(TimePasses)

StorageSpec == StorageInit /\ [][StorageNext]_storageVars /\ StorageFairness

-----------------------------------------------------------------------------
(* Properties.                                                             *)

Handle == [owner : Clients \cup {"log"}, stale : BOOLEAN, generation : 0..GenRange - 1]

TaskPcs == {"top", "flush", "log_open", "log_close", "lock", "eject", "mount", "io_error",
            "tick", "act", "release", "wait"}

(* Every variable has its type.                                            *)
StorageTypeOK ==
  /\ card \in {"none", "blank", "fat"}
  /\ volume \in {"none", "live", "gone"}
  /\ core \in [state : States, announced : BOOLEAN, due : BOOLEAN, generation : 0..GenRange - 1]
  /\ shown \in States \cup {"not_fitted"}
  /\ reqEject \in BOOLEAN /\ reqMount \in BOOLEAN /\ ioError \in BOOLEAN /\ notified \in BOOLEAN
  /\ pc \in TaskPcs
  /\ action \in Actions
  /\ goesOn \in {"mount", "io_error", "release"}
  /\ handles \in [Slots -> Handle \cup {Free}]
  /\ fds \subseteq Slots
  /\ buffered \in BOOLEAN /\ lines \in 0..MaxLines
  /\ requestPc \in [Requesters -> {"idle", "notify"}]
  /\ told \in BOOLEAN /\ released \in BOOLEAN

(* storage_files_invalidate(): no descriptor is leaked by a stale handle   *)
(* and none outlives the volume, whoever closes, and when.                 *)
DescriptorsBelongToHandles ==
  /\ fds = {s \in Slots : handles[s] # Free /\ ~handles[s].stale}
  /\ fds # {} => volume # "none"

(* storage_file.c, usable(): whenever a helper can take the lock, a handle *)
(* that is not stale is of the current mount, and a stale one refused.     *)
OpenHandlesAreCurrent ==
  ~LockHeld => \A s \in Slots : Usable(s) <=> s \in fds

(* Whenever the lock is free the state is MOUNTED just when the medium has *)
(* a volume, and the state other tasks see is the core's.                  *)
StateMatchesMedium ==
  ~LockHeld =>
    /\ core.state = "mounted" <=> volume # "none"
    /\ core.announced => shown = core.state

(* The handle table, the volume and the state told to the others agree,    *)
(* through removals, failed probes, ejects and late closes.                *)
HandlesAreSound ==
  StorageTypeOK /\ DescriptorsBelongToHandles /\ OpenHandlesAreCurrent /\ StateMatchesMedium

(* stark_storage.h: an eject is refused while a file is open, so a handle  *)
(* goes stale only because its card was lost.                              *)
EjectSparesOpenFiles ==
  [][\A s \in Slots :
       handles[s] # Free /\ ~handles[s].stale /\ handles'[s].stale
       => core.state = "removed"]_storageVars

(* on_tick(): an ejected card is not mounted behind the user's back.       *)
(* Before it comes back a mount was requested, or the service has shown    *)
(* ABSENT.  That the card was out then is claimed by the next property.     *)
EjectedReturnIsTold ==
  [][volume = "none" /\ volume' # "none" => told]_storageVars

(* stark_storage.h: "An ejected card is never remounted by itself: pulling *)
(* it out moves the state to ABSENT".  The code does not keep this: one    *)
(* present check that a seated card does not answer is taken for a pull.   *)
EjectedStaysOut ==
  [][volume = "none" /\ volume' # "none" => released]_storageVars

(* The task acts on every request, even while files stay open, cards come  *)
(* and go and helpers fail.                                                *)
RequestsAreServed ==
  /\ []<>~reqEject
  /\ []<>~reqMount

(* A pulled card is noticed with nobody touching a file, by the probe.     *)
RemovalIsNoticed == []<>(volume # "gone")
=============================================================================
