# STARK ONE: TLA+ models and proofs

STARK ONE is the firmware of a hand-held device (C11, ESP-IDF and FreeRTOS on an ESP32-S3).
The modules here model its services as they are written in `src/`: the event bus, the storage
service with its files and its log, the module service with its SPI devices and its way to the
launcher, the life of an app with its worker, screens and dialogs, what the panel shows, the NFC
service and the PN532 driver, the infrared service and its app, keys, buzzer and settings, and the
codecs of IR and NFC as functions.
TLC checks them on small instances; the TLA+ proof system proves most of what they promise, from the
bus to the settings' store, for every value of the constants.

Contents: [The system](#the-system) - [Inventory](#inventory) - [Modules](#modules) -
[Runs](#runs) - [Fairness](#fairness) - [Proofs](#proofs) -
[Where code and documentation disagree](#where-code-and-documentation-disagree) -
[Not modelled](#not-modelled) - [Plan](#plan)

## The system

The firmware is a set of FreeRTOS tasks over a few services, each with a pure core (host-testable,
no RTOS) and a port that adds the lock, the task and the drivers.

| task | priority, core | what it does |
|---|---|---|
| UI | 5, core 1 | the only consumer of the event bus; runs every handler, screen and dialog |
| app worker | 4, core 0 | started by an app, joined when the app leaves |
| IR, NFC | 3 | receive and transmit IR; poll the NFC reader |
| storage, module | 2 | mount state machine and log writer; poll of the expansion slots |
| timer | ESP timer task | input sampler (5 ms), buzzer, diagnostics |
| main | boot only | starts the services, the UI task before storage, IR, NFC and modules |

They interact in four ways:

- **the event bus**: any task publishes, the UI task dispatches; what is on the bus is lost oldest
  first when it is full, so handlers look at current state instead of trusting the event;
- **requests**: an atomic flag and then a notification to the service's task (eject, mount, dump,
  write), answered by an event;
- **tables under a mutex**: storage handles, module slots; bus transfers and SPI transfers are made
  with the mutex released, the storage task's medium calls with it held;
- **calls on the UI task**: handlers, screens, dialogs and the app manager call each other, and
  callbacks re-enter them.

## Inventory

What each part keeps, what can be done with it, and what makes it correct. The hazards in
`PROJECT.json` point at the lines where it could go wrong.

| component | state | operations | correct when |
|---|---|---|---|
| Event bus (`stark_event`), UI loop (`ui_stack.c`) | ring, subscriber table, wrapping counters, binary semaphore | publish, subscribe, dispatch, wait, pending | order of publication; only the oldest are lost, only when full; no handler of a dispatch publishes its own work into it; no lost wake-up |
| Storage (`stark_storage`) | mount state, generation, request flags, handle table, capture ring to log file | open, close, read, write, list; eject, mount; task pass: flush, requests, tick, medium | no descriptor leaks or outlives its volume; a stale handle never reaches the next mount's file; ejects spare open files; an ejected card stays out; requests and removals are served |
| Files on the card (`storage_file.c`, `ir_save.c`, `nfc_save.c`, `storage_wtest.c`) | final and temporary files, the save under way | open, write, discard, close: sync, unlink, rename; sweep at mount | a file under its name is whole, after any failure, removal or reset; a save replaces no other capture of the card it listed |
| Log (`stark_log`, `storage_log.c`, `log_rotate.c`) | byte ring of whole lines, chunk in hand, files and the size that is known | put, take, rotate, append | the files are in order; missing lines are counted where they are missing; the size known is the file's |
| Module service (`stark_module`) | slots (state, entry, owner, generation, debounce counters), confirmed and effective capabilities | poll round, confirm, claim, release; SPI attach, transfer, detach | one holder per slot; no lease survives its module; conflicts withhold capabilities |
| Capability bridge (`module_bridge.c`) | none of its own; launcher's copy | boot start, bus handler | the launcher's copy follows the table |
| App lifecycle (`stark_app`) | current app, generation, worker task and its stop flag, pending fault | launch, stop, fail, set_caps; worker start, join | `on_stop` after the worker has ended; a stale fault report stops nothing |
| Screen stack and dialogs (`stark_ui`) | stack of screens, dialog's key guard | push, pop, pop_to_root, tick; open, answer | every exit callback once; a dialog is answered by a fresh key |
| Menus, damage, frames (`stark_ui`, `stark_display`, `storage_ui.c`) | selection and window of each menu, damage per screen, card icon, panel | keys, capabilities, card events, alerts; tick and render | what the panel shows is what the screens hold, or is damaged; the selection is in view |
| NFC service (`stark_nfc`) | wish, field, poll machine, snapshot, pending write and dump | start, stop, write, dump; poll, idle check, recovery | only the named tag is written; what is reported done is stored; a write is answered; the state follows the reader |
| PN532 driver (`pn532.c`) | where a command is; the chip | command with retries, resends, abort | an answer is to the command it was asked for |
| IR service (`stark_ir`) | receiver on, enabled, armed; queue; captures; transmitter | start, stop, transmit, take; interrupt, task | the receiver is armed again; the transmitter is given back |
| IR app (`app_ir`) | mode, list, work area, busy flag, confirmation | list, load, save, send; notes | a wait ends; what is sent was confirmed |
| Input (`stark_input`) | debouncer and timers per key, chord latch | sample, set timing | a press tells one story: PRESS, repeats and LONG, RELEASE, SHORT |
| Buzzer | sequence, deadline, alarm | play, stop, volume, timer | a note that plays has its end ahead |
| Settings (`stark_settings`, `app_settings.c`, `settings_apply.c`) | values, marks, store | set, commit, restore, load, apply | what is not marked is stored; what was told is applied |
| Codecs (`ir_*.c`, `ndef.c`, `nfc_type2.c`, `pn532_frame.c`, `nfc_dump.c`) | none | encode, decode | what is written is read back; what is damaged is refused |
| Diagnostics, graphics, board, HAL, other apps' screens, main | see `PROJECT.json` | | outside the models, with the reason given there |

What makes it hard:

- **interleaving** at every point where a lock is not held: between a publication and its semaphore,
  between a handler and the ring, between a lease check and the transfer;
- **stale state**: handles, leases and SPI devices are kept by their owners and used after what they
  name has changed, and the slots and descriptor numbers are used again;
- **failure of the medium**: a card pulled, swapped or not answering once, at any step; a bus fault or
  a torn read on a module poll;
- **ordering at boot**: the UI task runs while main is still initialising;
- **counters** of 32 bits, one of them updated late;
- **liveness**: requests and removals must be acted on although the task sleeps without a period;
- **partial failure**: a save, a rotation or a commit of settings fails, or the power goes, between any
  two of its steps;
- **late answers**: a timer callback or a reader's answer that arrives when something newer is under way.

## Modules

| module | extends | of the code |
|---|---|---|
| `EventBus` | | `stark_event_core.c`, `stark_event.c`, the UI task's loop |
| `LossyFifo` | | what `stark_event.h` promises: the abstract bus |
| `EventBusProofs` | `EventBus` | theorems |
| `Storage` | | `storage_core.c`, `stark_storage.c`, handles of `storage_file.c`, writer of `storage_log.c`, `medium_sdspi.c` |
| `StorageProofs` | `Storage` | theorems |
| `ModuleCore` | | `module_core.c`, the task's round in `stark_module.c` |
| `ModuleSpi` | `ModuleCore` | `stark_module_spi.c` |
| `ModuleBridge` | `ModuleCore` | `module_bridge.c`, boot rounds, launcher's copy |
| `ModuleProofs` | `ModuleSpi` | theorems: leases, SPI devices |
| `BridgeProofs` | `ModuleBridge`, `ModuleProofs` | theorems: conflicts, entries, the launcher's copy |
| `AppLifecycle` | | `app_manager.c`, `app_worker.c`, `app_fault.c`, the stack of `ui_stack.c`, `ui_dialog.c`, `storage_ui.c`'s alert |
| `AppSession` | | what the app manager promises an app and its worker, abstractly |
| `AppProofs` | `AppLifecycle` | theorems, with the refinement of `AppSession` |
| `NfcService` | | `stark_nfc.c`, `nfc_poll.c`, `nfc_reader.c`, `nfc_writer.c` |
| `NfcProofs` | `NfcService` | theorems |
| `Captures` | | atomic write of `storage_file.c`, names of `ir_names.c` and the dumps', `ir_save.c`, `nfc_save.c`, `storage_wtest.c` |
| `LogFile` | | `log_ring.c`, `stark_log.c`, `storage_log.c`, `log_rotate.c` |
| `CardProofs` | `Captures`, `LogFile` | theorems |
| `Input` | | `input_core.c`, `input_service.c` |
| `Buzzer` | | `buzzer.c` |
| `Settings` | | `settings_core.c`, `stark_settings.c`, `app_settings.c`, `settings_apply.c` |
| `Pn532` | | `pn532.c`, and the chip |
| `IrService` | | `stark_ir.c`, `ir_tx_guard.c`, `ir_capture.c` |
| `IrApp` | | `app_ir` |
| `Screens` | | `ui_menu.c`, `ui_menu_model.c`, `ui_damage.c`, frames of `ui_stack.c`, `ui_statusbar.c`, the launcher of `app_manager.c`, `storage_ui.c`, bands of `stark_display` |
| `DeviceProofs` | `Input`, `Buzzer`, `Pn532`, `IrService`, `Settings`, `Screens` | theorems |
| `IrCodec`, `NfcCodec` | | the codecs, as functions |
| `MCServices` | `Captures` to `Screens` | each of these services on its own, and the codecs (`INSTANCE MCCodecs`) |
| `MCCodecs` | `IrCodec`, `NfcCodec` | the inputs the codecs are checked on |
| `MCBusStorage` | `EventBus`, `Storage` | each of the two on its own |
| other `MC*` | the module they are named after | the instances TLC checks |

An action is one critical section, or one step that the code takes between two of them. Definitions
whose name contains `Slip` are plausible mistakes in a neighbouring definition; nothing uses them but
the sensitivity checks listed as `mutants` in `PROJECT.json`, which show for each property a change of
the code it would notice.

### EventBus

`queue`, `published`, `dropped` and `subs` are the core; `dispatching`, `start`, `evt`, `snapshot`,
`nextSub` and `delivered` are the locals of a running `dispatch()`; `consumed` and `wake` belong to the
port. `Publish` and `Give` are the two halves of `stark_event_publish()`. The UI task's steps are
`BeginDispatch`, `Dequeue` (with the copy of the subscribers), `CallHandler`, `HandlerPublish` and
`HandlerSubscribe` (a handler may do both), `EventDone`, `EndDispatch`, `Account`, and then
`stark_event_wait()` as `WaitCheck`, `TakeToken`, `TakeTimesOut`, `WaitRecheck`.

Counters are unbounded in the state, and every difference the code takes is `Residue(x) == x % Wrap`,
which is what subtraction of `uint32_t` gives. The code takes for granted that fewer than 2^32 events
are published during one dispatch; that is the second guard of `CorePublish`. `evt.n`, the place in
the order of publication, is a name the code does not store. Left out: time stamps and `max_depth`,
which nothing in the repository reads back, and a handler that subscribes twice, which none does.

### LossyFifo

Messages have numbers and are settled in order: taken, or lost when another is sent while `Capacity`
are outstanding. Taking is done in rounds that hand out nothing sent after the round opened and end
when everything sent before is settled. `EventBus` implements it with the ring's oldest event as the
next message and `dispatch()` as the round (`Fifo == INSTANCE LossyFifo WITH ...`).

### Storage

`core` is `storage_core_t` without its texts; every operation of `storage_core.c` is an operator that
returns the next core, the action to perform and whether the state changed. The task's pass is
`LoopTop` (flush or not), `FlushTake`, `LogOpen`/`LogOpenFails`/`LogClose`, `Lock`, `ServeEject`,
`ServeMount`, `ServeIoError`, `Tick`, with `TryMount`, `Probe`, `PresentCheck` and `Unmount` for what
`run()` performs, then `Release` and `Wake`. `s_lock` is held from `eject` to `release`. Clients open
and close; `HelperFails` is any helper call that hit an I/O error and asked for a probe. A requester
stores its flag and notifies in two steps. The card is inserted and pulled at any moment; `volume` is
what the medium has mounted, `gone` when its card was pulled. `told` and `released` are history: what happened since the
last eject, as the task tells it and as it was in the slot.

Abstracted: `due` stands for "the next tick is due", joining the deadline with the time that has
passed. The generation wraps at `GenRange`. A card that is there may fail to answer once; a probe of a
pulled card never succeeds. Names start with `Storage` or `storage` where the module shares a run with
another. A client's critical section is one action, so a client killed inside one
is left for the app lifecycle. `LogLines` is bounded, so the drain loop's end
(`storage_log.c:94`) is not shown. Contents of files are in `Captures` and `LogFile`. Not here: the
space cache, and a board without a slot (no task is started on it).

### ModuleCore

`table[s]` is `module_core_t.slot[s]`: state, entry, owner, claimed lines, generation, miss and error
counts, the hash seen last and the hash accepted. A round of the module task is `BusCalls` (probe and
read, lock released) and `Apply` for each slot, `RecomputeRound` if any changed, `EndRound`.
`DriversWord` is `module_core_confirm()`; `Claim` and `Release` are the leases. `Fit` moves modules;
a bus fault makes one poll a miss or an error.

What an EEPROM holds is a member of `Contents`; `Parse` gives what `module_desc_parse()` makes of it
and `Hash` what `hash32()` does (the proofs let contents collide, the instances do not).
`IR_TX` and `IR_RX` are one capability `ir`: the code only ever handles them together. A lease's
`on` and `lines`, `lastPoll` and `holds` are history the code does not keep. `MaxGen` bounds claims and
words (a word that finds a conflict raises generations each time, once per rival), `MaxDisturbances`
bounds moves and faults. Generations do not wrap in the model: 2^32 changes of one slot are out of
reach. Left out: names of providers, the inspector's list, a board without the bus.

### ModuleSpi

Each driver is a task; `driverPc` is where it stands within a call. `stark_module_spi_attach()` is
`AttachPins` (the lease check, under the table's lock), `AttachCheck` (is there a device already),
`AttachAdd` or `AttachFails`; `stark_module_spi_xfer()` is `XferCheck` and `Transmit`.
`devices[s]` is the lease stored in `s_devs[s]`.

### ModuleBridge

The NFC task stores its state and then publishes. The main task, in `module_bridge_start()`, confirms
IR, reads the reader's state, confirms it, and publishes when the capabilities changed, each a step of
its own; the UI task's handler does the same for an NFC event and copies the capabilities for a module
event. The boot rounds of `stark_module_init()` publish nothing. The bus is the set of the event kinds
on their way: both handlers look at current state, so two of a kind count as one. The loss of an event
in a full ring is EventBus's matter and not repeated here. Claims touch no capability and are left out
(`Drivers = {}`).

### AppLifecycle

The UI task is `ui`, where it stands between two steps at which other tasks matter: `idle` (the bus is
looked at), `screens` (`on_bus_event()` and the screen on top), `manager` (`on_app_request()`),
`alert`, `unwind` (`pop_to_root()`), and the join of the worker: `join`, `kill` or `reap`, `stop`.
`stack` holds `launcher`, `app`, `dialog`; `dlg` is `s_dlg`; `current` and `generation` are the
manager's. `task`, `done` and `stop` are the worker slot, and `worker` the FreeRTOS task in it, which
runs, has given its token, or has suspended itself. `launches`, `heard`, the `by` of an event and the
`owner`, `heard` and `born` of a dialog are history the code does not keep.

What an app does in a callback is one of: nothing, opening a dialog, starting its worker, reporting a
fault. Its callbacks run on a short OK, a note, and the OK of a confirm dialog. An event from a service
reaches an app as a note does and is not modelled apart. The keys are OK and BACK, one at a time: the
chord is ignored by the screens, and the other keys stay with the app. A callback that makes several of
these calls is left out, and so are stacks deeper than three: no app pushes a screen of its own.
`wait_state()` gives up after 100 ms; the model takes the worker, which has one call left to make, to
suspend within them.

`AppSession` is the contract: at most one worker, only within its session, and none left when
`on_stop()` closes the session.

### NfcService

The NFC task is `pc`: `Wake`, `ApplyField`/`SwitchField`, the idle check (`IdleProbe`, `IdleDetect`),
recovery (`Redetect`), a poll (`Poll`, `ReadTag`, `PollAnswered`), a write (`WriteSelect`, `WritePage`,
`ReadBack`, `Answer`) and a dump (`DumpPages`). The poll machine's states and its counts of errors and
misses are the code's. The UI task starts and stops, asks for a write or a dump; people move tags; the
link is good, noisy or out. Between any two commands of a write the tag may be exchanged. A page may be
acknowledged and not stored. A message's page holds the number of the request it came from, which is
enough to tell whether it is this write's.

### Captures, LogFile

`Captures` cuts a save where the lock is not held or the power can go: `ChooseName`, `OpenTmp`, `WritePart`,
`CloseSync`, `CloseUnlink`, `CloseRename`, or `Discard`. Any step may fail; the card may be pulled or
exchanged for one with other files; the device may be reset. `Mount` sweeps temporary files, and may fail
to. A worker past its join is deleted between two calls; one deleted inside a call keeps the storage lock
for ever, and nothing follows.

`LogFile` has the bytes: `PutLine` into the ring, which drops whole lines for room; `TakeChunk` through the
last newline that fits, behind the marker; then the flush step by step. A byte is known by its line. The
marker counts as one byte; the code prints a number in it, and which lines that number stands for is kept as history (`told`).
`logLost` is in the same way the set of lines whose number the ring keeps. `logGone` is history too: the lines an error or a
reset took. Lines are not longer than
a chunk, since `capture_vprintf()` cuts them at 160 bytes and a chunk has 1024; text without a newline, which
no call in the repository logs, is left out.

### Input, Buzzer, Settings, Pn532

`Input` keeps elapsed times where the code keeps stamps. A sample stands for one or several ticks, because
the timer callback may be late. `told` and `hushed` are history: what a subscriber makes of the actions.

`Buzzer` measures in ticks of 200 us, the slack of the deadline test in `on_timer()`. `flight` is a callback that
has left the timer and runs up to `MaxDelay` ticks later.

`Settings` cuts a restore at each setting and a commit at its writes; `job` is the loop over the table that the UI task
is in, and where. A new store is committed as soon as it is loaded. The store is external: a reset keeps what was
committed and a prefix of what was written after (`Surviving`). At every boot the store may be erased (`Erased`), may not open, and
any of its keys may be unreadable or out of range. Events to the handler may be dropped.

`Pn532` has the driver's steps and the chip: one command at a time, a new one replaces the old; ACK, answer,
abort, and the last answer again on a NACK. A transfer fails before or after the chip took its part.

### IrService, IrApp

The receiver is `irOn`, `irEnabled`, `irArmed`. `FrameArrives` is the interrupt, which disarms; the task takes
messages from the queue, handles them, arms. The UI task's calls are split: `RxStart`, `RxEnable`, `RxArm`;
`RxStop`, `RxDisable`; `TransmitCheck`, `TransmitClaim`, `TransmitQueue`. The gate's limits are the code's.

`IrApp` has the UI task's queue of keys and notes, the worker, and the work area both share.
`irSent` is history: what was sent and what was shown. A note changes `irBusy` only when it reaches the application: one that finds
the launcher or a dialog on top, the application's own confirmation too, leaves it as it is. What is loaded may be
outside the transmit limits, and is then not shown. A second save that replaces the signal while an earlier one formats it
(`ir_save.c:71`) is left out.

### Screens

Cells stand for pixels: a column for the rows of a menu, one for its scroll bar, and a status bar of title and
icon. `scrMenus` are the menu models, `scrDamage` the damage of each screen (a set of rectangles as `ui_damage.c` keeps it, with what it does when the set is full), `scrStatus` the status bar's, `scrPanel`
what was painted last. Every event damages what its handler damages; `UiTick` renders what is damaged on the
screen on top, all of it or up to a band that failed, whose cells are then `Unknown`: the damage was cleared before, and
nothing damages them again.

### IrCodec, NfcCodec

Functions on sequences of durations or bytes. What a `.ir` file or a dump is made of are its tokens, not its characters.

## Runs

All runs are exhaustive. State counts are of distinct states.

| run | instance | states | what it asks |
|---|---|---|---|
| `bus_storage` | the bus: 2 producers, 2 types, 2 handlers, ring of 2, counters modulo 3, 4 publications | 1.0 M | bookkeeping of ring and counters, eligibility in a dispatch, wake-up protocol, delivery, refinement of `LossyFifo`, and that queued events are handled |
| | or storage: 1 client, 1 requester, 2 handles, generations modulo 2, 1 burst of log lines | 0.46 M | descriptors, stale handles, state against medium, ejects, and that requests and removals are served |
| `module_leases` | 2 slots, 2 drivers (symmetric), an NFC carrier and an SPI module, 1 disturbance, claims up to generation 2 | 1.9 M | who holds a slot, which leases and SPI devices are alive |
| `module_bridge` | 2 slots; NFC carrier, an impossible module, an unreadable one; 2 disturbances | 5.6 M | conflicts withheld, entries debounced, launcher's copy |
| `app_lifecycle` | queue of 2, 5 key presses, 2 notes, faults or card removals | 1.8 M | stack, worker slot, fresh keys, fault reports, refinement of `AppSession`, and that faults are shown |
| `nfc_service` | 2 tags, messages of 2 pages, 1 write, the code's limits on errors and misses | 0.74 M | what is written and where, what is shown, that writes are answered and the state follows the reader |
| `services` | each of nine services by itself, and 4232 inputs of the codecs, see below | 0.34 M | files, log, keys, notes, settings, reader commands, receiver and transmitter, the IR app's waits, the panel; that the codecs invert one another and refuse what is damaged |
| `module_boot_unpublished` | as `module_bridge`, without infrared | | a disagreement, below |
| `storage_ejected_back`, `module_stale_transfer`, `app_queued_key`, `nfc_removed_tag`, `ir_sent_other` | as above | | the other disagreements |

Why these bounds are enough for the cases that matter:

- *bus_storage*: a behaviour picks the bus or the storage service, and only that one moves; in these modules they share no state.
- *bus_storage*, the bus: a ring of two overflows with the third publication, and a dispatch can be overtaken by
  its own handler's publications; four publications let the counters, which wrap at three, wrap while
  something is queued; two producers race each other between ring and semaphore; with two handlers one
  may be subscribed while the other runs, and with two types a mask may leave one out.
- *bus_storage*, storage: with two handles the log writer and a client share the table, fill it and reuse each
  other's slots and descriptor numbers; a generation that wraps at two makes a stale handle meet its
  own generation again, so that only the stale mark protects it; cards come and go without bound.
- *module_leases*: two drivers can hold, release, lose and reclaim each slot through three
  generations; the initial fittings include both conflicts and none, and the one disturbance removes,
  swaps or hides a module, or makes a conflict.
- *module_bridge*: from every fitting, two disturbances make and undo a conflict, or fall a fault
  between two polls, while the reader changes at boot. `LauncherIsCurrent` holds on a board with IR
  because the confirmation of IR comes after the boot rounds and publishes what they left.
- *app_lifecycle*: five presses launch an app, start its worker, leave it, launch the next and start its
  worker, so that a token, a note or a fault report of the first can meet the second; a queue of two
  loses events whenever the keys are faster than the UI task.
- *nfc_service*: two tags can be exchanged at every step of a write, also back; two pages let one be
  written on each; links and tags change without bound.
- *services*: a behaviour picks one service, and only that one moves; they share no state. Three saves
  meet each other's names, temporary files and a card that was exchanged, over three mounts. Four lines
  through a ring of five bytes are dropped, and fill three files until the oldest is deleted. Keys are
  held for four ticks, beyond debounce (2), long press (3) and the first repeats, with the chord or without,
  sampled every tick or with gaps of three. Two notes, a callback late by up to three ticks. Three changes,
  restores or commits of two settings. Four commands, two of one code in a row three times, with the code's retries.
  A queue of two is full of frames when a transmission is queued. Five rows of which three are in view, two headers,
  reader rows that come and go, and two events between frames, which overlap in the damage of two rectangles.
- *services*, the codecs: bytes at their ends and in the middle, every duration off by up to 20 %, lengths around each change of
  format (255 and 256, one and three bytes of length, 32767 us), each byte at either end of a frame damaged.

Deadlock is checked except in `nfc_service` and `services`, where the bounds end a behaviour or a service comes to
rest; no task of the others stops.

The properties, by hazard. A conjunction stands for facts that only make sense together; its parts have names of
their own in the module.

| property | kind | against |
|---|---|---|
| `BusIsSound` | invariant | handlers that overflow the ring they are being called from; three wrapping counters, one late, deciding whether anything is queued |
| `NoLostWakeup`, `EventuallyHandled` | invariant, liveness | the gap between the ring and the semaphore, on both sides |
| `AllSubscribersCalled` | invariant | subscribing while an event is being handed out |
| `ImplementsLossyFifo` | refinement | all of it at once: nothing else is lost, reordered or repeated |
| `HandlesAreSound` | invariant | handles that outlive their mount; a failing probe or mount that leaves the medium mounted |
| `EjectSparesOpenFiles` | action | ejects racing opens |
| `EjectedReturnIsTold` | action | an ejected card that comes back with nothing shown before: a tick, a probe's late answer or a repeated request that mounts it |
| `RequestsAreServed`, `RemovalIsNoticed` | liveness | a task that sleeps through a request or a removal |
| `OneHolderPerSlot` | invariant | a stale lease that passes for, or frees, its successor's |
| `LeaseDiesWithModule` | invariant | a lease that reaches the next module in the slot |
| `LiveDeviceIsOnItsModule`, `StaleDevicesStayStale` | invariant, action | an SPI device kept over a change of slot or owner; two attaches at once |
| `ConflictsWithheld` | invariant | confirmations between the change of an entry and the recomputation |
| `EntriesFollowTwoPolls` | action | a fault taken for a removal, a torn read for a module |
| `LauncherIsCurrent` | invariant | the launcher's copy against changes made in three tasks |
| `AppIsSound` | invariant | a stack unwound by keys, long BACKs and faults, with dialogs opened in between by others; the token of a worker deleted at the time-out passing for the next worker's |
| `HeldKeysDoNotAnswer` | action | the release of the key that opened a dialog answering it |
| `FaultStopsItsApp` | action | a fault report that outlives its app in the queue |
| `FaultsAreShown` | liveness | a worker that never returns, while its app is being stopped |
| `ImplementsAppSession` | refinement | `on_stop()` with the worker still there, on every way out of an app |
| `OnlyTheNamedTag`, `DoneMeansStored` | action | tags exchanged during a write; pages acknowledged and not stored |
| `PollAndSnapshotAgree` | invariant | the poll machine restarted by writes, stops and recovery while the snapshot stays |
| `WriteAnswered`, `ModuleFollowsReader` | liveness | a write behind a recovery or a dump; a reader unplugged while the field goes on or off |
| `CardIsSound` | invariant | a reset, an error or another card between two steps of a save |
| `CapturesKept` | action | a save that goes on after its card was exchanged for one with captures of its own; all but one of them, see below |
| `LogIsSound` | invariant | lines dropped between takes, chunks lost, rotations and appends that fail half way |
| `KeysTellTheirStory` | invariant | samples that come late, and the chord |
| `EveryNoteEnds` | invariant | a timer callback that finds a newer note |
| `SettingsKept` | invariant | a commit that fails half way, a reset, a dropped event |
| `AnswersAreCurrent` | invariant | a late answer with the code of the next command |
| `NeverDeaf` | invariant | an interrupt that finds the queue full; stop and start while frames are queued |
| `TransmitAnswered` | liveness | a transmitter claimed and not given back |
| `BrowseBusyEnds` | liveness | a wait whose note went to a dialog, the application's own too, and which nothing later ends: neither leaving nor the next list or load |
| `ScreenIsCurrent` | invariant | an area that changed and was not damaged; a selection out of view |
| `IrCodecsInvert`, `NfcCodecsInvert` | invariant | rounding, splitting, padding and length limits |

## Fairness

- *EventBus*: weak fairness of the UI task's dispatch and wait steps and of a producer's `Give`. FreeRTOS
  runs a ready task; the UI task has the highest priority of them on its core, and a publisher that has
  left the mutex goes on. No fairness of publications, and none of the time-out: `EventuallyHandled`
  must come from the semaphore alone.
- *Storage*: weak fairness of the task's steps, of a requester's notification and of the clock. None of
  clients, cards or log lines: a file may stay open for ever and a card may never come.
- *AppLifecycle*: weak fairness of the UI task's steps, and of a worker's suspension once it has given its
  token. That a worker returns is not assumed: the join's time-out must do. None of keys or reports.
- *NfcService*: weak fairness of the NFC task, and of the recovery interval's end. The liveness properties assume of the
  world what they name: a link that stays good (or out) and, for a write, a user who asks for no more dumps.
- *IrService*, *IrApp*: weak fairness of the IR task, of a call that the UI task has begun, of the worker and of the UI
  task; keys, frames and alerts come or do not. `BrowseBusyEnds` assumes one of two things of the user: one who wants out
  presses BACK again and again and from some time on nothing else, and no more alerts open (`WantsOut`); one who goes on starts lists
  and loads again and again, from some time on with no dialog open (`GoesOn`). For a user who does neither the code leaves `s_busy` set,
  see below.
- *Modules*, and the other services: none; every property is a safety property.

## Proofs

Eight modules hold the theorems. They are for every value of the constants: any number of producers, handlers, slots, contents,
drivers, clients, handles, key presses, reports, tags, pages, names, saves, lines, notes, commands, settings, menu rows and damaged rectangles,
and any bound on their counts. Each theorem of a property `P` goes the same way: an invariant `Inv` that implies `P` (or whose steps do), `Init => Inv`,
one lemma per action or group of actions that `Inv` is kept, and a temporal step. An invariant that is not plain was first checked by
TLC on the runs' instances.

Assumptions on the constants are those the modules name: the ring is not empty and shorter than the counters' range
(`ConstantsOK`); `Parse` and `Hash` are defined for every content (`ModulesConstantsOK`); the mount generation
has two values at least; `"nobody"` is no client; the queue of the IR task holds two messages; the table of settings gives each key a
default within its maximum; a line fits the chunk and the ring, a chunk with its marker is smaller than a file of the log, and there are at
most 8 of those (`LogAssumption`; all of it from `Kconfig` and the 160 bytes of `capture_vprintf()`); a header of the launcher is
never enabled (`item_enabled()`), the window of a menu shows two rows, and the damage set has room for one rectangle
(`ScreensAssumption`). Three theorems need a hypothesis more, each stated in the theorem:

- `NotesEnd` needs `CallbacksInTime`: the lateness of a timer callback and the slack of the deadline test (`buzzer.c:76`) are together
  shorter than the shortest note. With a later callback the property is false, see below.
- `EntriesNeedTwoPolls` needs `NoCollisions`: different contents have different hashes. The code compares hashes, so a collision would
  pass for the same module; the other theorems allow collisions.
- `LauncherFollows` needs `IrFitted`. The attempt to prove it without found the run `module_boot_unpublished`.

**The bus** (`EventBusProofs`). `IInv` is `TypeOK`, the safety invariants, and two parts that make them inductive.
`Window` says what a dispatch relies on: it began at a count not ahead of the publications and less
than a counter's range behind, so that `Residue` is exact; and when it ends nothing it began with is
left in the ring. `Seen` says what handlers have seen: nothing still queued, nothing newer than the event in
hand. The invariant on publications, `published = dropped + handed out + queued`, turns
`BusPending` into "the ring is not empty" whenever `wait()` looks (`CountersTellTheRing`), although
`consumed` is late during a dispatch. From `IInv` follow `BusIsSound` and the other invariants, and `InOrder` (no handler
is ever called with an older event than before), which only the proof covers; and every step
of the bus is a step of `LossyFifo` or leaves its state alone (`StepRefines`), so
`BusIsLossyFifo == Spec => ImplementsLossyFifo`.

**Storage** (`StorageProofs`). `HandlesAreSound` is not inductive: between the core's decision to unmount and the unmount the core and the
medium disagree. `StorageInv` says when: the core says MOUNTED just when there is a volume, but while the task stands before
`unmount` with the lock held (`CoreMatchesMedium`); the action it performs is one the core asked for in the state it is in
(`ActsInTurn`); a handle with a descriptor is of this mount (`FilesAreCurrent`), so that the wrapping generation is never what
keeps it from the next one. The two action properties about ejects follow from the same invariant: `EjectSparesFiles`, and
`EjectedCardIsTold`, which says that the service showed ABSENT or was asked before an ejected card is mounted again. It does not say
that the card was out: the code does not ensure that, and the run `storage_ejected_back` has the counterexample.

**Leases** (`ModuleProofs`). A slot's generation never falls, and grows whenever its owner, entry or state of being known
is taken away. `SlotOK` says that an owner is on a known slot that declares what was claimed; `LeaseOK` that a
lease is of the slot's generation or an earlier one and, if of the present one, is the owner's and on the
present entry. Every step either keeps a slot's generation, owner, entry and claim or raises the
generation (`SlotStep`), so old leases stay old. `OneHolder`, `LeasesDie` follow. For SPI devices,
`DeviceOK` adds that a device's lease is not of a later generation than its slot and, if of the present one, is the
one its driver still keeps, because a driver claims again only after its lease went stale:
`LiveDevices`, `StaleDevices`. `SpiImplementsCore == SpiSpec => Spec` shows that `stark_module_spi.c`
reaches the table through its operations only; what is proved of the table holds of the drivers' system.

**Discovery and the launcher** (`BridgeProofs`). What conflicts and what is withheld depend only on the entries and on which of
them are valid (`SameModules`); only a change that a round notes touches these, and the round recomputes before it ends
(`ConflictsResolved`). A slot remembers its last poll in its miss count and the hash it saw (`NotedOK`), which gives
the two polls behind a change. Whoever changed the capabilities has yet to publish it, or the event is on its way
(`ChangeIsOnItsWay`); the word on IR at boot is what makes this true of the rounds that publish nothing.

**Apps** (`AppProofs`). The events of the keys are in the order of the presses although the bus drops the oldest (`KeysInOrder`), and
a dialog has heard only presses made since it opened (`DialogHears`). What is on the screen is determined by whether an app runs and
a dialog is open (`ScreensInv`). The worker in the slot is that of the newest launch (`WorkerIsTheApps`), and the semaphore has its token
exactly when that worker gave it, at every step of a join, a deletion and a restart (`TokenInSlot`). With these every step of the
manager is one of `AppSession` or leaves its state alone: `AppRefinesSession`.

**NFC** (`NfcProofs`). The poll machine and the snapshot change together except between finding a tag and reading it
(`SnapshotFollows`); from the selection to the answer of a write the reader has that write's tag selected or none
(`TaskInPlace`), so pages go nowhere else, and an answer of success was preceded by reading the whole message back.

**Files** (`CardProofs`). While the mount under which a save began lasts, what it wrote is on the card (`SaveGoesOn`) and the name it chose is
free (`NameIsFree`); when the mount is over, its generation lets the save only end. A temporary file on a card mounted without
trouble is the save's (`TmpIsTheSaves`). `SaveKeepsCaptures` is about every step of every save, on the card it was begun on and on one
exchanged for it, with one exception, which the property names (`NamedElsewhere`): the capture that has the save's own name, when the
names were listed under one mount and the file opened under another. The code may remove that one.

**The log** (`CardProofs`). `LogIsSound` speaks of what is on the card; a chunk in hand and the ring hold what will be there. `LogInv`
says of all three together: whatever their bytes hold or tell of is in the order it was logged (`InOrder`), files from the oldest name
to the newest, then the chunk, then the ring; a line that is nowhere was taken by an error or a reset, or is older than
everything there is, as what a rotation deletes is (`GapsAreTold`); and the size the rotation goes by is the file's, at each step of a flush
(`SizesAgree`). A rotation keeps all this at each of its steps because from a step on the name above is free. That the files
never swap their order when one of the renames failed is the part a test would hardly reach. `LogTellsItsStory`.

**The panel** (`DeviceProofs`). `PanelTellsTheTruth` has three parts. *Damage*: adding a rectangle leaves a set that covers
what it covered and the rectangle too, in which no two join and which is no larger than `DamageMax` (`DamageAdded`). `absorb()` takes
as many rounds as there are rectangles at most, since each takes one away, and after the last none joins (`Absorbed`); with one
too many, the pair that grows least exists, and merging it makes the room (`MergedCheapest`). *Menus*: wherever a key, a
page or a change of what is enabled puts the selection, `follow()` ends with it in the window, its header with it, and the
window within the list (`FollowShows`, `MoveShows`, `PageShows`, `RefreshShows`). *Frames*: each event damages at least
the cells whose picture it changes (`Selected` for a selection that moves within the window or scrolls it), what is
damaged beneath a dialog is repainted when the dialog closes, and a frame paints what is damaged or leaves it unknown. Where this takes
induction on a length it is done by the least counterexample (the order of the naturals is well-founded), which needs no
operator as a parameter.

**Devices** (`DeviceProofs`). Buzzer: an armed timer is armed for the present deadline, and a callback still under way is older than
it by more than it may be late. PN532: from its acknowledgement on, the chip works on the command the driver asks for. IR: one
transmission at most is in the queue or in hand, and while the receiver is on and not armed a frame or the task's next step
will arm it. Settings, for stores that are erased, closed or unreadable at any boot too: a store without a schema is empty and gets its schema first; what is not marked was not written since the commit and is
what the commit made safe; and of what a commit in progress has passed, the last write to each marked key is of its value.
Keys: a sample makes at most two actions of each key, so that `INPUT_CORE_MAX_ACTIONS` has room for all and the story of a key
is that of two actions, which is gone through case by case of `update_key()` (`KeyTells`). It is proved of the three keys that stand for
the seven, for any times of debounce, long press and repeat and any gap between samples.

**Only model-checked**, and why:

- liveness (`EventuallyHandled`, `RequestsAreServed`, `RemovalIsNoticed`, `FaultsAreShown`, `WriteAnswered`, `ModuleFollowsReader`,
  `TransmitAnswered`, `BrowseBusyEnds`): fairness is out of the provers' reach;
- `IrCodecsInvert`, `NfcCodecsInvert`: what the codecs compute is recursive over the data, through functions that call one another,
  and would take an induction for each of them; TLC evaluates them on the inputs of `MCCodecs`.

Every other property of a passing run is stated by a theorem.

## Where code and documentation disagree

Found while modelling; each of these has a run whose counterexample shows it.

| run | what the code does | what is written |
|---|---|---|
| `storage_ejected_back` | one present check that an ejected card leaves unanswered is taken for a pull (`storage_core.c:100`), and the next tick mounts it (`:47`) though it never left its slot | `stark_storage.h:59`: "An ejected card is never remounted by itself: pulling it out moves the state to ABSENT"; `storage_core.c:55`: "Never mounts by itself" |
| `module_boot_unpublished` | the boot rounds discard what they changed (`stark_module.c:134`); on a board without infrared a conflict that the second of them finds after the UI task confirmed the reader is published by nobody, and the launcher keeps what was withdrawn | `ARCHITECTURE.md:886`: "Changes publish `STARK_SYS_MODULE`" |
| `module_stale_transfer` | the lease is checked, the lock released, then the transfer made (`stark_module_spi.c:59`, `:67`) | `ARCHITECTURE.md:894`: "nothing reaches the bus" on an old lease |
| `app_queued_key` | any PRESS dispatched while the dialog is open arms it, also one that was queued before it opened (`ui_dialog.c:47`) | `ui_dialog.h:26`: "a key already held or queued can never confirm" |
| `nfc_removed_tag` | a write restarts the poll machine, so a tag taken away meanwhile counts no miss and its snapshot stays (`stark_nfc.c:198`) | `stark_nfc.h:67`: "STARK_ERR_NOT_FOUND when none" |
| `ir_sent_other` | the signal sent is the one in the work area when OK is pressed, and a second load may have replaced it (`ir_send.c:24`, `ir_browse.c:123`) | `ir_send.c:4`: "a confirmation that says exactly what will be sent" |

The models also contain these; no property states them, since it would fail:

- the name of a capture is chosen from a listing, and the file is opened in another call; when the card is exchanged in between for one
  that has this name, the close removes that capture and takes its place (`storage_file.c:251`; `ir_save.c:4`: "written as the next
  free captures/ir_NNNN.ir"). `CapturesKept` without its exception (`NamedElsewhere`) fails so: list on card A, exchange, mount, open,
  write and close on card B;
- a note that finds a dialog on top is gone, and `s_busy` stays set with no worker running (`ir_browse.c:135`; `irapp.h:58`: "A list or
  load is running on the worker"): saving is refused until the application is left, or a later list or load ends with no
  dialog open. The application's own confirmation does this to a second load (`ir_browse.c:123`) as an alert does to any;
- a second OK while a load runs is refused the worker and clears `s_busy` (`ir_browse.c:126`), although the first load still owns the
  work area, so that saving is no longer refused by the flag (`ir_browse.c:23`);
- a mount request while mounted, or one that fails as before, changes no state and publishes nothing
  (`storage_core.c:106`; `stark_storage.h:42` says "the outcome arrives as a STARK_SYS_STORAGE event");
- an eject requested between the flush check (`stark_storage.c:175`) and the exchange (`:180`) is served without the flush
  (`:173`: "an eject never loses buffered lines");
- main reads the reader's state at boot and may confirm it after the UI task has confirmed a newer one
  (`module_bridge.c:15`; `ARCHITECTURE.md:902`: "the capability follows the reader while idle");
- a worker's note goes to the screen on top when it is dispatched, also to the app launched next (`ui_stack.c:203`;
  `app_manager.c:106`: "NOTIFY is for the app's own screen");
- a reader unplugged while its field cannot be turned off is not noticed until an app polls: the idle check is only made with
  the field off (`stark_nfc.c:123`; the comment at `:124` leaves it to "the next poll's error");
- a transmission may end between the check of the rate and the claim of the transmitter, and the next then follows with no
  interval (`stark_ir.c:306`);
- a timer callback of the buzzer held off by more than three ticks of 200 us steps early, and the next note has no end
  (`buzzer.c:10`: "the check is exact"); `EveryNoteEnds` fails with `MaxDelay = 4`;
- `input_core.h:7` says "there are no chords"; `input_core.c:144` has OK+BACK;
- what a failed render did not paint is not damaged again (`ui_stack.c:285`).

## Not modelled

Drawing, fonts, the panel's set-up and the two transfer buffers of a render (a render goes through or fails from some band
on); the board tables, the HAL, the module transport (their outcomes are inputs of the models); diagnostics (read-only
sampling); the order of `main`; screens of apps that only show what a service told them; the texts that describe NDEF records
and chips; the space cache. A worker deleted inside a storage call leaves the lock taken, and everything that needs the
card waits for ever: nothing in the code undoes that, so no property asks for it. Tests and scripts were read as documentation.

## Plan

In the order of what matters most.

1. *Done.* `EventBus`, `LossyFifo`: checked, safety and refinement proved.
2. *Done.* `Storage`, `Captures`: checked, safety proved. `LogFile`: checked, safety proved. *Next:* an abstract "old or new contents"
   specification for `Captures`.
3. *Done.* `ModuleCore`, `ModuleSpi`, `ModuleBridge`: checked, safety proved.
4. *Done.* `AppLifecycle`, `AppSession`: checked, safety and refinement proved.
5. *Done.* `NfcService`, `Pn532`: checked, safety proved.
6. *Done.* `IrService`, `Input`, `Buzzer`, `Settings`, `Screens`: checked, safety proved. `IrApp`, codecs: checked. *Next:* the integer codecs
   (varints, pulse trains) with an induction of their own.
7. Compositions: `ModuleBridge` over `LossyFifo`; the render's buffers; the NFC app's writes over `NfcService`.
