----------------------------- MODULE NfcService -----------------------------
(***************************************************************************)
(* The NFC service (stark_nfc): the NFC task that follows the reader,      *)
(* turns the field on and off, polls, recovers, writes and dumps; the      *)
(* calls of the UI task; and, outside the program, the reader's link and   *)
(* the tags people put down and take away.                                 *)
(*                                                                         *)
(* A PN532 command either succeeds or fails as a whole (Pn532 models how   *)
(* the driver gets there).  A message is Pages pages long and its page     *)
(* holds the number of the write request it came from; 0 is what was on    *)
(* the tag before.                                                         *)
(***************************************************************************)
EXTENDS Integers

CONSTANTS Uids,        \* tags that may be held against the reader
          NoTag,
          Refused,     \* tags whose CC is invalid, read-only or too small
          Pages,       \* pages of a message
          MaxRequests, \* bound: writes the user confirms
          PollErrors, PollMisses, IdleMisses

ASSUME NfcAssumption ==
    /\ NoTag \notin Uids /\ Refused \subseteq Uids
    /\ {Pages, PollErrors, PollMisses, IdleMisses} \subseteq Nat \ {0}
    /\ MaxRequests \in Nat

VARIABLES
    want,       \* s_want_poll
    module,     \* s_module
    field,      \* s_field
    poll,       \* s_poll
    recoverDue, \* nfc_poll_recover_due()
    idleMiss,   \* s_idle.misses
    snap,       \* the UID in s_snap, NoTag while s_has_tag is false
    write,      \* s_write_pending with the tag and the number of the request
    dumping,    \* s_dump_pending
    event,      \* what the last step published
    pc,         \* where the NFC task is
    target,     \* the task's local: the tag it reads or dumps, the field it asks for
    page,       \* pages of the message written so far
    link,       \* the wire to the reader: "good", "noisy" or "out"
    tag,        \* the tag in front of the antenna
    selected,   \* the tag the reader has selected
    mem         \* the data pages of every tag

nfcVars == <<want, module, field, poll, recoverDue, idleMiss, snap, write, dumping,
             event, pc, target, page, link, tag, selected, mem>>
pollVars == <<poll, recoverDue>>
clientVars == <<want, write, dumping>>
worldVars == <<link, tag>>

SomeTag == Uids \cup {NoTag}
PollInit == [state |-> "idle", uid |-> NoTag, misses |-> 0, errors |-> 0]

NfcTypeOK ==
    /\ want \in BOOLEAN /\ field \in BOOLEAN /\ dumping \in BOOLEAN /\ recoverDue \in BOOLEAN
    /\ module \in {"absent", "ready", "lost"}
    /\ poll \in [state : {"idle", "present", "recovering"}, uid : SomeTag,
                 misses : 0..PollMisses - 1, errors : 0..PollErrors - 1]
    /\ idleMiss \in 0..IdleMisses - 1
    /\ {snap, tag, selected} \subseteq SomeTag
    /\ write \in [pending : BOOLEAN, uid : SomeTag, id : 0..MaxRequests]
    /\ page \in 0..Pages
    /\ link \in {"good", "noisy", "out"}
    /\ mem \in [Uids -> [1..Pages -> 0..MaxRequests]]

\* stark_nfc_init() has detected the reader, or not, and created the task.
NfcInit ==
    /\ want = FALSE /\ field = FALSE /\ dumping = FALSE /\ recoverDue = FALSE
    /\ link \in {"good", "noisy", "out"}
    /\ module \in (CASE link = "good" -> {"ready"} [] link = "out" -> {"absent"}
                     [] OTHER -> {"ready", "absent"})
    /\ poll = PollInit /\ idleMiss = 0 /\ snap = NoTag
    /\ write = [pending |-> FALSE, uid |-> NoTag, id |-> 0]
    /\ event = "none" /\ pc = "wait" /\ target = NoTag /\ page = 0
    /\ tag = NoTag /\ selected = NoTag
    /\ mem = [u \in Uids |-> [p \in 1..Pages |-> 0]]

(***************************************************************************)
(* The poll state machine: what one poll makes of it, and the event it     *)
(* returns.                                                                *)
(***************************************************************************)
PollFailed(p) ==
    IF p.errors + 1 >= PollErrors
    THEN [poll |-> [PollInit EXCEPT !.state = "recovering"], event |-> "lost"]
    ELSE [poll |-> [p EXCEPT !.errors = @ + 1], event |-> "none"]

PollFound(p, u) ==
    [poll  |-> [state |-> "present", uid |-> u, misses |-> 0, errors |-> 0],
     event |-> IF p.state = "present" /\ p.uid = u THEN "none" ELSE "tag"]

PollEmpty(p) ==
    IF p.state # "present" THEN [poll |-> [p EXCEPT !.errors = 0], event |-> "none"]
    ELSE IF p.misses + 1 >= PollMisses THEN [poll |-> PollInit, event |-> "left"]
    ELSE [poll |-> [p EXCEPT !.errors = 0, !.misses = @ + 1], event |-> "none"]

(***************************************************************************)
(* A command of the PN532 may succeed unless the reader is unplugged, and  *)
(* may fail unless the link is good.                                       *)
(***************************************************************************)
Succeeds == link # "out"
Fails == link # "good"

\* Selecting a tag again succeeds for that tag only; an exchange needs a selected tag.
Reselected(u) == Succeeds /\ tag = u /\ tag # NoTag
NotReselected(u) == Fails \/ tag # u \/ tag = NoTag
Exchanged == Succeeds /\ selected # NoTag
NotExchanged == Fails \/ selected = NoTag
Release == selected' = NoTag

At(label) == pc = label
Goto(label) == pc' = label
Publish(e) == event' = e
Quiet == Publish("none")

(***************************************************************************)
(* The NFC task.                                                           *)
(***************************************************************************)
\* The period is over, or the task was notified.
Wake ==
    /\ At("wait") /\ Quiet
    /\ Goto(IF poll.state = "recovering" THEN "serve" ELSE "field")
    /\ UNCHANGED <<clientVars, worldVars, pollVars, module, field, idleMiss, snap, target, page,
                   selected, mem>>

\* apply_field(): the wish is read, and then a command carries it out.
ApplyField ==
    /\ At("field") /\ Quiet
    /\ IF want = field \/ module # "ready"
       THEN Goto("serve") /\ UNCHANGED target
       ELSE Goto("switch") /\ target' = want
    /\ UNCHANGED <<clientVars, worldVars, pollVars, module, field, idleMiss, snap, page, selected,
                   mem>>

SwitchField ==
    /\ At("switch") /\ Quiet /\ Goto("serve") /\ target' = NoTag
    /\ \/ /\ Succeeds /\ field' = target
          /\ IF target THEN UNCHANGED <<poll, snap, selected>>
             ELSE poll' = PollInit /\ snap' = NoTag /\ selected' = NoTag
       \/ Fails /\ UNCHANGED <<field, poll, snap, selected>>
    /\ UNCHANGED <<clientVars, worldVars, recoverDue, module, idleMiss, page, mem>>

\* No app polls: a recovery is given up, and the idle check runs with the field off.
ServeIdle ==
    /\ At("serve") /\ ~want /\ Quiet
    /\ poll' = IF poll.state = "recovering" THEN PollInit ELSE poll
    /\ field' = (field /\ module = "ready")
    /\ Goto(IF field' THEN "wait" ELSE "idle")
    /\ UNCHANGED <<clientVars, worldVars, recoverDue, module, idleMiss, snap, target, page,
                   selected, mem>>

\* Slip: a lost reader is never looked for again while no app polls.
IdleProbeSlip ==
    /\ At("idle")
    /\ \/ Succeeds /\ idleMiss' = 0 /\ Goto("wait") /\ Quiet /\ UNCHANGED module
       \/ /\ Fails /\ Goto("wait")
          /\ idleMiss' = 0 /\ module' = "lost" /\ Publish("module")
    /\ UNCHANGED <<clientVars, worldVars, pollVars, field, snap, target, page, selected, mem>>

\* idle_once(): the presence probe and nfc_idle_step().
IdleProbe ==
    /\ At("idle")
    /\ \/ /\ Succeeds /\ idleMiss' = 0 /\ Quiet /\ UNCHANGED module
          /\ Goto(IF module = "ready" THEN "wait" ELSE "detect")
       \/ /\ Fails /\ Goto("wait")
          /\ IF module = "ready" /\ idleMiss + 1 >= IdleMisses
             THEN idleMiss' = 0 /\ module' = "lost" /\ Publish("module")
             ELSE /\ idleMiss' = (IF module = "ready" THEN idleMiss + 1 ELSE 0)
                  /\ Quiet /\ UNCHANGED module
    /\ UNCHANGED <<clientVars, worldVars, pollVars, field, snap, target, page, selected, mem>>

\* pn532_detect(), from the idle check or from a recovery that is due.
Found == module' = "ready" /\ field' = FALSE /\ poll' = PollInit /\ Publish("module")

IdleDetect ==
    /\ At("detect") /\ Goto("wait")
    /\ (Succeeds /\ Found) \/ (Fails /\ Quiet /\ UNCHANGED <<module, field, poll>>)
    /\ UNCHANGED <<clientVars, worldVars, recoverDue, idleMiss, snap, target, page, selected, mem>>

Redetect ==
    /\ At("serve") /\ want /\ poll.state = "recovering" /\ recoverDue /\ Goto("wait")
    /\ \/ Succeeds /\ Found /\ UNCHANGED recoverDue
       \/ Fails /\ Quiet /\ recoverDue' = FALSE /\ UNCHANGED <<module, field, poll>>
    /\ UNCHANGED <<clientVars, worldVars, idleMiss, snap, target, page, selected, mem>>

\* An app polls: a write goes first, then a dump, then the poll.
CanServe == want /\ field /\ poll.state # "recovering"

\* Slip: a dump that is asked for again and again keeps a write from its turn.
ServePollingSlip ==
    /\ At("serve") /\ want /\ ~(poll.state = "recovering" /\ recoverDue) /\ Quiet
    /\ \/ CanServe /\ dumping /\ Goto("dump")
       \/ (poll.state = "recovering") /\ Goto("wait")
       \/ ~(CanServe /\ dumping) /\ poll.state # "recovering" /\ Goto("poll")
    /\ target' = NoTag /\ page' = 0
    /\ UNCHANGED <<clientVars, worldVars, pollVars, module, field, idleMiss, snap, selected, mem>>

ServePolling ==
    /\ At("serve") /\ want /\ ~(poll.state = "recovering" /\ recoverDue) /\ Quiet
    /\ \/ CanServe /\ write.pending /\ Goto("write") /\ UNCHANGED target
       \/ CanServe /\ ~write.pending /\ dumping /\ Goto("dump") /\ target' = snap
       \/ poll.state = "recovering" /\ Goto("wait") /\ UNCHANGED target
       \/ /\ poll.state # "recovering" /\ ~(CanServe /\ (write.pending \/ dumping))
          /\ Goto("poll") /\ UNCHANGED target
    /\ page' = 0
    /\ UNCHANGED <<clientVars, worldVars, pollVars, module, field, idleMiss, snap, selected, mem>>

(***************************************************************************)
(* poll_once(): InListPassiveTarget, the state machine, and what follows   *)
(* from its event.  A tag that was there before is released again.         *)
(***************************************************************************)
\* Slip: the tag of a lost reader stays in the snapshot.
PollAnsweredSlip(r, found) ==
    /\ poll' = r.poll
    /\ Goto(IF r.event = "tag" THEN "read" ELSE "wait")
    /\ target' = IF r.event = "tag" THEN found ELSE NoTag
    /\ selected' = target'
    /\ snap' = IF r.event = "left" THEN NoTag ELSE snap
    /\ module' = IF r.event = "lost" THEN "lost" ELSE module
    /\ recoverDue' = (recoverDue /\ r.event # "lost")
    /\ Publish(CASE r.event = "left" -> "left" [] r.event = "lost" -> "module" [] OTHER -> "none")

PollAnswered(r, found) ==
    /\ poll' = r.poll
    /\ Goto(IF r.event = "tag" THEN "read" ELSE "wait")
    /\ target' = IF r.event = "tag" THEN found ELSE NoTag
    /\ selected' = target'
    /\ snap' = IF r.event \in {"left", "lost"} THEN NoTag ELSE snap
    /\ module' = IF r.event = "lost" THEN "lost" ELSE module
    /\ recoverDue' = (recoverDue /\ r.event # "lost")
    /\ Publish(CASE r.event = "left" -> "left" [] r.event = "lost" -> "module" [] OTHER -> "none")

Poll ==
    /\ At("poll")
    /\ \/ Succeeds /\ tag # NoTag /\ PollAnswered(PollFound(poll, tag), tag)
       \/ Succeeds /\ tag = NoTag /\ PollAnswered(PollEmpty(poll), NoTag)
       \/ Fails /\ PollAnswered(PollFailed(poll), NoTag)
    /\ UNCHANGED <<clientVars, worldVars, field, idleMiss, page, mem>>

\* nfc_reader_read(): whole or stopped by an error, the tag becomes the snapshot.
ReadTag ==
    /\ At("read") /\ Goto("wait") /\ snap' = target /\ Publish("tag")
    /\ target' = NoTag /\ Release
    /\ UNCHANGED <<clientVars, worldVars, pollVars, module, field, idleMiss, page, mem>>

(***************************************************************************)
(* write_once(): select again and compare the UID, check the CC, write     *)
(* page by page, read back, answer; then poll from scratch.                *)
(***************************************************************************)
Answer(ok) ==
    /\ write' = [write EXCEPT !.pending = FALSE]
    /\ Publish(IF ok THEN "write_done" ELSE "write_failed")
    /\ poll' = PollInit /\ Release /\ Goto("poll")

\* Slip: whatever tag is there is written.
WriteSelectSlip ==
    /\ At("write")
    /\ \/ /\ Succeeds /\ tag # NoTag /\ tag \notin Refused
          /\ selected' = tag /\ Goto("page") /\ Quiet /\ UNCHANGED <<write, poll>>
       \/ (Fails \/ tag = NoTag \/ tag \in Refused) /\ Answer(FALSE)
    /\ UNCHANGED <<want, dumping, worldVars, recoverDue, module, field, idleMiss, snap, target,
                   page, mem>>

WriteSelect ==
    /\ At("write")
    /\ \/ /\ Reselected(write.uid) /\ tag \notin Refused
          /\ selected' = tag /\ Goto("page") /\ Quiet /\ UNCHANGED <<write, poll>>
       \/ (NotReselected(write.uid) \/ tag \in Refused) /\ Answer(FALSE)
    /\ UNCHANGED <<want, dumping, worldVars, recoverDue, module, field, idleMiss, snap, target,
                   page, mem>>

\* An acknowledged page may not have been stored, an unacknowledged one may have.
WritePage ==
    /\ At("page") /\ page < Pages
    /\ \/ Exchanged /\ page' = page + 1 /\ Quiet
          /\ UNCHANGED <<pc, write, poll, selected>>
       \/ NotExchanged /\ Answer(FALSE) /\ UNCHANGED page
    /\ mem' \in {mem} \cup
         {[mem EXCEPT ![u][page + 1] = write.id] : u \in {selected} \cap (IF Succeeds THEN Uids ELSE {})}
    /\ UNCHANGED <<want, dumping, worldVars, recoverDue, module, field, idleMiss, snap, target>>

Stored(u) == \A p \in 1..Pages : mem[u][p] = write.id

\* Slip: the acknowledgements are believed and nothing is read back.
ReadBackSlip ==
    /\ At("page") /\ page = Pages
    /\ Answer(Succeeds /\ selected # NoTag)
    /\ UNCHANGED <<want, dumping, worldVars, recoverDue, module, field, idleMiss, snap, target,
                   page, mem>>

ReadBack ==
    /\ At("page") /\ page = Pages
    /\ \/ Exchanged /\ Answer(Stored(selected))
       \/ NotExchanged /\ Answer(FALSE)
    /\ UNCHANGED <<want, dumping, worldVars, recoverDue, module, field, idleMiss, snap, target,
                   page, mem>>

\* The tag is selected again and each page read; any of these may fail.
DumpPages(u) == Reselected(u)
DumpFails(u) == NotReselected(u)

\* dump_once(): the tag of the snapshot, selected again, its pages read.
Dump ==
    /\ At("dump") /\ Goto("wait") /\ dumping' = FALSE /\ Release /\ target' = NoTag
    /\ \/ DumpPages(target) /\ Publish("dump_done")
       \/ DumpFails(target) /\ Publish("dump_failed")
    /\ UNCHANGED <<want, write, worldVars, pollVars, module, field, idleMiss, snap, page, mem>>

NfcTask ==
    \/ Wake \/ ApplyField \/ SwitchField
    \/ ServeIdle \/ IdleProbe \/ IdleDetect \/ Redetect \/ ServePolling
    \/ Poll \/ ReadTag \/ WriteSelect \/ WritePage \/ ReadBack \/ Dump

(***************************************************************************)
(* The calls of the UI task.  stark_nfc_start() is refused only while no   *)
(* reader was ever found; stop turns the wish off at any time.             *)
(***************************************************************************)
taskVars == <<pollVars, module, field, idleMiss, snap, pc, target, page>>

StartPolling ==
    /\ ~want /\ module # "absent" /\ want' = TRUE
    /\ Quiet /\ UNCHANGED <<taskVars, worldVars, write, dumping, selected, mem>>

StopPolling ==
    /\ want /\ want' = FALSE
    /\ Quiet /\ UNCHANGED <<taskVars, worldVars, write, dumping, selected, mem>>

WriteNdef(u) ==
    /\ want /\ ~write.pending /\ write.id < MaxRequests
    /\ write' = [pending |-> TRUE, uid |-> u, id |-> write.id + 1]
    /\ Quiet /\ UNCHANGED <<taskVars, worldVars, want, dumping, selected, mem>>

RequestDump ==
    /\ want /\ ~dumping /\ ~write.pending /\ dumping' = TRUE
    /\ Quiet /\ UNCHANGED <<taskVars, worldVars, want, write, selected, mem>>

(***************************************************************************)
(* Outside the program.                                                    *)
(***************************************************************************)
LinkChanges(l) ==
    /\ link # l /\ link' = l
    /\ selected' = IF l = "out" THEN NoTag ELSE selected
    /\ Quiet /\ UNCHANGED <<taskVars, clientVars, tag, mem>>

TagMoves(u) ==
    /\ (tag = NoTag) # (u = NoTag)
    /\ tag' = u /\ selected' = NoTag
    /\ Quiet /\ UNCHANGED <<taskVars, clientVars, link, mem>>

RecoveryDue ==
    /\ poll.state = "recovering" /\ ~recoverDue /\ recoverDue' = TRUE
    /\ Quiet /\ UNCHANGED <<clientVars, worldVars, poll, module, field, idleMiss, snap, pc, target,
                            page, selected, mem>>

NfcNext ==
    \/ NfcTask \/ RecoveryDue
    \/ StartPolling \/ StopPolling \/ RequestDump
    \/ \E u \in Uids : WriteNdef(u)
    \/ \E u \in SomeTag : TagMoves(u)
    \/ \E l \in {"good", "noisy", "out"} : LinkChanges(l)

\* The task always runs again within its period, and time passes.
NfcFairness == WF_nfcVars(NfcTask) /\ WF_nfcVars(RecoveryDue)

NfcSpec == NfcInit /\ [][NfcNext]_nfcVars /\ NfcFairness

(***************************************************************************)
(* Properties.                                                             *)
(***************************************************************************)
\* A tag's memory changes only under a pending write, and only the tag that
\* write named (stark_nfc.h: "only that tag"), however tags and links change
\* between the selection and each page.
OnlyTheNamedTag ==
    [][\A u \in Uids : mem'[u] # mem[u] => write.pending /\ write.uid = u]_nfcVars

\* WRITE_DONE is published only when every page of that request's message is
\* on that tag, although pages may be acknowledged and not stored.
DoneMeansStored ==
    [][event' = "write_done" => Stored(write.uid)]_nfcVars

\* What the poll machine follows is what the application is shown: the tag it takes
\* for present is the snapshot's, and a reader being recovered is reported lost with
\* no tag shown.
PollAndSnapshotAgree ==
    /\ NfcTypeOK
    /\ poll.state = "present" /\ pc # "read" => snap = poll.uid
    /\ poll.state = "recovering" => module = "lost" /\ snap = NoTag

\* The user stops asking for dumps: a dump takes the place of the poll.
Settled(wish, state) == want = wish /\ link = state /\ ~dumping

\* A write is answered when the app keeps polling and the reader stays good and ready
\* (stark_nfc.h: "WRITE_DONE or WRITE_FAILED follows").
WriteAnswered == <>[](Settled(TRUE, "good") /\ module = "ready") => []<>(~write.pending)

\* What s_module says follows the reader: one that answers ends up ready once no app
\* polls, whatever was going on when the last one stopped, and one that stays away
\* while an app polls ends up reported as gone.
ModuleFollowsReader ==
    /\ <>[](~want /\ link = "good") => <>[](module = "ready")
    /\ <>[]Settled(TRUE, "out") => <>[](module # "ready")

\* stark_nfc_take() of the header: "A copy of the present tag's snapshot;
\* STARK_ERR_NOT_FOUND when none": once the tag is gone from a good reader that is
\* being polled, the snapshot is eventually given up.
RemovedTagForgotten ==
    <>[](Settled(TRUE, "good") /\ module = "ready" /\ tag = NoTag) => <>[](snap = NoTag)
=============================================================================
