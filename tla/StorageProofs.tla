--------------------------- MODULE StorageProofs ----------------------------
(***************************************************************************)
(* Proofs about the storage service, for any number of clients, requesters *)
(* and handles and any range of the generation.                            *)
(*                                                                         *)
(* The argument: the core leaves MOUNTED only together with the action     *)
(* "unmount", which the task performs before it lets the lock go; until    *)
(* then the medium still has its volume, afterwards no handle has a        *)
(* descriptor.  A handle therefore never meets a mount other than its own, *)
(* although the generation wraps.                                          *)
(***************************************************************************)
EXTENDS Storage, FiniteSetTheorems, TLAPS

Core == [state : States, announced : BOOLEAN, due : BOOLEAN, generation : 0..GenRange - 1]
Step == [core : Core, action : Actions, changed : BOOLEAN]

Unmounting == pc = "act" /\ action = "unmount"

(* What was reported is what the core says.                                *)
Announced == core.announced => shown = core.state

(* The core says MOUNTED just when there is a volume, but for the time     *)
(* from its decision to unmount to the unmount; and it decides to eject    *)
(* with no file open.                                                      *)
CoreMatchesMedium ==
  /\ ~Unmounting => (core.state = "mounted" <=> volume # "none")
  /\ Unmounting =>
       /\ volume # "none"
       /\ \/ core.state = "removed"
          \/ core.state = "ejected" /\ \A s \in Slots : handles[s] = Free

(* The action that the task performs is one that the core asked for in the *)
(* state it is in; it asks for a mount of an ejected card only when told.  *)
ActsInTurn ==
  /\ pc = "act" =>
       /\ action # "none"
       /\ action = "try_mount" => core.state # "mounted" /\ told
       /\ action = "probe" => core.state = "mounted"
       /\ action = "present_check" => core.state = "ejected"
  /\ core.state # "ejected" => told

(* A handle with a descriptor is of this mount.                            *)
FilesAreCurrent ==
  core.state = "mounted" => \A s \in fds : handles[s].generation = core.generation

StorageInv ==
  /\ StorageTypeOK /\ Announced /\ CoreMatchesMedium /\ ActsInTurn
  /\ DescriptorsBelongToHandles /\ FilesAreCurrent

-----------------------------------------------------------------------------
(* The steps of the core.                                                  *)

(* enter(): a new state, announced, and the action it asks for.            *)
LEMMA EnterStep ==
  ASSUME NEW c \in Core, NEW next \in States, NEW act \in Actions
  PROVE  /\ Enter(c, next, act) \in Step
         /\ Enter(c, next, act).core.state = next
         /\ Enter(c, next, act).core.generation = c.generation
         /\ Enter(c, next, act).core.announced
         /\ Enter(c, next, act).action = act
         /\ ~Enter(c, next, act).changed => next = c.state /\ c.announced
BY DEF Enter, Core, Step

(* A deadline changes nothing else of the core.                            *)
LEMMA ScheduledCore ==
  ASSUME NEW c \in Core
  PROVE  /\ Schedule(c) \in Core
         /\ Schedule(c).state = c.state /\ Schedule(c).announced = c.announced
         /\ Schedule(c).generation = c.generation
BY DEF Schedule, Core

(* A new generation changes nothing else of the core.                      *)
LEMMA NextGenerationCore ==
  ASSUME NEW c \in Core
  PROVE  /\ NextGeneration(c) \in Core
         /\ NextGeneration(c).state = c.state /\ NextGeneration(c).announced = c.announced
<1>1. (c.generation + 1) % GenRange \in 0..GenRange - 1
  BY StorageConstantsOK DEF Core
<1> QED BY <1>1 DEF NextGeneration, Core

(* No action and no event.                                                 *)
LEMMA StayStep ==
  ASSUME NEW c \in Core
  PROVE  /\ Stay(c) \in Step /\ Stay(c).core = c
         /\ Stay(c).action = "none" /\ ~Stay(c).changed
BY DEF Stay, Step, Actions

(* An action without an event.                                             *)
LEMMA AskStep ==
  ASSUME NEW c \in Core, NEW act \in Actions
  PROVE  /\ Ask(c, act) \in Step /\ Ask(c, act).core = c
         /\ Ask(c, act).action = act /\ ~Ask(c, act).changed
BY DEF Ask, Step

(* run(): what a step that is sound for the core does to the variables.    *)
LEMMA StepTaken ==
  ASSUME StorageTypeOK, Announced, NEW step \in Step, NEW then \in {"mount", "io_error", "release"},
         ~step.changed => step.core.state = core.state /\ (step.core.announced => core.announced),
         Take(step, then)
  PROVE  /\ core' = step.core /\ action' = step.action /\ goesOn' = then
         /\ pc' = (IF step.action = "none" THEN then ELSE "act")
         /\ Announced'
         /\ core' \in Core /\ action' \in Actions /\ pc' \in TaskPcs
         /\ shown' \in States \cup {"not_fitted"}
         /\ goesOn' \in {"mount", "io_error", "release"}
         /\ ioError' \in BOOLEAN /\ notified' \in BOOLEAN
<1>1. /\ core' = step.core /\ action' = step.action /\ goesOn' = then
      /\ pc' = (IF step.action = "none" THEN then ELSE "act")
      /\ shown' = IF step.changed THEN step.core.state ELSE shown
  BY DEF Take
<1>2. ioError' \in BOOLEAN /\ notified' \in BOOLEAN
  BY DEF Take, NoIoError, IoErrorRaised, StorageTypeOK
<1>3. core' \in Core /\ action' \in Actions /\ pc' \in TaskPcs
  BY <1>1 DEF Step, TaskPcs
<1>4. Announced' /\ shown' \in States \cup {"not_fitted"}
  BY <1>1 DEF Announced, StorageTypeOK, Step, Core
<1> QED BY <1>1, <1>2, <1>3, <1>4

-----------------------------------------------------------------------------
(* A step that leaves the core, the medium, the action and the files alone *)
(* keeps the invariant.                                                    *)
LEMMA Elsewhere ==
  ASSUME StorageInv, StorageTypeOK', pc # "act", pc' # "act",
         UNCHANGED <<core, shown, volume, action, fileVars, told>>
  PROVE  StorageInv'
<1>1. Announced' /\ DescriptorsBelongToHandles' /\ FilesAreCurrent'
  BY DEF StorageInv, Announced, DescriptorsBelongToHandles, FilesAreCurrent, fileVars
<1>2. CoreMatchesMedium' /\ ActsInTurn'
  BY DEF StorageInv, CoreMatchesMedium, ActsInTurn, Unmounting
<1> QED BY <1>1, <1>2 DEF StorageInv

(* What the task does between "top" and "eject", and after the release.    *)
LEMMA TaskElsewhere ==
  ASSUME StorageInv, LoopTop \/ FlushTake \/ LogOpenFails \/ Lock \/ Release \/ Wake
  PROVE  StorageInv'
<1>1. /\ pc # "act" /\ pc' # "act" /\ pc' \in TaskPcs
      /\ UNCHANGED <<cardVars, reqEject, reqMount, runVars, fileVars, lines, requestPc>>
  BY DEF LoopTop, FlushTake, LogOpenFails, Lock, Release, Wake, TaskPcs, flagVars, logVars
<1>2. ioError' \in BOOLEAN /\ notified' \in BOOLEAN /\ buffered' \in BOOLEAN
  BY DEF LoopTop, FlushTake, LogOpenFails, Lock, Release, Wake, flagVars, logVars, NoIoError,
         IoErrorRaised, StorageInv, StorageTypeOK
<1>3. StorageTypeOK'
  BY <1>1, <1>2 DEF StorageInv, StorageTypeOK, cardVars, runVars, fileVars
<1> QED BY <1>1, <1>3, Elsewhere DEF cardVars, runVars

(* Requests, log lines, failing helpers, and a card put in.                *)
LEMMA OthersElsewhere ==
  ASSUME StorageInv,
         \/ HelperFails \/ LogLines
         \/ \E r \in Requesters : RequestEject(r) \/ RequestMount(r) \/ Notify(r)
         \/ \E kind \in {"blank", "fat"} : Insert(kind)
  PROVE  StorageInv'
<1>1. UNCHANGED <<volume, released, runVars, fileVars, pc>>
  BY DEF HelperFails, LogLines, RequestEject, RequestMount, Notify, Insert, cardVars
<1>2. card' \in {"none", "blank", "fat"} /\ lines' \in 0..MaxLines
  BY StorageConstantsOK DEF HelperFails, LogLines, RequestEject, RequestMount, Notify, Insert, cardVars,
     logVars, StorageInv, StorageTypeOK
<1>3. requestPc' \in [Requesters -> {"idle", "notify"}]
  BY DEF HelperFails, LogLines, RequestEject, RequestMount, Notify, Insert, StorageInv, StorageTypeOK
<1>4. ioError' \in BOOLEAN /\ notified' \in BOOLEAN
  BY DEF HelperFails, LogLines, RequestEject, RequestMount, Notify, Insert, IoErrorRaised,
     flagVars, StorageInv, StorageTypeOK
<1>5. reqEject' \in BOOLEAN /\ reqMount' \in BOOLEAN /\ buffered' \in BOOLEAN
  BY DEF HelperFails, LogLines, RequestEject, RequestMount, Notify, Insert,
     flagVars, logVars, StorageInv, StorageTypeOK
<1>6. StorageTypeOK'
  BY <1>1, <1>2, <1>3, <1>4, <1>5 DEF StorageInv, StorageTypeOK, runVars, fileVars
<1>7. Announced' /\ DescriptorsBelongToHandles' /\ FilesAreCurrent'
  BY <1>1 DEF StorageInv, Announced, DescriptorsBelongToHandles, FilesAreCurrent, fileVars, runVars
<1>8. CoreMatchesMedium' /\ ActsInTurn'
  BY <1>1 DEF StorageInv, CoreMatchesMedium, ActsInTurn, Unmounting, fileVars, runVars
<1> QED BY <1>6, <1>7, <1>8 DEF StorageInv

(* A card pulled or time passing leaves the task and the table alone.      *)
LEMMA PullOrTime ==
  ASSUME StorageInv, Pull \/ TimePasses
  PROVE  StorageInv'
<1>1. /\ UNCHANGED <<flagVars, shown, action, goesOn, told, fileVars, logVars, pc, requestPc>>
      /\ card' \in {"none", "blank", "fat"}
      /\ volume' \in {"none", "live", "gone"} /\ (volume' = "none" <=> volume = "none")
      /\ released' \in BOOLEAN
  BY DEF Pull, TimePasses, runVars, cardVars, StorageInv, StorageTypeOK
<1>2. core' \in Core /\ core'.state = core.state /\ core'.announced = core.announced
      /\ core'.generation = core.generation
  BY DEF Pull, TimePasses, runVars, StorageInv, StorageTypeOK, Core
<1>3. StorageTypeOK'
  BY <1>1, <1>2 DEF StorageInv, StorageTypeOK, Core, flagVars, fileVars, logVars
<1>4. Announced' /\ DescriptorsBelongToHandles' /\ FilesAreCurrent'
  BY <1>1, <1>2 DEF StorageInv, Announced, DescriptorsBelongToHandles, FilesAreCurrent, fileVars
<1>5. CoreMatchesMedium' /\ ActsInTurn'
  BY <1>1, <1>2 DEF StorageInv, CoreMatchesMedium, ActsInTurn, Unmounting, fileVars
<1> QED BY <1>3, <1>4, <1>5 DEF StorageInv

-----------------------------------------------------------------------------
(* The handle table.                                                       *)

(* With the lock free, a handle is usable just when it has a descriptor.   *)
LEMMA UsableHandles ==
  ASSUME StorageInv, ~LockHeld
  PROVE  \A s \in Slots : Usable(s) <=> s \in fds
<1>1. ~Unmounting
  BY DEF LockHeld, Unmounting
<1> QED BY <1>1 DEF StorageInv, CoreMatchesMedium, DescriptorsBelongToHandles, FilesAreCurrent, Usable

(* A client's open takes a free slot and a descriptor of the volume that   *)
(* is mounted.                                                             *)
LEMMA FileOpened ==
  ASSUME StorageInv, NEW owner \in Clients \cup {"log"}, NEW s \in Slots, OpenFile(owner, s)
  PROVE  /\ handles' \in [Slots -> Handle \cup {Free}] /\ fds' \subseteq Slots
         /\ ~LockHeld
         /\ fds' = {t \in Slots : handles'[t] # Free /\ ~handles'[t].stale}
         /\ core.state = "mounted"
         /\ \A t \in fds' : handles'[t].generation = core.generation
<1> DEFINE h == [owner |-> owner, stale |-> FALSE, generation |-> core.generation]
<1>1. /\ ~LockHeld /\ core.state = "mounted" /\ handles[s] = Free
      /\ handles' = [handles EXCEPT ![s] = h] /\ fds' = fds \cup {s}
  BY DEF OpenFile
<1>2. h \in Handle /\ h # Free /\ ~h.stale /\ h.generation = core.generation
  <2>1. owner # "nobody"
    BY StorageConstantsOK
  <2> QED BY <2>1 DEF Handle, Free, StorageInv, StorageTypeOK
<1> HIDE DEF h
<1>3. /\ handles' \in [Slots -> Handle \cup {Free}] /\ fds' \subseteq Slots
      /\ handles'[s] = h /\ \A t \in Slots \ {s} : handles'[t] = handles[t]
  BY <1>1, <1>2 DEF StorageInv, StorageTypeOK
<1>4. fds' = {t \in Slots : handles'[t] # Free /\ ~handles'[t].stale}
  BY <1>1, <1>2, <1>3 DEF StorageInv, DescriptorsBelongToHandles
<1>5. \A t \in fds' : handles'[t].generation = core.generation
  BY <1>1, <1>2, <1>3 DEF StorageInv, FilesAreCurrent, StorageTypeOK
<1> QED BY <1>1, <1>3, <1>4, <1>5

(* A client's close gives both back, and of a stale handle the slot alone. *)
LEMMA FileClosed ==
  ASSUME StorageInv, NEW owner, NEW s \in Slots, CloseFile(owner, s)
  PROVE  /\ handles' \in [Slots -> Handle \cup {Free}] /\ fds' \subseteq fds
         /\ ~LockHeld
         /\ fds' = {t \in Slots : handles'[t] # Free /\ ~handles'[t].stale}
         /\ \A t \in fds' : handles'[t] = handles[t]
         /\ ioError' \in BOOLEAN /\ notified' \in BOOLEAN
<1>1. ~LockHeld /\ handles' = [handles EXCEPT ![s] = Free]
  BY DEF CloseFile
<1>2. /\ handles' \in [Slots -> Handle \cup {Free}]
      /\ handles'[s] = Free /\ \A t \in Slots \ {s} : handles'[t] = handles[t]
  BY <1>1 DEF StorageInv, StorageTypeOK
<1>3. fds' = fds \ {s}
  BY <1>1, UsableHandles DEF CloseFile
<1>4. fds' = {t \in Slots : handles'[t] # Free /\ ~handles'[t].stale}
  BY <1>2, <1>3 DEF StorageInv, DescriptorsBelongToHandles
<1>5. ioError' \in BOOLEAN /\ notified' \in BOOLEAN
  BY DEF CloseFile, IoErrorRaised, NoIoError, StorageInv, StorageTypeOK
<1> QED BY <1>1, <1>2, <1>3, <1>4, <1>5 DEF StorageInv, StorageTypeOK

(* A step under the free lock that only changes the table.                 *)
LEMMA FilesStep ==
  ASSUME StorageInv, StorageTypeOK', ~LockHeld, pc' # "act",
         UNCHANGED <<core, shown, volume, action, told>>,
         fds' = {t \in Slots : handles'[t] # Free /\ ~handles'[t].stale},
         fds' # {} => core.state = "mounted",
         core.state = "mounted" => \A t \in fds' : handles'[t].generation = core.generation
  PROVE  StorageInv'
<1>1. pc # "act" /\ (core.state = "mounted" <=> volume # "none")
  BY DEF LockHeld, StorageInv, CoreMatchesMedium, Unmounting
<1>2. Announced' /\ FilesAreCurrent'
  BY DEF StorageInv, Announced, FilesAreCurrent
<1>3. DescriptorsBelongToHandles'
  BY <1>1 DEF DescriptorsBelongToHandles
<1>4. CoreMatchesMedium' /\ ActsInTurn'
  BY <1>1 DEF StorageInv, CoreMatchesMedium, ActsInTurn, Unmounting
<1> QED BY <1>2, <1>3, <1>4 DEF StorageInv

(* An open, of a client or of the log writer.                              *)
LEMMA OpenStep ==
  ASSUME StorageInv, \/ \E c \in Clients, s \in Slots : Open(c, s)
                     \/ LogOpen
  PROVE  StorageInv'
<1>1. PICK owner \in Clients \cup {"log"}, s \in Slots : OpenFile(owner, s)
  BY DEF Open, LogOpen
<1>2. /\ UNCHANGED <<cardVars, flagVars, runVars, logVars, requestPc>>
      /\ pc' \in TaskPcs /\ pc' # "act"
  BY <1>1 DEF Open, LogOpen, OpenFile, LockHeld, StorageInv, StorageTypeOK, TaskPcs
<1>3. StorageTypeOK'
  BY <1>1, <1>2, FileOpened DEF StorageInv, StorageTypeOK, cardVars, flagVars, runVars, logVars
<1> QED BY <1>1, <1>2, <1>3, FileOpened, FilesStep DEF cardVars, runVars

(* A close, of a client or of the log writer.                              *)
LEMMA CloseStep ==
  ASSUME StorageInv, \/ \E c \in Clients, s \in Slots : Close(c, s)
                     \/ LogClose
  PROVE  StorageInv'
<1>1. PICK owner \in Clients \cup {"log"}, s \in Slots : CloseFile(owner, s)
  BY DEF Close, LogClose
<1>2. /\ UNCHANGED <<cardVars, reqEject, reqMount, runVars, logVars, requestPc>>
      /\ pc' \in TaskPcs /\ pc' # "act" /\ ~LockHeld
  BY <1>1 DEF Close, LogClose, CloseFile, LockHeld, StorageInv, StorageTypeOK, TaskPcs
<1>3. /\ handles' \in [Slots -> Handle \cup {Free}] /\ fds' \subseteq fds
      /\ fds' = {t \in Slots : handles'[t] # Free /\ ~handles'[t].stale}
      /\ \A t \in fds' : handles'[t] = handles[t]
      /\ ioError' \in BOOLEAN /\ notified' \in BOOLEAN
  BY <1>1, FileClosed
<1>4. StorageTypeOK'
  BY <1>2, <1>3 DEF StorageInv, StorageTypeOK, cardVars, runVars, logVars
<1>5. fds' # {} => core.state = "mounted"
  BY <1>2, <1>3 DEF StorageInv, DescriptorsBelongToHandles, CoreMatchesMedium, Unmounting, LockHeld
<1>6. core.state = "mounted" => \A t \in fds' : handles'[t].generation = core.generation
  BY <1>3 DEF StorageInv, FilesAreCurrent
<1> QED BY <1>2, <1>3, <1>4, <1>5, <1>6, FilesStep DEF cardVars, runVars

-----------------------------------------------------------------------------
(* The storage task under the lock.                                        *)

(* The types after a step of the core was taken.                           *)
LEMMA TypesAfterStep ==
  ASSUME StorageInv, NEW step \in Step, NEW then \in {"mount", "io_error", "release"},
         ~step.changed => step.core.state = core.state /\ (step.core.announced => core.announced),
         Take(step, then),
         card' \in {"none", "blank", "fat"}, volume' \in {"none", "live", "gone"},
         reqEject' \in BOOLEAN, reqMount' \in BOOLEAN, told' \in BOOLEAN, released' \in BOOLEAN,
         UNCHANGED <<fileVars, logVars, requestPc>>
  PROVE  StorageTypeOK' /\ Announced'
<1>1. /\ Announced'
      /\ core' \in Core /\ action' \in Actions /\ pc' \in TaskPcs
      /\ shown' \in States \cup {"not_fitted"}
      /\ goesOn' \in {"mount", "io_error", "release"}
      /\ ioError' \in BOOLEAN /\ notified' \in BOOLEAN
  BY StepTaken DEF StorageInv
<1> QED BY <1>1 DEF StorageInv, StorageTypeOK, Core, fileVars, logVars

(* With no handle counted the table is empty.                              *)
LEMMA NoFileOpen ==
  ASSUME StorageInv, ~(OpenCount > 0)
  PROVE  \A s \in Slots : handles[s] = Free
<1> DEFINE open == {s \in Slots : handles[s] # Free}
<1>1. IsFiniteSet(open)
  <2>1. 1 \in Int /\ NSlots \in Int
    BY StorageConstantsOK
  <2>2. IsFiniteSet(Slots)
    BY <2>1, FS_Interval DEF Slots
  <2> QED BY <2>2, FS_Subset
<1>2. Cardinality(open) \in Nat
  BY <1>1, FS_CardinalityType
<1>3. Cardinality(open) = 0
  BY <1>2 DEF OpenCount
<1>4. open = {}
  BY <1>1, <1>3, FS_EmptySet
<1> QED BY <1>4

(* An eject is refused while files are open, else it asks for the unmount. *)
LEMMA ServeEjectStep ==
  ASSUME StorageInv, ServeEject
  PROVE  StorageInv'
<1>0. core \in Core /\ told \in BOOLEAN /\ released \in BOOLEAN
  BY DEF StorageInv, StorageTypeOK, Core
<1>1. /\ pc = "eject" /\ ~Unmounting /\ reqEject' \in BOOLEAN
      /\ UNCHANGED <<card, volume, reqMount, fileVars, logVars, requestPc>>
  BY DEF ServeEject, Unmounting
<1>2. PICK step \in {Stay(core), Enter(Schedule(NextGeneration(core)), "ejected", "unmount")} :
        /\ step # Stay(core) => ~(OpenCount > 0) /\ core.state = "mounted"
        /\ Take(step, "mount")
        /\ told' = (told /\ ~step.changed)
        /\ released' = IF step.changed THEN card = "none" ELSE released
  BY DEF ServeEject, OnReqEject
<1>3. CASE step = Stay(core)
  <2>1. step \in Step /\ step.core = core /\ step.action = "none" /\ ~step.changed
    BY <1>0, <1>3, StayStep
  <2>2. told' \in BOOLEAN /\ (told' <=> told) /\ released' \in BOOLEAN
    BY <1>0, <1>2, <2>1, Zenon
  <2>3. core' = core /\ pc' = "mount" /\ action' = "none"
    BY <1>2, <2>1, StepTaken DEF StorageInv
  <2>4. StorageTypeOK' /\ Announced'
    BY <1>1, <1>2, <2>1, <2>2, TypesAfterStep DEF StorageInv, StorageTypeOK
  <2>5. DescriptorsBelongToHandles' /\ FilesAreCurrent'
    BY <1>1, <2>3 DEF StorageInv, DescriptorsBelongToHandles, FilesAreCurrent, fileVars
  <2>6. CoreMatchesMedium' /\ ActsInTurn'
    BY <1>1, <2>2, <2>3 DEF StorageInv, CoreMatchesMedium, ActsInTurn, Unmounting, fileVars
  <2> QED BY <2>4, <2>5, <2>6 DEF StorageInv
<1>4. CASE step # Stay(core)
  <2> DEFINE c == Schedule(NextGeneration(core))
  <2>1. c \in Core /\ c.state = "mounted"
    BY <1>0, <1>2, <1>4, NextGenerationCore, ScheduledCore
  <2>2. step = Enter(c, "ejected", "unmount")
    BY <1>4
  <2> HIDE DEF c
  <2>3. /\ step \in Step /\ step.core.state = "ejected" /\ step.action = "unmount" /\ step.changed
    BY <2>1, <2>2, EnterStep DEF States, Actions
  <2>4. told' \in BOOLEAN /\ released' \in BOOLEAN
    <3>1. told' = FALSE /\ released' = (card = "none")
      BY <1>2, <2>3, Zenon
    <3> QED BY <3>1
  <2>5. core'.state = "ejected" /\ pc' = "act" /\ action' = "unmount"
    BY <1>2, <2>3, StepTaken DEF StorageInv
  <2>6. StorageTypeOK' /\ Announced'
    BY <1>1, <1>2, <2>3, <2>4, TypesAfterStep DEF StorageInv, StorageTypeOK
  <2>7. volume # "none" /\ \A s \in Slots : handles[s] = Free
    BY <1>1, <1>2, <1>4, NoFileOpen DEF StorageInv, CoreMatchesMedium
  <2>8. DescriptorsBelongToHandles' /\ FilesAreCurrent'
    BY <1>1, <2>5 DEF StorageInv, DescriptorsBelongToHandles, FilesAreCurrent, fileVars
  <2>9. CoreMatchesMedium' /\ ActsInTurn'
    BY <1>1, <2>5, <2>7 DEF CoreMatchesMedium, ActsInTurn, Unmounting, fileVars
  <2> QED BY <2>6, <2>8, <2>9 DEF StorageInv
<1> QED BY <1>3, <1>4

(* A step that only asks for a mount or a probe, or for nothing.           *)
LEMMA AskTaken ==
  ASSUME StorageInv, pc # "act", NEW step \in Step, NEW then \in {"mount", "io_error", "release"},
         step.core \in {core, Schedule(core)}, ~step.changed, step.action # "unmount",
         Take(step, then),
         reqEject' \in BOOLEAN, reqMount' \in BOOLEAN, told' \in BOOLEAN, told => told',
         released' \in BOOLEAN,
         step.action = "try_mount" => core.state # "mounted" /\ told',
         step.action = "probe" => core.state = "mounted",
         step.action = "present_check" => core.state = "ejected",
         UNCHANGED <<card, volume, fileVars, logVars, requestPc>>
  PROVE  StorageInv'
<1>1. /\ step.core.state = core.state /\ step.core.announced = core.announced
      /\ step.core.generation = core.generation
  BY ScheduledCore DEF StorageInv, StorageTypeOK, Core
<1>2. /\ core' = step.core /\ action' = step.action
      /\ pc' = (IF step.action = "none" THEN then ELSE "act")
  BY <1>1, StepTaken DEF StorageInv
<1>3. StorageTypeOK' /\ Announced'
  BY <1>1, TypesAfterStep DEF StorageInv, StorageTypeOK
<1>4. DescriptorsBelongToHandles' /\ FilesAreCurrent'
  BY <1>1, <1>2 DEF StorageInv, DescriptorsBelongToHandles, FilesAreCurrent, fileVars
<1>5. CoreMatchesMedium' /\ ActsInTurn'
  BY <1>1, <1>2 DEF StorageInv, CoreMatchesMedium, ActsInTurn, Unmounting, fileVars
<1> QED BY <1>3, <1>4, <1>5 DEF StorageInv

(* A mount request is served from the states that allow one.               *)
LEMMA ServeMountStep ==
  ASSUME StorageInv, ServeMount
  PROVE  StorageInv'
<1>0. core \in Core /\ told \in BOOLEAN /\ reqMount \in BOOLEAN /\ reqEject \in BOOLEAN
      /\ released \in BOOLEAN
  BY DEF StorageInv, StorageTypeOK, Core
<1>1. /\ pc # "act" /\ reqMount' \in BOOLEAN /\ reqEject' \in BOOLEAN
      /\ UNCHANGED <<card, volume, fileVars, logVars, requestPc>>
  BY <1>0 DEF ServeMount
<1>2. /\ told' \in BOOLEAN
      /\ told => told'
      /\ reqMount => told'
      /\ released' \in BOOLEAN
  BY <1>0, Zenon DEF ServeMount
<1>3. PICK step \in {Stay(core), Ask(Schedule(core), "try_mount")} :
        /\ step # Stay(core) => reqMount /\ core.state # "mounted"
        /\ Take(step, "io_error")
  BY DEF ServeMount, OnReqMount
<1>4. CASE step = Stay(core)
  <2>1. step \in Step /\ step.core = core /\ step.action = "none" /\ ~step.changed
    BY <1>0, <1>4, StayStep
  <2> QED BY <1>1, <1>2, <1>3, <2>1, AskTaken
<1>5. CASE step # Stay(core)
  <2>1. Schedule(core) \in Core
    BY <1>0, ScheduledCore
  <2>2. step \in Step /\ step.core = Schedule(core) /\ step.action = "try_mount" /\ ~step.changed
    BY <1>3, <1>5, <2>1, AskStep DEF Actions
  <2> QED BY <1>1, <1>2, <1>3, <1>5, <2>2, AskTaken
<1> QED BY <1>4, <1>5

(* An I/O error asks for a probe.                                          *)
LEMMA ServeIoErrorStep ==
  ASSUME StorageInv, ServeIoError
  PROVE  StorageInv'
<1>1. /\ pc = "io_error" /\ pc' = "tick" /\ ioError' \in BOOLEAN
      /\ UNCHANGED <<cardVars, reqEject, reqMount, notified, shown, action, goesOn, told,
                     fileVars, logVars, requestPc>>
      /\ core' \in {core, OnIoError(core).core}
  BY DEF ServeIoError
<1>2. core' \in Core /\ core'.state = core.state /\ core'.announced = core.announced
      /\ core'.generation = core.generation
  <2> DEFINE due == core.due \/ core.state = "mounted"
  <2>1. due \in BOOLEAN
    OBVIOUS
  <2> HIDE DEF due
  <2>2. OnIoError(core).core = [core EXCEPT !.due = due]
    BY DEF OnIoError, Stay, due
  <2> QED BY <1>1, <2>1, <2>2 DEF StorageInv, StorageTypeOK, Core
<1>3. StorageTypeOK'
  BY <1>1, <1>2 DEF StorageInv, StorageTypeOK, Core, TaskPcs, cardVars, fileVars, logVars
<1>4. Announced' /\ DescriptorsBelongToHandles' /\ FilesAreCurrent'
  BY <1>1, <1>2 DEF StorageInv, Announced, DescriptorsBelongToHandles, FilesAreCurrent, fileVars, cardVars
<1>5. CoreMatchesMedium' /\ ActsInTurn'
  BY <1>1, <1>2 DEF StorageInv, CoreMatchesMedium, ActsInTurn, Unmounting, fileVars, cardVars
<1> QED BY <1>3, <1>4, <1>5 DEF StorageInv

(* The tick asks for what the state's deadline is for.                     *)
LEMMA TickStep ==
  ASSUME StorageInv, Tick
  PROVE  StorageInv'
<1>0. core \in Core /\ told \in BOOLEAN /\ reqMount \in BOOLEAN /\ reqEject \in BOOLEAN
      /\ released \in BOOLEAN
  BY DEF StorageInv, StorageTypeOK, Core
<1>1. /\ pc # "act" /\ Take(OnTick(core), "release")
      /\ UNCHANGED <<card, volume, released, reqEject, reqMount, told, fileVars, logVars, requestPc>>
  BY DEF Tick, cardVars
<1>2. CASE ~core.due
  <2>1. OnTick(core) = Stay(core)
    BY <1>2 DEF OnTick
  <2>2. Stay(core) \in Step /\ Stay(core).core = core /\ Stay(core).action = "none" /\ ~Stay(core).changed
    BY <1>0, StayStep
  <2> QED BY <1>0, <1>1, <2>1, <2>2, AskTaken
<1>3. CASE core.due
  <2> DEFINE act == TickAction(core.state)
  <2>1. /\ act \in {"try_mount", "probe", "present_check"}
        /\ act = "try_mount" => core.state # "mounted" /\ core.state # "ejected"
        /\ act = "probe" => core.state = "mounted"
        /\ act = "present_check" => core.state = "ejected"
    BY DEF TickAction
  <2>2. OnTick(core) = Ask(Schedule(core), act)
    BY <1>3 DEF OnTick
  <2> HIDE DEF act
  <2> DEFINE step == Ask(Schedule(core), act)
  <2>3. step \in Step /\ step.core = Schedule(core) /\ step.action = act /\ ~step.changed
    BY <1>0, <2>1, ScheduledCore, AskStep DEF Actions
  <2>4. Take(step, "release")
    BY <1>1, <2>2
  <2> HIDE DEF step
  <2>5. core.state # "ejected" => told
    BY DEF StorageInv, ActsInTurn
  <2>6. told' = told
    BY <1>1
  <2> QED BY <1>0, <1>1, <2>1, <2>3, <2>4, <2>5, <2>6, AskTaken
<1> QED BY <1>2, <1>3

(* A result after which there is nothing to do.                            *)
LEMMA Settled ==
  ASSUME StorageInv, NEW step \in Step, step.action = "none",
         ~step.changed => step.core.state = core.state /\ (step.core.announced => core.announced),
         Take(step, goesOn),
         volume' \in {"none", "live", "gone"}, told' \in BOOLEAN, released' \in BOOLEAN,
         step.core.state = "mounted" <=> volume' # "none",
         fds # {} => volume' # "none" /\ step.core.generation = core.generation /\ core.state = "mounted",
         step.core.state # "ejected" => told',
         UNCHANGED <<card, reqEject, reqMount, fileVars, logVars, requestPc>>
  PROVE  StorageInv'
<1>1. core' = step.core /\ pc' = goesOn /\ goesOn \in {"mount", "io_error", "release"}
  BY StepTaken DEF StorageInv, StorageTypeOK
<1>2. StorageTypeOK' /\ Announced'
  BY <1>1, TypesAfterStep DEF StorageInv, StorageTypeOK
<1>3. DescriptorsBelongToHandles' /\ FilesAreCurrent'
  BY <1>1 DEF StorageInv, DescriptorsBelongToHandles, FilesAreCurrent, fileVars
<1>4. CoreMatchesMedium' /\ ActsInTurn'
  BY <1>1 DEF CoreMatchesMedium, ActsInTurn, Unmounting
<1> QED BY <1>2, <1>3, <1>4 DEF StorageInv

(* A mount works, and its volume is live, or fails.                        *)
LEMMA TryMountStep ==
  ASSUME StorageInv, TryMount
  PROVE  StorageInv'
<1>0. core \in Core /\ told \in BOOLEAN /\ released \in BOOLEAN
  BY DEF StorageInv, StorageTypeOK, Core
<1>1. /\ pc = "act" /\ action = "try_mount" /\ core.state # "mounted" /\ told
      /\ volume = "none" /\ fds = {}
      /\ UNCHANGED <<card, released, reqEject, reqMount, told, fileVars, logVars, requestPc>>
  BY DEF TryMount, StorageInv, ActsInTurn, CoreMatchesMedium, DescriptorsBelongToHandles, Unmounting
<1>2. PICK result \in MountResults :
        /\ Take(OnMountResult(core, result), goesOn)
        /\ volume' = IF result = "ok" THEN "live" ELSE volume
  BY DEF TryMount
<1>3. told' \in BOOLEAN /\ told' /\ released' \in BOOLEAN
  BY <1>0, <1>1
<1>4. CASE result = "ok"
  <2> DEFINE c == Schedule(core)
  <2>1. c \in Core /\ c.state = core.state
    BY <1>0, ScheduledCore
  <2>2. OnMountResult(core, result) = Enter(c, "mounted", "none")
    BY <1>4 DEF OnMountResult
  <2> HIDE DEF c
  <2> DEFINE step == Enter(c, "mounted", "none")
  <2>3. /\ step \in Step /\ step.core.state = "mounted" /\ step.action = "none"
        /\ ~step.changed => c.state = "mounted"
    BY <2>1, EnterStep DEF States, Actions
  <2>4. Take(step, goesOn)
    BY <1>2, <2>2
  <2> HIDE DEF step
  <2> QED BY <1>1, <1>2, <1>3, <1>4, <2>1, <2>3, <2>4, Settled
<1>5. CASE result # "ok" /\ OnMountResult(core, result) = Stay(core)
  <2> DEFINE step == Stay(core)
  <2>1. step \in Step /\ step.core = core /\ step.action = "none"
    BY <1>0, StayStep
  <2>2. Take(step, goesOn)
    BY <1>2, <1>5
  <2> HIDE DEF step
  <2> QED BY <1>1, <1>2, <1>3, <1>5, <2>1, <2>2, Settled
<1>6. ASSUME NEW next \in {"absent", "unusable"}, result # "ok",
             OnMountResult(core, result) = Enter(core, next, "none")
      PROVE  StorageInv'
  <2> DEFINE step == Enter(core, next, "none")
  <2>1. /\ step \in Step /\ step.core.state = next /\ step.action = "none"
        /\ ~step.changed => core.state = next /\ core.announced
    BY <1>0, EnterStep DEF States, Actions
  <2>2. Take(step, goesOn)
    BY <1>2, <1>6
  <2> HIDE DEF step
  <2> QED BY <1>1, <1>2, <1>3, <1>6, <2>1, <2>2, Settled
<1>7. result # "ok" => \/ OnMountResult(core, result) = Stay(core)
                       \/ \E next \in {"absent", "unusable"} :
                            OnMountResult(core, result) = Enter(core, next, "none")
  BY DEF OnMountResult
<1> QED BY <1>4, <1>5, <1>6, <1>7

(* A probe that fails asks for the unmount; no handle changes yet.         *)
LEMMA ProbeStep ==
  ASSUME StorageInv, Probe
  PROVE  StorageInv'
<1>0. core \in Core /\ told \in BOOLEAN /\ released \in BOOLEAN
  BY DEF StorageInv, StorageTypeOK, Core
<1>1. /\ pc = "act" /\ action = "probe" /\ core.state = "mounted" /\ volume # "none"
      /\ UNCHANGED <<cardVars, reqEject, reqMount, told, fileVars, logVars, requestPc>>
      /\ core.state # "ejected" => told
  BY DEF Probe, StorageInv, ActsInTurn, CoreMatchesMedium, Unmounting
<1>2. PICK result \in ProbeResults : Take(OnProbeResult(core, result), goesOn)
  BY DEF Probe
<1>3. told' \in BOOLEAN /\ told' /\ released' \in BOOLEAN
  BY <1>0, <1>1 DEF cardVars
<1>4. CASE result = "ok"
  <2> DEFINE step == Stay(core)
  <2>1. step \in Step /\ step.core = core /\ step.action = "none"
    BY <1>0, StayStep
  <2>2. Take(step, goesOn)
    BY <1>2, <1>4 DEF OnProbeResult
  <2> HIDE DEF step
  <2>3. volume' \in {"none", "live", "gone"} /\ volume' # "none" /\ UNCHANGED card
    BY <1>1 DEF StorageInv, StorageTypeOK, cardVars
  <2> QED BY <1>1, <1>3, <2>1, <2>2, <2>3, Settled
<1>5. CASE result # "ok"
  <2> DEFINE c == Schedule(NextGeneration(core))
  <2>1. c \in Core /\ c.state = "mounted"
    BY <1>0, <1>1, NextGenerationCore, ScheduledCore
  <2>2. OnProbeResult(core, result) = Enter(c, "removed", "unmount")
    BY <1>5 DEF OnProbeResult
  <2> HIDE DEF c
  <2> DEFINE step == Enter(c, "removed", "unmount")
  <2>3. step \in Step /\ step.core.state = "removed" /\ step.action = "unmount"
        /\ (~step.changed => c.state = "removed")
    BY <2>1, EnterStep DEF States, Actions
  <2>4. Take(step, goesOn)
    BY <1>2, <2>2
  <2> HIDE DEF step
  <2>5. step.changed /\ goesOn \in {"mount", "io_error", "release"}
    BY <2>1, <2>3 DEF StorageInv, StorageTypeOK
  <2>6. core'.state = "removed" /\ pc' = "act" /\ action' = "unmount"
    BY <2>3, <2>4, <2>5, StepTaken DEF StorageInv
  <2>7. StorageTypeOK' /\ Announced'
    BY <1>1, <1>3, <2>3, <2>4, <2>5, TypesAfterStep DEF StorageInv, StorageTypeOK, cardVars
  <2>8. DescriptorsBelongToHandles' /\ FilesAreCurrent'
    BY <1>1, <2>6 DEF StorageInv, DescriptorsBelongToHandles, FilesAreCurrent, fileVars, cardVars
  <2>9. CoreMatchesMedium' /\ ActsInTurn'
    BY <1>1, <1>3, <2>6 DEF CoreMatchesMedium, ActsInTurn, Unmounting, cardVars
  <2> QED BY <2>7, <2>8, <2>9 DEF StorageInv
<1> QED BY <1>4, <1>5

(* An ejected card may be mounted again once ABSENT was shown.             *)
LEMMA PresentCheckStep ==
  ASSUME StorageInv, PresentCheck
  PROVE  StorageInv'
<1>0. core \in Core /\ told \in BOOLEAN /\ released \in BOOLEAN
  BY DEF StorageInv, StorageTypeOK, Core
<1>1. /\ pc = "act" /\ action = "present_check" /\ core.state = "ejected" /\ volume = "none" /\ fds = {}
      /\ UNCHANGED <<cardVars, reqEject, reqMount, fileVars, logVars, requestPc>>
  BY DEF PresentCheck, StorageInv, ActsInTurn, CoreMatchesMedium, DescriptorsBelongToHandles, Unmounting
<1>2. PICK result \in PresentResults :
        /\ Take(OnPresentResult(core, result), goesOn)
        /\ told' = (told \/ shown' = "absent")
  BY DEF PresentCheck
<1>3. told' \in BOOLEAN /\ (shown' = "absent" => told')
  BY <1>0, <1>2, Zenon
<1>4. volume' \in {"none", "live", "gone"} /\ volume' = "none" /\ UNCHANGED card /\ released' \in BOOLEAN
  BY <1>0, <1>1 DEF cardVars
<1>5. CASE result = "ok"
  <2> DEFINE step == Stay(core)
  <2>1. step \in Step /\ step.core = core /\ step.action = "none"
    BY <1>0, StayStep
  <2>2. Take(step, goesOn)
    BY <1>2, <1>5 DEF OnPresentResult
  <2> HIDE DEF step
  <2> QED BY <1>1, <1>3, <1>4, <2>1, <2>2, Settled
<1>6. CASE result # "ok"
  <2> DEFINE step == Enter(core, "absent", "none")
  <2>1. /\ step \in Step /\ step.core.state = "absent" /\ step.action = "none"
        /\ ~step.changed => core.state = "absent"
    BY <1>0, EnterStep DEF States, Actions
  <2>2. Take(step, goesOn)
    BY <1>1, <1>2, <1>6 DEF OnPresentResult
  <2>3. step.changed
    BY <1>1 DEF Enter
  <2> HIDE DEF step
  <2>4. told'
    BY <1>3, <2>1, <2>2, <2>3 DEF Take
  <2> QED BY <1>1, <1>3, <1>4, <2>1, <2>2, <2>4, Settled
<1> QED BY <1>5, <1>6

(* storage_files_invalidate(): no handle keeps a descriptor.               *)
LEMMA UnmountStep ==
  ASSUME StorageInv, Unmount
  PROVE  StorageInv'
<1>1. /\ Unmounting /\ volume' = "none" /\ action' = "none" /\ pc' = goesOn
      /\ UNCHANGED <<card, released, flagVars, core, shown, goesOn, told, logVars, requestPc>>
      /\ goesOn \in {"mount", "io_error", "release"}
  BY DEF Unmount, Unmounting, StorageInv, StorageTypeOK
<1>2. core.state # "mounted"
  BY <1>1 DEF StorageInv, CoreMatchesMedium
<1>3. handles' = [s \in Slots |-> IF handles[s] = Free THEN Free ELSE [handles[s] EXCEPT !.stale = TRUE]]
  BY DEF Unmount
<1>4. ASSUME NEW s \in Slots
      PROVE  /\ handles'[s] \in Handle \cup {Free}
             /\ handles'[s] = Free \/ handles'[s].stale
  <2>1. handles[s] \in Handle \cup {Free}
    BY DEF StorageInv, StorageTypeOK
  <2>2. \A h \in Handle : [h EXCEPT !.stale = TRUE] \in Handle /\ [h EXCEPT !.stale = TRUE].stale
    BY DEF Handle
  <2>3. handles'[s] = IF handles[s] = Free THEN Free ELSE [handles[s] EXCEPT !.stale = TRUE]
    BY <1>3
  <2> QED BY <2>1, <2>2, <2>3
<1>5. handles' \in [Slots -> Handle \cup {Free}]
  BY <1>3, <1>4
<1>6. fds' = {}
  BY DEF Unmount, StorageInv, DescriptorsBelongToHandles
<1>7. StorageTypeOK'
  <2>1. pc' \in TaskPcs /\ volume' \in {"none", "live", "gone"} /\ action' \in Actions
    BY <1>1 DEF TaskPcs, Actions
  <2> QED BY <1>1, <1>5, <1>6, <2>1 DEF StorageInv, StorageTypeOK, flagVars, logVars
<1>8. DescriptorsBelongToHandles' /\ FilesAreCurrent' /\ Announced'
  BY <1>1, <1>4, <1>6 DEF StorageInv, DescriptorsBelongToHandles, FilesAreCurrent, Announced
<1>9. CoreMatchesMedium' /\ ActsInTurn'
  BY <1>1, <1>2 DEF StorageInv, CoreMatchesMedium, ActsInTurn, Unmounting
<1> QED BY <1>7, <1>8, <1>9 DEF StorageInv

-----------------------------------------------------------------------------

(* The service starts with nothing mounted and no handle.                  *)
LEMMA StorageInitially == StorageInit => StorageInv
<1> SUFFICES ASSUME StorageInit PROVE StorageInv
  OBVIOUS
<1>1. core \in Core
  BY StorageConstantsOK DEF StorageInit, Core, States
<1>2. StorageTypeOK
  <2>1. /\ reqEject \in BOOLEAN /\ reqMount \in BOOLEAN /\ ioError \in BOOLEAN /\ notified \in BOOLEAN
        /\ buffered \in BOOLEAN /\ told \in BOOLEAN /\ released \in BOOLEAN
    BY DEF StorageInit
  <2> QED BY <1>1, <2>1, StorageConstantsOK DEF StorageInit, StorageTypeOK, Core, TaskPcs, Actions
<1>3. Announced /\ DescriptorsBelongToHandles /\ FilesAreCurrent
  BY DEF StorageInit, Announced, DescriptorsBelongToHandles, FilesAreCurrent
<1>4. CoreMatchesMedium /\ ActsInTurn
  BY DEF StorageInit, CoreMatchesMedium, ActsInTurn, Unmounting
<1> QED BY <1>2, <1>3, <1>4 DEF StorageInv

(* Every step keeps the invariant.                                         *)
LEMMA StorageInductive == StorageInv /\ [StorageNext]_storageVars => StorageInv'
<1> SUFFICES ASSUME StorageInv, [StorageNext]_storageVars PROVE StorageInv'
  OBVIOUS
<1>1. CASE LoopTop \/ FlushTake \/ LogOpenFails \/ Lock \/ Release \/ Wake
  BY <1>1, TaskElsewhere
<1>2. CASE \/ HelperFails \/ LogLines
           \/ \E r \in Requesters : RequestEject(r) \/ RequestMount(r) \/ Notify(r)
           \/ \E kind \in {"blank", "fat"} : Insert(kind)
  BY <1>2, OthersElsewhere
<1>3. CASE Pull \/ TimePasses
  BY <1>3, PullOrTime
<1>4. CASE (\E c \in Clients, s \in Slots : Open(c, s)) \/ LogOpen
  BY <1>4, OpenStep
<1>5. CASE (\E c \in Clients, s \in Slots : Close(c, s)) \/ LogClose
  BY <1>5, CloseStep
<1>6. CASE ServeEject
  BY <1>6, ServeEjectStep
<1>7. CASE ServeMount
  BY <1>7, ServeMountStep
<1>8. CASE ServeIoError
  BY <1>8, ServeIoErrorStep
<1>9. CASE Tick
  BY <1>9, TickStep
<1>10. CASE TryMount
  BY <1>10, TryMountStep
<1>11. CASE Probe
  BY <1>11, ProbeStep
<1>12. CASE PresentCheck
  BY <1>12, PresentCheckStep
<1>13. CASE Unmount
  BY <1>13, UnmountStep
<1>14. CASE UNCHANGED storageVars
  <2>1. UNCHANGED <<cardVars, flagVars, runVars, fileVars, logVars, pc, requestPc>>
    BY <1>14 DEF storageVars
  <2>2. StorageTypeOK'
    BY <2>1 DEF StorageInv, StorageTypeOK, cardVars, flagVars, runVars, fileVars, logVars
  <2>3. Announced' /\ DescriptorsBelongToHandles' /\ FilesAreCurrent'
    BY <2>1 DEF StorageInv, Announced, DescriptorsBelongToHandles, FilesAreCurrent, fileVars, runVars, cardVars
  <2>4. CoreMatchesMedium' /\ ActsInTurn'
    BY <2>1 DEF StorageInv, CoreMatchesMedium, ActsInTurn, Unmounting, fileVars, runVars, cardVars
  <2> QED BY <2>2, <2>3, <2>4 DEF StorageInv
<1> QED
  BY <1>1, <1>2, <1>3, <1>4, <1>5, <1>6, <1>7, <1>8, <1>9, <1>10, <1>11, <1>12, <1>13, <1>14
  DEF StorageNext, TaskStep

(* The inductive invariant behind the theorems about storage               *)
(* (stark_storage.c, storage_core.c).                                      *)
THEOREM StorageInvariant == StorageSpec => []StorageInv
BY StorageInitially, StorageInductive, PTL DEF StorageSpec

(* Through removals, failed probes, ejects and late closes: no descriptor  *)
(* is leaked by a stale handle or outlives the volume, whoever can take    *)
(* the lock finds each handle current or stale, and the state told to the  *)
(* other tasks is the medium's (storage_file.c, usable();                  *)
(* storage_files_invalidate(); stark_storage.c, run()).                    *)
THEOREM HandlesSound == StorageSpec => []HandlesAreSound
<1>1. StorageInv => HandlesAreSound
  <2> SUFFICES ASSUME StorageInv PROVE HandlesAreSound
    OBVIOUS
  <2>1. OpenHandlesAreCurrent
    BY UsableHandles DEF OpenHandlesAreCurrent
  <2>2. StateMatchesMedium
    BY DEF StateMatchesMedium, StorageInv, Announced, CoreMatchesMedium, Unmounting, LockHeld
  <2> QED BY <2>1, <2>2 DEF HandlesAreSound, StorageInv
<1> QED BY <1>1, StorageInvariant, PTL

(* A handle goes stale only because its card was lost: an eject never      *)
(* takes a file from under its user (stark_storage.h, on_req_eject()).     *)
THEOREM EjectSparesFiles == StorageSpec => EjectSparesOpenFiles
<1> DEFINE Spared == \A s \in Slots :
             handles[s] # Free /\ ~handles[s].stale /\ handles'[s].stale => core.state = "removed"
<1>1. StorageInv /\ [StorageNext]_storageVars => [Spared]_storageVars
  <2> SUFFICES ASSUME StorageInv, StorageNext, NEW s \in Slots,
                      handles[s] # Free, ~handles[s].stale, handles'[s].stale
               PROVE  core.state = "removed"
    OBVIOUS
  <2>1. CASE Unmount
    BY <2>1 DEF Unmount, StorageInv, CoreMatchesMedium, Unmounting
  <2>2. ASSUME NEW owner, NEW t \in Slots, OpenFile(owner, t) PROVE FALSE
    BY <2>2 DEF OpenFile, StorageInv, StorageTypeOK
  <2>3. ASSUME NEW owner, NEW t \in Slots, CloseFile(owner, t) PROVE FALSE
    BY <2>3 DEF CloseFile, StorageInv, StorageTypeOK, Free
  <2>4. CASE UNCHANGED handles
    BY <2>4
  <2> QED
    BY <2>1, <2>2, <2>3, <2>4 DEF StorageNext, TaskStep, LoopTop, FlushTake, LogOpenFails, Lock, Release, Wake,
       HelperFails, LogLines, RequestEject, RequestMount, Notify, Insert, Pull, TimePasses, Open, Close,
       LogOpen, LogClose, ServeEject, ServeMount, ServeIoError, Tick, TryMount, Probe, PresentCheck,
       fileVars
<1> QED BY <1>1, StorageInvariant, PTL DEF StorageSpec, EjectSparesOpenFiles

(* A volume appears only by the action "try_mount", which the core does    *)
(* not ask for while the card is ejected: between an eject and the next    *)
(* mount a mount was requested or ABSENT was shown (storage_core.c,        *)
(* on_tick()).  That the slot was empty then does not follow, and TLC      *)
(* refutes it: see EjectedStaysOut.                                        *)
THEOREM EjectedCardIsTold == StorageSpec => EjectedReturnIsTold
<1> DEFINE Told == volume = "none" /\ volume' # "none" => told
<1>1. StorageInv /\ [StorageNext]_storageVars => [Told]_storageVars
  <2> SUFFICES ASSUME StorageInv, StorageNext, volume = "none", volume' # "none"
               PROVE  told
    OBVIOUS
  <2>1. CASE TryMount
    BY <2>1 DEF TryMount, StorageInv, ActsInTurn
  <2>2. CASE Pull \/ Unmount
    BY <2>2 DEF Pull, Unmount
  <2> QED
    BY <2>1, <2>2 DEF StorageNext, TaskStep, LoopTop, FlushTake, LogOpenFails, Lock, Release, Wake,
       HelperFails, LogLines, RequestEject, RequestMount, Notify, Insert, TimePasses, Open, Close,
       LogOpen, LogClose, ServeEject, ServeMount, ServeIoError, Tick, Probe, PresentCheck, cardVars
<1> QED BY <1>1, StorageInvariant, PTL DEF StorageSpec, EjectedReturnIsTold

=============================================================================
