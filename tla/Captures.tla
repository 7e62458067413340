------------------------------ MODULE Captures ------------------------------
(***************************************************************************)
(* What is on the card: files written by the applications through the      *)
(* atomic write of storage_file.c (a temporary copy that close() puts in   *)
(* the place of the file), on a card that may be pulled, exchanged or      *)
(* full, under a device that may lose its power between any two steps.     *)
(* One worker writes at a time: it is the only caller of the atomic mode.  *)
(* storage_mount() and the state machine around it are in Storage.         *)
(***************************************************************************)
EXTENDS Naturals, Functions

CONSTANTS NameLimit, \* IR_NAME_MAX, NFC_DUMP_NAME_MAX: names are below it
          Parts,     \* writes that make up a file
          MaxSaves,  \* bound: files begun
          MaxMounts  \* bound: mounts

ASSUME CaptureAssumption == {NameLimit, Parts, MaxSaves, MaxMounts} \subseteq Nat

VARIABLES
    capCard,    \* what the card holds: path |-> which save wrote it and how much of it
    capIn,      \* the card is in its slot
    capMounted,
    capGen,     \* the mount's generation
    capJob,     \* the worker's save
    capStray,   \* a temporary file may be left: an error, or a worker killed, since the mount
    capSaves    \* saves begun

capVars == <<capCard, capIn, capMounted, capGen, capJob, capStray, capSaves>>

\* The write test always writes wtest.bin, a capture its own new name.
WriteTest == 0
Names == {WriteTest} \cup 1..NameLimit - 1
Final(n) == <<n, "file">>
Tmp(n) == <<n, "tmp">>
Has(path) == path \in DOMAIN capCard
Whole(path) == Has(path) /\ capCard[path].parts = Parts

Removed(paths) == Restrict(capCard, DOMAIN capCard \ paths)
With(path, content) == [p \in DOMAIN capCard \cup {path} |-> IF p = path THEN content ELSE capCard[p]]
Renamed(from, to) == [p \in (DOMAIN capCard \ {from}) \cup {to} |->
                         IF p = to THEN capCard[from] ELSE capCard[p]]

\* ir_names_scan() and nfc_dump_name_scan() over the listing; 0 when there is no capture.
IsHighest(n) ==
    /\ n = 0 \/ Has(Final(n))
    /\ \A m \in 1..NameLimit - 1 : Has(Final(m)) => m <= n

\* Slip: the highest name is taken once more.
NextNameSlip == {n \in 1..NameLimit - 1 : IsHighest(n)}
\* ir_names_next() and nfc_dump_name_next(): none after the last.
NextName == {n \in 1..NameLimit - 1 : IsHighest(n - 1)}

NoSave == [at |-> "none", name |-> 0, id |-> 0, listed |-> 0, gen |-> 0]

\* Cards come with no capture, or with some of other saves.
CardWith(names) == [p \in {Final(n) : n \in names} |-> [id |-> 0, parts |-> Parts]]

CapInit ==
    /\ capCard = CardWith({1})
    /\ capIn = TRUE /\ capMounted = FALSE /\ capGen = 0 /\ capJob = NoSave
    /\ capStray = FALSE /\ capSaves = 0

(***************************************************************************)
(* The calls of the worker, each under the storage lock.                   *)
(***************************************************************************)
At(step) == capJob' = [capJob EXCEPT !.at = step]
Ends == capJob' = NoSave
Usable == capMounted /\ capJob.gen = capGen
\* An I/O error leaves what is there; the temporary file goes with the next mount.
IoError == capStray' = TRUE /\ Ends /\ UNCHANGED capCard
cardVars == <<capIn, capMounted, capGen>>

\* A save lists the captures and takes the next name; the write test has its own.
ChooseName(n) ==
    /\ capJob.at = "none" /\ capMounted /\ capIn /\ capSaves < MaxSaves
    /\ n \in {WriteTest} \cup NextName
    /\ capSaves' = capSaves + 1
    /\ capJob' = [at |-> "named", name |-> n, id |-> capSaves + 1,
                  listed |-> capGen, gen |-> capGen]
    /\ UNCHANGED <<cardVars, capCard, capStray>>

\* stark_storage_open(): the temporary file is made or emptied.
OpenTmp ==
    /\ capJob.at = "named"
    /\ \/ capMounted /\ capIn /\ capCard' = With(Tmp(capJob.name), [id |-> capJob.id, parts |-> 0])
          /\ capJob' = [capJob EXCEPT !.at = "writing", !.gen = capGen]
       \/ UNCHANGED capCard /\ Ends
    /\ UNCHANGED <<cardVars, capStray, capSaves>>

WriteFails == At("discard") /\ UNCHANGED capCard

\* Slip: a write that fails is closed like one that succeeded.
WritePartSlip ==
    /\ capJob.at = "writing"
    /\ \/ Usable /\ capIn /\ ~Whole(Tmp(capJob.name))
          /\ capCard' = [capCard EXCEPT ![Tmp(capJob.name)].parts = @ + 1] /\ UNCHANGED capJob
       \/ At("close") /\ UNCHANGED capCard
    /\ UNCHANGED <<cardVars, capStray, capSaves>>

\* The last part written, the file is closed; a write that fails is discarded.
WritePart ==
    /\ capJob.at = "writing"
    /\ \/ Usable /\ capIn /\ ~Whole(Tmp(capJob.name))
          /\ capCard' = [capCard EXCEPT ![Tmp(capJob.name)].parts = @ + 1] /\ UNCHANGED capJob
       \/ Usable /\ Whole(Tmp(capJob.name)) /\ At("close") /\ UNCHANGED capCard
       \/ ~(Usable /\ Whole(Tmp(capJob.name))) /\ WriteFails
    /\ UNCHANGED <<cardVars, capStray, capSaves>>

\* stark_storage_discard(); also what becomes of a write test told to stop.
Discard ==
    /\ capJob.at \in {"writing", "discard"} /\ Ends
    /\ \/ Usable /\ capIn /\ capCard' = Removed({Tmp(capJob.name)}) /\ UNCHANGED capStray
       \/ Usable /\ ~capIn /\ capStray' = TRUE /\ UNCHANGED capCard
       \/ ~Usable /\ UNCHANGED <<capCard, capStray>>
    /\ UNCHANGED <<cardVars, capSaves>>

\* stark_storage_close(), step by step: the data is written out; an error that is none
\* of the card's drops the copy.
CloseSync ==
    /\ capJob.at = "close"
    /\ \/ Usable /\ capIn /\ At("unlink") /\ UNCHANGED <<capCard, capStray>>
       \/ Usable /\ capIn /\ capCard' = Removed({Tmp(capJob.name)}) /\ Ends /\ UNCHANGED capStray
       \/ Usable /\ IoError
       \/ ~Usable /\ Ends /\ UNCHANGED <<capCard, capStray>>
    /\ UNCHANGED <<cardVars, capSaves>>

\* FAT cannot rename over a file, so the old one goes first; what is under the name is
\* not looked at.
CloseUnlink ==
    /\ capJob.at = "unlink"
    /\ \/ capIn /\ capCard' = Removed({Final(capJob.name)}) /\ At("rename") /\ UNCHANGED capStray
       \/ capIn /\ capCard' = Removed({Tmp(capJob.name)}) /\ Ends /\ UNCHANGED capStray
       \/ IoError
    /\ UNCHANGED <<cardVars, capSaves>>

CloseRename ==
    /\ capJob.at = "rename"
    /\ \/ capIn /\ capCard' = Renamed(Tmp(capJob.name), Final(capJob.name)) /\ Ends /\ UNCHANGED capStray
       \/ capIn /\ capCard' = Removed({Tmp(capJob.name)}) /\ Ends /\ UNCHANGED capStray
       \/ IoError
    /\ UNCHANGED <<cardVars, capSaves>>

\* The application is left and its worker deleted past the time-out, outside a call.
WorkerKilled ==
    /\ capJob.at \in {"named", "writing", "discard", "close"} /\ Ends
    /\ capStray' = (capStray \/ capJob.at # "named")
    /\ UNCHANGED <<cardVars, capCard, capSaves>>

CapWorker ==
    \/ OpenTmp \/ WritePart \/ Discard \/ CloseSync \/ CloseUnlink \/ CloseRename \/ WorkerKilled
    \/ \E n \in Names : ChooseName(n)

(***************************************************************************)
(* The storage task, and what happens to the card and the device.          *)
(***************************************************************************)
\* Only one caller is inside a call: a close is not cut in two by a mount.
LockFree == capJob.at \notin {"unlink", "rename"}

\* storage_files_prepare(): what is left of an interrupted write is deleted; a file that
\* cannot be is passed over.
Mount ==
    /\ LockFree /\ ~capMounted /\ capIn /\ capGen < MaxMounts
    /\ capMounted' = TRUE /\ capGen' = capGen + 1
    /\ LET tmps == {p \in DOMAIN capCard : p[2] = "tmp"}
       IN \E left \in {{}, tmps} : capCard' = Removed(tmps \ left) /\ capStray' = (left # {})
    /\ UNCHANGED <<capIn, capJob, capSaves>>

\* Eject, or a probe that fails: every handle is stale from here on.
UnmountCard ==
    /\ LockFree /\ capMounted /\ capMounted' = FALSE
    /\ UNCHANGED <<capCard, capIn, capGen, capJob, capStray, capSaves>>

CardOut ==
    /\ capIn /\ capIn' = FALSE
    /\ UNCHANGED <<capCard, capMounted, capGen, capJob, capStray, capSaves>>

\* The card comes back, or another one with captures of its own; the storage task has
\* noticed the removal before a worker's next call finds a card again.
CardIn(other) ==
    /\ ~capIn /\ ~capMounted /\ capIn' = TRUE
    /\ capCard' = IF other THEN CardWith({1, 2}) ELSE capCard
    /\ UNCHANGED <<capMounted, capGen, capJob, capStray, capSaves>>

PowerLoss ==
    /\ capMounted' = FALSE /\ capJob' = NoSave
    /\ UNCHANGED <<capCard, capIn, capGen, capStray, capSaves>>

CapNext ==
    \/ CapWorker \/ Mount \/ UnmountCard \/ CardOut \/ PowerLoss
    \/ \E other \in BOOLEAN : CardIn(other)

CapSpec == CapInit /\ [][CapNext]_capVars

(***************************************************************************)
(* Properties.                                                             *)
(***************************************************************************)
\* A file under its own name is a whole copy of one save, whatever failed and wherever
\* the power was lost, and the new copy of a file is whole before the old one goes.
PublishedWhole ==
    /\ \A n \in Names : Has(Final(n)) => Whole(Final(n))
    /\ capJob.at \in {"unlink", "rename"} => Whole(Tmp(capJob.name))

\* A card that was mounted without trouble has no temporary file but the one being
\* written.
NothingLeftOver ==
    capMounted /\ ~capStray => \A n \in Names : Has(Tmp(n)) => capJob.at # "none" /\ capJob.name = n

\* What is on the card after any failure, removal or reset between two steps of a save.
CardIsSound == PublishedWhole /\ NothingLeftOver

Kept(n) == Final(n) \in DOMAIN capCard' /\ capCard'[Final(n)] = capCard[Final(n)]

\* The name was chosen under one mount and the file opened under another.  The card may have
\* been exchanged in between, and close() removes what is under the name without a look: the
\* code does not spare a capture of the other card that has this very name.
NamedElsewhere(n) == capJob.name = n /\ capJob.at \notin {"none", "named"} /\ capJob.listed # capJob.gen

\* No save changes or removes a capture ("written as the next free captures/ir_NNNN.ir",
\* ir_save.c), through failures, resets and cards exchanged at any moment: only the write
\* test's file is written again, and NamedElsewhere says which one capture is in danger.
CapturesKept ==
    [][\A n \in Names \ {WriteTest} :
          Has(Final(n)) /\ capIn /\ ~NamedElsewhere(n) => Kept(n)]_capVars
=============================================================================
