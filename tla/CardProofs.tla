----------------------------- MODULE CardProofs -----------------------------
(***************************************************************************)
(* Proofs about the files on the card, for any number of names, parts,     *)
(* saves and mounts, and about the log from the ring to its files, for any *)
(* sizes and number of lines.                                              *)
(*                                                                         *)
(* The argument for Captures: a save works under the generation of a       *)
(* mount.  While that mount lasts, the card in the slot is the one the     *)
(* save began on, so what it wrote is still there and the name it chose is *)
(* still free; once the mount is over, the save can only end.              *)
(***************************************************************************)
EXTENDS Captures, LogFile, WellFoundedInduction, TLAPS

SaveSteps == {"none", "named", "writing", "discard", "close", "unlink", "rename"}
Content == [id : Nat, parts : Nat]

CapTypes ==
  /\ capCard \in [DOMAIN capCard -> Content]
  /\ capIn \in BOOLEAN /\ capMounted \in BOOLEAN /\ capStray \in BOOLEAN
  /\ capGen \in Nat /\ capSaves \in Nat
  /\ capJob \in [at : SaveSteps, name : Nat, id : Nat, listed : Nat, gen : Nat]
  /\ capJob.listed <= capGen /\ capJob.gen <= capGen
  /\ capJob.at # "none" => capJob.name \in Names

(* What a save finds on the card while its mount lasts.                    *)
SaveGoesOn ==
  /\ capJob.at = "writing" /\ Usable => Has(Tmp(capJob.name))
  /\ capJob.at = "close" /\ Usable => Whole(Tmp(capJob.name))
  /\ capJob.at \in {"unlink", "rename"} => Usable /\ Whole(Tmp(capJob.name))

(* No capture has the name a save has chosen.                              *)
NameIsFree ==
  capJob.at # "none" /\ capJob.name # WriteTest /\ capMounted /\ capJob.listed = capGen =>
    ~Has(Final(capJob.name))

FinalsWhole == \A n \in Names : Has(Final(n)) => Whole(Final(n))

(* A temporary file on a card mounted without trouble is that of a save    *)
(* which has opened it under this mount.                                   *)
TmpIsTheSaves ==
  capMounted /\ ~capStray => \A n \in Names : Has(Tmp(n)) =>
    /\ capJob.at \notin {"none", "named"} /\ capJob.gen = capGen
    /\ capJob.name = n

CapInv == CapTypes /\ SaveGoesOn /\ NameIsFree /\ FinalsWhole /\ TmpIsTheSaves

-----------------------------------------------------------------------------
(* The names of a temporary file and of a file differ.                     *)
LEMMA PathsDiffer ==
  ASSUME NEW m, NEW n
  PROVE  /\ Tmp(m) # Final(n) /\ (Tmp(m) = Tmp(n) => m = n) /\ (Final(m) = Final(n) => m = n)
         /\ Tmp(m)[2] = "tmp" /\ Final(m)[2] = "file"
BY DEF Tmp, Final

(* What each of the card's operations leaves, path by path.                *)
LEMMA RemovedCard ==
  ASSUME CapTypes, NEW paths
  PROVE  /\ Removed(paths) \in [DOMAIN Removed(paths) -> Content]
         /\ DOMAIN Removed(paths) = DOMAIN capCard \ paths
         /\ \A p \in DOMAIN capCard \ paths : Removed(paths)[p] = capCard[p]
BY DEF Removed, Restrict, CapTypes

(* The card with one file more, or with other contents in it.              *)
LEMMA WithCard ==
  ASSUME CapTypes, NEW path, NEW content \in Content
  PROVE  /\ With(path, content) \in [DOMAIN With(path, content) -> Content]
         /\ DOMAIN With(path, content) = DOMAIN capCard \cup {path}
         /\ With(path, content)[path] = content
         /\ \A p \in DOMAIN capCard \ {path} : With(path, content)[p] = capCard[p]
BY DEF With, CapTypes

(* The card after a rename: the old name is gone, the new one has the      *)
(* contents.                                                               *)
LEMMA RenamedCard ==
  ASSUME CapTypes, NEW from \in DOMAIN capCard, NEW to
  PROVE  /\ Renamed(from, to) \in [DOMAIN Renamed(from, to) -> Content]
         /\ DOMAIN Renamed(from, to) = (DOMAIN capCard \ {from}) \cup {to}
         /\ Renamed(from, to)[to] = capCard[from]
         /\ \A p \in DOMAIN capCard \ {from, to} : Renamed(from, to)[p] = capCard[p]
BY DEF Renamed, CapTypes

(* The name that is chosen is not that of a capture.                       *)
LEMMA NextNameIsFree ==
  ASSUME NEW n \in NextName
  PROVE  n \in Names /\ n # WriteTest /\ ~Has(Final(n))
BY CaptureAssumption DEF NextName, IsHighest, Names, WriteTest

(* The job moves on, or ends.                                              *)
LEMMA JobMoves ==
  ASSUME CapTypes, NEW step \in SaveSteps, At(step)
  PROVE  /\ capJob' \in [at : SaveSteps, name : Nat, id : Nat, listed : Nat, gen : Nat]
         /\ capJob'.at = step /\ capJob'.name = capJob.name
         /\ capJob'.listed = capJob.listed /\ capJob'.gen = capJob.gen
BY DEF At, CapTypes

(* The end of a save leaves nothing of the job.                            *)
LEMMA JobEnds ==
  ASSUME Ends
  PROVE  /\ capJob' \in [at : SaveSteps, name : Nat, id : Nat, listed : Nat, gen : Nat]
         /\ capJob'.at = "none" /\ capJob'.listed = 0 /\ capJob'.gen = 0
BY DEF Ends, NoSave, SaveSteps

(* A save that ends on a card it leaves without the temporary file that it *)
(* may have, keeps the invariant.                                          *)
LEMMA SaveEnds ==
  ASSUME CapInv, Ends, UNCHANGED cardVars,
         capCard' \in [DOMAIN capCard' -> Content], capSaves' \in Nat, capStray' \in BOOLEAN,
         FinalsWhole',
         capStray \/ ~capMounted => capStray' \/ ~capMounted,
         capMounted /\ ~capStray' => \A n \in Names : ~Has(Tmp(n))'
  PROVE  CapInv'
<1>1. CapTypes'
  BY JobEnds DEF CapInv, CapTypes, cardVars
<1>2. SaveGoesOn' /\ NameIsFree'
  BY JobEnds DEF SaveGoesOn, NameIsFree
<1>3. TmpIsTheSaves'
  BY DEF TmpIsTheSaves, cardVars
<1> QED BY <1>1, <1>2, <1>3 DEF CapInv

(* ir_names_next() and the dumps' name: one above the highest on the card, *)
(* so none that is taken.                                                  *)
LEMMA ChooseNameStep ==
  ASSUME CapInv, NEW n \in Names, ChooseName(n)
  PROVE  CapInv'
<1>1. /\ capJob.at = "none" /\ capMounted /\ n \in {WriteTest} \cup NextName
      /\ capSaves' = capSaves + 1 /\ UNCHANGED <<cardVars, capCard, capStray>>
      /\ capJob' = [at |-> "named", name |-> n, id |-> capSaves + 1, listed |-> capGen, gen |-> capGen]
  BY DEF ChooseName
<1>2. CapTypes'
  BY <1>1, CaptureAssumption DEF CapInv, CapTypes, cardVars, SaveSteps, Names, WriteTest
<1>3. n # WriteTest => ~Has(Final(n))
  BY <1>1, NextNameIsFree
<1>4. SaveGoesOn' /\ NameIsFree'
  BY <1>1, <1>3 DEF SaveGoesOn, NameIsFree, cardVars, Has
<1>5. FinalsWhole' /\ TmpIsTheSaves'
  BY <1>1 DEF CapInv, FinalsWhole, TmpIsTheSaves, cardVars, Has, Whole
<1> QED BY <1>2, <1>4, <1>5 DEF CapInv

(* A temporary file is opened, empty, whatever was under that name.        *)
LEMMA OpenTmpStep ==
  ASSUME CapInv, OpenTmp
  PROVE  CapInv'
<1> DEFINE n == capJob.name
           c == [id |-> capJob.id, parts |-> 0]
<1>1. capJob.at = "named" /\ UNCHANGED <<cardVars, capStray, capSaves>> /\ n \in Names
  BY DEF OpenTmp, CapInv, CapTypes
<1>2. CASE /\ capMounted /\ capCard' = With(Tmp(n), c)
           /\ capJob' = [capJob EXCEPT !.at = "writing", !.gen = capGen]
  <2>1. /\ capJob' \in [at : SaveSteps, name : Nat, id : Nat, listed : Nat, gen : Nat]
        /\ capJob'.at = "writing" /\ capJob'.gen = capGen /\ capJob'.name = n
        /\ capJob'.listed = capJob.listed
    BY <1>2 DEF CapInv, CapTypes, SaveSteps
  <2>2. c \in Content
    BY DEF Content, CapInv, CapTypes
  <2> HIDE DEF c
  <2>3. /\ capCard' \in [DOMAIN capCard' -> Content]
        /\ DOMAIN capCard' = DOMAIN capCard \cup {Tmp(n)}
        /\ \A p \in DOMAIN capCard \ {Tmp(n)} : capCard'[p] = capCard[p]
    <3> DEFINE d == With(Tmp(n), c)
    <3>1. /\ d \in [DOMAIN d -> Content] /\ DOMAIN d = DOMAIN capCard \cup {Tmp(n)}
          /\ \A p \in DOMAIN capCard \ {Tmp(n)} : d[p] = capCard[p]
      BY <2>2, WithCard DEF CapInv
    <3> HIDE DEF d
    <3> QED BY <1>2, <3>1 DEF d
  <2>4. CapTypes'
    BY <1>1, <2>1, <2>3 DEF CapInv, CapTypes, cardVars
  <2>5. SaveGoesOn'
    BY <2>1, <2>3 DEF SaveGoesOn, Has
  <2>6. NameIsFree'
    BY <1>1, <2>1, <2>3, PathsDiffer DEF CapInv, NameIsFree, cardVars, Has
  <2>7. FinalsWhole'
    BY <2>3, PathsDiffer DEF CapInv, FinalsWhole, Has, Whole
  <2>8. TmpIsTheSaves'
    BY <1>1, <2>1, <2>3, PathsDiffer DEF CapInv, TmpIsTheSaves, cardVars, Has
  <2> QED BY <2>4, <2>5, <2>6, <2>7, <2>8 DEF CapInv
<1>3. CASE UNCHANGED capCard /\ Ends
  BY <1>1, <1>3, SaveEnds DEF CapInv, CapTypes, FinalsWhole, TmpIsTheSaves, Has, Whole, cardVars
<1> QED BY <1>2, <1>3 DEF OpenTmp

(* One part is written, or the file is whole and to be closed, or the      *)
(* write fails and it is given up.                                         *)
LEMMA WritePartStep ==
  ASSUME CapInv, WritePart
  PROVE  CapInv'
<1>1. capJob.at = "writing" /\ UNCHANGED <<cardVars, capStray, capSaves>>
  BY DEF WritePart
<1>2. CASE /\ Usable /\ ~Whole(Tmp(capJob.name)) /\ UNCHANGED capJob
           /\ capCard' = [capCard EXCEPT ![Tmp(capJob.name)].parts = @ + 1]
  <2>1. Tmp(capJob.name) \in DOMAIN capCard
    BY <1>1, <1>2 DEF CapInv, SaveGoesOn, Has
  <2>2. /\ capCard' \in [DOMAIN capCard' -> Content] /\ DOMAIN capCard' = DOMAIN capCard
        /\ \A p \in DOMAIN capCard \ {Tmp(capJob.name)} : capCard'[p] = capCard[p]
    BY <1>2, <2>1 DEF CapInv, CapTypes, Content
  <2>3. CapTypes'
    BY <1>1, <1>2, <2>2 DEF CapInv, CapTypes, cardVars
  <2>4. SaveGoesOn'
    BY <1>1, <1>2, <2>1, <2>2 DEF SaveGoesOn, Has
  <2>5. NameIsFree' /\ TmpIsTheSaves'
    BY <1>1, <1>2, <2>2 DEF CapInv, NameIsFree, TmpIsTheSaves, cardVars, Has
  <2>6. FinalsWhole'
    BY <2>2, PathsDiffer DEF CapInv, FinalsWhole, Has, Whole
  <2> QED BY <2>3, <2>4, <2>5, <2>6 DEF CapInv
<1>3. CASE UNCHANGED capCard /\ ((Usable /\ Whole(Tmp(capJob.name)) /\ At("close")) \/ At("discard"))
  <2>1. PICK step \in {"close", "discard"} : At(step) /\ (step = "close" => Whole(Tmp(capJob.name)))
    BY <1>3
  <2>2. /\ capJob' \in [at : SaveSteps, name : Nat, id : Nat, listed : Nat, gen : Nat]
        /\ capJob'.at = step /\ capJob'.name = capJob.name
        /\ capJob'.listed = capJob.listed /\ capJob'.gen = capJob.gen
    BY <2>1, JobMoves DEF CapInv, SaveSteps
  <2>3. CapTypes'
    BY <1>1, <1>3, <2>2 DEF CapInv, CapTypes, cardVars
  <2>4. SaveGoesOn'
    BY <1>3, <2>1, <2>2 DEF SaveGoesOn, Whole, Has
  <2>5. NameIsFree' /\ TmpIsTheSaves' /\ FinalsWhole'
    BY <1>1, <1>3, <2>2 DEF CapInv, NameIsFree, TmpIsTheSaves, FinalsWhole, cardVars, Has, Whole
  <2> QED BY <2>3, <2>4, <2>5 DEF CapInv
<1> QED BY <1>2, <1>3 DEF WritePart, WriteFails

(* Without the temporary file of the save, a card mounted without trouble  *)
(* has none; and no file has changed.                                      *)
LEMMA TmpRemoved ==
  ASSUME CapInv, capJob.at # "none", capCard' = Removed({Tmp(capJob.name)})
  PROVE  /\ capCard' \in [DOMAIN capCard' -> Content] /\ FinalsWhole'
         /\ capMounted /\ ~capStray => \A n \in Names : ~Has(Tmp(n))'
<1> DEFINE d == Removed({Tmp(capJob.name)})
<1>1. /\ d \in [DOMAIN d -> Content] /\ DOMAIN d = DOMAIN capCard \ {Tmp(capJob.name)}
      /\ \A p \in DOMAIN capCard \ {Tmp(capJob.name)} : d[p] = capCard[p]
  BY RemovedCard DEF CapInv
<1> HIDE DEF d
<1>2. capCard' = d
  BY DEF d
<1>3. FinalsWhole'
  BY <1>1, <1>2, PathsDiffer DEF CapInv, FinalsWhole, Has, Whole
<1>4. capMounted /\ ~capStray => \A n \in Names : ~Has(Tmp(n))'
  BY <1>1, <1>2 DEF CapInv, TmpIsTheSaves, Has
<1> QED BY <1>1, <1>2, <1>3, <1>4

(* The same while the card stays as it is and the save was not, or is no   *)
(* longer, under this mount.                                               *)
LEMMA NothingToRemove ==
  ASSUME CapInv, UNCHANGED capCard
  PROVE  /\ capCard' \in [DOMAIN capCard' -> Content] /\ FinalsWhole'
         /\ capMounted /\ ~capStray /\ (~Usable \/ capJob.at = "named") =>
              \A n \in Names : ~Has(Tmp(n))'
<1>1. FinalsWhole'
  BY DEF CapInv, FinalsWhole, Has, Whole
<1>2. capCard' \in [DOMAIN capCard' -> Content]
  BY DEF CapInv, CapTypes
<1>3. capMounted /\ ~capStray /\ (~Usable \/ capJob.at = "named") => \A n \in Names : ~Has(Tmp(n))'
  BY DEF CapInv, TmpIsTheSaves, Usable, Has
<1> QED BY <1>1, <1>2, <1>3

(* A save given up leaves its temporary file at most.                      *)
LEMMA DiscardStep ==
  ASSUME CapInv, Discard
  PROVE  CapInv'
<1>1. /\ capJob.at # "none" /\ Ends /\ UNCHANGED <<cardVars, capSaves>>
      /\ capSaves \in Nat /\ capStray \in BOOLEAN
  BY DEF Discard, CapInv, CapTypes
<1>2. CASE capCard' = Removed({Tmp(capJob.name)}) /\ UNCHANGED capStray
  BY <1>1, <1>2, TmpRemoved, SaveEnds
<1>3. CASE capStray' = TRUE /\ UNCHANGED capCard
  BY <1>1, <1>3, NothingToRemove, SaveEnds
<1>4. CASE ~Usable /\ UNCHANGED <<capCard, capStray>>
  BY <1>1, <1>4, NothingToRemove, SaveEnds
<1> QED BY <1>2, <1>3, <1>4 DEF Discard

(* A file that is closed has all its parts; one whose sync fails is        *)
(* removed.                                                                *)
LEMMA CloseSyncStep ==
  ASSUME CapInv, CloseSync
  PROVE  CapInv'
<1>1. /\ capJob.at = "close" /\ UNCHANGED <<cardVars, capSaves>>
      /\ capSaves \in Nat /\ capStray \in BOOLEAN
  BY DEF CloseSync, CapInv, CapTypes
<1>2. CASE Usable /\ At("unlink") /\ UNCHANGED <<capCard, capStray>>
  <2>1. /\ capJob' \in [at : SaveSteps, name : Nat, id : Nat, listed : Nat, gen : Nat]
        /\ capJob'.at = "unlink" /\ capJob'.name = capJob.name
        /\ capJob'.listed = capJob.listed /\ capJob'.gen = capJob.gen
    BY <1>2, JobMoves DEF CapInv, SaveSteps
  <2>2. CapTypes'
    BY <1>1, <1>2, <2>1 DEF CapInv, CapTypes, cardVars
  <2>3. SaveGoesOn'
    BY <1>1, <1>2, <2>1 DEF CapInv, SaveGoesOn, Whole, Has, Usable, cardVars
  <2>4. NameIsFree' /\ TmpIsTheSaves' /\ FinalsWhole'
    BY <1>1, <1>2, <2>1 DEF CapInv, NameIsFree, TmpIsTheSaves, FinalsWhole, cardVars, Has, Whole
  <2> QED BY <2>2, <2>3, <2>4 DEF CapInv
<1>3. CASE capCard' = Removed({Tmp(capJob.name)}) /\ Ends /\ UNCHANGED capStray
  BY <1>1, <1>3, TmpRemoved, SaveEnds
<1>4. CASE IoError
  BY <1>1, <1>4, NothingToRemove, SaveEnds DEF IoError
<1>5. CASE ~Usable /\ Ends /\ UNCHANGED <<capCard, capStray>>
  BY <1>1, <1>5, NothingToRemove, SaveEnds
<1> QED BY <1>2, <1>3, <1>4, <1>5 DEF CloseSync

(* The final name is made free for the rename; nothing else is under it.   *)
LEMMA CloseUnlinkStep ==
  ASSUME CapInv, CloseUnlink
  PROVE  CapInv'
<1>1. /\ capJob.at = "unlink" /\ UNCHANGED <<cardVars, capSaves>>
      /\ capSaves \in Nat /\ capStray \in BOOLEAN
  BY DEF CloseUnlink, CapInv, CapTypes
<1>2. CASE capCard' = Removed({Final(capJob.name)}) /\ At("rename") /\ UNCHANGED capStray
  <2>1. /\ capJob' \in [at : SaveSteps, name : Nat, id : Nat, listed : Nat, gen : Nat]
        /\ capJob'.at = "rename" /\ capJob'.name = capJob.name
        /\ capJob'.listed = capJob.listed /\ capJob'.gen = capJob.gen
    BY <1>2, JobMoves DEF CapInv, SaveSteps
  <2> DEFINE d == Removed({Final(capJob.name)})
  <2>2. /\ d \in [DOMAIN d -> Content] /\ DOMAIN d = DOMAIN capCard \ {Final(capJob.name)}
        /\ \A p \in DOMAIN capCard \ {Final(capJob.name)} : d[p] = capCard[p]
    BY RemovedCard DEF CapInv
  <2> HIDE DEF d
  <2>3. capCard' = d
    BY <1>2 DEF d
  <2>4. CapTypes'
    BY <1>1, <1>2, <2>1, <2>2, <2>3 DEF CapInv, CapTypes, cardVars
  <2>5. SaveGoesOn'
    BY <1>1, <2>1, <2>2, <2>3, PathsDiffer DEF CapInv, SaveGoesOn, Whole, Has, Usable, cardVars
  <2>6. NameIsFree'
    BY <1>1, <2>1, <2>2, <2>3 DEF CapInv, NameIsFree, cardVars, Has
  <2>7. TmpIsTheSaves'
    BY <1>1, <1>2, <2>1, <2>2, <2>3 DEF CapInv, TmpIsTheSaves, cardVars, Has
  <2>8. FinalsWhole'
    BY <2>2, <2>3 DEF CapInv, FinalsWhole, Has, Whole
  <2> QED BY <2>4, <2>5, <2>6, <2>7, <2>8 DEF CapInv
<1>3. CASE capCard' = Removed({Tmp(capJob.name)}) /\ Ends /\ UNCHANGED capStray
  BY <1>1, <1>3, TmpRemoved, SaveEnds
<1>4. CASE IoError
  BY <1>1, <1>4, NothingToRemove, SaveEnds DEF IoError
<1> QED BY <1>2, <1>3, <1>4 DEF CloseUnlink

(* The whole file gets its final name.                                     *)
LEMMA CloseRenameStep ==
  ASSUME CapInv, CloseRename
  PROVE  CapInv'
<1>1. /\ capJob.at = "rename" /\ UNCHANGED <<cardVars, capSaves>>
      /\ capSaves \in Nat /\ capStray \in BOOLEAN
  BY DEF CloseRename, CapInv, CapTypes
<1>2. CASE capCard' = Renamed(Tmp(capJob.name), Final(capJob.name)) /\ Ends /\ UNCHANGED capStray
  <2>1. Tmp(capJob.name) \in DOMAIN capCard /\ capCard[Tmp(capJob.name)].parts = Parts
    BY <1>1 DEF CapInv, SaveGoesOn, Whole, Has
  <2> DEFINE d == Renamed(Tmp(capJob.name), Final(capJob.name))
  <2>2. /\ d \in [DOMAIN d -> Content]
        /\ DOMAIN d = (DOMAIN capCard \ {Tmp(capJob.name)}) \cup {Final(capJob.name)}
        /\ d[Final(capJob.name)] = capCard[Tmp(capJob.name)]
        /\ \A p \in DOMAIN capCard \ {Tmp(capJob.name), Final(capJob.name)} : d[p] = capCard[p]
    BY <2>1, RenamedCard DEF CapInv
  <2> HIDE DEF d
  <2>3. capCard' = d
    BY <1>2 DEF d
  <2>4. FinalsWhole'
    BY <2>1, <2>2, <2>3, PathsDiffer DEF CapInv, FinalsWhole, Has, Whole
  <2>5. capMounted /\ ~capStray => \A n \in Names : ~Has(Tmp(n))'
    BY <2>2, <2>3, PathsDiffer DEF CapInv, TmpIsTheSaves, Has
  <2> QED BY <1>1, <1>2, <2>2, <2>3, <2>4, <2>5, SaveEnds
<1>3. CASE capCard' = Removed({Tmp(capJob.name)}) /\ Ends /\ UNCHANGED capStray
  BY <1>1, <1>3, TmpRemoved, SaveEnds
<1>4. CASE IoError
  BY <1>1, <1>4, NothingToRemove, SaveEnds DEF IoError
<1> QED BY <1>2, <1>3, <1>4 DEF CloseRename

(* A worker past its join ends between two calls.                          *)
LEMMA WorkerKilledStep ==
  ASSUME CapInv, WorkerKilled
  PROVE  CapInv'
<1>1. /\ capJob.at # "none" /\ Ends /\ UNCHANGED <<cardVars, capCard, capSaves>>
      /\ capSaves \in Nat /\ capStray' = (capStray \/ capJob.at # "named")
  BY DEF WorkerKilled, CapInv, CapTypes
<1>2. capStray' \in BOOLEAN /\ (capStray => capStray') /\ (~capStray' => ~capStray /\ capJob.at = "named")
  BY <1>1, Zenon DEF CapInv, CapTypes
<1> QED BY <1>1, <1>2, NothingToRemove, SaveEnds

(* A mount sweeps temporary files, or fails to; finals stay.               *)
LEMMA MountStep ==
  ASSUME CapInv, Mount
  PROVE  CapInv'
<1> DEFINE tmps == {p \in DOMAIN capCard : p[2] = "tmp"}
<1>1. /\ LockFree /\ ~capMounted /\ capMounted' = TRUE /\ capGen' = capGen + 1
      /\ UNCHANGED <<capIn, capJob, capSaves>>
  BY DEF Mount
<1>2. PICK left \in {{}, tmps} : capCard' = Removed(tmps \ left) /\ capStray' = (left # {})
  BY DEF Mount
<1> DEFINE d == Removed(tmps \ left)
<1>3. /\ d \in [DOMAIN d -> Content] /\ DOMAIN d = DOMAIN capCard \ (tmps \ left)
      /\ \A p \in DOMAIN capCard \ (tmps \ left) : d[p] = capCard[p]
  BY RemovedCard DEF CapInv
<1> HIDE DEF d
<1>4. capCard' = d
  BY <1>2 DEF d
<1>5. capStray' \in BOOLEAN /\ (~capStray' => left = {})
  BY <1>2
<1>6. CapTypes'
  BY <1>1, <1>3, <1>4, <1>5 DEF CapInv, CapTypes
<1>7. SaveGoesOn' /\ NameIsFree'
  BY <1>1 DEF LockFree, SaveGoesOn, NameIsFree, Usable, CapInv, CapTypes
<1>8. FinalsWhole'
  BY <1>3, <1>4 DEF CapInv, FinalsWhole, Has, Whole
<1>9. TmpIsTheSaves'
  BY <1>3, <1>4, <1>5, PathsDiffer DEF TmpIsTheSaves, Has
<1> QED BY <1>6, <1>7, <1>8, <1>9 DEF CapInv

(* An unmount makes the handle stale; the card is as it was.               *)
LEMMA UnmountCardStep ==
  ASSUME CapInv, UnmountCard
  PROVE  CapInv'
<1>1. /\ LockFree /\ capMounted' = FALSE
      /\ UNCHANGED <<capCard, capIn, capGen, capJob, capStray, capSaves>>
  BY DEF UnmountCard
<1>2. CapTypes' /\ FinalsWhole'
  BY <1>1 DEF CapInv, CapTypes, FinalsWhole, Has, Whole
<1>3. SaveGoesOn' /\ NameIsFree' /\ TmpIsTheSaves'
  BY <1>1 DEF LockFree, SaveGoesOn, NameIsFree, TmpIsTheSaves, Usable
<1> QED BY <1>2, <1>3 DEF CapInv

(* The card is pulled.                                                     *)
LEMMA CardOutStep ==
  ASSUME CapInv, CardOut
  PROVE  CapInv'
BY DEF CardOut, CapInv, CapTypes, SaveGoesOn, NameIsFree, FinalsWhole, TmpIsTheSaves, Has, Whole, Usable

(* The other card has whole files only.                                    *)
LEMMA OtherCard ==
  ASSUME NEW names, NEW card, card = CardWith(names)
  PROVE  /\ card \in [DOMAIN card -> Content] /\ DOMAIN card = {Final(n) : n \in names}
         /\ \A p \in DOMAIN card : card[p].parts = Parts
BY CaptureAssumption DEF CardWith, Content

(* A card comes, this one or another, with whole files on it.              *)
LEMMA CardInStep ==
  ASSUME CapInv, NEW other \in BOOLEAN, CardIn(other)
  PROVE  CapInv'
<1>1. /\ ~capMounted /\ capIn' = TRUE
      /\ UNCHANGED <<capMounted, capGen, capJob, capStray, capSaves>>
      /\ capCard' = CardWith({1, 2}) \/ capCard' = capCard
  BY DEF CardIn
<1>2. capCard' \in [DOMAIN capCard' -> Content] /\ FinalsWhole'
  <2>1. CASE capCard' = CardWith({1, 2})
    <3> DEFINE d == CardWith({1, 2})
    <3>1. d \in [DOMAIN d -> Content] /\ \A p \in DOMAIN d : d[p].parts = Parts
      BY OtherCard
    <3> HIDE DEF d
    <3>2. capCard' = d
      BY <2>1 DEF d
    <3> QED BY <3>1, <3>2 DEF FinalsWhole, Has, Whole
  <2>2. CASE capCard' = capCard
    BY <2>2 DEF CapInv, CapTypes, FinalsWhole, Has, Whole
  <2> QED BY <1>1, <2>1, <2>2
<1>3. CapTypes'
  BY <1>1, <1>2 DEF CapInv, CapTypes
<1>4. SaveGoesOn' /\ NameIsFree' /\ TmpIsTheSaves'
  BY <1>1 DEF CapInv, SaveGoesOn, NameIsFree, TmpIsTheSaves, Usable
<1> QED BY <1>2, <1>3, <1>4 DEF CapInv

(* A reset ends the save where it is; the card keeps the files.            *)
LEMMA PowerLossStep ==
  ASSUME CapInv, PowerLoss
  PROVE  CapInv'
<1>1. capMounted' = FALSE /\ capJob' = NoSave /\ UNCHANGED <<capCard, capIn, capGen, capStray, capSaves>>
  BY DEF PowerLoss
<1>2. /\ capJob' \in [at : SaveSteps, name : Nat, id : Nat, listed : Nat, gen : Nat]
      /\ capJob'.at = "none" /\ capJob'.listed = 0 /\ capJob'.gen = 0
  BY <1>1, JobEnds DEF Ends
<1>3. CapTypes'
  <2>1. capMounted' \in BOOLEAN
    BY <1>1
  <2>2. capIn' \in BOOLEAN /\ capStray' \in BOOLEAN /\ capGen' \in Nat /\ capSaves' \in Nat
        /\ capCard' \in [DOMAIN capCard' -> Content]
    BY <1>1 DEF CapInv, CapTypes
  <2> QED BY <1>2, <2>1, <2>2 DEF CapTypes
<1>4. FinalsWhole'
  BY <1>1 DEF CapInv, FinalsWhole, Has, Whole
<1>5. SaveGoesOn' /\ NameIsFree' /\ TmpIsTheSaves'
  BY <1>1, <1>2 DEF SaveGoesOn, NameIsFree, TmpIsTheSaves
<1> QED BY <1>3, <1>5, <1>4 DEF CapInv

(* The first card has one whole capture.                                   *)
LEMMA CapInitially == CapInit => CapInv
<1> SUFFICES ASSUME CapInit PROVE CapInv
  OBVIOUS
<1>1. /\ capCard = CardWith({1}) /\ capIn = TRUE /\ capMounted = FALSE /\ capGen = 0
      /\ capJob = NoSave /\ capStray = FALSE /\ capSaves = 0
  BY DEF CapInit
<1>2. capCard \in [DOMAIN capCard -> Content] /\ FinalsWhole
  BY <1>1, OtherCard DEF FinalsWhole, Has, Whole
<1>3. CapTypes
  <2>1. capIn \in BOOLEAN /\ capMounted \in BOOLEAN /\ capStray \in BOOLEAN
    BY <1>1
  <2>2. capJob \in [at : SaveSteps, name : Nat, id : Nat, listed : Nat, gen : Nat]
    BY <1>1 DEF NoSave, SaveSteps
  <2> QED BY <1>1, <1>2, <2>1, <2>2 DEF CapTypes, NoSave
<1>4. SaveGoesOn /\ NameIsFree /\ TmpIsTheSaves
  BY <1>1 DEF SaveGoesOn, NameIsFree, TmpIsTheSaves, NoSave
<1> QED BY <1>2, <1>3, <1>4 DEF CapInv

(* Every step keeps the invariant.                                         *)
LEMMA CapInductive == CapInv /\ [CapNext]_capVars => CapInv'
<1> SUFFICES ASSUME CapInv, [CapNext]_capVars PROVE CapInv'
  OBVIOUS
<1>1. CASE UNCHANGED capVars
  BY <1>1 DEF capVars, CapInv, CapTypes, SaveGoesOn, NameIsFree, FinalsWhole, TmpIsTheSaves, Has, Whole, Usable
<1>2. ASSUME NEW n \in Names, ChooseName(n) PROVE CapInv'
  BY <1>2, ChooseNameStep
<1>3. CASE OpenTmp
  BY <1>3, OpenTmpStep
<1>4. CASE WritePart
  BY <1>4, WritePartStep
<1>5. CASE Discard
  BY <1>5, DiscardStep
<1>6. CASE CloseSync
  BY <1>6, CloseSyncStep
<1>7. CASE CloseUnlink
  BY <1>7, CloseUnlinkStep
<1>8. CASE CloseRename
  BY <1>8, CloseRenameStep
<1>9. CASE WorkerKilled
  BY <1>9, WorkerKilledStep
<1>10. CASE Mount
  BY <1>10, MountStep
<1>11. CASE UnmountCard
  BY <1>11, UnmountCardStep
<1>12. CASE CardOut
  BY <1>12, CardOutStep
<1>13. ASSUME NEW other \in BOOLEAN, CardIn(other) PROVE CapInv'
  BY <1>13, CardInStep
<1>14. CASE PowerLoss
  BY <1>14, PowerLossStep
<1> QED
  BY <1>1, <1>2, <1>3, <1>4, <1>5, <1>6, <1>7, <1>8, <1>9, <1>10, <1>11, <1>12, <1>13, <1>14
  DEF CapNext, CapWorker

(* Whatever failed, and wherever the card was pulled or the power lost, a  *)
(* file under its own name is a whole copy of one save, and a card mounted *)
(* without trouble holds no temporary file but the one being written       *)
(* (storage_file.c, storage_files_prepare()).                              *)
THEOREM FilesWholeOnCard == CapSpec => []CardIsSound
<1>1. CapInv => CardIsSound
  <2> SUFFICES ASSUME CapInv PROVE CardIsSound
    OBVIOUS
  <2>1. PublishedWhole
    BY DEF CapInv, FinalsWhole, SaveGoesOn, PublishedWhole
  <2>2. NothingLeftOver
    BY DEF CapInv, TmpIsTheSaves, NothingLeftOver
  <2> QED BY <2>1, <2>2 DEF CardIsSound
<1> QED BY <1>1, CapInitially, CapInductive, PTL DEF CapSpec

-----------------------------------------------------------------------------
(* Only the last two steps of a close touch a file, the one whose name the *)
(* save has.  No capture had it when the names were listed, and when that  *)
(* was under the mount the file was opened under, the close is still under *)
(* the same mount.                                                         *)
LEMMA StepKeepsCaptures ==
  ASSUME CapInv, CapNext, NEW n \in Names \ {WriteTest}, Has(Final(n)), capIn, ~NamedElsewhere(n)
  PROVE  Kept(n)
<1>1. CASE UNCHANGED capCard
  BY <1>1 DEF Kept, Has
<1>2. ASSUME NEW paths, capCard' = Removed(paths), Final(n) \notin paths
      PROVE  Kept(n)
  <2> DEFINE d == Removed(paths)
  <2>1. DOMAIN d = DOMAIN capCard \ paths /\ \A p \in DOMAIN capCard \ paths : d[p] = capCard[p]
    BY RemovedCard DEF CapInv
  <2> HIDE DEF d
  <2>2. capCard' = d
    BY <1>2 DEF d
  <2> QED BY <1>2, <2>1, <2>2 DEF Kept, Has
<1>3. CASE OpenTmp
  <2> DEFINE c == [id |-> capJob.id, parts |-> 0]
             d == With(Tmp(capJob.name), c)
  <2>1. c \in Content
    BY DEF Content, CapInv, CapTypes
  <2> HIDE DEF c
  <2>2. /\ DOMAIN d = DOMAIN capCard \cup {Tmp(capJob.name)}
        /\ \A p \in DOMAIN capCard \ {Tmp(capJob.name)} : d[p] = capCard[p]
    BY <2>1, WithCard DEF CapInv
  <2> HIDE DEF d
  <2>3. capCard' = d \/ UNCHANGED capCard
    BY <1>3 DEF OpenTmp, d, c
  <2> QED BY <1>1, <2>2, <2>3, PathsDiffer DEF Kept, Has
<1>4. CASE WritePart
  <2>1. \/ UNCHANGED capCard
        \/ capCard' = [capCard EXCEPT ![Tmp(capJob.name)].parts = @ + 1]
    BY <1>4 DEF WritePart, WriteFails
  <2> QED BY <1>1, <2>1, PathsDiffer DEF Kept, Has, CapInv, CapTypes
<1>5. CASE Discard \/ CloseSync
  <2>1. UNCHANGED capCard \/ capCard' = Removed({Tmp(capJob.name)})
    BY <1>5 DEF Discard, CloseSync, IoError
  <2> QED BY <1>1, <1>2, <2>1, PathsDiffer
<1>6. CASE CloseUnlink \/ CloseRename
  <2>1. capJob.name # n /\ Has(Tmp(capJob.name))
    BY <1>6 DEF CloseUnlink, CloseRename, CapInv, SaveGoesOn, NameIsFree, NamedElsewhere, Usable, Whole
  <2>2. CASE capCard' = Renamed(Tmp(capJob.name), Final(capJob.name))
    <3> DEFINE d == Renamed(Tmp(capJob.name), Final(capJob.name))
    <3>1. Tmp(capJob.name) \in DOMAIN capCard
      BY <2>1 DEF Has
    <3>2. CapTypes
      BY DEF CapInv
    <3> DEFINE from == Tmp(capJob.name)
               to == Final(capJob.name)
    <3> HIDE DEF from, to
    <3>5. from \in DOMAIN capCard
      BY <3>1 DEF from
    <3>6. /\ DOMAIN Renamed(from, to) = (DOMAIN capCard \ {from}) \cup {to}
          /\ \A p \in DOMAIN capCard \ {from, to} : Renamed(from, to)[p] = capCard[p]
      BY ONLY <3>5 DEF Renamed
    <3>3. /\ DOMAIN d = (DOMAIN capCard \ {Tmp(capJob.name)}) \cup {Final(capJob.name)}
          /\ \A p \in DOMAIN capCard \ {Tmp(capJob.name), Final(capJob.name)} : d[p] = capCard[p]
      BY ONLY <3>6 DEF from, to
    <3> HIDE DEF d
    <3>4. capCard' = d
      BY <2>2 DEF d
    <3> QED BY <2>1, <3>3, <3>4, PathsDiffer DEF Kept, Has
  <2>3. UNCHANGED capCard \/ capCard' = Removed({Tmp(capJob.name)})
          \/ capCard' = Removed({Final(capJob.name)}) \/ capCard' = Renamed(Tmp(capJob.name), Final(capJob.name))
    BY <1>6 DEF CloseUnlink, CloseRename, IoError
  <2> QED BY <1>1, <1>2, <2>1, <2>2, <2>3, PathsDiffer
<1>7. CASE Mount
  <2> DEFINE tmps == {p \in DOMAIN capCard : p[2] = "tmp"}
  <2>1. PICK left \in {{}, tmps} : capCard' = Removed(tmps \ left)
    BY <1>7 DEF Mount
  <2>2. Final(n) \notin tmps \ left
    BY PathsDiffer
  <2> QED BY <1>2, <2>1, <2>2
<1>8. CASE \E m \in Names : ChooseName(m)
  BY <1>1, <1>8 DEF ChooseName
<1>9. CASE WorkerKilled \/ UnmountCard \/ CardOut \/ PowerLoss
  BY <1>1, <1>9 DEF WorkerKilled, UnmountCard, CardOut, PowerLoss
<1>10. ASSUME NEW other \in BOOLEAN, CardIn(other) PROVE FALSE
  BY <1>10 DEF CardIn
<1> QED
  BY <1>3, <1>4, <1>5, <1>6, <1>7, <1>8, <1>9, <1>10 DEF CapNext, CapWorker

(* No save changes or removes a capture, whatever fails and whenever the   *)
(* card is pulled, exchanged or mounted again (ir_names_next(),            *)
(* nfc_dump_name_next(), stark_storage_close()), but for one: a save that  *)
(* opened its file under another mount than it listed the names under may  *)
(* remove the capture that has its own name there.                         *)
THEOREM SaveKeepsCaptures == CapSpec => CapturesKept
<1> DEFINE Spared == \A n \in Names \ {WriteTest} :
             Has(Final(n)) /\ capIn /\ ~NamedElsewhere(n) => Kept(n)
<1>1. CapInv /\ [CapNext]_capVars => [Spared]_capVars
  BY StepKeepsCaptures
<1> QED BY <1>1, CapInitially, CapInductive, PTL DEF CapSpec, CapturesKept

-----------------------------------------------------------------------------
(***************************************************************************)
(* The argument for LogFile: whatever a byte tells of (its own line, or    *)
(* the lines a marker stands for), all the bytes there are stand in one    *)
(* order, from the oldest file over the chunk and the lines dropped since  *)
(* to the ring, and a cut is only made between whole lines.  A line that   *)
(* is nowhere any more is older than all of them or was taken by an error; *)
(* so between two lines of the log every line is told of by a marker.      *)
(***************************************************************************)
(* A byte of a line, and a byte of either kind.                            *)
LineByte == [line : Nat \ {0}, last : BOOLEAN, told : {{}}]
AnyByte == LineByte \cup [line : {0}, last : BOOLEAN, told : SUBSET (Nat \ {0})]

Below(S, T) == \A l \in S, m \in T : l < m

(* What a later byte tells of comes later, but for the bytes of one line.  *)
Follows(a, b) ==
  \A l \in Tells(a), m \in Tells(b) : l < m \/ (l = m /\ l = a.line /\ l = b.line /\ ~a.last)
Ordered(bytes) == \A i, j \in DOMAIN bytes : i < j => Follows(bytes[i], bytes[j])

(* What is not yet in a file, and what a file holds.                       *)
Waiting == LinesIn(logChunk) \cup logLost \cup LinesIn(logRing)
InFile(i) == LinesIn(logDir[i])

LogTypes ==
  /\ logRing \in Seq(LineByte) /\ logChunk \in Seq(AnyByte)
  /\ logDir \in [DOMAIN logDir -> Seq(AnyByte)] /\ DOMAIN logDir \subseteq 0..LogFiles - 1
  /\ logKnown \in BOOLEAN /\ logSize \in Nat /\ logFailed \in BOOLEAN
  /\ logStep \in {"idle", "size", "rotate", "append"} /\ logRot \in 0..LogFiles - 1
  /\ logPut \in Nat /\ logGone \subseteq 1..logPut /\ Waiting \subseteq 1..logPut
  /\ \A i \in DOMAIN logDir : InFile(i) \subseteq 1..logPut
  /\ logStep = "idle" => logChunk = NoChunk

(* From the oldest file to the ring everything is in the order it was      *)
(* logged, and no line is in two places.                                   *)
InOrder ==
  /\ Ordered(logChunk) /\ Ordered(logRing)
  /\ Below(LinesIn(logChunk), logLost \cup LinesIn(logRing)) /\ Below(logLost, LinesIn(logRing))
  /\ \A i \in DOMAIN logDir :
       /\ Ordered(logDir[i]) /\ Below(InFile(i), Waiting)
       /\ \A j \in DOMAIN logDir : j < i => Below(InFile(i), InFile(j))

(* A line that is nowhere is older than everything there is, and nothing   *)
(* that an error took is told of by a marker.                              *)
GapsAreTold ==
  /\ Below(logGone, Waiting)
  /\ \A i \in DOMAIN logDir : \A k \in DOMAIN logDir[i] : logDir[i][k].told \cap logGone = {}
  /\ \A l \in 1..logPut :
       \/ l \in logGone \/ l \in Waiting \/ \E i \in DOMAIN logDir : l \in InFile(i)
       \/ Below({l}, Waiting) /\ \A i \in DOMAIN logDir : Below({l}, InFile(i))

(* The size, the room for the chunk, and the name a rotation freed last.   *)
SizesAgree ==
  /\ logKnown => logSize = SizeOf(0)
  /\ logStep \in {"rotate", "append"} => logKnown
  /\ ~logFailed => SizeOf(0) <= LogLimit
  /\ Len(logChunk) <= ChunkBytes + 1
  /\ logStep = "append" /\ ~logFailed => SizeOf(0) + Len(logChunk) <= LogLimit
  /\ logStep = "rotate" /\ logRot > 0 => From(logRot) + 1 \notin DOMAIN logDir

LogInv == LogTypes /\ InOrder /\ GapsAreTold /\ SizesAgree

-----------------------------------------------------------------------------
(* A part of a sequence of bytes: its bytes, its order, what it tells of.  *)
LEMMA PartOfBytes ==
  ASSUME NEW B, NEW s \in Seq(B), NEW a \in 1..Len(s) + 1, NEW b \in 0..Len(s)
  PROVE  /\ SubSeq(s, a, b) \in Seq(B)
         /\ LinesIn(SubSeq(s, a, b)) \subseteq LinesIn(s)
         /\ Ordered(s) => Ordered(SubSeq(s, a, b))
         /\ Len(SubSeq(s, a, b)) = IF a <= b THEN b - a + 1 ELSE 0
         /\ \A i \in 1..Len(SubSeq(s, a, b)) : SubSeq(s, a, b)[i] = s[a + i - 1] /\ a + i - 1 \in DOMAIN s
<1> DEFINE t == SubSeq(s, a, b)
<1>0. t \in Seq(B) /\ Len(t) = IF a <= b THEN b - a + 1 ELSE 0
  OBVIOUS
<1>1. /\ t \in Seq(B) /\ Len(t) = IF a <= b THEN b - a + 1 ELSE 0
      /\ \A i \in 1..Len(t) : t[i] = s[a + i - 1] /\ a + i - 1 \in DOMAIN s
  <2>1. ASSUME NEW i \in 1..Len(t)  PROVE a + i - 1 \in 1..Len(s) /\ t[i] = s[a + i - 1]
    <3>1. a <= b /\ i \in 1..b - a + 1
      BY <1>0
    <3> QED BY <3>1
  <2> QED BY <1>0, <2>1
<1>2. LinesIn(t) \subseteq LinesIn(s)
  BY <1>1 DEF LinesIn
<1>3. ASSUME Ordered(s)  PROVE Ordered(t)
  <2> SUFFICES ASSUME NEW i \in DOMAIN t, NEW j \in DOMAIN t, i < j  PROVE Follows(t[i], t[j])
    BY DEF Ordered
  <2> QED BY <1>1, <1>3 DEF Ordered
<1> QED BY <1>1, <1>2, <1>3

(* Two sequences of bytes, one after the other.                            *)
LEMMA BytesJoined ==
  ASSUME NEW B, NEW s \in Seq(B), NEW t \in Seq(B)
  PROVE  /\ s \o t \in Seq(B) /\ Len(s \o t) = Len(s) + Len(t)
         /\ LinesIn(s \o t) = LinesIn(s) \cup LinesIn(t)
         /\ Ordered(s) /\ Ordered(t) /\ Below(LinesIn(s), LinesIn(t)) => Ordered(s \o t)
         /\ \A i \in DOMAIN (s \o t) :
              \/ i \in DOMAIN s /\ (s \o t)[i] = s[i]
              \/ i - Len(s) \in DOMAIN t /\ (s \o t)[i] = t[i - Len(s)]
<1> DEFINE u == s \o t
<1>1. /\ u \in Seq(B) /\ Len(u) = Len(s) + Len(t)
      /\ \A i \in DOMAIN s : i \in DOMAIN u /\ u[i] = s[i]
      /\ \A i \in DOMAIN t : i + Len(s) \in DOMAIN u /\ u[i + Len(s)] = t[i]
  OBVIOUS
<1>2. \A i \in DOMAIN u : \/ i \in DOMAIN s /\ u[i] = s[i]
                          \/ /\ i - Len(s) \in DOMAIN t /\ u[i] = t[i - Len(s)]
                             /\ i > Len(s) /\ i \in Int /\ Len(s) \in Nat
  BY <1>1
<1>3. LinesIn(u) = LinesIn(s) \cup LinesIn(t)
  <2>1. LinesIn(u) \subseteq LinesIn(s) \cup LinesIn(t)
    BY <1>2 DEF LinesIn
  <2>2. LinesIn(s) \subseteq LinesIn(u) /\ LinesIn(t) \subseteq LinesIn(u)
    BY <1>1 DEF LinesIn
  <2> QED BY <2>1, <2>2
<1>4. ASSUME Ordered(s), Ordered(t), Below(LinesIn(s), LinesIn(t))  PROVE Ordered(u)
  <2> SUFFICES ASSUME NEW i \in DOMAIN u, NEW j \in DOMAIN u, i < j  PROVE Follows(u[i], u[j])
    BY DEF Ordered
  <2>0. i \in Int /\ j \in Int /\ Len(s) \in Nat
    BY <1>1
  <2>1. CASE i \in DOMAIN s /\ j \in DOMAIN s
    BY <1>1, <1>4, <2>1 DEF Ordered
  <2>2. CASE i \in DOMAIN s /\ j \notin DOMAIN s
    <3>1. Tells(u[i]) \subseteq LinesIn(s) /\ Tells(u[j]) \subseteq LinesIn(t)
      BY <1>1, <1>2, <2>2 DEF LinesIn
    <3> QED BY <3>1, <1>4 DEF Follows, Below
  <2>3. CASE i \notin DOMAIN s
    <3>1. /\ i - Len(s) \in DOMAIN t /\ u[i] = t[i - Len(s)] /\ i - Len(s) < j - Len(s)
          /\ j - Len(s) \in DOMAIN t /\ u[j] = t[j - Len(s)]
      BY <1>1, <1>2, <2>0, <2>3
    <3> QED BY <3>1, <1>4 DEF Ordered
  <2> QED BY <2>1, <2>2, <2>3
<1>5. \A i \in DOMAIN u : \/ i \in DOMAIN s /\ u[i] = s[i]
                          \/ i - Len(s) \in DOMAIN t /\ u[i] = t[i - Len(s)]
  BY <1>2
<1> QED BY <1>1, <1>3, <1>4, <1>5, Zenon

(* A sequence of bytes in two parts.                                       *)
LEMMA BytesSplit ==
  ASSUME NEW B, NEW s \in Seq(B), NEW k \in 0..Len(s)
  PROVE  LinesIn(s) = LinesIn(SubSeq(s, 1, k)) \cup LinesIn(SubSeq(s, k + 1, Len(s)))
<1> DEFINE old == SubSeq(s, 1, k)
           rest == SubSeq(s, k + 1, Len(s))
<1>1. /\ Len(old) = k /\ \A i \in 1..k : old[i] = s[i]
      /\ Len(rest) = Len(s) - k /\ \A i \in 1..Len(s) - k : rest[i] = s[k + i]
  OBVIOUS
<1>2. old \in Seq(B) /\ rest \in Seq(B)
  OBVIOUS
<1>3. LinesIn(old) \subseteq LinesIn(s) /\ LinesIn(rest) \subseteq LinesIn(s)
  BY PartOfBytes
<1>4. ASSUME NEW l \in LinesIn(s)  PROVE l \in LinesIn(old) \cup LinesIn(rest)
  <2>1. PICK i \in 1..Len(s) : l \in Tells(s[i])
    BY DEF LinesIn
  <2>2. CASE i <= k
    <3>1. i \in DOMAIN old /\ old[i] = s[i]
      BY <1>1, <1>2, <2>1, <2>2
    <3> HIDE DEF old
    <3> QED BY <2>1, <3>1 DEF LinesIn
  <2>3. CASE i > k
    <3>1. i - k \in 1..Len(s) - k /\ rest[i - k] = s[i]
      BY <1>1, <2>1, <2>3
    <3>2. i - k \in DOMAIN rest
      BY <1>1, <1>2, <3>1
    <3> HIDE DEF rest
    <3> QED BY <2>1, <3>1, <3>2 DEF LinesIn
  <2> QED BY <2>1, <2>2, <2>3
<1> QED BY <1>3, <1>4

(* Bytes of lines tell of those lines.                                     *)
LEMMA LinesTold ==
  ASSUME NEW b \in LineByte
  PROVE  Tells(b) = {b.line} /\ b.line \in Nat \ {0} /\ b \in AnyByte
BY DEF LineByte, AnyByte, Tells

(* A cut behind a newline, or at either end, leaves whole lines.           *)
LEMMA WholeLines ==
  ASSUME NEW s \in Seq(LineByte), Ordered(s), NEW k \in 0..Len(s),
         k = 0 \/ k = Len(s) \/ s[k].last
  PROVE  Below(LinesIn(SubSeq(s, 1, k)), LinesIn(SubSeq(s, k + 1, Len(s))))
<1> SUFFICES ASSUME NEW l \in LinesIn(SubSeq(s, 1, k)), NEW m \in LinesIn(SubSeq(s, k + 1, Len(s)))
             PROVE  l < m
  BY DEF Below
<1>1. PICK i \in 1..k : l \in Tells(s[i])
  BY PartOfBytes DEF LinesIn
<1>2. PICK j \in k + 1..Len(s) : m \in Tells(s[j])
  <2> DEFINE rest == SubSeq(s, k + 1, Len(s))
  <2>1. /\ rest \in Seq(LineByte) /\ Len(rest) = Len(s) - k
        /\ \A n \in 1..Len(s) - k : rest[n] = s[k + n]
    OBVIOUS
  <2>2. PICK n \in 1..Len(s) - k : m \in Tells(rest[n])
    BY <2>1 DEF LinesIn
  <2>3. k + n \in k + 1..Len(s) /\ m \in Tells(s[k + n])
    BY <2>1, <2>2
  <2> QED BY <2>3
<1>3. /\ i \in DOMAIN s /\ j \in DOMAIN s /\ k \in DOMAIN s /\ i <= k /\ k < j /\ s[k].last
      /\ s[i] \in LineByte /\ s[j] \in LineByte /\ s[k] \in LineByte
  BY <1>1, <1>2
<1>4. /\ Tells(s[i]) = {s[i].line} /\ Tells(s[j]) = {s[j].line} /\ Tells(s[k]) = {s[k].line}
      /\ s[i].line \in Nat /\ s[j].line \in Nat /\ s[k].line \in Nat
  BY <1>3, LinesTold
<1>5. s[k].line < s[j].line
  BY <1>3, <1>4 DEF Ordered, Follows
<1>6. s[i].line <= s[k].line
  <2>1. CASE i = k
    BY <1>4, <2>1
  <2>2. CASE i < k
    <3>1. Follows(s[i], s[k])
      BY <1>3, <2>2 DEF Ordered
    <3> QED BY <1>4, <3>1 DEF Follows
  <2> QED BY <1>3, <2>1, <2>2
<1> QED BY <1>1, <1>2, <1>4, <1>5, <1>6

(* A new line, byte by byte.                                               *)
LEMMA NewLine ==
  ASSUME NEW l \in Nat \ {0}, NEW n \in Nat \ {0}
  PROVE  Line(l, n) \in Seq(LineByte) /\ Ordered(Line(l, n)) /\ LinesIn(Line(l, n)) = {l}
<1> DEFINE s == Line(l, n)
<1>1. s \in [1..n -> LineByte]
  BY DEF Line, Byte, LineByte
<1>2. /\ s \in Seq(LineByte) /\ DOMAIN s = 1..n
  BY <1>1, SMT
<1>3. \A i \in 1..n : s[i] = Byte(l, i = n)
  BY DEF Line
<1>4. \A i \in 1..n : Tells(s[i]) = {l} /\ s[i].line = l /\ (s[i].last <=> i = n)
  <2> SUFFICES ASSUME NEW i \in 1..n
               PROVE  Tells(s[i]) = {l} /\ s[i].line = l /\ (s[i].last <=> i = n)
    OBVIOUS
  <2>1. s[i] = [line |-> l, last |-> (i = n), told |-> {}]
    BY <1>3 DEF Byte
  <2>2. s[i].line = l /\ s[i].told = {}
    BY <2>1
  <2>3. s[i].last <=> i = n
    <3> HIDE DEF s
    <3> DEFINE b == (i = n)
    <3>1. s[i] = [line |-> l, last |-> b, told |-> {}]
      BY <2>1
    <3>2. s[i].last = b
      <4> HIDE DEF b
      <4> QED BY <3>1
    <3>3. (s[i].last) <=> b
      <4>1. b \in BOOLEAN
        OBVIOUS
      <4> HIDE DEF b
      <4> QED BY <3>2, <4>1
    <3> QED BY <3>3 DEF b
  <2> QED BY <2>2, <2>3 DEF Tells
<1>5. Ordered(s)
  BY <1>2, <1>4 DEF Ordered, Follows
<1>6. LinesIn(s) = {l}
  <2>1. n \in 1..n
    OBVIOUS
  <2> QED BY <1>2, <1>4, <2>1 DEF LinesIn
<1> QED BY <1>2, <1>5, <1>6

(* No bytes, nothing to tell of.                                           *)
LEMMA NoBytes == LinesIn(NoChunk) = {} /\ Ordered(NoChunk) /\ NoChunk \in Seq(AnyByte) /\ Len(NoChunk) = 0
BY DEF LinesIn, NoChunk, Ordered

(* A chunk that is lost: its lines are gone, and nothing else changes.     *)
LEMMA ChunkLost ==
  ASSUME LogTypes, InOrder, GapsAreTold, logChunk' = NoChunk,
         logGone' = logGone \cup LinesIn(logChunk), UNCHANGED <<logRing, logLost, logDir, logPut>>
  PROVE  /\ InOrder' /\ GapsAreTold' /\ Waiting' \subseteq Waiting /\ logGone' \subseteq 1..logPut
         /\ \A i \in DOMAIN logDir' : InFile(i)' = InFile(i)
<1>1. /\ LinesIn(logChunk') = {} /\ Ordered(logChunk') /\ LinesIn(logRing') = LinesIn(logRing)
      /\ \A i \in DOMAIN logDir : InFile(i)' = InFile(i)
  BY NoBytes DEF InFile
<1>2. /\ Waiting' = logLost \cup LinesIn(logRing)
      /\ Waiting = LinesIn(logChunk) \cup logLost \cup LinesIn(logRing)
  BY <1>1 DEF Waiting
<1>3. InOrder'
  BY <1>1, <1>2 DEF InOrder, Below
<1>4. Below(logGone', Waiting')
  BY <1>2 DEF GapsAreTold, InOrder, Below
<1>5. ASSUME NEW i \in DOMAIN logDir, NEW k \in DOMAIN logDir[i]
      PROVE  logDir[i][k].told \cap logGone' = {}
  <2>1. logDir[i][k].told \subseteq InFile(i)
    BY DEF InFile, LinesIn, Tells
  <2>2. Below(InFile(i), LinesIn(logChunk)) /\ InFile(i) \subseteq 1..logPut
    BY <1>2 DEF InOrder, Below, LogTypes
  <2>3. logDir[i][k].told \cap LinesIn(logChunk) = {}
    BY <2>1, <2>2 DEF Below
  <2> QED BY <2>3 DEF GapsAreTold
<1>6. ASSUME NEW l \in 1..logPut
      PROVE  \/ l \in logGone' \/ l \in Waiting' \/ \E i \in DOMAIN logDir : l \in InFile(i)'
             \/ Below({l}, Waiting') /\ \A i \in DOMAIN logDir : Below({l}, InFile(i)')
  BY <1>1, <1>2 DEF GapsAreTold, Below
<1>7. GapsAreTold'
  BY <1>4, <1>5, <1>6 DEF GapsAreTold
<1> QED BY <1>1, <1>2, <1>3, <1>7 DEF LogTypes

(* The files after some bytes were appended to the first one.              *)
LEMMA FilesAfterAppend ==
  ASSUME LogTypes, NEW bytes \in Seq(AnyByte)
  PROVE  /\ Appended(bytes) \in [DOMAIN Appended(bytes) -> Seq(AnyByte)]
         /\ DOMAIN Appended(bytes) = DOMAIN logDir \cup {0}
         /\ \A i \in DOMAIN logDir \ {0} : Appended(bytes)[i] = logDir[i]
         /\ 0 \in DOMAIN logDir => Appended(bytes)[0] = logDir[0] \o bytes
         /\ 0 \notin DOMAIN logDir => Appended(bytes)[0] = bytes
         /\ Len(Appended(bytes)[0]) = SizeOf(0) + Len(bytes)
<1>1. \A i \in DOMAIN logDir : logDir[i] \in Seq(AnyByte)
  BY DEF LogTypes
<1>2. 0 \in DOMAIN logDir => logDir[0] \o bytes \in Seq(AnyByte) /\ Len(logDir[0] \o bytes) = Len(logDir[0]) + Len(bytes)
  BY <1>1
<1>3. Len(bytes) \in Nat
  OBVIOUS
<1> QED BY <1>1, <1>2, <1>3 DEF Appended, SizeOf

(* A chunk of which so much went into the file: the rest is gone.          *)
LEMMA ChunkAppended ==
  ASSUME LogTypes, InOrder, GapsAreTold, NEW k \in 0..Len(logChunk), logChunk' = NoChunk,
         logDir' = Appended(SubSeq(logChunk, 1, k)), logGone' = logGone \cup Untold(k),
         UNCHANGED <<logRing, logLost, logPut>>
  PROVE  /\ InOrder' /\ GapsAreTold' /\ Waiting' \subseteq Waiting /\ logGone' \subseteq 1..logPut
         /\ \A i \in DOMAIN logDir' : InFile(i)' \subseteq 1..logPut
         /\ logDir' \in [DOMAIN logDir' -> Seq(AnyByte)] /\ DOMAIN logDir' = DOMAIN logDir \cup {0}
         /\ SizeOf(0)' = SizeOf(0) + k
<1> DEFINE part == SubSeq(logChunk, 1, k)
           rest == SubSeq(logChunk, k + 1, Len(logChunk))
<1>0. /\ logChunk \in Seq(AnyByte) /\ logPut \in Nat
      /\ \A i \in DOMAIN logDir : logDir[i] \in Seq(AnyByte) /\ InFile(i) \subseteq 1..logPut /\ i \in Nat
  BY DEF LogTypes
<1>1. /\ part \in Seq(AnyByte) /\ Ordered(part) /\ Len(part) = k
      /\ LinesIn(logChunk) = LinesIn(part) \cup LinesIn(rest) /\ Untold(k) = LinesIn(rest)
  <2>1. Len(logChunk) \in Nat /\ 1 \in 1..Len(logChunk) + 1
    BY <1>0
  <2> QED BY <1>0, <2>1, PartOfBytes, BytesSplit DEF Untold, InOrder
<1>2. \A i, j \in DOMAIN logChunk : i < j => Follows(logChunk[i], logChunk[j])
  BY DEF InOrder, Ordered
<1>3. \A i \in DOMAIN part : part[i].told \cap LinesIn(rest) = {} /\ part[i].told \subseteq LinesIn(part)
  <2> SUFFICES ASSUME NEW i \in DOMAIN part, NEW l \in part[i].told  PROVE l \notin LinesIn(rest) /\ l \in LinesIn(part)
    OBVIOUS
  <2>1. i \in 1..k /\ part[i] = logChunk[i] /\ logChunk[i] \in AnyByte /\ l \in Tells(part[i])
    BY <1>0, <1>1 DEF Tells
  <2>2. ASSUME l \in LinesIn(rest)  PROVE FALSE
    <3>1. PICK j \in DOMAIN rest : l \in Tells(rest[j])
      BY <2>2 DEF LinesIn
    <3>2. rest[j] = logChunk[k + j] /\ k + j \in DOMAIN logChunk /\ i < k + j /\ i \in DOMAIN logChunk
      BY <1>0, <2>1
    <3>3. Follows(logChunk[i], logChunk[k + j])
      BY <1>2, <3>2
    <3>4. l \in Nat \ {0} /\ logChunk[i].told # {} /\ l # logChunk[i].line
      BY <2>1 DEF AnyByte, LineByte
    <3> QED BY <2>1, <3>1, <3>2, <3>3, <3>4 DEF Follows
  <2> QED BY <2>1, <2>2 DEF LinesIn
<1> HIDE DEF part, rest
<1>4. /\ logDir' \in [DOMAIN logDir' -> Seq(AnyByte)] /\ DOMAIN logDir' = DOMAIN logDir \cup {0}
      /\ \A i \in DOMAIN logDir \ {0} : logDir'[i] = logDir[i] /\ InFile(i)' = InFile(i)
      /\ 0 \in DOMAIN logDir => logDir'[0] = logDir[0] \o part
      /\ 0 \notin DOMAIN logDir => logDir'[0] = part
      /\ Len(logDir'[0]) = SizeOf(0) + k
  BY <1>1, FilesAfterAppend DEF part, InFile
<1>5. /\ InFile(0)' = (IF 0 \in DOMAIN logDir THEN InFile(0) ELSE {}) \cup LinesIn(part)
      /\ Ordered(logDir'[0])
  <2>1. CASE 0 \in DOMAIN logDir
    <3>1. Below(InFile(0), LinesIn(part)) /\ Ordered(logDir[0])
      BY <1>1, <2>1 DEF InOrder, Below, Waiting
    <3>2. logDir[0] \in Seq(AnyByte) /\ logDir'[0] = logDir[0] \o part
      BY <1>0, <1>4, <2>1
    <3> DEFINE d == logDir[0]
    <3>3. d \in Seq(AnyByte) /\ part \in Seq(AnyByte) /\ Ordered(d) /\ Ordered(part) /\ Below(LinesIn(d), LinesIn(part))
      BY <1>1, <3>1, <3>2 DEF InFile
    <3> HIDE DEF d
    <3>4. LinesIn(d \o part) = LinesIn(d) \cup LinesIn(part) /\ Ordered(d \o part)
      BY <3>3, BytesJoined
    <3> QED BY <2>1, <3>2, <3>4 DEF InFile, d
  <2>2. CASE 0 \notin DOMAIN logDir
    BY <1>1, <1>4, <2>2 DEF InFile
  <2> QED BY <2>1, <2>2
<1>6. /\ LinesIn(logChunk') = {} /\ Ordered(logChunk') /\ LinesIn(logRing') = LinesIn(logRing)
      /\ Waiting' = logLost \cup LinesIn(logRing)
      /\ Waiting = LinesIn(logChunk) \cup logLost \cup LinesIn(logRing) /\ Waiting \subseteq 1..logPut
  BY NoBytes DEF Waiting, LogTypes
<1>7. \A i \in DOMAIN logDir' : InFile(i)' \subseteq 1..logPut
  <2>1. LinesIn(part) \subseteq 1..logPut
    BY <1>1, <1>6
  <2>2. InFile(0)' \subseteq 1..logPut
    BY <1>0, <1>5, <2>1
  <2> QED BY <1>0, <1>4, <2>2
<1>8. InOrder'
  <2>1. ASSUME NEW i \in DOMAIN logDir'
        PROVE  Ordered(logDir'[i]) /\ Below(InFile(i)', Waiting')
    BY <1>1, <1>4, <1>5, <1>6 DEF InOrder, Below
  <2>2. ASSUME NEW i \in DOMAIN logDir', NEW j \in DOMAIN logDir', j < i  PROVE Below(InFile(i)', InFile(j)')
    <3>1. i \in DOMAIN logDir \ {0} /\ (j = 0 \/ j \in DOMAIN logDir \ {0})
      BY <1>0, <1>4, <2>2
    <3>2. CASE j = 0
      BY <1>1, <1>4, <1>5, <1>6, <2>2, <3>1, <3>2 DEF InOrder, Below
    <3>3. CASE j \in DOMAIN logDir \ {0}
      BY <1>4, <2>2, <3>1, <3>3 DEF InOrder
    <3> QED BY <3>1, <3>2, <3>3
  <2>3. Ordered(logRing') /\ Below(LinesIn(logChunk'), logLost' \cup LinesIn(logRing')) /\ Below(logLost', LinesIn(logRing'))
    BY <1>6 DEF InOrder, Below
  <2> QED BY <1>6, <2>1, <2>2, <2>3 DEF InOrder
<1>9. Below(logGone', Waiting')
  BY <1>1, <1>6 DEF GapsAreTold, InOrder, Below
<1>10. ASSUME NEW i \in DOMAIN logDir', NEW n \in DOMAIN logDir'[i]
       PROVE  logDir'[i][n].told \cap logGone' = {}
  <2>1. CASE i # 0 \/ (0 \in DOMAIN logDir /\ n \in DOMAIN logDir[0] /\ logDir'[0][n] = logDir[0][n])
    <3>1. i \in DOMAIN logDir /\ n \in DOMAIN logDir[i] /\ logDir'[i][n] = logDir[i][n]
      BY <1>4, <2>1
    <3>2. logDir[i][n].told \subseteq InFile(i)
      BY <3>1 DEF InFile, LinesIn, Tells
    <3>3. Below(InFile(i), LinesIn(rest))
      BY <1>1, <1>6, <3>1 DEF InOrder, Below
    <3>4. logDir[i][n].told \cap LinesIn(rest) = {}
      BY <1>0, <3>1, <3>2, <3>3 DEF Below
    <3> QED BY <1>1, <3>1, <3>4 DEF GapsAreTold
  <2>2. CASE i = 0 /\ \E m \in DOMAIN part : logDir'[0][n] = part[m]
    <3>1. PICK m \in DOMAIN part : logDir'[0][n] = part[m]
      BY <2>2
    <3>2. part[m].told \subseteq LinesIn(part) /\ part[m].told \cap LinesIn(rest) = {}
      BY <1>3
    <3>3. Below(logGone, LinesIn(part)) /\ logGone \subseteq 1..logPut
      BY <1>1, <1>6 DEF GapsAreTold, Below, LogTypes
    <3>4. part[m].told \cap logGone = {}
      <4> DEFINE T == part[m].told
      <4>1. \A g \in logGone, l \in T : g < l
        BY <3>2, <3>3 DEF Below
      <4>2. \A g \in logGone : g \in Int
        BY <1>0, <3>3
      <4> HIDE DEF T
      <4>3. T \cap logGone = {}
        BY <4>1, <4>2
      <4> QED BY <4>3 DEF T
    <3> QED BY <1>1, <2>2, <3>1, <3>2, <3>4
  <2>3. \/ i # 0
        \/ 0 \in DOMAIN logDir /\ n \in DOMAIN logDir[0] /\ logDir'[0][n] = logDir[0][n]
        \/ \E m \in DOMAIN part : logDir'[0][n] = part[m]
    <3>1. CASE 0 \in DOMAIN logDir /\ i = 0
      <4>1. logDir[0] \in Seq(AnyByte) /\ n \in DOMAIN (logDir[0] \o part) /\ logDir'[0] = logDir[0] \o part
        BY <1>0, <1>4, <3>1
      <4>2. \/ n \in DOMAIN logDir[0] /\ (logDir[0] \o part)[n] = logDir[0][n]
            \/ n - Len(logDir[0]) \in DOMAIN part /\ (logDir[0] \o part)[n] = part[n - Len(logDir[0])]
        BY <1>1, <4>1, BytesJoined
      <4> QED BY <3>1, <4>1, <4>2
    <3>2. CASE 0 \notin DOMAIN logDir /\ i = 0
      BY <1>4, <3>2
    <3> QED BY <3>1, <3>2
  <2> QED BY <2>1, <2>2, <2>3
<1>11. ASSUME NEW l \in 1..logPut
       PROVE  \/ l \in logGone' \/ l \in Waiting' \/ \E i \in DOMAIN logDir' : l \in InFile(i)'
              \/ Below({l}, Waiting') /\ \A i \in DOMAIN logDir' : Below({l}, InFile(i)')
  <2>1. CASE l \in logGone \/ l \in Waiting
    <3>1. \/ l \in logGone' \/ l \in Waiting' \/ l \in LinesIn(part)
      BY <1>1, <1>6, <2>1
    <3> QED BY <1>4, <1>5, <3>1
  <2>2. CASE \E i \in DOMAIN logDir : l \in InFile(i)
    BY <1>4, <1>5, <2>2
  <2>3. CASE Below({l}, Waiting) /\ \A i \in DOMAIN logDir : Below({l}, InFile(i))
    <3>1. Below({l}, Waiting')
      BY <1>6, <2>3 DEF Below
    <3>2. ASSUME NEW i \in DOMAIN logDir'  PROVE Below({l}, InFile(i)')
      BY <1>1, <1>4, <1>5, <1>6, <2>3 DEF Below
    <3> QED BY <3>1, <3>2
  <2> QED BY <2>1, <2>2, <2>3 DEF GapsAreTold
<1>12. GapsAreTold'
  BY <1>9, <1>10, <1>11 DEF GapsAreTold
<1>13. Waiting' \subseteq Waiting /\ logGone' \subseteq 1..logPut
  BY <1>1, <1>6 DEF LogTypes
<1>14. SizeOf(0)' = SizeOf(0) + k
  BY <1>4 DEF SizeOf
<1> QED BY <1>4, <1>7, <1>8, <1>12, <1>13, <1>14

(* A set of numbers has a least one.                                       *)
LEMMA SmallestOf ==
  ASSUME NEW S \in SUBSET Nat, S # {}
  PROVE  \E n \in S : \A m \in S : n <= m
<1> DEFINE R == OpToRel(<, Nat)
<1>1. IsWellFoundedOn(R, Nat)
  BY NatLessThanWellFounded, Zenon
<1>2. \A m, n \in Nat : m < n => <<m, n>> \in R
  BY DEF OpToRel
<1> HIDE DEF R
<1>3. PICK n \in S : \A m \in S : ~(<<m, n>> \in R)
  BY <1>1, WFMin
<1>4. \A m \in S : m \in Nat /\ ~(m < n)
  BY <1>2, <1>3
<1> QED BY <1>4

(* The greatest of some numbers up to a bound.                             *)
LEMMA GreatestOf ==
  ASSUME NEW b \in Nat, NEW S \in SUBSET (0..b), S # {}
  PROVE  \E n \in S : \A m \in S : m <= n
<1> DEFINE T == {b - n : n \in S}
<1>1. T \in SUBSET Nat /\ T # {}
  <2>1. \A n \in S : b - n \in Nat
    OBVIOUS
  <2>2. PICK n \in S : TRUE
    OBVIOUS
  <2>3. b - n \in T
    BY <2>2
  <2> QED BY <2>1, <2>3
<1>2. PICK t \in T : \A u \in T : t <= u
  <2> HIDE DEF T
  <2> QED BY <1>1, SmallestOf
<1>3. PICK n \in S : t = b - n
  OBVIOUS
<1>4. ASSUME NEW m \in S  PROVE m <= n
  <2>1. b - n <= b - m
    BY <1>2, <1>3
  <2>2. n \in 0..b /\ m \in 0..b
    OBVIOUS
  <2> QED BY <2>1, <2>2
<1> QED BY <1>4

(* What gives way to a line is whole lines, and the line fits then.        *)
LEMMA RoomIsWhole ==
  ASSUME LogTypes, NEW n \in 0..RingBytes
  PROVE  \E k \in 0..Len(logRing) :
           /\ RoomFor(n) = SubSeq(logRing, 1, k) /\ Len(RoomFor(n)) = k
           /\ k = 0 \/ k = Len(logRing) \/ logRing[k].last
<1>0. logRing \in Seq(LineByte) /\ RingBytes \in Nat /\ n \in Nat /\ n <= RingBytes /\ Len(logRing) \in Nat
  BY LogAssumption DEF LogTypes
<1> DEFINE cuts == {0} \cup {i \in DOMAIN logRing : logRing[i].last \/ i = Len(logRing)}
           fit == {c \in cuts : RingBytes - (Len(logRing) - c) >= n}
<1>1. fit \subseteq Nat /\ fit # {}
  <2>1. Len(logRing) \in cuts
    BY <1>0
  <2>2. RingBytes - (Len(logRing) - Len(logRing)) >= n
    BY <1>0
  <2> QED BY <1>0, <2>1, <2>2
<1>2. PICK c \in fit : \A d \in fit : c <= d
  <2> HIDE DEF fit
  <2> QED BY <1>1, SmallestOf
<1>3. DEFINE cut == CHOOSE x \in cuts : /\ RingBytes - (Len(logRing) - x) >= n
                                        /\ \A d \in cuts : RingBytes - (Len(logRing) - d) >= n => x <= d
<1>4. cut \in cuts
  BY <1>2
<1>5. RoomFor(n) = SubSeq(logRing, 1, cut)
  BY DEF RoomFor
<1> HIDE DEF cut
<1>6. cut \in 0..Len(logRing)
  BY <1>0, <1>4
<1>7. Len(SubSeq(logRing, 1, cut)) = cut
  BY <1>0, <1>6
<1> QED BY <1>4, <1>5, <1>6, <1>7

(* What a chunk takes is whole lines that fit.                             *)
LEMMA TakenIsWhole ==
  ASSUME LogTypes
  PROVE  \E k \in 0..Len(logRing) :
           /\ Taken = SubSeq(logRing, 1, k) /\ Len(Taken) = k /\ k <= ChunkBytes
           /\ k = 0 \/ logRing[k].last
<1>0. logRing \in Seq(LineByte) /\ ChunkBytes \in Nat /\ Len(logRing) \in Nat
  BY LogAssumption DEF LogTypes
<1> DEFINE ends == {0} \cup {i \in DOMAIN logRing : i <= ChunkBytes /\ logRing[i].last}
           end == CHOOSE e \in ends : \A d \in ends : d <= e
<1>1. ends \subseteq 0..Len(logRing) /\ 0 \in ends
  BY <1>0
<1>2. \E e \in ends : \A d \in ends : d <= e
  <2> HIDE DEF ends
  <2> QED BY <1>0, <1>1, GreatestOf
<1>3. end \in ends
  BY <1>2
<1>4. Taken = SubSeq(logRing, 1, end)
  BY DEF Taken
<1> HIDE DEF end
<1>5. end \in 0..Len(logRing) /\ end <= ChunkBytes /\ (end = 0 \/ logRing[end].last)
  BY <1>0, <1>3
<1>6. Len(SubSeq(logRing, 1, end)) = end
  BY <1>0, <1>5
<1> QED BY <1>4, <1>5, <1>6

(* A line is logged: whole old lines give way to it and are counted.       *)
LEMMA LinePut ==
  ASSUME LogTypes, InOrder, GapsAreTold, NEW size \in LineSizes, PutLine(size)
  PROVE  /\ InOrder' /\ GapsAreTold' /\ logRing' \in Seq(LineByte)
         /\ Waiting' \subseteq 1..logPut' /\ logGone' \subseteq 1..logPut'
         /\ \A i \in DOMAIN logDir' : InFile(i)' = InFile(i) /\ InFile(i)' \subseteq 1..logPut'
<1>0. /\ logRing \in Seq(LineByte) /\ Len(logRing) \in Nat /\ logPut \in Nat /\ size \in 0..RingBytes
      /\ size \in Nat \ {0} /\ Waiting \subseteq 1..logPut /\ logGone \subseteq 1..logPut
      /\ logPut' = logPut + 1 /\ UNCHANGED <<logDir, logChunk, logGone>>
      /\ Waiting = LinesIn(logChunk) \cup logLost \cup LinesIn(logRing)
  BY LogAssumption DEF LogTypes, PutLine, Waiting
<1>1. PICK k \in 0..Len(logRing) :
        /\ RoomFor(size) = SubSeq(logRing, 1, k) /\ Len(RoomFor(size)) = k
        /\ k = 0 \/ k = Len(logRing) \/ logRing[k].last
  BY <1>0, RoomIsWhole
<1> DEFINE old == SubSeq(logRing, 1, k)
           rest == SubSeq(logRing, k + 1, Len(logRing))
           new == Line(logPut + 1, size)
<1>2. logRing' = rest \o new /\ logLost' = logLost \cup LinesIn(old)
  BY <1>1 DEF PutLine
<1>3. /\ rest \in Seq(LineByte) /\ Ordered(rest)
      /\ LinesIn(logRing) = LinesIn(old) \cup LinesIn(rest) /\ Below(LinesIn(old), LinesIn(rest))
  <2>1. k + 1 \in 1..Len(logRing) + 1 /\ Len(logRing) \in 0..Len(logRing)
    BY <1>0
  <2>2. Ordered(logRing)
    BY DEF InOrder
  <2> QED BY <1>0, <1>1, <2>1, <2>2, PartOfBytes, BytesSplit, WholeLines
<1>4. new \in Seq(LineByte) /\ Ordered(new) /\ LinesIn(new) = {logPut + 1}
  <2>1. logPut + 1 \in Nat \ {0}
    BY <1>0
  <2> QED BY <1>0, <2>1, NewLine
<1> HIDE DEF old, rest, new
<1>5. Below(LinesIn(rest), LinesIn(new))
  BY <1>0, <1>3, <1>4 DEF Below
<1>6. logRing' \in Seq(LineByte) /\ LinesIn(logRing') = LinesIn(rest) \cup {logPut + 1} /\ Ordered(logRing')
  <2>1. rest \in Seq(LineByte) /\ new \in Seq(LineByte) /\ Ordered(rest) /\ Ordered(new)
    BY <1>3, <1>4
  <2>2. rest \o new \in Seq(LineByte) /\ LinesIn(rest \o new) = LinesIn(rest) \cup LinesIn(new)
    BY <2>1, BytesJoined
  <2>3. Ordered(rest \o new)
    BY <1>5, <2>1, BytesJoined
  <2> QED BY <1>2, <1>4, <2>2, <2>3
<1>7. Waiting' = Waiting \cup {logPut + 1}
  BY <1>0, <1>2, <1>3, <1>6 DEF Waiting
<1>8. \A i \in DOMAIN logDir : InFile(i)' = InFile(i) /\ InFile(i) \subseteq 1..logPut
  BY <1>0 DEF InFile, LogTypes
<1>9. InOrder'
  <2>1. /\ Below(LinesIn(logChunk'), logLost' \cup LinesIn(logRing')) /\ Below(logLost', LinesIn(logRing'))
        /\ Ordered(logChunk')
    BY <1>0, <1>2, <1>3, <1>6 DEF InOrder, Below
  <2>2. \A i \in DOMAIN logDir : Below(InFile(i), Waiting')
    BY <1>0, <1>7, <1>8 DEF InOrder, Below
  <2> QED BY <1>0, <1>6, <1>8, <2>1, <2>2 DEF InOrder
<1>10. GapsAreTold'
  <2>1. Below(logGone, Waiting')
    BY <1>0, <1>7 DEF GapsAreTold, Below
  <2>2. ASSUME NEW l \in 1..logPut'
        PROVE  \/ l \in logGone \/ l \in Waiting' \/ \E i \in DOMAIN logDir : l \in InFile(i)
               \/ Below({l}, Waiting') /\ \A i \in DOMAIN logDir : Below({l}, InFile(i))
    <3>1. CASE l = logPut + 1
      BY <1>7, <3>1
    <3>2. CASE l \in 1..logPut
      <4>1. \/ l \in logGone \/ l \in Waiting \/ \E i \in DOMAIN logDir : l \in InFile(i)
            \/ Below({l}, Waiting) /\ \A i \in DOMAIN logDir : Below({l}, InFile(i))
        BY <3>2 DEF GapsAreTold
      <4>2. l < logPut + 1
        BY <1>0, <3>2
      <4>3. Below({l}, Waiting) => Below({l}, Waiting')
        BY <1>7, <4>2 DEF Below
      <4> QED BY <1>7, <4>1, <4>3
    <3>3. l = logPut + 1 \/ l \in 1..logPut
      BY <1>0
    <3> QED BY <3>1, <3>2, <3>3
  <2> QED BY <1>0, <1>8, <2>1, <2>2 DEF GapsAreTold
<1> QED BY <1>0, <1>6, <1>7, <1>8, <1>9, <1>10

(* A chunk is taken: the lines dropped before it are told of by its marker.*)
LEMMA ChunkTaken ==
  ASSUME LogTypes, InOrder, GapsAreTold, TakeChunk
  PROVE  /\ InOrder' /\ GapsAreTold' /\ logRing' \in Seq(LineByte) /\ logChunk' \in Seq(AnyByte)
         /\ Waiting' = Waiting /\ \A i \in DOMAIN logDir' : InFile(i)' = InFile(i)
         /\ Len(logChunk') <= ChunkBytes + 1
<1>0. /\ logRing \in Seq(LineByte) /\ Len(logRing) \in Nat /\ logPut \in Nat /\ ChunkBytes \in Nat
      /\ Waiting \subseteq 1..logPut /\ UNCHANGED <<logDir, logGone, logPut>> /\ logLost' = {}
      /\ LinesIn(logChunk) = {} /\ Waiting = logLost \cup LinesIn(logRing)
  BY LogAssumption, NoBytes DEF LogTypes, TakeChunk, Waiting
<1>1. PICK k \in 0..Len(logRing) :
        /\ Taken = SubSeq(logRing, 1, k) /\ Len(Taken) = k /\ k <= ChunkBytes
        /\ k = 0 \/ logRing[k].last
  BY TakenIsWhole
<1> DEFINE old == SubSeq(logRing, 1, k)
           rest == SubSeq(logRing, k + 1, Len(logRing))
           head == IF logLost = {} THEN <<>> ELSE <<Marker(logLost)>>
<1>2. logRing' = rest /\ logChunk' = head \o old
  BY <1>1 DEF TakeChunk
<1>3. /\ rest \in Seq(LineByte) /\ Ordered(rest) /\ old \in Seq(AnyByte) /\ Ordered(old) /\ Len(old) = k
      /\ LinesIn(logRing) = LinesIn(old) \cup LinesIn(rest) /\ Below(LinesIn(old), LinesIn(rest))
  <2>1. k + 1 \in 1..Len(logRing) + 1 /\ Len(logRing) \in 0..Len(logRing) /\ 1 \in 1..Len(logRing) + 1
    BY <1>0
  <2>2. Ordered(logRing)
    BY DEF InOrder
  <2>3. logRing \in Seq(AnyByte)
    BY <1>0 DEF AnyByte
  <2>4. old \in Seq(AnyByte) /\ Ordered(old) /\ Len(old) = k
    BY <1>0, <1>1, <2>1, <2>2, <2>3, PartOfBytes
  <2> QED BY <1>0, <1>1, <2>1, <2>2, <2>4, PartOfBytes, BytesSplit, WholeLines
<1>4. head \in Seq(AnyByte) /\ Ordered(head) /\ LinesIn(head) = logLost /\ Len(head) <= 1 /\ Len(head) \in Nat
  <2>1. CASE logLost = {}
    BY <2>1, NoBytes DEF NoChunk
  <2>2. CASE logLost # {}
    <3>1. Marker(logLost) \in AnyByte /\ Tells(Marker(logLost)) = logLost
      BY <1>0 DEF Marker, AnyByte, Tells
    <3>2. head = <<Marker(logLost)>>
      BY <2>2
    <3> HIDE DEF head
    <3> QED BY <3>1, <3>2 DEF LinesIn, Ordered
  <2> QED BY <2>1, <2>2
<1> HIDE DEF old, rest, head
<1>5. Below(LinesIn(head), LinesIn(old))
  BY <1>3, <1>4 DEF InOrder, Below
<1>6. /\ logChunk' \in Seq(AnyByte) /\ Len(logChunk') <= ChunkBytes + 1
      /\ LinesIn(logChunk') = logLost \cup LinesIn(old) /\ Ordered(logChunk')
  <2>1. Len(logChunk') = Len(head) + k
    BY <1>2, <1>3, <1>4, BytesJoined
  <2>2. logChunk' \in Seq(AnyByte) /\ LinesIn(logChunk') = logLost \cup LinesIn(old) /\ Ordered(logChunk')
    BY <1>2, <1>3, <1>4, <1>5, BytesJoined
  <2> QED BY <1>0, <1>1, <1>4, <2>1, <2>2
<1>7. Waiting' = Waiting
  BY <1>0, <1>2, <1>3, <1>6 DEF Waiting
<1>8. \A i \in DOMAIN logDir : InFile(i)' = InFile(i)
  BY <1>0 DEF InFile
<1>9. InOrder'
  <2>1. /\ Below(LinesIn(logChunk'), logLost' \cup LinesIn(logRing')) /\ Below(logLost', LinesIn(logRing'))
        /\ Ordered(logChunk') /\ Ordered(logRing')
    BY <1>0, <1>2, <1>3, <1>6 DEF InOrder, Below
  <2> QED BY <1>0, <1>7, <1>8, <2>1 DEF InOrder
<1>10. GapsAreTold'
  <2>1. Below(logGone', Waiting')
    BY <1>0, <1>7 DEF GapsAreTold
  <2>2. \A i \in DOMAIN logDir' : \A n \in DOMAIN logDir'[i] : logDir'[i][n].told \cap logGone' = {}
    BY <1>0 DEF GapsAreTold
  <2>3. ASSUME NEW l \in 1..logPut'
        PROVE  \/ l \in logGone' \/ l \in Waiting' \/ \E i \in DOMAIN logDir' : l \in InFile(i)'
               \/ Below({l}, Waiting') /\ \A i \in DOMAIN logDir' : Below({l}, InFile(i)')
    <3>1. \/ l \in logGone \/ l \in Waiting \/ \E i \in DOMAIN logDir : l \in InFile(i)
          \/ Below({l}, Waiting) /\ \A i \in DOMAIN logDir : Below({l}, InFile(i))
      BY <1>0 DEF GapsAreTold
    <3> QED BY <1>0, <1>7, <1>8, <3>1
  <2> QED BY <2>1, <2>2, <2>3 DEF GapsAreTold
<1> QED BY <1>0, <1>2, <1>3, <1>6, <1>7, <1>8, <1>9, <1>10

(* A reset takes the chunk and what was in the ring.                       *)
LEMMA RingLost ==
  ASSUME LogTypes, InOrder, GapsAreTold, LogReset
  PROVE  /\ InOrder' /\ GapsAreTold' /\ Waiting' = {} /\ logGone' \subseteq 1..logPut /\ logRing' \in Seq(LineByte)
         /\ \A i \in DOMAIN logDir' : InFile(i)' = InFile(i)
<1>0. /\ UNCHANGED <<logDir, logPut>> /\ logRing' = <<>> /\ logLost' = {} /\ logChunk' = NoChunk
      /\ logGone' = logGone \cup Untold(0) \cup LinesIn(logRing) \cup logLost
      /\ Waiting \subseteq 1..logPut /\ logGone \subseteq 1..logPut /\ logPut \in Nat
      /\ \A i \in DOMAIN logDir : InFile(i)' = InFile(i) /\ InFile(i) \subseteq 1..logPut
  BY DEF LogReset, LogTypes, InFile
<1>1. LinesIn(logRing') = {} /\ Ordered(logRing') /\ LinesIn(logChunk') = {} /\ Ordered(logChunk') /\ Waiting' = {}
  BY <1>0, NoBytes DEF NoChunk, Waiting
<1>2. Untold(0) = LinesIn(logChunk) /\ logGone' = logGone \cup Waiting
  <2>1. logChunk = SubSeq(logChunk, 1, Len(logChunk))
    BY DEF LogTypes
  <2>2. Untold(0) = LinesIn(logChunk)
    <3>1. 0 + 1 = 1
      OBVIOUS
    <3> QED BY <2>1, <3>1, Zenon DEF Untold
  <2> QED BY <1>0, <2>2 DEF Waiting
<1>3. InOrder'
  BY <1>0, <1>1 DEF InOrder, Below
<1>4. ASSUME NEW i \in DOMAIN logDir, NEW k \in DOMAIN logDir[i]
      PROVE  logDir[i][k].told \cap logGone' = {}
  <2>1. logDir[i][k].told \subseteq InFile(i)
    BY DEF InFile, LinesIn, Tells
  <2>2. logDir[i][k].told \cap Waiting = {}
    BY <1>0, <2>1 DEF InOrder, Below
  <2> QED BY <1>2, <2>2 DEF GapsAreTold
<1>5. ASSUME NEW l \in 1..logPut
      PROVE  \/ l \in logGone' \/ l \in Waiting' \/ \E i \in DOMAIN logDir : l \in InFile(i)
             \/ Below({l}, Waiting') /\ \A i \in DOMAIN logDir : Below({l}, InFile(i))
  BY <1>1, <1>2 DEF GapsAreTold, Below
<1>6. GapsAreTold'
  BY <1>0, <1>1, <1>4, <1>5 DEF GapsAreTold, Below
<1>7. logGone' \subseteq 1..logPut
  BY <1>0, <1>2
<1>8. <<>> \in Seq(LineByte)
  OBVIOUS
<1> QED BY <1>0, <1>1, <1>3, <1>6, <1>7, <1>8

(* A rotation step moves a file to a name that is free, or removes the     *)
(* oldest one; the order of the files stays what it was.                   *)
LEMMA FilesRotated ==
  ASSUME LogTypes, InOrder, GapsAreTold, SizesAgree, RotateStep
  PROVE  /\ InOrder' /\ GapsAreTold' /\ Waiting' = Waiting
         /\ \A i \in DOMAIN logDir' : InFile(i)' \subseteq 1..logPut
         /\ logDir' \in [DOMAIN logDir' -> Seq(AnyByte)] /\ DOMAIN logDir' \subseteq 0..LogFiles - 1
         /\ From(logRot) \notin DOMAIN logDir' /\ (From(logRot) # 0 => SizeOf(0)' = SizeOf(0))
<1> DEFINE f == From(logRot)
<1>0. /\ UNCHANGED <<logRing, logLost, logChunk, logPut, logGone>> /\ logPut \in Nat
      /\ Waiting' = Waiting /\ LinesIn(logChunk') = LinesIn(logChunk) /\ LinesIn(logRing') = LinesIn(logRing)
      /\ f \in 0..LogFiles - 1 /\ LogFiles \in Nat /\ logRot \in Nat
      /\ DOMAIN logDir \subseteq 0..LogFiles - 1 /\ logDir \in [DOMAIN logDir -> Seq(AnyByte)]
      /\ (logRot = 0 => f = LogFiles - 1) /\ (logRot > 0 => f + 1 \in 0..LogFiles - 1 /\ f + 1 \notin DOMAIN logDir)
      /\ \A i \in DOMAIN logDir : InFile(i) \subseteq 1..logPut
  <2>1. /\ UNCHANGED <<logRing, logLost, logChunk, logPut, logGone>> /\ logPut \in Nat
        /\ logRot \in 0..LogFiles - 1 /\ LogFiles \in 1..8
        /\ DOMAIN logDir \subseteq 0..LogFiles - 1 /\ logDir \in [DOMAIN logDir -> Seq(AnyByte)]
        /\ \A i \in DOMAIN logDir : InFile(i) \subseteq 1..logPut
    BY LogAssumption DEF RotateStep, LogTypes
  <2>2. logRot > 0 => f + 1 \notin DOMAIN logDir
    BY DEF RotateStep, SizesAgree
  <2>3. /\ f \in 0..LogFiles - 1 /\ LogFiles \in Nat /\ logRot \in Nat
        /\ logRot = 0 => f = LogFiles - 1
        /\ logRot > 0 => f + 1 \in 0..LogFiles - 1
    BY <2>1 DEF From
  <2>4. Waiting' = Waiting /\ LinesIn(logChunk') = LinesIn(logChunk) /\ LinesIn(logRing') = LinesIn(logRing)
    BY <2>1 DEF Waiting
  <2> QED BY <2>1, <2>2, <2>3, <2>4
<1> DEFINE src(i) == IF f \in DOMAIN logDir /\ logRot > 0 /\ i = f + 1 THEN f ELSE i
<1>1. /\ logDir' \in [DOMAIN logDir' -> Seq(AnyByte)] /\ DOMAIN logDir' \subseteq 0..LogFiles - 1
      /\ f \notin DOMAIN logDir'
      /\ \A i \in DOMAIN logDir' : src(i) \in DOMAIN logDir /\ logDir'[i] = logDir[src(i)]
      /\ \A j \in DOMAIN logDir : (\E i \in DOMAIN logDir' : j = src(i)) \/ (logRot = 0 /\ j = LogFiles - 1)
      /\ f # 0 => (0 \in DOMAIN logDir' <=> 0 \in DOMAIN logDir)
  <2>0. logDir' = IF f \notin DOMAIN logDir THEN logDir ELSE IF logRot = 0 THEN Gone(f) ELSE Moved(f)
    BY DEF RotateStep
  <2>1. CASE f \notin DOMAIN logDir
    <3>1. logDir' = logDir /\ \A i \in DOMAIN logDir' : src(i) = i
      BY <2>0, <2>1
    <3> QED BY <1>0, <2>1, <3>1
  <2>2. CASE f \in DOMAIN logDir /\ logRot = 0
    <3>1. logDir' = [i \in DOMAIN logDir \ {f} |-> logDir[i]]
      BY <2>0, <2>2 DEF Gone, Restrict
    <3> QED BY <1>0, <2>2, <3>1
  <2>3. CASE f \in DOMAIN logDir /\ logRot > 0
    <3>1. logDir' = [j \in (DOMAIN logDir \ {f}) \cup {f + 1} |-> IF j = f + 1 THEN logDir[f] ELSE logDir[j]]
      BY <1>0, <2>0, <2>3 DEF Moved
    <3>2. /\ DOMAIN logDir' = (DOMAIN logDir \ {f}) \cup {f + 1} /\ f + 1 # f /\ logDir'[f + 1] = logDir[f]
          /\ \A j \in DOMAIN logDir \ {f} : logDir'[j] = logDir[j] /\ j # f + 1
      BY <1>0, <2>3, <3>1
    <3>3. src(f + 1) = f /\ \A j \in DOMAIN logDir \ {f} : src(j) = j
      BY <2>3, <3>2
    <3> HIDE DEF src
    <3> QED BY <1>0, <2>3, <3>1, <3>2, <3>3
  <2> QED BY <1>0, <2>1, <2>2, <2>3
<1>2. ASSUME NEW i \in DOMAIN logDir', NEW j \in DOMAIN logDir', j < i  PROVE src(j) < src(i)
  BY <1>0, <1>1, <1>2
<1>3. \A i \in DOMAIN logDir' : InFile(i)' = InFile(src(i)) /\ src(i) \in DOMAIN logDir
  BY <1>1 DEF InFile
<1> HIDE DEF src, f
<1>4. InOrder'
  <2>1. ASSUME NEW i \in DOMAIN logDir'
        PROVE  /\ Ordered(logDir'[i]) /\ Below(InFile(i)', Waiting')
               /\ \A j \in DOMAIN logDir' : j < i => Below(InFile(i)', InFile(j)')
    BY <1>0, <1>1, <1>2, <1>3 DEF InOrder
  <2> QED BY <1>0, <2>1 DEF InOrder
<1>5. ASSUME NEW l \in 1..logPut
      PROVE  \/ l \in logGone' \/ l \in Waiting' \/ \E i \in DOMAIN logDir' : l \in InFile(i)'
             \/ Below({l}, Waiting') /\ \A i \in DOMAIN logDir' : Below({l}, InFile(i)')
  <2>1. CASE l \in logGone \/ l \in Waiting
    BY <1>0, <2>1
  <2>2. CASE \E j \in DOMAIN logDir : l \in InFile(j)
    <3>1. PICK j \in DOMAIN logDir : l \in InFile(j)
      BY <2>2
    <3>2. CASE \E i \in DOMAIN logDir' : j = src(i)
      BY <1>3, <3>1, <3>2
    <3>3. CASE logRot = 0 /\ j = LogFiles - 1 /\ ~\E i \in DOMAIN logDir' : j = src(i)
      <4>1. ASSUME NEW i \in DOMAIN logDir'  PROVE src(i) < j
        BY <1>0, <1>1, <3>3
      <4> QED BY <1>0, <1>3, <3>1, <4>1 DEF InOrder, Below
    <3> QED BY <1>1, <3>2, <3>3
  <2>3. CASE Below({l}, Waiting) /\ \A i \in DOMAIN logDir : Below({l}, InFile(i))
    BY <1>0, <1>3, <2>3
  <2> QED BY <2>1, <2>2, <2>3 DEF GapsAreTold
<1>6. GapsAreTold'
  <2>1. \A i \in DOMAIN logDir' : \A k \in DOMAIN logDir'[i] : logDir'[i][k].told \cap logGone' = {}
    BY <1>0, <1>1 DEF GapsAreTold
  <2> QED BY <1>0, <1>5, <2>1 DEF GapsAreTold
<1>7. f # 0 => SizeOf(0)' = SizeOf(0)
  <2> SUFFICES ASSUME f # 0  PROVE SizeOf(0)' = SizeOf(0)
    OBVIOUS
  <2>1. src(0) = 0
    BY <1>0 DEF src
  <2> QED BY <1>1, <2>1 DEF SizeOf
<1> QED BY <1>0, <1>1, <1>3, <1>4, <1>6, <1>7 DEF f

(* A device that starts has logged nothing yet.                            *)
LEMMA LogStarts == LogInit => LogInv
<1> SUFFICES ASSUME LogInit  PROVE LogInv
  OBVIOUS
<1>0. /\ logRing = <<>> /\ logChunk = <<>> /\ logDir = <<>> /\ logLost = {}
      /\ logPut = 0 /\ logGone = {} /\ logKnown = FALSE /\ logStep = "idle" /\ logRot = 0 /\ logSize = 0
      /\ logFailed = FALSE
  BY DEF LogInit, NoChunk
<1>1. /\ logRing = <<>> /\ logChunk = <<>> /\ logDir = <<>> /\ DOMAIN logDir = {} /\ logLost = {}
      /\ logPut = 0 /\ logGone = {} /\ ~logKnown /\ logStep = "idle" /\ logRot = 0 /\ logSize = 0
      /\ logKnown \in BOOLEAN /\ logFailed \in BOOLEAN
  <2>1. DOMAIN <<>> = {}
    OBVIOUS
  <2>2. DOMAIN logDir = {}
    BY <1>0, <2>1, Zenon
  <2> QED BY <1>0, <2>2
<1>2. LinesIn(logRing) = {} /\ LinesIn(logChunk) = {} /\ Waiting = {} /\ Ordered(logRing) /\ Ordered(logChunk)
  BY <1>1, NoBytes DEF NoChunk, Waiting
<1>3. LogTypes
  <2>1. <<>> \in Seq(LineByte) /\ <<>> \in Seq(AnyByte)
    OBVIOUS
  <2>2. logDir \in [DOMAIN logDir -> Seq(AnyByte)]
    BY <1>1
  <2>3. 0 \in 0..LogFiles - 1
    BY LogAssumption
  <2> QED BY <1>1, <1>2, <2>1, <2>2, <2>3 DEF LogTypes, NoChunk
<1>4. InOrder /\ GapsAreTold
  BY <1>1, <1>2 DEF InOrder, GapsAreTold, Below
<1>5. SizesAgree
  <2>1. Len(logChunk) = 0 /\ SizeOf(0) = 0
    BY <1>1 DEF SizeOf
  <2> QED BY <1>1, <2>1, LogAssumption DEF SizesAgree
<1> QED BY <1>3, <1>4, <1>5 DEF LogInv

(* Each step of the log keeps the invariant.                               *)
LEMMA LogStepsOn == LogInv /\ [LogNext]_logVars => LogInv'
<1> SUFFICES ASSUME LogInv, [LogNext]_logVars  PROVE LogInv'
  OBVIOUS
<1>1. LogTypes /\ InOrder /\ GapsAreTold /\ SizesAgree
  BY DEF LogInv
<1>2. /\ LogFiles \in 1..8 /\ LogLimit \in Nat /\ ChunkBytes \in Nat /\ ChunkBytes + 1 <= LogLimit
      /\ SizeOf(0) \in Nat /\ Len(logChunk) \in Nat /\ logSize \in Nat
  BY <1>1, LogAssumption DEF LogTypes, SizeOf
<1>3. /\ Untold(0) = LinesIn(logChunk)
      /\ Untold(Len(logChunk)) = {} /\ SubSeq(logChunk, 1, Len(logChunk)) = logChunk
  <2>1. logChunk = SubSeq(logChunk, 1, Len(logChunk)) /\ SubSeq(logChunk, Len(logChunk) + 1, Len(logChunk)) = <<>>
    BY <1>1 DEF LogTypes
  <2>2. 0 + 1 = 1
    OBVIOUS
  <2>3. Untold(0) = LinesIn(logChunk)
    BY <2>1, <2>2, Zenon DEF Untold
  <2> QED BY <2>1, <2>3, NoBytes DEF Untold, NoChunk
(* What every step that leaves the bytes alone keeps.                      *)
<1>4. ASSUME UNCHANGED <<logRing, logLost, logDir, logChunk, logPut, logGone>>
      PROVE  /\ InOrder' /\ GapsAreTold' /\ Waiting' = Waiting /\ SizeOf(0)' = SizeOf(0)
             /\ \A i \in DOMAIN logDir : InFile(i)' = InFile(i)
  <2>1. Waiting' = Waiting /\ SizeOf(0)' = SizeOf(0) /\ \A i \in DOMAIN logDir : InFile(i)' = InFile(i)
    BY <1>4 DEF Waiting, SizeOf, InFile
  <2> QED BY <1>1, <1>4, <2>1 DEF InOrder, GapsAreTold
<1>5. ASSUME NEW size \in LineSizes, PutLine(size)  PROVE LogInv'
  <2>1. /\ UNCHANGED <<logDir, logKnown, logSize, logStep, logRot, logChunk, logGone, logFailed>>
        /\ logPut' \in Nat
    BY <1>1, <1>5 DEF PutLine, LogTypes
  <2>2. LogTypes'
    BY <1>1, <1>5, <2>1, LinePut DEF LogTypes, NoChunk
  <2>3. SizesAgree'
    BY <1>1, <2>1 DEF SizesAgree, SizeOf
  <2> QED BY <1>1, <1>5, <2>2, <2>3, LinePut DEF LogInv
<1>6. CASE TakeChunk
  <2>1. /\ UNCHANGED <<logDir, logKnown, logSize, logRot, logPut, logGone, logFailed>> /\ logStep' = "size"
    BY <1>6 DEF TakeChunk
  <2>2. LogTypes'
    BY <1>1, <1>6, <2>1, ChunkTaken DEF LogTypes, NoChunk
  <2>3. SizesAgree'
    BY <1>1, <1>6, <2>1, ChunkTaken DEF SizesAgree, SizeOf
  <2> QED BY <1>1, <1>6, <2>2, <2>3, ChunkTaken DEF LogInv
<1>7. CASE SizeFound
  <2>1. /\ UNCHANGED <<logRing, logLost, logDir, logChunk, logPut, logGone, logFailed>>
        /\ logStep' = IF Overflows(logSize', Len(logChunk)) THEN "rotate" ELSE "append"
        /\ logSize' = SizeOf(0) /\ logKnown' = TRUE /\ logRot' = 0
    BY <1>1, <1>7 DEF SizeFound, SizesAgree
  <2>2. LogTypes'
    BY <1>1, <1>2, <1>4, <2>1 DEF LogTypes
  <2>3. SizesAgree'
    <3>1. ~logFailed => SizeOf(0) <= LogLimit
      BY <1>1 DEF SizesAgree
    <3>2. logStep' = "append" => SizeOf(0) + Len(logChunk) <= LogLimit
      BY <1>1, <1>2, <2>1 DEF Overflows, SizesAgree
    <3> QED BY <1>1, <1>4, <2>1, <3>1, <3>2 DEF SizesAgree
  <2> QED BY <1>4, <2>1, <2>2, <2>3 DEF LogInv
<1>8. CASE SizeUnknown
  <2>1. /\ UNCHANGED <<logRing, logLost, logRot, logDir, logKnown, logSize, logPut, logFailed>>
        /\ logStep' = "idle" /\ logChunk' = NoChunk /\ logGone' = logGone \cup LinesIn(logChunk)
    BY <1>3, <1>8 DEF SizeUnknown
  <2>2. LogTypes'
    BY <1>1, <2>1, ChunkLost, NoBytes DEF LogTypes
  <2>3. SizesAgree'
    BY <1>1, <1>2, <2>1, NoBytes DEF SizesAgree, SizeOf
  <2> QED BY <1>1, <2>1, <2>2, <2>3, ChunkLost DEF LogInv
<1>9. CASE RotateStep
  <2> DEFINE f == From(logRot)
  <2>1. /\ UNCHANGED <<logRing, logLost, logKnown, logChunk, logPut, logGone>> /\ logStep = "rotate"
        /\ IF logRot = LogFiles - 1
           THEN logStep' = "append" /\ logSize' = 0 /\ logFailed' = FALSE /\ UNCHANGED logRot
           ELSE logRot' = logRot + 1 /\ UNCHANGED <<logStep, logSize, logFailed>>
    BY <1>9 DEF RotateStep
  <2>2. logRot' \in 0..LogFiles - 1 /\ logRot \in 0..LogFiles - 1
    <3>1. logRot \in 0..LogFiles - 1
      BY <1>1 DEF LogTypes
    <3>2. CASE logRot = LogFiles - 1
      BY <2>1, <3>1, <3>2
    <3>3. CASE logRot # LogFiles - 1
      BY <1>2, <2>1, <3>1, <3>3
    <3> QED BY <3>1, <3>2, <3>3
  <2>3. LogTypes'
    <3>1. /\ logDir' \in [DOMAIN logDir' -> Seq(AnyByte)] /\ DOMAIN logDir' \subseteq 0..LogFiles - 1
          /\ Waiting' = Waiting /\ \A i \in DOMAIN logDir' : InFile(i)' \subseteq 1..logPut'
      BY <1>1, <1>9, <2>1, FilesRotated
    <3>2. /\ logKnown' \in BOOLEAN /\ logSize' \in Nat /\ logFailed' \in BOOLEAN
          /\ logStep' \in {"rotate", "append"}
      <4>1. logKnown \in BOOLEAN /\ logFailed \in BOOLEAN
        BY <1>1 DEF LogTypes
      <4>2. CASE logRot = LogFiles - 1
        <5>1. logStep' = "append" /\ logSize' = 0 /\ logFailed' = FALSE /\ logKnown' = logKnown
          BY <2>1, <4>2, Zenon
        <5> QED BY <4>1, <5>1
      <4>3. CASE logRot # LogFiles - 1
        BY <1>2, <2>1, <4>1, <4>3
      <4> QED BY <4>2, <4>3
    <3>3. /\ logRing' \in Seq(LineByte) /\ logChunk' \in Seq(AnyByte) /\ logPut' \in Nat
          /\ logGone' \subseteq 1..logPut' /\ Waiting \subseteq 1..logPut'
      BY <1>1, <2>1 DEF LogTypes
    <3> QED BY <2>2, <3>1, <3>2, <3>3 DEF LogTypes
  <2>4. SizesAgree'
    <3>1. CASE logRot = LogFiles - 1
      <4>1. f = 0
        BY <1>2, <3>1 DEF From
      <4>2. SizeOf(0)' = 0
        BY <1>1, <1>9, <4>1, FilesRotated DEF SizeOf
      <4> QED BY <1>1, <1>2, <2>1, <3>1, <4>2 DEF SizesAgree
    <3>2. CASE logRot # LogFiles - 1
      <4>1. f # 0 /\ From(logRot') + 1 = f /\ logRot' = logRot + 1
        BY <1>2, <2>1, <2>2, <3>2 DEF From
      <4>2. SizeOf(0)' = SizeOf(0) /\ f \notin DOMAIN logDir'
        BY <1>1, <1>9, <4>1, FilesRotated
      <4> QED BY <1>1, <2>1, <3>2, <4>1, <4>2 DEF SizesAgree
    <3> QED BY <3>1, <3>2
  <2> QED BY <1>1, <1>9, <2>3, <2>4, FilesRotated DEF LogInv
<1>10. CASE RotateFails
  <2>1. /\ UNCHANGED <<logRing, logLost, logRot, logDir, logKnown, logSize, logChunk, logPut, logGone>>
        /\ logStep = "rotate" /\ logStep' = "append" /\ logFailed' = TRUE
    BY <1>10 DEF RotateFails
  <2>2. LogTypes'
    BY <1>1, <1>4, <2>1 DEF LogTypes
  <2>3. SizesAgree'
    BY <1>1, <1>4, <2>1 DEF SizesAgree
  <2> QED BY <1>4, <2>1, <2>2, <2>3 DEF LogInv
(* A chunk that is appended whole is one of which all went into the file.  *)
<1>11. ASSUME NEW k \in 0..Len(logChunk), logChunk' = NoChunk, logStep = "append", logStep' = "idle",
              logDir' = Appended(SubSeq(logChunk, 1, k)), logGone' = logGone \cup Untold(k),
              UNCHANGED <<logRing, logLost, logRot, logPut, logFailed>>,
              \/ logKnown' = FALSE /\ logSize' = logSize
              \/ logKnown' = logKnown /\ logSize' = logSize + k
       PROVE  LogInv'
  <2>1. 0 \in 0..LogFiles - 1 /\ k \in Nat
    BY <1>2, <1>11
  <2>2. LogTypes'
    <3>1. /\ logDir' \in [DOMAIN logDir' -> Seq(AnyByte)] /\ DOMAIN logDir' = DOMAIN logDir \cup {0}
          /\ Waiting' \subseteq Waiting /\ logGone' \subseteq 1..logPut'
          /\ \A i \in DOMAIN logDir' : InFile(i)' \subseteq 1..logPut'
      BY <1>1, <1>11, ChunkAppended
    <3>2. /\ logKnown' \in BOOLEAN /\ logSize' \in Nat /\ logFailed' \in BOOLEAN
          /\ logRot' \in 0..LogFiles - 1 /\ DOMAIN logDir \subseteq 0..LogFiles - 1
          /\ logRing' \in Seq(LineByte) /\ logPut' \in Nat /\ Waiting \subseteq 1..logPut'
      <4>1. logKnown \in BOOLEAN /\ logFailed' \in BOOLEAN
        BY <1>1, <1>11 DEF LogTypes
      <4>2. logKnown' \in BOOLEAN
        <5>1. CASE logKnown' = FALSE
          BY <5>1
        <5>2. CASE logKnown' = logKnown
          BY <4>1, <5>2, Zenon
        <5> QED BY <1>11, <5>1, <5>2
      <4>3. logSize' \in Nat
        BY <1>2, <1>11, <2>1
      <4> QED BY <1>1, <1>11, <4>1, <4>2, <4>3 DEF LogTypes
    <3> QED BY <1>11, <2>1, <3>1, <3>2, NoBytes DEF LogTypes
  <2>3. SizesAgree'
    <3>1. SizeOf(0)' = SizeOf(0) + k /\ k <= Len(logChunk)
      BY <1>1, <1>11, ChunkAppended
    <3>2. logKnown' => logSize' = SizeOf(0)'
      <4>1. CASE logKnown' = FALSE
        BY <4>1
      <4>2. CASE logKnown' = logKnown /\ logSize' = logSize + k
        BY <1>1, <3>1, <4>2 DEF SizesAgree
      <4> QED BY <1>11, <4>1, <4>2
    <3>3. ~logFailed' => SizeOf(0)' <= LogLimit
      BY <1>1, <1>2, <1>11, <2>1, <3>1 DEF SizesAgree
    <3> QED BY <1>2, <1>11, <3>2, <3>3, NoBytes DEF SizesAgree
  <2> QED BY <1>1, <1>11, <2>2, <2>3, ChunkAppended DEF LogInv
<1>12. CASE AppendChunk
  <2>1. /\ logChunk' = NoChunk /\ logStep = "append" /\ logStep' = "idle"
        /\ logDir' = Appended(SubSeq(logChunk, 1, Len(logChunk)))
        /\ logGone' = logGone \cup Untold(Len(logChunk)) /\ Len(logChunk) \in 0..Len(logChunk)
        /\ UNCHANGED <<logRing, logLost, logRot, logPut, logFailed>>
        /\ logSize' = logSize + Len(logChunk) /\ logKnown' = logKnown
    <3>1. /\ logChunk' = NoChunk /\ logStep = "append" /\ logStep' = "idle"
          /\ logDir' = Appended(logChunk) /\ logSize' = logSize + Len(logChunk)
          /\ UNCHANGED <<logRing, logLost, logRot, logKnown, logPut, logGone, logFailed>>
      BY <1>12 DEF AppendChunk
    <3>2. Len(logChunk) \in 0..Len(logChunk)
      BY <1>2
    <3>3. Appended(SubSeq(logChunk, 1, Len(logChunk))) = Appended(logChunk)
      BY <1>3, Zenon
    <3> QED BY <1>3, <3>1, <3>2, <3>3
  <2> QED BY <1>11, <2>1
<1>13. ASSUME NEW k \in 0..Len(logChunk), AppendFails(k)  PROVE LogInv'
  <2>1. /\ logChunk' = NoChunk /\ logStep = "append" /\ logStep' = "idle"
        /\ logGone' = logGone \cup Untold(k) /\ logKnown' = FALSE
        /\ UNCHANGED <<logRing, logLost, logRot, logSize, logPut, logFailed>>
        /\ logDir' = IF k = 0 THEN logDir ELSE Appended(SubSeq(logChunk, 1, k))
    BY <1>13 DEF AppendFails, Part
  <2>2. CASE k = 0
    <3>1. UNCHANGED logDir /\ logGone' = logGone \cup LinesIn(logChunk)
      BY <1>3, <2>1, <2>2
    <3>2. LogTypes'
      BY <1>1, <2>1, <3>1, ChunkLost, NoBytes DEF LogTypes
    <3>3. SizesAgree'
      BY <1>1, <1>2, <2>1, <3>1, NoBytes DEF SizesAgree, SizeOf
    <3> QED BY <1>1, <2>1, <3>1, <3>2, <3>3, ChunkLost DEF LogInv
  <2>3. CASE k # 0
    <3>1. logDir' = Appended(SubSeq(logChunk, 1, k))
      BY <2>1, <2>3
    <3>2. UNCHANGED <<logRing, logLost, logRot, logPut, logFailed>>
      BY <2>1
    <3>3. logKnown' = FALSE /\ logSize' = logSize
      BY <2>1
    <3> QED BY <1>11, <2>1, <3>1, <3>2, <3>3, Zenon
  <2> QED BY <2>2, <2>3
<1>14. CASE LogMounted
  <2>1. /\ UNCHANGED <<logRing, logLost, logRot, logDir, logPut>> /\ logStep' = "idle" /\ logChunk' = NoChunk
        /\ logKnown' = FALSE /\ logSize' = 0 /\ logGone' = logGone \cup LinesIn(logChunk)
        /\ logFailed' \in BOOLEAN /\ (logFailed => logFailed')
    BY <1>1, <1>3, <1>14 DEF LogMounted, LogTypes
  <2>2. LogTypes'
    BY <1>1, <2>1, ChunkLost, NoBytes DEF LogTypes
  <2>3. SizesAgree'
    BY <1>1, <1>2, <2>1, NoBytes DEF SizesAgree, SizeOf
  <2> QED BY <1>1, <2>1, <2>2, <2>3, ChunkLost DEF LogInv
<1>15. CASE LogReset
  <2>1. /\ UNCHANGED <<logRot, logDir, logPut>> /\ logStep' = "idle" /\ logChunk' = NoChunk
        /\ logKnown' = FALSE /\ logSize' = 0 /\ logFailed' \in BOOLEAN /\ (logFailed => logFailed')
    BY <1>1, <1>15 DEF LogReset, LogTypes
  <2>2. LogTypes'
    BY <1>1, <1>15, <2>1, RingLost, NoBytes DEF LogTypes
  <2>3. SizesAgree'
    BY <1>1, <1>2, <2>1, NoBytes DEF SizesAgree, SizeOf
  <2> QED BY <1>1, <1>15, <2>2, <2>3, RingLost DEF LogInv
<1>16. CASE UNCHANGED logVars
  BY <1>1, <1>16 DEF logVars, LogInv, LogTypes, InOrder, GapsAreTold, SizesAgree, Waiting, InFile, SizeOf
<1> QED BY <1>5, <1>6, <1>7, <1>8, <1>9, <1>10, <1>12, <1>13, <1>14, <1>15, <1>16 DEF LogNext

(* The invariant says of two bytes of lines that follow one another what   *)
(* the log must tell of the lines between them.                            *)
LEMMA OrderedLogTells == LogInv => LogIsSound
<1> SUFFICES ASSUME LogInv  PROVE LogIsSound
  OBVIOUS
<1>1. LogTypes /\ InOrder /\ GapsAreTold /\ SizesAgree
  BY DEF LogInv
<1>2. LogWithinLimit
  BY <1>1 DEF LogWithinLimit, SizesAgree
(* What two places of the log tell of, one before the other.               *)
<1>3. ASSUME NEW p \in Places
      PROVE  /\ p = <<p[1], p[2]>> /\ p[1] \in DOMAIN logDir /\ p[2] \in DOMAIN logDir[p[1]]
             /\ p[1] \in Nat /\ p[2] \in Nat /\ ByteAt(p) \in AnyByte /\ Tells(ByteAt(p)) \subseteq InFile(p[1])
             /\ InFile(p[1]) \subseteq 1..logPut /\ logPut \in Nat
  <2>1. PICK i \in DOMAIN logDir : p \in {i} \X DOMAIN logDir[i]
    BY DEF Places
  <2>2. p = <<p[1], p[2]>> /\ p[1] = i /\ p[2] \in DOMAIN logDir[i]
    BY <2>1
  <2>3. logDir[i] \in Seq(AnyByte) /\ i \in 0..LogFiles - 1 /\ LogFiles \in 1..8
    BY <1>1, LogAssumption DEF LogTypes
  <2>4. i \in Nat /\ p[2] \in Nat /\ logDir[i][p[2]] \in AnyByte
    BY <2>2, <2>3
  <2>5. Tells(logDir[i][p[2]]) \subseteq InFile(i)
    BY <2>2 DEF InFile, LinesIn
  <2> QED BY <1>1, <2>2, <2>4, <2>5 DEF ByteAt, LogTypes
<1>4. ASSUME NEW p \in Places, NEW q \in Places, Before(p, q)
      PROVE  Follows(ByteAt(p), ByteAt(q))
  <2>1. CASE p[1] > q[1]
    <3>1. Below(InFile(p[1]), InFile(q[1]))
      BY <1>1, <1>3, <2>1 DEF InOrder
    <3> QED BY <1>3, <3>1 DEF Follows, Below
  <2>2. CASE p[1] = q[1] /\ p[2] < q[2]
    BY <1>1, <1>3, <2>2 DEF InOrder, Ordered, ByteAt
  <2> QED BY <1>4, <2>1, <2>2 DEF Before
<1>5. \A b \in AnyByte : /\ b.line # 0 => Tells(b) = {b.line} /\ b.told = {}
                         /\ b.line = 0 => Tells(b) = b.told
                         /\ b.line \in Nat /\ b.told \subseteq Nat \ {0}
  BY DEF AnyByte, LineByte, Tells
<1>6. ASSUME NEW x \in Places, NEW y \in Places, Before(x, y), ByteAt(x).line # 0, ByteAt(y).line # 0,
             \A z \in Places : Before(x, z) /\ Before(z, y) => ByteAt(z).line = 0
      PROVE  LET between == {z \in Places : Before(x, z) /\ Before(z, y)}
                 missing == (ByteAt(x).line + 1)..(ByteAt(y).line - 1)
             IN  /\ ByteAt(x).line <= ByteAt(y).line
                 /\ missing \ logGone = UNION {ByteAt(z).told : z \in between}
                 /\ \A v, w \in between : v # w => ByteAt(v).told \cap ByteAt(w).told = {}
  <2> DEFINE a == ByteAt(x).line
             b == ByteAt(y).line
             between == {z \in Places : Before(x, z) /\ Before(z, y)}
  <2>1. /\ Tells(ByteAt(x)) = {a} /\ Tells(ByteAt(y)) = {b} /\ a \in Nat /\ b \in Nat
        /\ a \in InFile(x[1]) /\ b \in InFile(y[1]) /\ b \in 1..logPut /\ logPut \in Nat
    BY <1>3, <1>5, <1>6
  <2>2. a <= b
    BY <1>4, <1>6, <2>1 DEF Follows
  <2>3. \A z \in between : ByteAt(z).line = 0 /\ Tells(ByteAt(z)) = ByteAt(z).told /\ ByteAt(z).told \subseteq Nat \ {0}
    BY <1>3, <1>5, <1>6
  <2>4. ASSUME NEW z \in between, NEW l \in ByteAt(z).told  PROVE l \in (a + 1)..(b - 1) /\ l \notin logGone
    <3>1. l \in Nat \ {0} /\ l \in Tells(ByteAt(z)) /\ l # ByteAt(z).line
      BY <2>3
    <3>2. Follows(ByteAt(x), ByteAt(z)) /\ Follows(ByteAt(z), ByteAt(y))
      BY <1>4
    <3>3. a < l /\ l < b
      BY <2>1, <3>1, <3>2 DEF Follows
    <3>4. l \notin logGone
      BY <1>1, <1>3 DEF GapsAreTold, ByteAt
    <3> QED BY <2>1, <3>1, <3>3, <3>4
  <2>5. ASSUME NEW l \in (a + 1)..(b - 1), l \notin logGone  PROVE \E z \in between : l \in ByteAt(z).told
    <3>1. l \in Nat /\ a < l /\ l < b /\ l \in 1..logPut
      BY <2>1
    <3>2. l \notin Waiting
      <4>1. Below(InFile(y[1]), Waiting)
        BY <1>1, <1>3 DEF InOrder
      <4>2. l \in Waiting => b < l
        BY <2>1, <4>1 DEF Below
      <4> QED BY <2>1, <3>1, <4>2
    <3>3. ~Below({l}, InFile(x[1])) /\ x[1] \in DOMAIN logDir
      <4>1. Below({l}, InFile(x[1])) => l < a
        BY <2>1 DEF Below
      <4> QED BY <1>3, <2>1, <3>1, <4>1
    <3>4. PICK i \in DOMAIN logDir : l \in InFile(i)
      BY <1>1, <2>5, <3>1, <3>2, <3>3 DEF GapsAreTold
    <3>5. PICK k \in DOMAIN logDir[i] : l \in Tells(logDir[i][k])
      BY <3>4 DEF InFile, LinesIn
    <3> DEFINE z == <<i, k>>
    <3>6. z \in Places /\ z[1] = i /\ z[2] = k /\ l \in Tells(ByteAt(z))
      BY <3>4, <3>5 DEF Places, ByteAt
    <3>7. Before(x, z) /\ Before(z, y)
      <4> HIDE DEF z
      <4>1. \A p, q \in Places : Before(p, q) \/ Before(q, p) \/ p = q
        BY <1>3 DEF Before
      <4>2. ~Before(z, x) /\ z # x
        <5>1. CASE Before(z, x)
          BY <1>4, <2>1, <3>1, <3>6, <5>1 DEF Follows
        <5>2. CASE z = x
          BY <2>1, <3>1, <3>6, <5>2
        <5> QED BY <5>1, <5>2
      <4>3. ~Before(y, z) /\ z # y
        <5>1. CASE Before(y, z)
          <6>1. Follows(ByteAt(y), ByteAt(z))
            BY <1>4, <3>6, <5>1
          <6> QED BY <2>1, <3>1, <3>6, <6>1 DEF Follows
        <5>2. CASE z = y
          BY <2>1, <3>1, <3>6, <5>2
        <5> QED BY <5>1, <5>2
      <4> QED BY <3>6, <4>1, <4>2, <4>3
    <3> HIDE DEF z
    <3>8. z \in between
      BY <3>6, <3>7
    <3> QED BY <2>3, <3>6, <3>8
  <2>6. ASSUME NEW v \in between, NEW w \in between, v # w  PROVE ByteAt(v).told \cap ByteAt(w).told = {}
    <3>1. ASSUME NEW p \in between, NEW q \in between, Before(p, q), NEW l \in ByteAt(p).told
          PROVE  l \notin ByteAt(q).told
      <4>1. l \in Tells(ByteAt(p)) /\ l # ByteAt(p).line /\ l \in Nat /\ Tells(ByteAt(q)) = ByteAt(q).told
        BY <2>3
      <4>2. Follows(ByteAt(p), ByteAt(q))
        BY <1>4, <3>1
      <4> QED BY <4>1, <4>2 DEF Follows
    <3>2. Before(v, w) \/ Before(w, v)
      BY <1>3, <2>6 DEF Before
    <3> QED BY <3>1, <3>2
  <2>7. ((a + 1)..(b - 1)) \ logGone = UNION {ByteAt(z).told : z \in between}
    BY <2>4, <2>5
  <2> QED BY <2>2, <2>6, <2>7
<1>7. LogTellsItsGaps
  BY <1>6 DEF LogTellsItsGaps
<1> QED BY <1>2, <1>7 DEF LogIsSound

(* LogFile: in whatever order lines are logged, chunks taken, files moved  *)
(* and steps fail, over removals and resets, the lines on the card are in  *)
(* the order they were logged, each gap is told of exactly once or was     *)
(* taken by an error, and the sizes hold (storage_log.c, log_rotate.c).    *)
THEOREM LogTellsItsStory == LogInit /\ [][LogNext]_logVars => []LogIsSound
<1>1. LogInit => LogInv
  BY LogStarts
<1>2. LogInv /\ [LogNext]_logVars => LogInv'
  BY LogStepsOn
<1>3. LogInv => LogIsSound
  BY OrderedLogTells
<1> QED BY <1>1, <1>2, <1>3, PTL
=============================================================================
