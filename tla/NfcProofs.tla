----------------------------- MODULE NfcProofs ------------------------------
(***************************************************************************)
(* Proofs about the NFC service, for any tags, length of a message, number *)
(* of requests and limits of errors and misses.                            *)
(*                                                                         *)
(* The argument: the poll machine and the snapshot change together except  *)
(* between finding a tag and reading it; and from the selection to the     *)
(* answer of a write the reader has that write's tag selected or none, as  *)
(* nobody changes a pending write.                                         *)
(***************************************************************************)
EXTENDS NfcService, TLAPS

PollType == [state : {"idle", "present", "recovering"}, uid : SomeTag,
             misses : 0..PollMisses - 1, errors : 0..PollErrors - 1]

(* Where the task is, and what it knows there.                             *)
TaskInPlace ==
  /\ pc \in {"wait", "field", "switch", "serve", "idle", "detect", "poll", "read",
             "write", "page", "dump"}
  /\ pc = "switch" => target \in BOOLEAN
  /\ pc = "read" => poll.state = "present" /\ target = poll.uid
  /\ pc \in {"write", "page"} => write.pending
  /\ pc = "page" => selected \in {NoTag, write.uid}

SnapshotFollows ==
  /\ poll.state = "present" /\ pc # "read" => snap = poll.uid
  /\ poll.state = "recovering" => module = "lost" /\ snap = NoTag

NfcInv == NfcTypeOK /\ TaskInPlace /\ SnapshotFollows

-----------------------------------------------------------------------------
(* nfc_poll_step(): what one poll makes of the machine.                    *)

(* The machine as nfc_poll_init() leaves it.                               *)
LEMMA PollFromScratch == PollInit \in PollType /\ PollInit.state = "idle"
BY NfcAssumption DEF PollInit, PollType, SomeTag

(* A poll that failed: one too many in a row loses the reader, one before  *)
(* changes neither state nor tag.                                          *)
LEMMA PollFailedStep ==
  ASSUME NEW p \in PollType
  PROVE  LET r == PollFailed(p) IN
         /\ r.poll \in PollType /\ r.event \in {"lost", "none"}
         /\ r.event = "lost" => r.poll.state = "recovering"
         /\ r.event = "none" => r.poll.state = p.state /\ r.poll.uid = p.uid
<1>1. CASE p.errors + 1 >= PollErrors
  <2> DEFINE q == [PollInit EXCEPT !.state = "recovering"]
  <2>1. q \in PollType /\ q.state = "recovering"
    BY PollFromScratch DEF PollType
  <2> HIDE DEF q
  <2>2. PollFailed(p) = [poll |-> q, event |-> "lost"]
    BY <1>1 DEF PollFailed, q
  <2> QED BY <2>1, <2>2
<1>2. CASE ~(p.errors + 1 >= PollErrors)
  <2> DEFINE q == [p EXCEPT !.errors = @ + 1]
  <2>1. q \in PollType /\ q.state = p.state /\ q.uid = p.uid
    BY <1>2, NfcAssumption DEF PollType
  <2> HIDE DEF q
  <2>2. PollFailed(p) = [poll |-> q, event |-> "none"]
    BY <1>2 DEF PollFailed, q
  <2> QED BY <2>1, <2>2
<1> QED BY <1>1, <1>2

(* A poll that found a tag: it is reported unless it is the one already    *)
(* there.                                                                  *)
LEMMA PollFoundStep ==
  ASSUME NEW p \in PollType, NEW u \in SomeTag
  PROVE  LET r == PollFound(p, u) IN
         /\ r.poll \in PollType /\ r.event \in {"tag", "none"}
         /\ r.poll.state = "present" /\ r.poll.uid = u
         /\ r.event = "none" => p.state = "present" /\ p.uid = u
BY NfcAssumption DEF PollFound, PollType

(* A poll that found none: the tag has left after some of them, and only   *)
(* then.                                                                   *)
LEMMA PollEmptyStep ==
  ASSUME NEW p \in PollType
  PROVE  LET r == PollEmpty(p) IN
         /\ r.poll \in PollType /\ r.event \in {"left", "none"}
         /\ r.event = "left" => r.poll.state = "idle"
         /\ r.event = "none" => r.poll.state = p.state /\ r.poll.uid = p.uid
<1>1. CASE p.state # "present"
  <2> DEFINE q == [p EXCEPT !.errors = 0]
  <2>1. q \in PollType /\ q.state = p.state /\ q.uid = p.uid
    BY NfcAssumption DEF PollType
  <2> HIDE DEF q
  <2>2. PollEmpty(p) = [poll |-> q, event |-> "none"]
    BY <1>1 DEF PollEmpty, q
  <2> QED BY <2>1, <2>2
<1>2. CASE p.state = "present" /\ p.misses + 1 >= PollMisses
  <2>1. PollEmpty(p) = [poll |-> PollInit, event |-> "left"]
    BY <1>2 DEF PollEmpty
  <2> QED BY <2>1, PollFromScratch
<1>3. CASE p.state = "present" /\ ~(p.misses + 1 >= PollMisses)
  <2>0. p.misses + 1 \in 0..PollMisses - 1 /\ 0 \in 0..PollErrors - 1
    BY <1>3, NfcAssumption DEF PollType
  <2> DEFINE m == p.misses + 1
             q == [p EXCEPT !.errors = 0, !.misses = m]
  <2>1. q \in PollType /\ q.state = p.state /\ q.uid = p.uid
    <3>1. m \in 0..PollMisses - 1
      BY <2>0
    <3> HIDE DEF m
    <3> QED BY <2>0, <3>1 DEF PollType
  <2> HIDE DEF q
  <2>2. PollEmpty(p) = [poll |-> q, event |-> "none"]
    BY <1>3 DEF PollEmpty, q
  <2> QED BY <2>1, <2>2
<1> QED BY <1>1, <1>2, <1>3

-----------------------------------------------------------------------------
(* The steps of the NFC task.                                              *)

(* A step of the task that leaves the machine and the snapshot alone.      *)
LEMMA TaskMoves ==
  ASSUME NfcInv, UNCHANGED <<clientVars, worldVars, poll, snap, selected, mem, module>>,
         pc \notin {"read", "write", "page"},
         pc' \in {"wait", "field", "switch", "serve", "idle", "detect", "poll", "write", "dump"},
         pc' = "switch" => target' \in BOOLEAN,
         pc' = "write" => write.pending,
         field' \in BOOLEAN, recoverDue' \in BOOLEAN, idleMiss' \in 0..IdleMisses - 1,
         page' \in 0..Pages
  PROVE  NfcInv'
<1>1. NfcTypeOK'
  BY DEF NfcInv, NfcTypeOK, clientVars, worldVars
<1>2. TaskInPlace'
  BY DEF TaskInPlace, clientVars
<1>3. SnapshotFollows'
  BY DEF NfcInv, SnapshotFollows
<1> QED BY <1>1, <1>2, <1>3 DEF NfcInv

(* The task wakes, reads the wish, or goes on to poll; the snapshot stays. *)
LEMMA RoutineStep ==
  ASSUME NfcInv, Wake \/ ApplyField \/ ServePolling
  PROVE  NfcInv'
<1>1. /\ UNCHANGED <<clientVars, worldVars, pollVars, snap, selected, mem, module, field, idleMiss>>
      /\ pc \in {"wait", "field", "serve"}
      /\ pc' = "write" => write.pending
      /\ pc' \in {"wait", "field", "switch", "serve", "poll", "write", "dump"}
      /\ page' \in {page, 0} /\ (pc' = "switch" => target' = want)
  BY DEF Wake, ApplyField, ServePolling, At, Goto
<1>2. /\ want \in BOOLEAN /\ field' \in BOOLEAN /\ recoverDue' \in BOOLEAN
      /\ idleMiss' \in 0..IdleMisses - 1 /\ page' \in 0..Pages
      /\ poll' = poll
  BY <1>1, NfcAssumption DEF NfcInv, NfcTypeOK, pollVars
<1> QED BY <1>1, <1>2, TaskMoves

(* The field goes on, or off with a fresh machine and no tag shown.        *)
LEMMA SwitchFieldStep ==
  ASSUME NfcInv, SwitchField
  PROVE  NfcInv'
<1>1. /\ pc = "switch" /\ pc' = "serve"
      /\ UNCHANGED <<clientVars, worldVars, recoverDue, module, idleMiss, page, mem>>
      /\ field' \in {target, field}
      /\ \/ UNCHANGED <<poll, snap, selected>>
         \/ poll' = PollInit /\ snap' = NoTag /\ selected' = NoTag
  BY DEF SwitchField, At, Goto
<1>2. field' \in BOOLEAN /\ NoTag \in SomeTag
  BY <1>1 DEF NfcInv, NfcTypeOK, TaskInPlace, SomeTag
<1>3. NfcTypeOK'
  BY <1>1, <1>2, PollFromScratch DEF NfcInv, NfcTypeOK, PollType, clientVars, worldVars
<1>4. TaskInPlace'
  BY <1>1 DEF TaskInPlace
<1>5. SnapshotFollows'
  BY <1>1, PollFromScratch DEF NfcInv, SnapshotFollows
<1> QED BY <1>3, <1>4, <1>5 DEF NfcInv

(* With no app polling a recovery is given up, and the field goes off for  *)
(* the idle check.                                                         *)
LEMMA ServeIdleStep ==
  ASSUME NfcInv, ServeIdle
  PROVE  NfcInv'
<1>1. /\ pc = "serve" /\ pc' \in {"wait", "idle"} /\ poll' \in {poll, PollInit}
      /\ UNCHANGED <<clientVars, worldVars, recoverDue, module, idleMiss, snap, target, page, selected, mem>>
  BY DEF ServeIdle, At, Goto
<1>2. field' \in BOOLEAN
  BY DEF ServeIdle
<1>3. NfcTypeOK'
  BY <1>1, <1>2, PollFromScratch DEF NfcInv, NfcTypeOK, PollType, clientVars, worldVars
<1>4. TaskInPlace'
  BY <1>1 DEF TaskInPlace
<1>5. SnapshotFollows'
  BY <1>1, PollFromScratch DEF NfcInv, SnapshotFollows
<1> QED BY <1>3, <1>4, <1>5 DEF NfcInv

(* The address answers or not, with the field off.                         *)
LEMMA IdleProbeStep ==
  ASSUME NfcInv, IdleProbe
  PROVE  NfcInv'
<1>1. /\ pc = "idle" /\ pc' \in {"wait", "detect"}
      /\ UNCHANGED <<clientVars, worldVars, pollVars, field, snap, target, page, selected, mem>>
      /\ module' = module \/ (module = "ready" /\ module' = "lost")
  BY DEF IdleProbe, At, Goto
<1>2. idleMiss' \in 0..IdleMisses - 1
  BY NfcAssumption DEF IdleProbe, NfcInv, NfcTypeOK
<1>3. NfcTypeOK'
  BY <1>1, <1>2 DEF NfcInv, NfcTypeOK, clientVars, worldVars, pollVars
<1>4. TaskInPlace'
  BY <1>1 DEF TaskInPlace
<1>5. SnapshotFollows'
  BY <1>1 DEF NfcInv, SnapshotFollows, pollVars
<1> QED BY <1>3, <1>4, <1>5 DEF NfcInv

(* The reader is set up again, or is not there.                            *)
LEMMA DetectStep ==
  ASSUME NfcInv, IdleDetect \/ Redetect
  PROVE  NfcInv'
<1>1. /\ pc \in {"detect", "serve"} /\ pc' = "wait"
      /\ UNCHANGED <<clientVars, worldVars, idleMiss, snap, target, page, selected, mem>>
      /\ \/ module' = "ready" /\ field' = FALSE /\ poll' = PollInit
         \/ UNCHANGED <<module, field, poll>>
  BY DEF IdleDetect, Redetect, Found, At, Goto
<1>2. field' \in BOOLEAN /\ recoverDue' \in BOOLEAN
  BY DEF IdleDetect, Redetect, Found, NfcInv, NfcTypeOK
<1>3. NfcTypeOK'
  BY <1>1, <1>2, PollFromScratch DEF NfcInv, NfcTypeOK, PollType, clientVars, worldVars
<1>4. TaskInPlace'
  BY <1>1 DEF TaskInPlace
<1>5. SnapshotFollows'
  BY <1>1, PollFromScratch DEF NfcInv, SnapshotFollows
<1> QED BY <1>3, <1>4, <1>5 DEF NfcInv

(* poll_once(): the event tells what becomes of the snapshot.              *)
LEMMA PollStep ==
  ASSUME NfcInv, Poll
  PROVE  NfcInv'
<1>0. poll \in PollType /\ tag \in SomeTag /\ NoTag \in SomeTag /\ pc = "poll"
  BY DEF Poll, At, NfcInv, NfcTypeOK, PollType, SomeTag
<1>1. ASSUME NEW r, NEW found \in SomeTag, PollAnswered(r, found),
             r.poll \in PollType, r.event \in {"tag", "left", "lost", "none"},
             r.event = "tag" => r.poll.state = "present" /\ r.poll.uid = found,
             r.event = "left" => r.poll.state = "idle",
             r.event = "lost" => r.poll.state = "recovering",
             r.event = "none" => r.poll.state = poll.state /\ r.poll.uid = poll.uid
      PROVE  NfcInv'
  <2>1. /\ UNCHANGED <<clientVars, worldVars, field, idleMiss, page, mem>>
        /\ poll' = r.poll /\ pc' = (IF r.event = "tag" THEN "read" ELSE "wait")
        /\ target' = (IF r.event = "tag" THEN found ELSE NoTag) /\ selected' = target'
        /\ snap' = (IF r.event \in {"left", "lost"} THEN NoTag ELSE snap)
        /\ module' = (IF r.event = "lost" THEN "lost" ELSE module)
    BY <1>1 DEF PollAnswered, Poll, Goto
  <2>2. recoverDue' \in BOOLEAN
    BY <1>1 DEF PollAnswered
  <2>3. NfcTypeOK'
    BY <1>0, <1>1, <2>1, <2>2 DEF NfcInv, NfcTypeOK, PollType, clientVars, worldVars
  <2>4. TaskInPlace'
    BY <1>1, <2>1 DEF TaskInPlace
  <2>5. SnapshotFollows'
    BY <1>0, <1>1, <2>1 DEF NfcInv, SnapshotFollows
  <2> QED BY <2>3, <2>4, <2>5 DEF NfcInv
<1>2. CASE PollAnswered(PollFound(poll, tag), tag)
  <2> DEFINE r == PollFound(poll, tag)
  <2>1. /\ r.poll \in PollType /\ r.event \in {"tag", "none"}
        /\ r.poll.state = "present" /\ r.poll.uid = tag
        /\ r.event = "none" => poll.state = "present" /\ poll.uid = tag
    BY <1>0, PollFoundStep
  <2>2. PollAnswered(r, tag)
    BY <1>2
  <2> HIDE DEF r
  <2> QED BY <1>0, <1>1, <2>1, <2>2
<1>3. CASE PollAnswered(PollEmpty(poll), NoTag)
  <2> DEFINE r == PollEmpty(poll)
  <2>1. /\ r.poll \in PollType /\ r.event \in {"left", "none"}
        /\ r.event = "left" => r.poll.state = "idle"
        /\ r.event = "none" => r.poll.state = poll.state /\ r.poll.uid = poll.uid
    BY <1>0, PollEmptyStep
  <2>2. PollAnswered(r, NoTag)
    BY <1>3
  <2> HIDE DEF r
  <2> QED BY <1>0, <1>1, <2>1, <2>2
<1>4. CASE PollAnswered(PollFailed(poll), NoTag)
  <2> DEFINE r == PollFailed(poll)
  <2>1. /\ r.poll \in PollType /\ r.event \in {"lost", "none"}
        /\ r.event = "lost" => r.poll.state = "recovering"
        /\ r.event = "none" => r.poll.state = poll.state /\ r.poll.uid = poll.uid
    BY <1>0, PollFailedStep
  <2>2. PollAnswered(r, NoTag)
    BY <1>4
  <2> HIDE DEF r
  <2> QED BY <1>0, <1>1, <2>1, <2>2
<1> QED BY <1>2, <1>3, <1>4 DEF Poll

(* nfc_reader_read(): the tag that was found becomes the snapshot.         *)
LEMMA ReadTagStep ==
  ASSUME NfcInv, ReadTag
  PROVE  NfcInv'
<1>1. /\ pc = "read" /\ pc' = "wait" /\ snap' = target /\ target' = NoTag /\ selected' = NoTag
      /\ UNCHANGED <<clientVars, worldVars, pollVars, module, field, idleMiss, page, mem>>
      /\ poll.state = "present" /\ target = poll.uid
  BY DEF ReadTag, At, Goto, Release, NfcInv, TaskInPlace
<1>2. NoTag \in SomeTag /\ snap' \in SomeTag
  BY <1>1 DEF NfcInv, NfcTypeOK, SomeTag
<1>3. NfcTypeOK'
  BY <1>1, <1>2 DEF NfcInv, NfcTypeOK, clientVars, worldVars, pollVars
<1>4. TaskInPlace'
  BY <1>1 DEF TaskInPlace
<1>5. SnapshotFollows'
  BY <1>1 DEF SnapshotFollows, pollVars
<1> QED BY <1>3, <1>4, <1>5 DEF NfcInv

(* An answered write polls from scratch.                                   *)
LEMMA AnswerStep ==
  ASSUME NfcInv, NEW ok, Answer(ok),
         UNCHANGED <<want, dumping, worldVars, recoverDue, module, field, idleMiss, snap, target>>,
         page' \in 0..Pages, mem' \in [Uids -> [1..Pages -> 0..MaxRequests]]
  PROVE  NfcInv'
<1>1. /\ poll' = PollInit /\ selected' = NoTag /\ pc' = "poll"
      /\ write' = [write EXCEPT !.pending = FALSE]
  BY DEF Answer, Release, Goto
<1>2. /\ write' \in [pending : BOOLEAN, uid : SomeTag, id : 0..MaxRequests]
      /\ NoTag \in SomeTag
  BY <1>1 DEF NfcInv, NfcTypeOK, SomeTag
<1>3. NfcTypeOK'
  BY <1>1, <1>2, PollFromScratch DEF NfcInv, NfcTypeOK, PollType, worldVars
<1>4. TaskInPlace'
  BY <1>1 DEF TaskInPlace
<1>5. SnapshotFollows'
  BY <1>1, PollFromScratch DEF SnapshotFollows
<1> QED BY <1>3, <1>4, <1>5 DEF NfcInv

(* Before a write the tag that answers is selected, and must be the one    *)
(* that was named.                                                         *)
LEMMA WriteSelectStep ==
  ASSUME NfcInv, WriteSelect
  PROVE  NfcInv'
<1>0. /\ pc = "write" /\ write.pending
      /\ UNCHANGED <<want, dumping, worldVars, recoverDue, module, field, idleMiss, snap, target,
                     page, mem>>
  BY DEF WriteSelect, At, NfcInv, TaskInPlace
<1>1. CASE Answer(FALSE)
  BY <1>0, <1>1, AnswerStep DEF NfcInv, NfcTypeOK
<1>2. CASE Reselected(write.uid) /\ selected' = tag /\ Goto("page") /\ UNCHANGED <<write, poll>>
  <2>1. pc' = "page" /\ selected' = tag /\ tag = write.uid /\ UNCHANGED <<write, poll>>
    BY <1>2 DEF Reselected, Goto
  <2>2. NfcTypeOK'
    BY <1>0, <2>1 DEF NfcInv, NfcTypeOK, worldVars
  <2>3. TaskInPlace'
    BY <1>0, <2>1 DEF TaskInPlace
  <2>4. SnapshotFollows'
    BY <1>0, <2>1 DEF NfcInv, SnapshotFollows
  <2> QED BY <2>2, <2>3, <2>4 DEF NfcInv
<1> QED BY <1>1, <1>2 DEF WriteSelect

(* A page goes to the tag that was selected, or to none.                   *)
LEMMA WritePageStep ==
  ASSUME NfcInv, WritePage
  PROVE  NfcInv'
<1>0. /\ pc = "page" /\ write.pending /\ selected \in {NoTag, write.uid} /\ page < Pages
      /\ UNCHANGED <<want, dumping, worldVars, recoverDue, module, field, idleMiss, snap, target>>
  BY DEF WritePage, At, NfcInv, TaskInPlace
<1>1. mem' = mem \/ \E u \in Uids : mem' = [mem EXCEPT ![u][page + 1] = write.id]
  BY DEF WritePage
<1>2. mem' \in [Uids -> [1..Pages -> 0..MaxRequests]]
  <2>1. mem \in [Uids -> [1..Pages -> 0..MaxRequests]] /\ write.id \in 0..MaxRequests
    BY DEF NfcInv, NfcTypeOK
  <2>2. page + 1 \in 1..Pages
    BY <1>0, NfcAssumption DEF NfcInv, NfcTypeOK
  <2>3. ASSUME NEW u \in Uids, mem' = [mem EXCEPT ![u][page + 1] = write.id]
        PROVE  mem' \in [Uids -> [1..Pages -> 0..MaxRequests]]
    BY ONLY <2>1, <2>2, <2>3
  <2> QED BY <1>1, <2>1, <2>3
<1>3. CASE Answer(FALSE) /\ UNCHANGED page
  BY <1>0, <1>2, <1>3, AnswerStep DEF NfcInv, NfcTypeOK
<1>4. CASE page' = page + 1 /\ UNCHANGED <<pc, write, poll, selected>>
  <2>1. page' \in 0..Pages
    BY <1>0, <1>4, NfcAssumption DEF NfcInv, NfcTypeOK
  <2>2. NfcTypeOK'
    BY <1>0, <1>2, <1>4, <2>1 DEF NfcInv, NfcTypeOK, worldVars
  <2>3. TaskInPlace'
    BY <1>0, <1>4 DEF TaskInPlace
  <2>4. SnapshotFollows'
    BY <1>0, <1>4 DEF NfcInv, SnapshotFollows
  <2> QED BY <2>2, <2>3, <2>4 DEF NfcInv
<1> QED BY <1>3, <1>4 DEF WritePage

(* What was written is read again from the tag that was selected.          *)
LEMMA ReadBackStep ==
  ASSUME NfcInv, ReadBack
  PROVE  NfcInv'
<1>1. /\ Answer(Stored(selected)) \/ Answer(FALSE)
      /\ UNCHANGED <<want, dumping, worldVars, recoverDue, module, field, idleMiss, snap, target,
                     page, mem>>
  BY DEF ReadBack
<1>2. page' \in 0..Pages /\ mem' \in [Uids -> [1..Pages -> 0..MaxRequests]]
  BY <1>1 DEF NfcInv, NfcTypeOK
<1> QED BY <1>1, <1>2, AnswerStep

(* A dump reads pages and answers.                                         *)
LEMMA DumpStep ==
  ASSUME NfcInv, Dump
  PROVE  NfcInv'
<1>1. /\ pc = "dump" /\ pc' = "wait" /\ dumping' = FALSE /\ selected' = NoTag /\ target' = NoTag
      /\ UNCHANGED <<want, write, worldVars, pollVars, module, field, idleMiss, snap, page, mem>>
  BY DEF Dump, At, Goto, Release
<1>2. NoTag \in SomeTag
  BY DEF SomeTag
<1>3. NfcTypeOK'
  BY <1>1, <1>2 DEF NfcInv, NfcTypeOK, worldVars, pollVars
<1>4. TaskInPlace'
  BY <1>1 DEF TaskInPlace
<1>5. SnapshotFollows'
  BY <1>1 DEF NfcInv, SnapshotFollows, pollVars
<1> QED BY <1>3, <1>4, <1>5 DEF NfcInv

-----------------------------------------------------------------------------
(* The steps of the others: none moves the task, and none changes a write  *)
(* that is pending.                                                        *)
LEMMA OthersStep ==
  ASSUME NfcInv, UNCHANGED <<poll, module, field, idleMiss, snap, pc, target, page, mem>>,
         want' \in BOOLEAN, dumping' \in BOOLEAN, recoverDue' \in BOOLEAN,
         write' \in [pending : BOOLEAN, uid : SomeTag, id : 0..MaxRequests],
         link' \in {"good", "noisy", "out"}, tag' \in SomeTag, selected' \in {selected, NoTag},
         write.pending => UNCHANGED write
  PROVE  NfcInv'
<1>1. NfcTypeOK'
  BY DEF NfcInv, NfcTypeOK, SomeTag
<1>2. TaskInPlace'
  BY DEF NfcInv, TaskInPlace
<1>3. SnapshotFollows'
  BY DEF NfcInv, SnapshotFollows
<1> QED BY <1>1, <1>2, <1>3 DEF NfcInv

(* stark_nfc_write_ndef() is accepted for a tag on the reader, one at a    *)
(* time.                                                                   *)
LEMMA WriteAsked ==
  ASSUME NfcInv, NEW u \in Uids, WriteNdef(u)
  PROVE  NfcInv'
<1>1. /\ ~write.pending /\ write.id < MaxRequests
      /\ write' = [pending |-> TRUE, uid |-> u, id |-> write.id + 1]
      /\ UNCHANGED <<taskVars, worldVars, want, dumping, selected, mem>>
  BY DEF WriteNdef
<1>2. write.id + 1 \in 0..MaxRequests
  BY <1>1, NfcAssumption DEF NfcInv, NfcTypeOK
<1>3. write' \in [pending : BOOLEAN, uid : SomeTag, id : 0..MaxRequests]
  BY <1>1, <1>2 DEF SomeTag
<1>4. /\ want' \in BOOLEAN /\ dumping' \in BOOLEAN /\ recoverDue' \in BOOLEAN
      /\ link' \in {"good", "noisy", "out"} /\ tag' \in SomeTag /\ selected' = selected
  BY <1>1 DEF NfcInv, NfcTypeOK, taskVars, worldVars, pollVars
<1> QED BY <1>1, <1>3, <1>4, OthersStep DEF taskVars, pollVars

(* What apps, people and the link do touches neither the machine nor the   *)
(* snapshot.                                                               *)
LEMMA OtherSteps ==
  ASSUME NfcInv,
         \/ RecoveryDue \/ StartPolling \/ StopPolling \/ RequestDump
         \/ \E u \in SomeTag : TagMoves(u)
         \/ \E l \in {"good", "noisy", "out"} : LinkChanges(l)
  PROVE  NfcInv'
<1>1. /\ UNCHANGED <<poll, module, field, idleMiss, snap, pc, target, page, mem, write>>
      /\ selected' \in {selected, NoTag}
  BY DEF RecoveryDue, StartPolling, StopPolling, RequestDump, TagMoves, LinkChanges, taskVars,
     clientVars, worldVars, pollVars
<1>2. want' \in BOOLEAN /\ dumping' \in BOOLEAN /\ recoverDue' \in BOOLEAN
  BY DEF RecoveryDue, StartPolling, StopPolling, RequestDump, TagMoves, LinkChanges, taskVars,
     clientVars, worldVars, pollVars, NfcInv, NfcTypeOK
<1>3. link' \in {"good", "noisy", "out"} /\ tag' \in SomeTag
  BY DEF RecoveryDue, StartPolling, StopPolling, RequestDump, TagMoves, LinkChanges, taskVars,
     clientVars, worldVars, pollVars, NfcInv, NfcTypeOK
<1>4. write' \in [pending : BOOLEAN, uid : SomeTag, id : 0..MaxRequests]
  BY <1>1 DEF NfcInv, NfcTypeOK
<1> QED BY <1>1, <1>2, <1>3, <1>4, OthersStep

(* A step that changes nothing.                                            *)
LEMMA NfcStutters ==
  ASSUME NfcInv, UNCHANGED nfcVars
  PROVE  NfcInv'
BY DEF nfcVars, NfcInv, NfcTypeOK, TaskInPlace, SnapshotFollows

-----------------------------------------------------------------------------
(* The service starts with no tag and no field.                            *)
LEMMA NfcStarts == NfcInit => NfcInv
<1> SUFFICES ASSUME NfcInit PROVE NfcInv
  OBVIOUS
<1>1. /\ [u \in Uids |-> [p \in 1..Pages |-> 0]] \in [Uids -> [1..Pages -> 0..MaxRequests]]
      /\ 0 \in 0..IdleMisses - 1 /\ 0 \in 0..Pages /\ 0 \in 0..MaxRequests /\ NoTag \in SomeTag
  BY NfcAssumption DEF SomeTag
<1>2. module \in {"absent", "ready", "lost"}
  BY DEF NfcInit
<1>3. write \in [pending : BOOLEAN, uid : SomeTag, id : 0..MaxRequests]
  BY <1>1 DEF NfcInit
<1>4. NfcTypeOK
  BY <1>1, <1>2, <1>3, PollFromScratch DEF NfcInit, NfcTypeOK, PollType
<1>5. TaskInPlace /\ SnapshotFollows
  BY PollFromScratch DEF NfcInit, TaskInPlace, SnapshotFollows
<1> QED BY <1>4, <1>5 DEF NfcInv

(* The invariant: the NFC task is where its knowledge fits, and what it    *)
(* polls for is what is shown (stark_nfc.c, nfc_task(), poll_once()).      *)
THEOREM NfcInvariant == NfcSpec => []NfcInv
<1>1. ASSUME NfcInv, NfcNext PROVE NfcInv'
  <2>1. CASE Wake \/ ApplyField \/ ServePolling
    BY <1>1, <2>1, RoutineStep
  <2>2. CASE SwitchField \/ ServeIdle \/ IdleProbe
    BY <1>1, <2>2, SwitchFieldStep, ServeIdleStep, IdleProbeStep
  <2>3. CASE IdleDetect \/ Redetect \/ Poll \/ ReadTag
    BY <1>1, <2>3, DetectStep, PollStep, ReadTagStep
  <2>4. CASE WriteSelect \/ WritePage \/ ReadBack \/ Dump
    BY <1>1, <2>4, WriteSelectStep, WritePageStep, ReadBackStep, DumpStep
  <2>5. ASSUME NEW u \in Uids, WriteNdef(u) PROVE NfcInv'
    BY <1>1, <2>5, WriteAsked
  <2>6. CASE \/ RecoveryDue \/ StartPolling \/ StopPolling \/ RequestDump
             \/ \E u \in SomeTag : TagMoves(u)
             \/ \E l \in {"good", "noisy", "out"} : LinkChanges(l)
    BY <1>1, <2>6, OtherSteps
  <2> QED
    BY <1>1, <2>1, <2>2, <2>3, <2>4, <2>5, <2>6 DEF NfcNext, NfcTask
<1>2. NfcInv /\ [NfcNext]_nfcVars => NfcInv'
  BY <1>1, NfcStutters
<1> QED BY <1>2, NfcStarts, PTL DEF NfcSpec

(* The tag the poll machine takes for present is the one the application   *)
(* is shown, and a reader that is being recovered is reported lost with no *)
(* tag shown (stark_nfc.c, poll_once(), field_off()).                      *)
THEOREM SnapshotIsThePolls == NfcSpec => []PollAndSnapshotAgree
<1>1. NfcInv => PollAndSnapshotAgree
  BY DEF NfcInv, SnapshotFollows, PollAndSnapshotAgree
<1> QED BY <1>1, NfcInvariant, PTL

(* However tags and links change between the selection and each page, only *)
(* the tag that the pending write named is ever written (stark_nfc.c,      *)
(* write_once(); stark_nfc.h, "only that tag").                            *)
THEOREM OnlyNamedTagWritten == NfcSpec => OnlyTheNamedTag
<1> DEFINE Named == \A u \in Uids : mem'[u] # mem[u] => write.pending /\ write.uid = u
<1>1. NfcInv /\ [NfcNext]_nfcVars => [Named]_nfcVars
  <2> SUFFICES ASSUME NfcInv, NfcNext, NEW u \in Uids, mem'[u] # mem[u]
               PROVE  write.pending /\ write.uid = u
    OBVIOUS
  <2>1. CASE WritePage
    <3>1. write.pending /\ selected \in {NoTag, write.uid}
      BY <2>1 DEF WritePage, At, NfcInv, TaskInPlace
    <3>2. PICK v \in {selected} \cap Uids : mem' = [mem EXCEPT ![v][page + 1] = write.id]
      BY <2>1 DEF WritePage
    <3>3. v = u
      BY <3>2 DEF NfcInv, NfcTypeOK
    <3> QED BY <3>1, <3>2, <3>3, NfcAssumption
  <2>2. CASE UNCHANGED mem
    BY <2>2
  <2> QED
    BY <2>1, <2>2 DEF NfcNext, NfcTask, Wake, ApplyField, SwitchField, ServeIdle, IdleProbe, IdleDetect,
       Redetect, ServePolling, Poll, ReadTag, WriteSelect, ReadBack, Dump, RecoveryDue, StartPolling,
       StopPolling, RequestDump, WriteNdef, TagMoves, LinkChanges
<1> QED BY <1>1, NfcInvariant, PTL DEF NfcSpec, OnlyTheNamedTag

(* A write is reported done only when every page of its message is on the  *)
(* tag it named, although pages may be acknowledged and not stored         *)
(* (stark_nfc.c, write_once(); ndef_io.c, the read-back).                  *)
THEOREM DoneWritesAreStored == NfcSpec => DoneMeansStored
<1> DEFINE Done == event' = "write_done" => Stored(write.uid)
<1>1. NfcInv /\ [NfcNext]_nfcVars => [Done]_nfcVars
  <2> SUFFICES ASSUME NfcInv, NfcNext, event' = "write_done"
               PROVE  Stored(write.uid)
    OBVIOUS
  <2>1. CASE ReadBack
    <3>1. ~Answer(FALSE)
      BY DEF Answer, Publish
    <3>2. Exchanged /\ Answer(Stored(selected))
      BY <2>1, <3>1 DEF ReadBack
    <3>3. Stored(selected)
      BY <3>2 DEF Answer, Publish
    <3>4. selected = write.uid
      BY <2>1, <3>2 DEF ReadBack, At, Exchanged, NfcInv, TaskInPlace
    <3> QED BY <3>3, <3>4
  <2>2. ~Quiet
    BY DEF Quiet, Publish
  <2>3. ~Answer(FALSE)
    BY DEF Answer, Publish
  <2>4. ASSUME NEW r, NEW found PROVE ~PollAnswered(r, found)
    BY DEF PollAnswered, Publish
  <2>5. ~ReadTag /\ ~Dump /\ ~Found
    BY DEF ReadTag, Dump, Found, Publish
  <2>6. ~IdleProbe
    BY <2>2 DEF IdleProbe, Publish
  <2> QED
    BY <2>1, <2>2, <2>3, <2>4, <2>5, <2>6 DEF NfcNext, NfcTask, Wake, ApplyField, SwitchField, ServeIdle,
       IdleDetect, Redetect, ServePolling, Poll, WriteSelect, WritePage, RecoveryDue, StartPolling,
       StopPolling, RequestDump, WriteNdef, TagMoves, LinkChanges
<1> QED BY <1>1, NfcInvariant, PTL DEF NfcSpec, DoneMeansStored

=============================================================================
