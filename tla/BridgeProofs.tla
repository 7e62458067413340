---------------------------- MODULE BridgeProofs ----------------------------
(***************************************************************************)
(* Discovery, conflicts and the way of a capability to the launcher, for   *)
(* any number of slots, any contents and hashes.                           *)
(*                                                                         *)
(* The argument: what conflicts and what is withheld depend only on the    *)
(* entries and on which of them are valid.  Only a change that a round     *)
(* notes touches these, and the round recomputes before it ends; every     *)
(* other step keeps them.  A change of the capabilities is noted by the    *)
(* task that made it until it has published it.                            *)
(***************************************************************************)
EXTENDS ModuleBridge, ModuleProofs

(* The hash tells the contents apart, and a hash is not taken for none.    *)
NoCollisions ==
  \A c, d \in Contents : Hash[c] # None /\ (Hash[c] = Hash[d] => c = d)

(* What a slot tells of its last poll.                                     *)
NotedOK(slot, last) ==
  /\ slot.state = "absent" => slot.entry = None
  /\ slot.misses # 0 => last = "miss"
  /\ slot.seen # None => last \in Contents /\ slot.seen = Hash[last]

ConflictsResolved ==
  /\ \A s \in Slots : table[s].state = "conflict" <=> Rivals(table, s) # {}
  /\ caps = Effective(confirmed, table)

BridgeTypes ==
  /\ nfc \in [pc : {"idle", "publish"}, ready : BOOLEAN]
  /\ main \in [pc : {"ir", "publish_ir", "read", "confirm", "publish_nfc", "done"}, word : BOOLEAN]
  /\ ui \in [pc : {"idle", "confirm", "publish"}, word : BOOLEAN]
  /\ bootRounds \in Nat

(* Before the main task has given its word on IR, nobody has.              *)
IrUnconfirmed ==
  /\ bootRounds # 0 => main.pc = "ir"
  /\ main.pc = "ir" => "ir" \notin confirmed \cup caps

(* Whoever has changed the capabilities has yet to publish it, unless the  *)
(* launcher has them or an event is on its way.                            *)
ChangeIsOnItsWay ==
  \/ launcher = caps
  \/ "module" \in events
  \/ main.pc \in {"ir", "publish_ir", "publish_nfc"}
  \/ ui.pc = "publish"
  \/ poll.changed /\ bootRounds = 0

(* The table, while a round that changed nothing so far goes on and when   *)
(* one that changed something has recomputed.                              *)
TableInv ==
  /\ IInv
  /\ poll.pc = "recompute" => poll.changed
  /\ \A s \in Slots : NotedOK(table[s], lastPoll[s])
  /\ ~poll.changed \/ poll.pc = "end" => ConflictsResolved

BridgeInv ==
  /\ TableInv
  /\ BridgeTypes
  /\ IrUnconfirmed
  /\ IrFitted => ChangeIsOnItsWay

-----------------------------------------------------------------------------
(* Two tables with the same modules.                                       *)

SameModules(a, b) ==
  \A s \in Slots : a[s].entry = b[s].entry /\ (Valid(a[s]) <=> Valid(b[s]))

(* resolve_conflicts() and the mask of withheld bits look at nothing else. *)
LEMMA SameConflicts ==
  ASSUME NEW a, NEW b, SameModules(a, b)
  PROVE  /\ \A s \in Slots : Rivals(a, s) = Rivals(b, s)
         /\ \A conf : Effective(conf, a) = Effective(conf, b)
<1>1. ASSUME NEW s \in Slots PROVE Declared(a[s]) = Declared(b[s])
  BY <1>1 DEF SameModules, Declared
<1>2. ASSUME NEW s \in Slots, NEW t \in Slots PROVE Overlap(a[s], a[t]) <=> Overlap(b[s], b[t])
  <2>1. /\ a[s].entry = b[s].entry /\ a[t].entry = b[t].entry
        /\ Declared(a[s]) = Declared(b[s]) /\ Declared(a[t]) = Declared(b[t])
        /\ (Valid(a[s]) <=> Valid(b[s])) /\ (Valid(a[t]) <=> Valid(b[t]))
    BY <1>1 DEF SameModules
  <2> QED BY <2>1 DEF Overlap
<1>3. ASSUME NEW s \in Slots PROVE Rivals(a, s) = Rivals(b, s)
  BY <1>2, <1>3 DEF Rivals
<1>4. Withheld(a) = Withheld(b)
  <2>1. ASSUME NEW s \in Slots, NEW t \in {s} \cup Rivals(a, s)
        PROVE  Declared(a[t]) = Declared(b[t])
    BY <1>1 DEF Rivals
  <2> QED BY <1>3, <2>1 DEF Withheld
<1> QED BY <1>3, <1>4 DEF Effective

(* What resolve_conflicts() makes of a slot.                               *)
LEMMA ResolvedFields ==
  ASSUME NEW tbl \in [Slots -> Slot], NEW s \in Slots
  PROVE  LET new == Resolved(tbl)[s]
         IN  /\ new.entry = tbl[s].entry /\ new.misses = tbl[s].misses /\ new.seen = tbl[s].seen
             /\ Rivals(tbl, s) # {} => new.state = "conflict" /\ Valid(tbl[s])
             /\ Rivals(tbl, s) = {} /\ Valid(tbl[s]) => new.state = "known"
             /\ Rivals(tbl, s) = {} /\ ~Valid(tbl[s]) => new.state = tbl[s].state
<1>0. tbl[s] \in Slot
  OBVIOUS
<1>1. CASE Rivals(tbl, s) # {}
  <2> DEFINE k == Cardinality(Rivals(tbl, s))
  <2>1. Resolved(tbl)[s] = [tbl[s] EXCEPT !.state = "conflict", !.owner = None, !.claimed = {},
                                          !.gen = @ + k]
    BY <1>1 DEF Resolved
  <2>2. Valid(tbl[s])
    BY <1>1 DEF Rivals, Overlap
  <2> HIDE DEF k
  <2> QED BY <1>0, <1>1, <2>1, <2>2 DEF Slot
<1>2. CASE Rivals(tbl, s) = {} /\ Valid(tbl[s])
  <2>1. Resolved(tbl)[s] = [tbl[s] EXCEPT !.state = "known"]
    BY <1>2 DEF Resolved
  <2> QED BY <1>0, <1>2, <2>1 DEF Slot
<1>3. CASE Rivals(tbl, s) = {} /\ ~Valid(tbl[s])
  <2>1. Resolved(tbl)[s] = tbl[s]
    BY <1>3 DEF Resolved
  <2> QED BY <1>3, <2>1
<1> QED BY <1>1, <1>2, <1>3

(* After recompute() conflicts are marked exactly, and what the slots tell *)
(* of their polls is as it was.                                            *)
LEMMA RecomputeResolves ==
  ASSUME NEW conf, table \in [Slots -> Slot], Recompute(conf)
  PROVE  /\ \A s \in Slots : table'[s].state = "conflict" <=> Rivals(table', s) # {}
         /\ caps' = Effective(conf, table')
         /\ \A s \in Slots : table'[s].entry = table[s].entry
              /\ (table'[s].state = "absent" <=> table[s].state = "absent")
         /\ \A s \in Slots : \A last : NotedOK(table[s], last) => NotedOK(table'[s], last)
<1>1. table' = Resolved(table) /\ caps' = Effective(conf, table)
  BY DEF Recompute
<1>2. ASSUME NEW s \in Slots
      PROVE  /\ table'[s].entry = table[s].entry
             /\ table'[s].misses = table[s].misses /\ table'[s].seen = table[s].seen
             /\ Rivals(table, s) # {} => table'[s].state = "conflict" /\ Valid(table[s])
             /\ Rivals(table, s) = {} /\ Valid(table[s]) => table'[s].state = "known"
             /\ Rivals(table, s) = {} /\ ~Valid(table[s]) => table'[s].state = table[s].state
  BY <1>1, ResolvedFields
<1>3. SameModules(table, table')
  BY <1>2 DEF SameModules, Valid
<1>4. /\ \A s \in Slots : Rivals(table, s) = Rivals(table', s)
      /\ Effective(conf, table) = Effective(conf, table')
  BY <1>3, SameConflicts
<1>5. ASSUME NEW s \in Slots PROVE table'[s].state = "conflict" <=> Rivals(table', s) # {}
  BY <1>2, <1>4 DEF Valid
<1>6. ASSUME NEW s \in Slots PROVE table'[s].state = "absent" <=> table[s].state = "absent"
  BY <1>2 DEF Valid
<1>7. ASSUME NEW s \in Slots, NEW last, NotedOK(table[s], last) PROVE NotedOK(table'[s], last)
  BY <1>2, <1>6, <1>7 DEF NotedOK
<1> QED BY <1>1, <1>2, <1>4, <1>5, <1>6, <1>7

-----------------------------------------------------------------------------
(* One poll of a slot.                                                     *)

(* What apply() leaves of an entry it changes is what it noted.            *)
LEMMA AcceptFields ==
  ASSUME NEW slot \in Slot, NEW c \in Contents
  PROVE  LET new == Accept(slot, c)
         IN  new.misses = slot.misses /\ new.seen = slot.seen /\ new.state # "absent"
<1>1. CASE ~Parse[c].ok
  BY <1>1 DEF Accept, MakeGeneric, Slot
<1>2. CASE Parse[c].ok
  <2> DEFINE st == IF Supported(Parse[c].caps) THEN "known" ELSE "generic"
  <2>1. Accept(slot, c) = [slot EXCEPT !.state = st, !.entry = c] /\ st # "absent"
    BY <1>2 DEF Accept
  <2> HIDE DEF st
  <2> QED BY <2>1 DEF Slot
<1> QED BY <1>1, <1>2

(* The entry is another one, or none any more.                             *)
EntryChanged(old, new) ==
  new.entry # old.entry \/ (new.state = "absent" /\ old.state # "absent")

(* apply(): the slot tells of this poll what it told of the last one, and  *)
(* its entry changes only on two polls that agree.                         *)
LEMMA PolledNotes ==
  ASSUME NEW slot \in Slot, NEW result \in Contents \cup {"miss", "error"},
         NEW last, NotedOK(slot, last)
  PROVE  LET new == Polled(slot, result).slot
         IN  /\ NotedOK(new, result)
             /\ NoCollisions /\ EntryChanged(slot, new) => last = result
<1>1. CASE result = "miss"
  <2> DEFINE counted == [slot EXCEPT !.seen = None, !.errors = 0,
                                     !.misses = IF @ < MissLimit THEN @ + 1 ELSE @]
             cleared == ClearEntry([counted EXCEPT !.accepted = None])
  <2>1. /\ counted.state = slot.state /\ counted.entry = slot.entry /\ counted.seen = None
        /\ counted.misses >= MissLimit => slot.misses # 0
    BY DEF Slot, MissLimit
  <2>2. cleared.state = "absent" /\ cleared.entry = None /\ cleared.seen = None
    BY DEF ClearEntry, Slot
  <2>3. Polled(slot, result) = IF counted.misses < MissLimit \/ slot.state = "absent"
                               THEN [slot |-> counted, changed |-> FALSE]
                               ELSE [slot |-> cleared, changed |-> TRUE]
    BY <1>1 DEF Polled, Missed
  <2>4. counted.misses \in Nat
    BY DEF Slot, MissLimit
  <2> HIDE DEF counted, cleared
  <2>5. CASE counted.misses < MissLimit \/ slot.state = "absent"
    <3>1. Polled(slot, result).slot = counted
      BY <2>3, <2>5
    <3> QED BY <1>1, <2>1, <3>1 DEF NotedOK, EntryChanged
  <2>6. CASE ~(counted.misses < MissLimit \/ slot.state = "absent")
    <3>1. Polled(slot, result).slot = cleared /\ slot.misses # 0
      BY <2>1, <2>3, <2>4, <2>6 DEF MissLimit
    <3> QED BY <1>1, <2>2, <3>1 DEF NotedOK, EntryChanged
  <2> QED BY <2>5, <2>6
<1>2. CASE result = "error" /\ result # "miss"
  <2> DEFINE counted == [slot EXCEPT !.misses = 0, !.seen = None,
                                     !.errors = IF @ < ReadLimit THEN @ + 1 ELSE @]
             generic == MakeGeneric(counted)
  <2>1. /\ counted.state = slot.state /\ counted.entry = slot.entry
        /\ counted.seen = None /\ counted.misses = 0
    BY DEF Slot
  <2>2. generic.state = "generic" /\ generic.entry = None /\ generic.seen = None /\ generic.misses = 0
    BY DEF MakeGeneric, Slot
  <2>3. Polled(slot, result) = IF slot.state # "absent" \/ counted.errors < ReadLimit
                               THEN [slot |-> counted, changed |-> FALSE]
                               ELSE [slot |-> generic, changed |-> TRUE]
    BY <1>2 DEF Polled, ReadFailed
  <2> HIDE DEF counted, generic
  <2>4. CASE slot.state # "absent" \/ counted.errors < ReadLimit
    <3>1. Polled(slot, result).slot = counted
      BY <2>3, <2>4
    <3> QED BY <2>1, <3>1 DEF NotedOK, EntryChanged
  <2>5. CASE ~(slot.state # "absent" \/ counted.errors < ReadLimit)
    <3>1. Polled(slot, result).slot = generic
      BY <2>3, <2>5
    <3> QED BY <2>2, <2>5, <3>1 DEF NotedOK, EntryChanged
  <2> QED BY <2>4, <2>5
<1>3. CASE result \in Contents /\ result \notin {"miss", "error"}
  <2> DEFINE h == Hash[result]
             noted == [slot EXCEPT !.misses = 0, !.errors = 0, !.seen = h]
             taken == [noted EXCEPT !.accepted = h]
  <2>0. h \in Hashes /\ 0 \in 0..MissLimit /\ 0 \in 0..ReadLimit
    BY <1>3 DEF Hashes, MissLimit, ReadLimit
  <2> HIDE DEF h
  <2>1. /\ noted.state = slot.state /\ noted.entry = slot.entry
        /\ noted.seen = h /\ noted.misses = 0
    BY DEF Slot
  <2>2. taken \in Slot /\ taken.seen = h /\ taken.misses = 0
    <3>1. noted \in Slot
      BY <2>0, CountersKeep DEF Kept
    <3>2. taken \in Slot
      <4> HIDE DEF noted
      <4> QED BY <2>0, <3>1, FieldsOK
    <3> QED BY <3>2 DEF Slot
  <2>3. Polled(slot, result) = IF slot.seen # h \/ slot.accepted = h
                               THEN [slot |-> noted, changed |-> FALSE]
                               ELSE [slot |-> Accept(taken, result), changed |-> TRUE]
    BY <1>3 DEF Polled, ReadBack, h
  <2> HIDE DEF noted, taken
  <2>4. CASE slot.seen # h \/ slot.accepted = h
    <3>1. Polled(slot, result).slot = noted
      BY <2>3, <2>4
    <3> QED BY <1>3, <2>1, <3>1 DEF NotedOK, EntryChanged, h
  <2>5. CASE ~(slot.seen # h \/ slot.accepted = h)
    <3>1. Polled(slot, result).slot = Accept(taken, result) /\ slot.seen = h
      BY <2>3, <2>5
    <3>2. NoCollisions => last = result
      BY <1>3, <3>1 DEF NotedOK, NoCollisions, h
    <3>3. /\ Accept(taken, result).seen = h /\ Accept(taken, result).misses = 0
          /\ Accept(taken, result).state # "absent"
      BY <1>3, <2>2, AcceptFields
    <3> QED BY <1>3, <3>1, <3>2, <3>3 DEF NotedOK, EntryChanged, h
  <2> QED BY <2>4, <2>5
<1> QED BY <1>1, <1>2, <1>3

-----------------------------------------------------------------------------
(* The steps of the table.                                                 *)

(* Every entry that the step changes was polled the same twice.            *)
TwoPollsAgree ==
  \A s \in Slots : EntryChanged(table[s], table'[s]) => lastPoll[s] = poll.result

(* A poll's result goes into one slot; entries that change leave a         *)
(* recomputation to be made.                                               *)
LEMMA ApplyStep ==
  ASSUME TableInv, Apply
  PROVE  TableInv' /\ UNCHANGED caps /\ (poll.changed => poll'.changed)
         /\ (NoCollisions => TwoPollsAgree)
<1> DEFINE s == poll.slot
           step == Polled(table[s], poll.result)
           new == IF step.changed THEN Revoked(step.slot) ELSE step.slot
<1>1. IInv'
  BY NextIInv DEF Next, TableInv
<1>2. /\ s \in Slots /\ table \in [Slots -> Slot] /\ poll.result \in Contents \cup {"miss", "error"}
      /\ table[s] \in Slot /\ NotedOK(table[s], lastPoll[s]) /\ poll.changed \in BOOLEAN
      /\ lastPoll \in [Slots -> Contents \cup {None, "miss", "error"}]
  BY DEF TableInv, IInv, ModulesTypeOK, Apply
<1>3. /\ NotedOK(step.slot, poll.result)
      /\ NoCollisions /\ EntryChanged(table[s], step.slot) => lastPoll[s] = poll.result
  BY <1>2, PolledNotes
<1>4. /\ step.changed \in BOOLEAN
      /\ step.changed => step.slot \in Slot
      /\ ~step.changed => Kept(table[s], step.slot)
  BY <1>2, PolledOK DEF Changed
<1>5. /\ table' = [table EXCEPT ![s] = new]
      /\ lastPoll' = [lastPoll EXCEPT ![s] = poll.result]
      /\ poll' = NextPoll(poll.changed \/ step.changed)
      /\ UNCHANGED <<confirmed, caps>>
  BY DEF Apply
<1>6. (poll'.changed <=> poll.changed \/ step.changed) /\ (poll'.changed => poll'.pc # "end")
      /\ (poll'.pc = "recompute" => poll'.changed)
  <2> HIDE DEF step
  <2> QED BY <1>2, <1>4, <1>5, ModulesConstantsOK DEF NextPoll, Slots
<1>7. NotedOK(new, poll.result) /\ (EntryChanged(table[s], new) => EntryChanged(table[s], step.slot))
  <2> HIDE DEF step
  <2>1. CASE step.changed
    <3> DEFINE k == 1
               r == [step.slot EXCEPT !.gen = @ + k, !.owner = None, !.claimed = {}]
    <3>1. /\ Revoked(step.slot).state = step.slot.state /\ Revoked(step.slot).entry = step.slot.entry
          /\ Revoked(step.slot).misses = step.slot.misses /\ Revoked(step.slot).seen = step.slot.seen
      BY <1>4, <2>1 DEF Revoked, Slot
    <3> QED BY <1>3, <2>1, <3>1 DEF NotedOK, EntryChanged
  <2>2. CASE ~step.changed
    BY <1>3, <2>2
  <2> QED BY <1>4, <2>1, <2>2
<1>8. ~poll'.changed => \A t \in Slots :
        /\ table'[t].entry = table[t].entry /\ table'[t].state = table[t].state
  <2> SUFFICES ASSUME ~poll'.changed, NEW t \in Slots
               PROVE  table'[t].entry = table[t].entry /\ table'[t].state = table[t].state
    OBVIOUS
  <2> HIDE DEF step
  <2>1. new = step.slot /\ Kept(table[s], step.slot)
    BY <1>4, <1>6
  <2> HIDE DEF new
  <2>2. CASE t = s
    BY <1>2, <1>5, <2>1, <2>2 DEF Kept
  <2>3. CASE t # s
    BY <1>2, <1>5, <2>3
  <2> QED BY <2>2, <2>3
<1> HIDE DEF new, step
<1>9. ASSUME NEW t \in Slots
      PROVE  /\ NotedOK(table'[t], lastPoll'[t])
             /\ NoCollisions /\ EntryChanged(table[t], table'[t]) => lastPoll[t] = poll.result
  <2>1. CASE t = s
    BY <1>2, <1>3, <1>5, <1>7, <2>1
  <2>2. CASE t # s
    <3>1. table'[t] = table[t] /\ lastPoll'[t] = lastPoll[t]
      BY <1>2, <1>5, <2>2
    <3> QED BY <3>1 DEF TableInv, EntryChanged
  <2> QED BY <2>1, <2>2
<1>10. ~poll'.changed \/ poll'.pc = "end" => ConflictsResolved'
  <2> SUFFICES ASSUME ~poll'.changed PROVE ConflictsResolved'
    BY <1>6
  <2>1. ConflictsResolved
    BY <1>6 DEF TableInv
  <2>2. SameModules(table, table')
    BY <1>8 DEF SameModules, Valid
  <2>3. /\ \A t \in Slots : Rivals(table, t) = Rivals(table', t)
        /\ Effective(confirmed, table) = Effective(confirmed, table')
    BY <2>2, SameConflicts
  <2> QED BY <1>5, <1>8, <2>1, <2>3 DEF ConflictsResolved
<1> QED BY <1>1, <1>5, <1>6, <1>9, <1>10 DEF TableInv, TwoPollsAgree

(* recompute() resolves all conflicts at the end of a round.               *)
LEMMA RecomputeRoundStep ==
  ASSUME TableInv, RecomputeRound
  PROVE  TableInv' /\ caps' \subseteq confirmed /\ TwoPollsAgree
<1>1. IInv'
  BY NextIInv DEF Next, TableInv
<1>2. table \in [Slots -> Slot] /\ Recompute(confirmed) /\ UNCHANGED <<confirmed, lastPoll>>
  BY DEF RecomputeRound, TableInv, IInv, ModulesTypeOK
<1>3. /\ \A s \in Slots : table'[s].state = "conflict" <=> Rivals(table', s) # {}
      /\ caps' = Effective(confirmed, table')
      /\ \A s \in Slots : table'[s].entry = table[s].entry
           /\ (table'[s].state = "absent" <=> table[s].state = "absent")
      /\ \A s \in Slots : \A last : NotedOK(table[s], last) => NotedOK(table'[s], last)
  BY <1>2, RecomputeResolves
<1>4. ConflictsResolved'
  BY <1>2, <1>3 DEF ConflictsResolved
<1>5. \A s \in Slots : NotedOK(table'[s], lastPoll'[s])
  BY <1>2, <1>3 DEF TableInv
<1>6. caps' \subseteq confirmed
  BY <1>3 DEF Effective
<1>7. poll'.pc = "end"
  BY DEF RecomputeRound, TableInv, IInv, ModulesTypeOK
<1> QED BY <1>1, <1>3, <1>4, <1>5, <1>6, <1>7 DEF TableInv, TwoPollsAgree, EntryChanged

(* A driver's word recomputes as a round does, in the middle of one too.   *)
LEMMA ConfirmStep ==
  ASSUME TableInv, NEW cs \in SUBSET Caps, NEW present \in BOOLEAN, Confirm(cs, present)
  PROVE  /\ TableInv' /\ TwoPollsAgree /\ UNCHANGED poll
         /\ confirmed' = IF present THEN confirmed \cup cs ELSE confirmed \ cs
         /\ caps' = Effective(confirmed', table)
<1>1. /\ Recompute(confirmed') /\ UNCHANGED <<slotVars, pollVars, leaseVars>>
      /\ confirmed' = IF present THEN confirmed \cup cs ELSE confirmed \ cs
  BY DEF Confirm
<1>2. confirmed' \in SUBSET Caps /\ table \in [Slots -> Slot]
  BY <1>1 DEF TableInv, IInv, ModulesTypeOK
<1>3. /\ \A s \in Slots : table'[s].state = "conflict" <=> Rivals(table', s) # {}
      /\ caps' = Effective(confirmed', table')
      /\ \A s \in Slots : table'[s].entry = table[s].entry
           /\ (table'[s].state = "absent" <=> table[s].state = "absent")
      /\ \A s \in Slots : \A last : NotedOK(table[s], last) => NotedOK(table'[s], last)
  BY <1>1, <1>2, RecomputeResolves
<1>4. /\ table' \in [Slots -> Slot] /\ caps' \subseteq Caps
      /\ \A s \in Slots : SlotOK(table'[s]) /\ SlotStep(table[s], table'[s])
  BY <1>1, <1>2, RecomputeIInv DEF TableInv
<1>5. \A d \in Drivers : lease[d].slot \in Slots => LeaseOK(lease[d], d, table'[lease[d].slot])
  BY <1>4, LeasesKept DEF TableInv
<1>6. IInv'
  <2>1. ModulesTypeOK'
    BY <1>1, <1>2, <1>4 DEF TableInv, IInv, ModulesTypeOK, slotVars, pollVars, leaseVars
  <2> QED BY <1>1, <1>4, <1>5, <2>1 DEF TableInv, IInv, pollVars, leaseVars
<1>7. ConflictsResolved'
  BY <1>3 DEF ConflictsResolved
<1>8. \A s \in Slots : NotedOK(table'[s], lastPoll'[s])
  BY <1>1, <1>3 DEF TableInv, pollVars
<1>9. caps' = Effective(confirmed', table)
  BY <1>1 DEF Recompute
<1> QED BY <1>1, <1>3, <1>6, <1>7, <1>8, <1>9 DEF TableInv, TwoPollsAgree, EntryChanged, pollVars

(* The other steps leave the table, the capabilities and the polls alone.  *)
LEMMA TableKept ==
  ASSUME TableInv, IInv', UNCHANGED <<table, confirmed, caps, lastPoll>>,
         (~poll'.changed \/ poll'.pc = "end") => (~poll.changed \/ poll.pc = "end"),
         poll'.pc = "recompute" => poll'.changed
  PROVE  TableInv' /\ TwoPollsAgree
<1>1. ConflictsResolved => ConflictsResolved'
  BY DEF ConflictsResolved, Effective, Withheld, Rivals
<1> QED BY <1>1 DEF TableInv, TwoPollsAgree, EntryChanged

-----------------------------------------------------------------------------
(* The steps of the bridge.                                                *)

(* A step of the table by itself.                                          *)
LEMMA TableSteps ==
  ASSUME BridgeInv,
         \/ \E s \in Slots, c \in Contents \cup {None} : Fit(s, c)
         \/ BusCalls \/ Apply \/ RecomputeRound,
         UNCHANGED bridgeVars
  PROVE  BridgeInv' /\ (NoCollisions => TwoPollsAgree)
<1>0. TableInv /\ poll.changed \in BOOLEAN
  BY DEF BridgeInv, TableInv, IInv, ModulesTypeOK
<1>1. IInv'
  BY <1>0, NextIInv DEF Next, TableInv
<1>2. /\ TableInv' /\ (NoCollisions => TwoPollsAgree)
      /\ UNCHANGED confirmed /\ caps' \subseteq caps \cup confirmed
      /\ (UNCHANGED caps \/ (RecomputeRound /\ poll'.changed = poll.changed))
      /\ (poll.changed => poll'.changed)
  <2>1. ASSUME NEW s \in Slots, NEW c \in Contents \cup {None}, Fit(s, c)
        PROVE  UNCHANGED <<table, confirmed, caps, lastPoll, poll>>
    BY <2>1 DEF Fit, coreVars, pollVars
  <2>2. ASSUME BusCalls
        PROVE  /\ UNCHANGED <<table, confirmed, caps, lastPoll>>
               /\ poll'.changed = poll.changed /\ poll'.pc = "apply"
    BY <2>2, <1>0 DEF BusCalls, coreVars, TableInv, IInv, ModulesTypeOK
  <2>3. ASSUME RecomputeRound
        PROVE  poll'.changed = poll.changed /\ UNCHANGED confirmed
    BY <2>3, <1>0 DEF RecomputeRound, TableInv, IInv, ModulesTypeOK
  <2>4. CASE \E s \in Slots, c \in Contents \cup {None} : Fit(s, c)
    BY <1>0, <1>1, <2>1, <2>4, TableKept DEF TableInv
  <2>5. CASE BusCalls
    BY <1>0, <1>1, <2>2, <2>5, TableKept
  <2>6. CASE Apply
    BY <1>0, <2>6, ApplyStep DEF Apply
  <2>7. CASE RecomputeRound
    BY <1>0, <2>3, <2>7, RecomputeRoundStep
  <2> QED BY <2>4, <2>5, <2>6, <2>7
<1>3. BridgeTypes' /\ IrUnconfirmed'
  BY <1>2 DEF BridgeInv, BridgeTypes, IrUnconfirmed, bridgeVars
<1>4. IrFitted => ChangeIsOnItsWay'
  <2> SUFFICES ASSUME IrFitted PROVE ChangeIsOnItsWay'
    OBVIOUS
  <2>1. CASE UNCHANGED caps
    BY <1>2, <2>1 DEF BridgeInv, ChangeIsOnItsWay, bridgeVars
  <2>2. CASE RecomputeRound /\ poll'.changed = poll.changed
    <3>1. bootRounds # 0 => main.pc = "ir"
      BY DEF BridgeInv, IrUnconfirmed
    <3>2. poll.pc = "recompute"
      BY <2>2 DEF RecomputeRound
    <3>3. poll.changed
      BY <3>2, <1>0 DEF TableInv
    <3> QED BY <2>2, <3>1, <3>3 DEF ChangeIsOnItsWay, bridgeVars
  <2> QED BY <1>2, <2>1, <2>2
<1> QED BY <1>2, <1>3, <1>4 DEF BridgeInv


(* The end of a round publishes what the round changed, save at boot.      *)
LEMMA RoundEnds ==
  ASSUME BridgeInv, ModuleRound
  PROVE  BridgeInv' /\ TwoPollsAgree
<1>0. TableInv /\ EndRound
  BY DEF BridgeInv, ModuleRound
<1>1. IInv'
  BY <1>0, NextIInv DEF Next, TableInv
<1>2. /\ UNCHANGED <<table, confirmed, caps, lastPoll, nfc, main, ui, launcher>>
      /\ poll.pc = "end" /\ poll'.pc = "bus"
      /\ bootRounds' = (IF bootRounds = 0 THEN 0 ELSE bootRounds - 1)
      /\ events' = IF poll.changed /\ bootRounds = 0 THEN events \cup {"module"} ELSE events
  BY <1>0 DEF ModuleRound, EndRound, coreVars, TableInv, IInv, ModulesTypeOK
<1>3. TableInv' /\ TwoPollsAgree
  BY <1>0, <1>1, <1>2, TableKept
<1>4. BridgeTypes' /\ IrUnconfirmed'
  BY <1>2 DEF BridgeInv, BridgeTypes, IrUnconfirmed
<1>5. IrFitted => ChangeIsOnItsWay'
  BY <1>2 DEF BridgeInv, IrUnconfirmed, ChangeIsOnItsWay
<1> QED BY <1>3, <1>4, <1>5 DEF BridgeInv

(* The main task's word on IR: nobody can have said it before, so it       *)
(* always changes the capabilities of a board with IR, and is published.   *)
LEMMA MainConfirmsIrStep ==
  ASSUME BridgeInv, MainConfirmsIr
  PROVE  BridgeInv' /\ TwoPollsAgree
<1>1. /\ main.pc = "ir" /\ bootRounds = 0 /\ Confirm({"ir"}, IrFitted)
      /\ main' = [main EXCEPT !.pc = IF caps' # caps THEN "publish_ir" ELSE "read"]
      /\ UNCHANGED <<bootRounds, nfc, events, ui, launcher>>
  BY DEF MainConfirmsIr
<1>2. {"ir"} \in SUBSET Caps
  BY DEF Caps
<1>3. /\ TableInv' /\ TwoPollsAgree /\ UNCHANGED poll
      /\ confirmed' = (IF IrFitted THEN confirmed \cup {"ir"} ELSE confirmed \ {"ir"})
      /\ caps' = Effective(confirmed', table)
  BY <1>1, <1>2, IrFittedOK, ConfirmStep DEF BridgeInv
<1>4. IrFitted => "ir" \in caps'
  <2>1. "ir" \notin Withheld(table) /\ "ir" \in Caps \ (Lines \cup {"unknown"})
    BY DEF Withheld, Exclusive, Caps, Lines
  <2> QED BY <1>3, <2>1 DEF Effective
<1>5. ~("ir" \in caps) /\ main \in [pc : {main.pc}, word : BOOLEAN]
  BY <1>1 DEF BridgeInv, BridgeTypes, IrUnconfirmed
<1>6. /\ main'.pc \in {"publish_ir", "read"} /\ main'.word \in BOOLEAN
      /\ main' \in [pc : {"publish_ir", "read"}, word : BOOLEAN]
      /\ IrFitted => main'.pc = "publish_ir"
  BY <1>1, <1>4, <1>5
<1>7. BridgeTypes' /\ IrUnconfirmed'
  BY <1>1, <1>6 DEF BridgeInv, BridgeTypes, IrUnconfirmed
<1>8. IrFitted => ChangeIsOnItsWay'
  BY <1>6 DEF ChangeIsOnItsWay
<1> QED BY <1>3, <1>7, <1>8 DEF BridgeInv

(* A word on the reader, by either task: a change is published next.       *)
LEMMA NfcWordStep ==
  ASSUME BridgeInv, NEW word \in BOOLEAN, Confirm({"nfc"}, word)
  PROVE  /\ TableInv' /\ TwoPollsAgree /\ UNCHANGED poll
         /\ "ir" \notin confirmed \cup caps => "ir" \notin confirmed' \cup caps'
<1>1. {"nfc"} \in SUBSET Caps
  BY DEF Caps
<1>2. /\ TableInv' /\ TwoPollsAgree /\ UNCHANGED poll
      /\ confirmed' = (IF word THEN confirmed \cup {"nfc"} ELSE confirmed \ {"nfc"})
      /\ caps' = Effective(confirmed', table)
  BY <1>1, ConfirmStep DEF BridgeInv
<1>3. caps' \subseteq confirmed'
  BY <1>2 DEF Effective
<1> QED BY <1>2, <1>3

(* The main task's word on the reader, which may be older than the UI      *)
(* task's.                                                                 *)
LEMMA MainConfirmsNfcStep ==
  ASSUME BridgeInv, MainConfirmsNfc
  PROVE  BridgeInv' /\ TwoPollsAgree
<1>1. /\ main.pc = "confirm" /\ main.word \in BOOLEAN /\ Confirm({"nfc"}, main.word)
      /\ main' = [main EXCEPT !.pc = IF caps' # caps THEN "publish_nfc" ELSE "done"]
      /\ UNCHANGED <<bootRounds, nfc, events, ui, launcher>>
  BY DEF MainConfirmsNfc, BridgeInv, BridgeTypes
<1>2. TableInv' /\ TwoPollsAgree /\ UNCHANGED poll
  BY <1>1, NfcWordStep
<1>3. /\ main' \in [pc : {"publish_nfc", "done"}, word : BOOLEAN]
      /\ caps' # caps => main'.pc = "publish_nfc"
  BY <1>1 DEF BridgeInv, BridgeTypes
<1>4. BridgeTypes' /\ IrUnconfirmed'
  BY <1>1, <1>3 DEF BridgeInv, BridgeTypes, IrUnconfirmed
<1>5. IrFitted => ChangeIsOnItsWay'
  BY <1>1, <1>2, <1>3 DEF BridgeInv, ChangeIsOnItsWay
<1> QED BY <1>2, <1>4, <1>5 DEF BridgeInv

(* The UI task's word on the reader.                                       *)
LEMMA UiConfirmsStep ==
  ASSUME BridgeInv, UiConfirms
  PROVE  BridgeInv' /\ TwoPollsAgree
<1>1. /\ ui.pc = "confirm" /\ ui.word \in BOOLEAN /\ Confirm({"nfc"}, ui.word)
      /\ ui' = [ui EXCEPT !.pc = IF caps' # caps THEN "publish" ELSE "idle"]
      /\ UNCHANGED <<bootRounds, nfc, events, main, launcher>>
  BY DEF UiConfirms, BridgeInv, BridgeTypes
<1>2. /\ TableInv' /\ TwoPollsAgree /\ UNCHANGED poll
      /\ "ir" \notin confirmed \cup caps => "ir" \notin confirmed' \cup caps'
  BY <1>1, NfcWordStep
<1>3. /\ ui' \in [pc : {"publish", "idle"}, word : BOOLEAN]
      /\ caps' # caps => ui'.pc = "publish"
  BY <1>1 DEF BridgeInv, BridgeTypes
<1>4. BridgeTypes' /\ IrUnconfirmed'
  BY <1>1, <1>2, <1>3 DEF BridgeInv, BridgeTypes, IrUnconfirmed
<1>5. IrFitted => ChangeIsOnItsWay'
  BY <1>1, <1>2, <1>3 DEF BridgeInv, ChangeIsOnItsWay
<1> QED BY <1>2, <1>4, <1>5 DEF BridgeInv

(* The other steps of the bridge touch no slot and no capability.          *)
LEMMA MessagesMove ==
  ASSUME BridgeInv,
         \/ ReaderChanges \/ ReaderPublishes \/ MainReads \/ MainPublishes
         \/ UiReads \/ UiPublishes \/ UiTakesCaps
  PROVE  BridgeInv' /\ TwoPollsAgree
<1>1. UNCHANGED <<coreVars, pollVars, leaseVars, fitted>> /\ disturbances' \in 0..MaxDisturbances
  BY ModulesConstantsOK DEF ReaderChanges, ReaderPublishes, MainReads, MainPublishes, UiReads,
     UiPublishes, UiTakesCaps, Disturb, vars, slotVars, BridgeInv, TableInv, IInv, ModulesTypeOK
<1>2. IInv'
  BY <1>1 DEF BridgeInv, TableInv, IInv, ModulesTypeOK, coreVars, pollVars, leaseVars
<1>3. TableInv' /\ TwoPollsAgree
  BY <1>1, <1>2, TableKept DEF BridgeInv, TableInv, coreVars, pollVars
<1>4. BridgeTypes'
  <2>0. (~nfc.ready) \in BOOLEAN
    OBVIOUS
  <2>1. UNCHANGED bootRounds /\ BridgeTypes
    BY DEF BridgeInv, BridgeTypes, ReaderChanges, ReaderPublishes, MainReads, MainPublishes, UiReads,
       UiPublishes, UiTakesCaps
  <2>2. nfc' \in [pc : {"idle", "publish"}, ready : BOOLEAN]
    <3>1. CASE ReaderChanges
      BY <2>0, <3>1 DEF ReaderChanges
    <3>2. CASE ReaderPublishes
      BY <2>1, <3>2 DEF ReaderPublishes, BridgeTypes
    <3>3. CASE UNCHANGED nfc
      BY <2>1, <3>3 DEF BridgeTypes
    <3> QED BY <3>1, <3>2, <3>3 DEF MainReads, MainPublishes, UiReads, UiPublishes, UiTakesCaps
  <2>3. main' \in [pc : {"ir", "publish_ir", "read", "confirm", "publish_nfc", "done"}, word : BOOLEAN]
    BY <2>1 DEF BridgeTypes, ReaderChanges, ReaderPublishes, MainReads, MainPublishes, UiReads,
       UiPublishes, UiTakesCaps
  <2>4. ui' \in [pc : {"idle", "confirm", "publish"}, word : BOOLEAN]
    BY <2>1 DEF BridgeTypes, ReaderChanges, ReaderPublishes, MainReads, MainPublishes, UiReads,
       UiPublishes, UiTakesCaps
  <2> QED BY <2>1, <2>2, <2>3, <2>4 DEF BridgeTypes
<1>5. IrUnconfirmed'
  BY <1>1 DEF BridgeInv, BridgeTypes, IrUnconfirmed, ReaderChanges, ReaderPublishes, MainReads,
     MainPublishes, UiReads, UiPublishes, UiTakesCaps, coreVars
<1>6. IrFitted => ChangeIsOnItsWay'
  BY <1>1 DEF BridgeInv, BridgeTypes, ChangeIsOnItsWay, ReaderChanges, ReaderPublishes, MainReads,
     MainPublishes, UiReads, UiPublishes, UiTakesCaps, coreVars, pollVars
<1> QED BY <1>3, <1>4, <1>5, <1>6 DEF BridgeInv

-----------------------------------------------------------------------------
(* Boot: no caps, nothing in the slots, the reader's first event perhaps   *)
(* on its way.                                                             *)
LEMMA BridgeStarts == BridgeInit => BridgeInv
<1> SUFFICES ASSUME BridgeInit PROVE BridgeInv
  OBVIOUS
<1>1. IInv
  BY InitIInv DEF BridgeInit
<1>2. /\ table = [s \in Slots |-> EmptySlot] /\ ~poll.changed /\ poll.pc = "bus"
      /\ lastPoll = [s \in Slots |-> None] /\ confirmed = {} /\ caps = {}
  BY DEF BridgeInit, Init
<1>3. \A s \in Slots : table[s].state = "absent" /\ NotedOK(table[s], lastPoll[s])
  BY <1>2 DEF NotedOK, EmptySlot
<1>4. \A s \in Slots : Rivals(table, s) = {}
  BY <1>3 DEF Rivals, Overlap, Valid
<1>5. ConflictsResolved
  BY <1>2, <1>3, <1>4 DEF ConflictsResolved, Effective
<1>6. BridgeTypes /\ IrUnconfirmed
  BY <1>2 DEF BridgeInit, BridgeTypes, IrUnconfirmed
<1>7. ChangeIsOnItsWay
  BY <1>2 DEF BridgeInit, ChangeIsOnItsWay
<1> QED BY <1>1, <1>2, <1>3, <1>5, <1>6, <1>7 DEF BridgeInv, TableInv

(* Every step keeps the invariant and, without colliding hashes, changes   *)
(* no entry on one poll.                                                   *)
LEMMA BridgeSteps ==
  ASSUME BridgeInv, [BridgeNext]_bridgeAllVars
  PROVE  BridgeInv' /\ (NoCollisions => TwoPollsAgree)
<1>1. CASE /\ \/ \E s \in Slots, c \in Contents \cup {None} : Fit(s, c)
              \/ BusCalls \/ Apply \/ RecomputeRound
           /\ UNCHANGED bridgeVars
  BY <1>1, TableSteps
<1>2. CASE ModuleRound
  BY <1>2, RoundEnds
<1>3. CASE MainConfirmsIr \/ MainConfirmsNfc \/ UiConfirms
  BY <1>3, MainConfirmsIrStep, MainConfirmsNfcStep, UiConfirmsStep
<1>4. CASE \/ ReaderChanges \/ ReaderPublishes \/ MainReads \/ MainPublishes
           \/ UiReads \/ UiPublishes \/ UiTakesCaps
  BY <1>4, MessagesMove
<1>5. CASE UNCHANGED bridgeAllVars
  <2>1. UNCHANGED <<vars, bridgeVars>>
    BY <1>5 DEF bridgeAllVars
  <2>2. IInv'
    BY <2>1, NextIInv DEF BridgeInv, TableInv
  <2>3. TableInv' /\ TwoPollsAgree
    BY <2>1, <2>2, TableKept DEF BridgeInv, TableInv, vars, coreVars, pollVars
  <2>4. BridgeTypes' /\ IrUnconfirmed' /\ (IrFitted => ChangeIsOnItsWay')
    BY <2>1 DEF BridgeInv, BridgeTypes, IrUnconfirmed, ChangeIsOnItsWay, vars, bridgeVars, coreVars,
       pollVars
  <2> QED BY <2>3, <2>4 DEF BridgeInv
<1> QED BY <1>1, <1>2, <1>3, <1>4, <1>5 DEF BridgeNext

(* The invariant: conflicts are resolved outside a round that has changed  *)
(* something, a slot tells of its last poll, and a change of the           *)
(* capabilities is on its way to the launcher (module_core.c,              *)
(* stark_module.c, module_bridge.c).                                       *)
THEOREM BridgeInvariant == BridgeSpec => []BridgeInv
<1>1. BridgeInv /\ [BridgeNext]_bridgeAllVars => BridgeInv'
  BY BridgeSteps
<1> QED BY <1>1, BridgeStarts, PTL DEF BridgeSpec

(* Once a round has recomputed, conflicts are marked exactly, nobody holds *)
(* a slot in conflict, and what conflicting modules declare is withheld,   *)
(* however the confirmations of the drivers fell into the round            *)
(* (module_core.c, recompute(), resolve_conflicts()).                      *)
THEOREM ConflictsStayWithheld == BridgeSpec => []ConflictsWithheld
<1>1. BridgeInv => ConflictsWithheld
  <2> SUFFICES ASSUME BridgeInv, ~poll.changed \/ poll.pc = "end", NEW s \in Slots
               PROVE  /\ table[s].state = "conflict" <=> Rivals(table, s) # {}
                      /\ table[s].state = "conflict" => table[s].owner = None
                      /\ caps = Effective(confirmed, table)
    BY ModulesConstantsOK DEF ConflictsWithheld, Slots, BridgeInv, TableInv, ConflictsResolved
  <2> QED BY DEF BridgeInv, TableInv, ConflictsResolved, IInv, SlotOK
<1> QED BY <1>1, BridgeInvariant, PTL

(* "Two failed probes remove a module; a descriptor is accepted after two  *)
(* identical reads": an entry changes only on two polls that agree,        *)
(* provided that different contents never have the same hash               *)
(* (module_core.c, apply()).                                               *)
THEOREM EntriesNeedTwoPolls ==
  ASSUME NoCollisions
  PROVE  BridgeSpec => EntriesFollowTwoPolls
<1> DEFINE Agree == \A s \in Slots :
             \/ table'[s].entry # table[s].entry
             \/ table'[s].state = "absent" /\ table[s].state # "absent"
             => lastPoll[s] = poll.result
<1>1. BridgeInv /\ [BridgeNext]_bridgeAllVars => [Agree]_vars
  <2> SUFFICES ASSUME BridgeInv, [BridgeNext]_bridgeAllVars PROVE Agree
    OBVIOUS
  <2>1. TwoPollsAgree
    BY BridgeSteps
  <2> QED BY <2>1 DEF TwoPollsAgree, EntryChanged
<1> QED BY <1>1, BridgeInvariant, PTL DEF BridgeSpec, EntriesFollowTwoPolls

(* On a board with IR, the launcher's copy of the capabilities is right    *)
(* whenever nothing is on its way (module_bridge.c, on_system(),           *)
(* module_bridge_start(); stark_module.c, publish_change()).               *)
THEOREM LauncherFollows ==
  ASSUME IrFitted
  PROVE  BridgeSpec => []LauncherIsCurrent
<1>1. BridgeInv => LauncherIsCurrent
  BY DEF BridgeInv, ChangeIsOnItsWay, LauncherIsCurrent, Quiet
<1> QED BY <1>1, BridgeInvariant, PTL

=============================================================================
