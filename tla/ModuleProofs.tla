---------------------------- MODULE ModuleProofs ----------------------------
(***************************************************************************)
(* Leases, for every number of slots, every set of contents and drivers.   *)
(*                                                                         *)
(* The argument: a slot's generation never decreases, and it grows         *)
(* whenever the slot's owner, entry or state of being known is taken away. *)
(* A lease of the slot's present generation is therefore its owner's, made *)
(* on the present entry; every other lease has an earlier generation.      *)
(***************************************************************************)
EXTENDS ModuleSpi, FiniteSetTheorems, TLAPS

(* A slot that counts as valid has an entry, and a slot with an owner is   *)
(* known and declares what was claimed.                                    *)
SlotOK(slot) ==
  /\ slot \in Slot
  /\ Valid(slot) => slot.entry \in Contents
  /\ slot.owner # None => slot.state = "known" /\ slot.claimed \subseteq Declared(slot)

(* What a lease tells of its slot.                                         *)
LeaseOK(l, d, slot) ==
  /\ l.gen <= slot.gen
  /\ l.gen = slot.gen => slot.owner = d /\ slot.entry = l.on /\ slot.claimed = l.lines

IInv ==
  /\ ModulesTypeOK
  /\ poll.pc = "apply" => poll.result # None
  /\ \A s \in Slots : SlotOK(table[s])
  /\ \A d \in Drivers : lease[d].slot \in Slots => LeaseOK(lease[d], d, table[lease[d].slot])

(* What a step that makes no claim may do to a slot.                       *)
SlotStep(old, new) ==
  \/ new.gen = old.gen /\ new.owner = old.owner /\ new.entry = old.entry /\ new.claimed = old.claimed
  \/ new.gen > old.gen /\ new.owner = None

(* A step that changes no lease.                                           *)
TableStep ==
  /\ UNCHANGED lease
  /\ \A s \in Slots : SlotStep(table[s], table'[s])

-----------------------------------------------------------------------------
(* The operators on one slot.                                              *)

(* Each field keeps its type when it is set to a value of its type.        *)
LEMMA FieldsOK ==
  ASSUME NEW slot \in Slot
  PROVE  /\ \A v \in {"absent", "known", "generic", "conflict"} : [slot EXCEPT !.state = v] \in Slot
         /\ \A v \in Contents \cup {None} : [slot EXCEPT !.entry = v] \in Slot
         /\ \A v \in Drivers \cup {None} : [slot EXCEPT !.owner = v] \in Slot
         /\ \A v \in SUBSET Lines : [slot EXCEPT !.claimed = v] \in Slot
         /\ \A v \in Nat : [slot EXCEPT !.gen = v] \in Slot
         /\ \A v \in 0..MissLimit : [slot EXCEPT !.misses = v] \in Slot
         /\ \A v \in 0..ReadLimit : [slot EXCEPT !.errors = v] \in Slot
         /\ \A v \in Hashes : [slot EXCEPT !.seen = v] \in Slot
         /\ \A v \in Hashes : [slot EXCEPT !.accepted = v] \in Slot
<1>1. \A v \in {"absent", "known", "generic", "conflict"} : [slot EXCEPT !.state = v] \in Slot
  BY DEF Slot
<1>2. \A v \in Contents \cup {None} : [slot EXCEPT !.entry = v] \in Slot
  BY DEF Slot
<1>3. \A v \in Drivers \cup {None} : [slot EXCEPT !.owner = v] \in Slot
  BY DEF Slot
<1>4. \A v \in SUBSET Lines : [slot EXCEPT !.claimed = v] \in Slot
  BY DEF Slot
<1>5. \A v \in Nat : [slot EXCEPT !.gen = v] \in Slot
  BY DEF Slot
<1>6. \A v \in 0..MissLimit : [slot EXCEPT !.misses = v] \in Slot
  BY DEF Slot
<1>7. \A v \in 0..ReadLimit : [slot EXCEPT !.errors = v] \in Slot
  BY DEF Slot
<1>8. \A v \in Hashes : [slot EXCEPT !.seen = v] \in Slot
  BY DEF Slot
<1>9. \A v \in Hashes : [slot EXCEPT !.accepted = v] \in Slot
  BY DEF Slot
<1> QED BY <1>1, <1>2, <1>3, <1>4, <1>5, <1>6, <1>7, <1>8, <1>9

(* What a poll may do to a slot whose entry it leaves alone, ...           *)
Kept(old, new) ==
  /\ new \in Slot
  /\ new.state = old.state /\ new.entry = old.entry
  /\ new.gen = old.gen /\ new.owner = old.owner /\ new.claimed = old.claimed

(* ... and to one whose entry it changes.                                  *)
Changed(old, new) ==
  /\ new \in Slot
  /\ new.gen = old.gen
  /\ Valid(new) => new.entry \in Contents

(* module_core.c:apply() counts the misses and the read errors, and notes  *)
(* the hash, without touching the entry or the lease.                      *)
LEMMA CountersKeep ==
  ASSUME NEW slot \in Slot, NEW m \in 0..MissLimit, NEW r \in 0..ReadLimit, NEW h \in Hashes
  PROVE  Kept(slot, [slot EXCEPT !.misses = m, !.errors = r, !.seen = h])
<1> DEFINE a == [slot EXCEPT !.misses = m]
           b == [a EXCEPT !.errors = r]
           c == [b EXCEPT !.seen = h]
<1>1. a \in Slot
  BY FieldsOK
<1>2. b \in Slot
  <2> HIDE DEF a
  <2> QED BY <1>1, FieldsOK
<1>3. c \in Slot
  <2> HIDE DEF b
  <2> QED BY <1>2, FieldsOK
<1>4. c = [slot EXCEPT !.misses = m, !.errors = r, !.seen = h]
  BY DEF Slot
<1> QED BY <1>3, <1>4 DEF Kept, Slot

(* clear_entry() and make_generic() leave no entry and keep the rest.      *)
LEMMA EmptiedOK ==
  ASSUME NEW slot \in Slot, NEW st \in {"absent", "generic"}
  PROVE  Changed(slot, [slot EXCEPT !.state = st, !.entry = None])
<1> DEFINE a == [slot EXCEPT !.state = st]
           b == [a EXCEPT !.entry = None]
<1>1. a \in Slot
  BY FieldsOK
<1>2. b \in Slot
  <2> HIDE DEF a
  <2> QED BY <1>1, FieldsOK
<1>3. b = [slot EXCEPT !.state = st, !.entry = None]
  BY DEF Slot
<1> QED BY <1>2, <1>3 DEF Changed, Valid, Slot

(* accept() makes a slot valid only with an entry.                         *)
LEMMA AcceptOK ==
  ASSUME NEW slot \in Slot, NEW c \in Contents
  PROVE  Changed(slot, Accept(slot, c))
<1>1. CASE ~Parse[c].ok
  BY <1>1, EmptiedOK DEF Accept, MakeGeneric
<1>2. CASE Parse[c].ok
  <2> DEFINE st == IF Supported(Parse[c].caps) THEN "known" ELSE "generic"
             a == [slot EXCEPT !.state = st]
             b == [a EXCEPT !.entry = c]
  <2>1. a \in Slot
    BY FieldsOK
  <2>2. b \in Slot
    <3> HIDE DEF a
    <3> QED BY <2>1, FieldsOK
  <2>3. b = Accept(slot, c)
    <3> HIDE DEF st
    <3>1. Accept(slot, c) = [slot EXCEPT !.state = st, !.entry = c]
      BY <1>2 DEF Accept, st
    <3> QED BY <3>1 DEF Slot
  <2>4. b.entry = c /\ b.gen = slot.gen
    <3> HIDE DEF st
    <3> QED BY DEF Slot
  <2> HIDE DEF b
  <2> QED BY <2>2, <2>3, <2>4 DEF Changed
<1> QED BY <1>1, <1>2

(* module_core.c:apply() keeps the generation; without a change it keeps   *)
(* the entry and the lease.                                                *)
LEMMA PolledOK ==
  ASSUME NEW slot \in Slot, NEW result \in Contents \cup {"miss", "error"}
  PROVE  /\ Polled(slot, result).changed \in BOOLEAN
         /\ Polled(slot, result).changed => Changed(slot, Polled(slot, result).slot)
         /\ ~Polled(slot, result).changed => Kept(slot, Polled(slot, result).slot)
<1> DEFINE Goal(step) == /\ step.changed \in BOOLEAN
                         /\ step.changed => Changed(slot, step.slot)
                         /\ ~step.changed => Kept(slot, step.slot)
<1>0. /\ None \in Hashes /\ 0 \in 0..MissLimit /\ 0 \in 0..ReadLimit
      /\ slot.misses \in 0..MissLimit /\ slot.errors \in 0..ReadLimit
  BY DEF Hashes, MissLimit, ReadLimit, Slot
<1>1. ASSUME NEW old, NEW new, Kept(slot, old), Changed(old, new)
      PROVE  Changed(slot, new)
  BY <1>1 DEF Kept, Changed
<1>2. CASE result = "miss"
  <2> DEFINE m == IF slot.misses < MissLimit THEN slot.misses + 1 ELSE slot.misses
             counted == [slot EXCEPT !.seen = None, !.errors = 0,
                                     !.misses = IF @ < MissLimit THEN @ + 1 ELSE @]
             cleared == [counted EXCEPT !.accepted = None]
  <2>1. m \in 0..MissLimit
    BY <1>0 DEF MissLimit
  <2>2. counted = [slot EXCEPT !.misses = m, !.errors = 0, !.seen = None]
    BY DEF Slot
  <2>3. Kept(slot, counted)
    <3> HIDE DEF m, counted
    <3> QED BY <1>0, <2>1, <2>2, CountersKeep
  <2>4. Kept(slot, cleared)
    <3> HIDE DEF counted
    <3>1. cleared \in Slot
      BY <1>0, <2>3, FieldsOK DEF Kept
    <3> QED BY <2>3, <3>1 DEF Kept, Slot
  <2>5. Changed(slot, ClearEntry(cleared))
    <3> HIDE DEF cleared
    <3>1. cleared \in Slot
      BY <2>4 DEF Kept
    <3>2. Changed(cleared, ClearEntry(cleared))
      BY <3>1, EmptiedOK DEF ClearEntry
    <3> QED BY <1>1, <2>4, <3>2
  <2>6. Polled(slot, result) = IF counted.misses < MissLimit \/ slot.state = "absent"
                               THEN [slot |-> counted, changed |-> FALSE]
                               ELSE [slot |-> ClearEntry(cleared), changed |-> TRUE]
    BY <1>2 DEF Polled, Missed
  <2> HIDE DEF counted, cleared
  <2> QED BY <2>3, <2>5, <2>6
<1>3. CASE result = "error" /\ result # "miss"
  <2> DEFINE r == IF slot.errors < ReadLimit THEN slot.errors + 1 ELSE slot.errors
             counted == [slot EXCEPT !.misses = 0, !.seen = None,
                                     !.errors = IF @ < ReadLimit THEN @ + 1 ELSE @]
  <2>1. r \in 0..ReadLimit
    BY <1>0 DEF ReadLimit
  <2>2. counted = [slot EXCEPT !.misses = 0, !.errors = r, !.seen = None]
    BY DEF Slot
  <2>3. Kept(slot, counted)
    <3> HIDE DEF r, counted
    <3> QED BY <1>0, <2>1, <2>2, CountersKeep
  <2>4. Changed(slot, MakeGeneric(counted))
    <3> HIDE DEF counted
    <3>1. counted \in Slot
      BY <2>3 DEF Kept
    <3>2. Changed(counted, MakeGeneric(counted))
      BY <3>1, EmptiedOK DEF MakeGeneric
    <3> QED BY <1>1, <2>3, <3>2
  <2>5. Polled(slot, result) = IF slot.state # "absent" \/ counted.errors < ReadLimit
                               THEN [slot |-> counted, changed |-> FALSE]
                               ELSE [slot |-> MakeGeneric(counted), changed |-> TRUE]
    BY <1>3 DEF Polled, ReadFailed
  <2> HIDE DEF counted
  <2> QED BY <2>3, <2>4, <2>5
<1>4. CASE result \in Contents /\ result \notin {"miss", "error"}
  <2> DEFINE h == Hash[result]
             noted == [slot EXCEPT !.misses = 0, !.errors = 0, !.seen = h]
             taken == [noted EXCEPT !.accepted = h]
  <2>1. h \in Hashes
    BY <1>4 DEF Hashes
  <2> HIDE DEF h
  <2>2. Kept(slot, noted)
    BY <1>0, <2>1, CountersKeep
  <2>3. Kept(slot, taken)
    <3> HIDE DEF noted
    <3>1. taken \in Slot
      BY <2>1, <2>2, FieldsOK DEF Kept
    <3> QED BY <2>2, <3>1 DEF Kept, Slot
  <2>4. Changed(slot, Accept(taken, result))
    <3> HIDE DEF taken
    <3>1. taken \in Slot
      BY <2>3 DEF Kept
    <3>2. Changed(taken, Accept(taken, result))
      BY <1>4, <3>1, AcceptOK
    <3> QED BY <1>1, <2>3, <3>2
  <2>5. Polled(slot, result) = IF slot.seen # h \/ slot.accepted = h
                               THEN [slot |-> noted, changed |-> FALSE]
                               ELSE [slot |-> Accept(taken, result), changed |-> TRUE]
    BY <1>4 DEF Polled, ReadBack, h
  <2> HIDE DEF noted, taken
  <2> QED BY <2>2, <2>4, <2>5
<1> QED BY <1>2, <1>3, <1>4

(* module_core.c:revoke() makes every lease of the slot stale.             *)
LEMMA RevokedOK ==
  ASSUME NEW slot \in Slot, NEW k \in Nat
  PROVE  LET new == [slot EXCEPT !.gen = @ + k, !.owner = None, !.claimed = {}]
         IN  /\ new \in Slot /\ new.gen = slot.gen + k /\ new.owner = None
             /\ new.state = slot.state /\ new.entry = slot.entry
<1> DEFINE g == slot.gen + k
           a == [slot EXCEPT !.gen = g]
           b == [a EXCEPT !.owner = None]
           c == [b EXCEPT !.claimed = {}]
<1>1. g \in Nat
  BY DEF Slot
<1>2. a \in Slot
  <2> HIDE DEF g
  <2> QED BY <1>1, FieldsOK
<1>3. b \in Slot
  <2> HIDE DEF a
  <2> QED BY <1>2, FieldsOK
<1>4. c \in Slot
  <2> HIDE DEF b
  <2> QED BY <1>3, FieldsOK
<1>5. c = [slot EXCEPT !.gen = @ + k, !.owner = None, !.claimed = {}]
  BY DEF Slot
<1>6. /\ c.gen = slot.gen + k /\ c.owner = None
      /\ c.state = slot.state /\ c.entry = slot.entry
  BY DEF Slot
<1> HIDE DEF c
<1> QED BY <1>4, <1>5, <1>6

(* module_core.c:resolve_conflicts() revokes every slot in conflict at     *)
(* least once, and leaves every other lease alone.                         *)
LEMMA ResolvedOK ==
  ASSUME NEW tbl \in [Slots -> Slot], \A s \in Slots : SlotOK(tbl[s])
  PROVE  /\ Resolved(tbl) \in [Slots -> Slot]
         /\ \A s \in Slots : SlotOK(Resolved(tbl)[s]) /\ SlotStep(tbl[s], Resolved(tbl)[s])
<1> SUFFICES ASSUME NEW s \in Slots
             PROVE  /\ SlotOK(Resolved(tbl)[s])
                    /\ SlotStep(tbl[s], Resolved(tbl)[s])
  BY DEF Resolved, SlotOK
<1>1. SlotOK(tbl[s]) /\ tbl[s] \in Slot
  OBVIOUS
<1>2. IsFiniteSet(Rivals(tbl, s))
  <2>1. IsFiniteSet(Slots)
    BY ModulesConstantsOK, FS_Interval DEF Slots
  <2> QED BY <2>1, FS_Subset DEF Rivals
<1>3. CASE Rivals(tbl, s) # {}
  <2>1. Cardinality(Rivals(tbl, s)) \in Nat \ {0}
    BY <1>2, <1>3, FS_CardinalityType, FS_EmptySet
  <2>2. Rivals(tbl, s) # {} => \E t \in Slots : Overlap(tbl[s], tbl[t])
    BY DEF Rivals
  <2>3. Valid(tbl[s])
    BY <1>3, <2>2 DEF Overlap
  <2> DEFINE k == Cardinality(Rivals(tbl, s))
  <2> DEFINE revoked == [tbl[s] EXCEPT !.gen = @ + k, !.owner = None, !.claimed = {}]
  <2>4. k \in Nat \ {0}
    BY <2>1
  <2> HIDE DEF k
  <2>5. Resolved(tbl)[s] = [revoked EXCEPT !.state = "conflict"]
    <3>1. Resolved(tbl)[s] = [tbl[s] EXCEPT !.state = "conflict", !.owner = None, !.claimed = {},
                                            !.gen = @ + k]
      BY <1>3 DEF Resolved, k
    <3> QED BY <1>1, <3>1 DEF Slot
  <2>6. /\ revoked \in Slot /\ revoked.gen = tbl[s].gen + k /\ revoked.owner = None
        /\ revoked.entry = tbl[s].entry
    BY <1>1, <2>4, RevokedOK
  <2> HIDE DEF revoked
  <2>7. Resolved(tbl)[s] \in Slot
    BY <2>5, <2>6, FieldsOK
  <2>8. /\ Resolved(tbl)[s].gen = tbl[s].gen + k
        /\ Resolved(tbl)[s].owner = None
        /\ Resolved(tbl)[s].entry = tbl[s].entry
    BY <2>5, <2>6 DEF Slot
  <2>9. tbl[s].entry \in Contents /\ tbl[s].gen \in Nat
    BY <1>1, <2>3 DEF SlotOK, Slot
  <2> QED BY <2>4, <2>7, <2>8, <2>9 DEF SlotOK, SlotStep
<1>4. CASE Rivals(tbl, s) = {} /\ Valid(tbl[s])
  <2>1. Resolved(tbl)[s] = [tbl[s] EXCEPT !.state = "known"]
    BY <1>4 DEF Resolved
  <2>2. Resolved(tbl)[s] \in Slot
    BY <1>1, <2>1, FieldsOK
  <2>3. /\ Resolved(tbl)[s].gen = tbl[s].gen
        /\ Resolved(tbl)[s].owner = tbl[s].owner
        /\ Resolved(tbl)[s].entry = tbl[s].entry
        /\ Resolved(tbl)[s].claimed = tbl[s].claimed
        /\ Resolved(tbl)[s].state = "known"
    BY <1>1, <2>1 DEF Slot
  <2>4. Declared(Resolved(tbl)[s]) = Declared(tbl[s])
    BY <2>3 DEF Declared
  <2> QED BY <1>1, <1>4, <2>2, <2>3, <2>4 DEF SlotOK, SlotStep
<1>5. CASE Rivals(tbl, s) = {} /\ ~Valid(tbl[s])
  <2>1. Resolved(tbl)[s] = tbl[s]
    BY <1>5 DEF Resolved
  <2> QED BY <1>1, <2>1 DEF SlotStep
<1> QED BY <1>3, <1>4, <1>5

-----------------------------------------------------------------------------
(* The leases.                                                             *)

(* A step that makes no claim, on slots that stay as SlotStep says, keeps  *)
(* what the leases tell.                                                   *)
LEMMA LeasesKept ==
  ASSUME IInv, NEW tbl \in [Slots -> Slot], \A s \in Slots : SlotStep(table[s], tbl[s]),
         NEW d \in Drivers, lease[d].slot \in Slots
  PROVE  LeaseOK(lease[d], d, tbl[lease[d].slot])
<1> DEFINE s == lease[d].slot
           old == table[s]
           new == tbl[s]
<1>1. LeaseOK(lease[d], d, old) /\ SlotStep(old, new)
  BY DEF IInv
<1>2. lease[d].gen \in Nat /\ old.gen \in Nat /\ new.gen \in Nat
  <2>1. lease[d] \in Lease /\ old \in Slot /\ new \in Slot
    BY DEF IInv, ModulesTypeOK
  <2> QED BY <2>1 DEF Lease, NoLease, Slot
<1> HIDE DEF s, old, new
<1> QED BY <1>1, <1>2 DEF LeaseOK, SlotStep, s, old, new

(* module_core_init() leaves every slot empty, at generation zero.          *)
LEMMA InitIInv == Init => IInv
<1> SUFFICES ASSUME Init PROVE IInv
  OBVIOUS
<1>1. 1 \in Slots /\ MaxDisturbances \in Nat
  BY ModulesConstantsOK DEF Slots
<1>2. EmptySlot \in Slot /\ SlotOK(EmptySlot)
  BY DEF EmptySlot, Slot, SlotOK, Valid, MissLimit, ReadLimit, Hashes
<1>3. ModulesTypeOK
  <2>1. NoLease \in Lease
    BY DEF Lease
  <2> QED BY <1>1, <1>2, <2>1 DEF Init, ModulesTypeOK
<1>4. \A d \in Drivers : lease[d].slot \notin Slots
  BY DEF Init, NoLease, Slots
<1> QED BY <1>2, <1>3, <1>4 DEF Init, IInv

(* recompute(), in a round or after a driver's word.                       *)
LEMMA RecomputeIInv ==
  ASSUME IInv, NEW conf \in SUBSET Caps, Recompute(conf)
  PROVE  /\ table' \in [Slots -> Slot] /\ caps' \subseteq Caps
         /\ \A s \in Slots : SlotOK(table'[s]) /\ SlotStep(table[s], table'[s])
<1>1. table \in [Slots -> Slot] /\ \A s \in Slots : SlotOK(table[s])
  BY DEF IInv, ModulesTypeOK
<1> QED BY <1>1, ResolvedOK DEF Recompute, Effective, Caps

(* Every step keeps IInv, and is a claim or treats each slot as SlotStep.  *)
LEMMA NextIInv ==
  ASSUME IInv, [Next]_vars
  PROVE  IInv' /\ (TableStep \/ \E d \in Drivers, s \in Slots, lines \in SUBSET Lines : Claim(d, s, lines))
<1>0. ModulesTypeOK /\ MaxDisturbances \in Nat
  BY ModulesConstantsOK DEF IInv
<1>a. ASSUME UNCHANGED <<table, lease>>, ModulesTypeOK', poll'.pc = "apply" => poll'.result # None
      PROVE  IInv' /\ TableStep
  BY <1>a DEF IInv, TableStep, SlotStep
<1>b. ASSUME UNCHANGED lease, ModulesTypeOK', poll'.pc = "apply" => poll'.result # None,
             \A s \in Slots : SlotOK(table'[s]) /\ SlotStep(table[s], table'[s])
      PROVE  IInv' /\ TableStep
  <2>1. table' \in [Slots -> Slot]
    BY <1>b DEF ModulesTypeOK
  <2>2. \A d \in Drivers : lease[d].slot \in Slots => LeaseOK(lease[d], d, table'[lease[d].slot])
    BY <1>b, <2>1, LeasesKept
  <2> QED BY <1>b, <2>2 DEF IInv, TableStep
<1>1. ASSUME NEW s \in Slots, NEW c \in Contents \cup {None}, Fit(s, c)
      PROVE  IInv' /\ TableStep
  <2>1. ModulesTypeOK'
    BY <1>0, <1>1 DEF Fit, Disturb, coreVars, pollVars, leaseVars, ModulesTypeOK
  <2> QED BY <1>1, <1>a, <2>1 DEF Fit, coreVars, pollVars, leaseVars, IInv
<1>2. ASSUME BusCalls
      PROVE  IInv' /\ TableStep
  <2>1. \E r \in Contents \cup {"miss", "error"} : poll' = [poll EXCEPT !.pc = "apply", !.result = r]
    <3>1. Answer(fitted[poll.slot]) \in Contents \cup {"miss", "error"}
      BY <1>0 DEF Answer, ModulesTypeOK
    <3> QED BY <1>2, <3>1 DEF BusCalls
  <2>2. disturbances' \in 0..MaxDisturbances
    BY <1>0, <1>2 DEF BusCalls, Disturb, ModulesTypeOK
  <2>3. ModulesTypeOK' /\ poll'.result # None
    BY <1>0, <1>2, <2>1, <2>2, ModulesConstantsOK DEF BusCalls, coreVars, leaseVars, ModulesTypeOK
  <2> QED BY <1>2, <1>a, <2>3 DEF BusCalls, coreVars, leaseVars
<1>3. ASSUME Apply
      PROVE  IInv' /\ TableStep
  <2> DEFINE s == poll.slot
             step == Polled(table[s], poll.result)
             new == IF step.changed THEN Revoked(step.slot) ELSE step.slot
  <2>1. s \in Slots /\ table[s] \in Slot /\ SlotOK(table[s])
    BY <1>0 DEF IInv, ModulesTypeOK
  <2>2. poll.result \in Contents \cup {"miss", "error"}
    BY <1>0, <1>3 DEF Apply, IInv, ModulesTypeOK
  <2>3. /\ step.changed \in BOOLEAN
        /\ step.changed => Changed(table[s], step.slot)
        /\ ~step.changed => Kept(table[s], step.slot)
    BY <2>1, <2>2, PolledOK
  <2>4. SlotOK(new) /\ SlotStep(table[s], new)
    <3> HIDE DEF step
    <3>1. CASE step.changed
      <4>1. /\ Revoked(step.slot) \in Slot /\ Revoked(step.slot).gen = step.slot.gen + 1
            /\ Revoked(step.slot).owner = None
            /\ Revoked(step.slot).state = step.slot.state
            /\ Revoked(step.slot).entry = step.slot.entry
        BY <2>3, <3>1, RevokedOK DEF Revoked, Changed
      <4>2. step.slot.gen \in Nat /\ step.slot.gen = table[s].gen
        BY <2>3, <3>1 DEF Changed, Slot
      <4> QED BY <2>3, <3>1, <4>1, <4>2 DEF SlotOK, SlotStep, Changed, Valid
    <3>2. CASE ~step.changed
      BY <2>1, <2>3, <3>2 DEF SlotOK, SlotStep, Kept, Valid, Declared
    <3> QED BY <3>1, <3>2
  <2>5. /\ table' = [table EXCEPT ![s] = new]
        /\ poll' = NextPoll(poll.changed \/ step.changed)
        /\ lastPoll' = [lastPoll EXCEPT ![s] = poll.result]
        /\ UNCHANGED <<fitted, disturbances, confirmed, caps, lease, holds>>
    BY <1>3 DEF Apply, slotVars, leaseVars
  <2> HIDE DEF new, step, s
  <2>6. \A t \in Slots : SlotOK(table'[t]) /\ SlotStep(table[t], table'[t])
    BY <1>0, <2>1, <2>4, <2>5 DEF IInv, ModulesTypeOK, SlotStep
  <2>7. table' \in [Slots -> Slot]
    BY <1>0, <2>1, <2>4, <2>5 DEF ModulesTypeOK, SlotOK
  <2>8. poll' \in [pc : {"bus", "recompute", "end"}, slot : Slots, result : {None},
                   changed : BOOLEAN]
    BY <1>0, <2>3, <2>5, ModulesConstantsOK DEF NextPoll, ModulesTypeOK, Slots
  <2>9. ModulesTypeOK'
    BY <1>0, <2>1, <2>5, <2>7, <2>8 DEF ModulesTypeOK
  <2> QED BY <1>b, <2>5, <2>6, <2>8, <2>9
<1>4. ASSUME RecomputeRound
      PROVE  IInv' /\ TableStep
  <2>1. /\ table' \in [Slots -> Slot] /\ caps' \subseteq Caps
        /\ \A s \in Slots : SlotOK(table'[s]) /\ SlotStep(table[s], table'[s])
    BY <1>0, <1>4, RecomputeIInv DEF RecomputeRound, ModulesTypeOK
  <2>2. ModulesTypeOK' /\ poll'.pc = "end"
    BY <1>0, <1>4, <2>1 DEF RecomputeRound, slotVars, leaseVars, ModulesTypeOK
  <2> QED BY <1>4, <1>b, <2>1, <2>2 DEF RecomputeRound, leaseVars
<1>5. ASSUME EndRound
      PROVE  IInv' /\ TableStep
  <2>1. ModulesTypeOK' /\ poll'.pc = "bus"
    BY <1>0, <1>5 DEF EndRound, slotVars, coreVars, leaseVars, ModulesTypeOK
  <2> QED BY <1>5, <1>a, <2>1 DEF EndRound, coreVars, leaseVars
<1>6. ASSUME DriversWord
      PROVE  IInv' /\ TableStep
  <2>1. PICK cs \in Providers, present \in BOOLEAN : Confirm(cs, present)
    BY <1>6 DEF DriversWord
  <2>2. confirmed' \in SUBSET Caps
    BY <1>0, <2>1, ModulesConstantsOK DEF Confirm, ModulesTypeOK
  <2>3. /\ table' \in [Slots -> Slot] /\ caps' \subseteq Caps
        /\ \A s \in Slots : SlotOK(table'[s]) /\ SlotStep(table[s], table'[s])
    BY <2>1, <2>2, RecomputeIInv DEF Confirm
  <2>4. ModulesTypeOK'
    BY <1>0, <2>1, <2>2, <2>3 DEF Confirm, slotVars, pollVars, leaseVars, ModulesTypeOK
  <2> QED BY <1>b, <2>1, <2>3, <2>4 DEF Confirm, pollVars, leaseVars, IInv
<1>7. ASSUME NEW d \in Drivers, NEW s \in Slots, NEW lines \in (SUBSET Lines) \ {{}},
             Claim(d, s, lines)
      PROVE  IInv'
  <2> DEFINE old == table[s]
             own == [old EXCEPT !.owner = d]
             new == [own EXCEPT !.claimed = lines]
             mine == [slot |-> s, gen |-> old.gen, on |-> old.entry, lines |-> lines]
  <2>1. old \in Slot /\ SlotOK(old) /\ old.state = "known" /\ old.owner = None
        /\ old.entry \in Contents /\ lines \subseteq Declared(old)
    BY <1>0, <1>7 DEF Claim, IInv, ModulesTypeOK, SlotOK, Valid
  <2>2. table' = [table EXCEPT ![s] = new] /\ lease' = [lease EXCEPT ![d] = mine]
    BY <1>0, <1>7, <2>1 DEF Claim, ModulesTypeOK, Slot
  <2>3. new \in Slot
    <3>1. own \in Slot
      BY <2>1, FieldsOK
    <3> HIDE DEF own
    <3> QED BY <3>1, FieldsOK
  <2>4. /\ new.gen = old.gen /\ new.owner = d /\ new.entry = old.entry
        /\ new.claimed = lines /\ new.state = "known"
    BY <2>1 DEF Slot
  <2>5. mine \in Lease
    BY <2>1 DEF Lease, Slot
  <2>6. mine.slot = s /\ mine.gen = old.gen /\ mine.on = old.entry /\ mine.lines = lines
    OBVIOUS
  <2> HIDE DEF old, own, new, mine
  <2>7. ModulesTypeOK'
    <3>1. table' \in [Slots -> Slot] /\ lease' \in [Drivers -> Lease]
      BY <1>0, <2>2, <2>3, <2>5 DEF ModulesTypeOK
    <3> QED BY <1>0, <1>7, <3>1 DEF Claim, slotVars, pollVars, ModulesTypeOK
  <2>8. \A t \in Slots : SlotOK(table'[t])
    <3>1. SlotOK(new)
      BY <2>1, <2>3, <2>4 DEF SlotOK, Declared
    <3> QED BY <1>0, <2>2, <3>1 DEF IInv, ModulesTypeOK
  <2>9. ASSUME NEW e \in Drivers, lease'[e].slot \in Slots
        PROVE  LeaseOK(lease'[e], e, table'[lease'[e].slot])
    <3>1. CASE e = d
      <4>1. lease'[e] = mine /\ table'[s] = new
        BY <1>0, <2>2, <3>1 DEF ModulesTypeOK
      <4>2. old.gen \in Nat
        BY <2>1 DEF Slot
      <4> QED BY <2>4, <2>6, <3>1, <4>1, <4>2 DEF LeaseOK
    <3>2. CASE e # d
      <4>1. lease'[e] = lease[e]
        BY <1>0, <2>2, <3>2 DEF ModulesTypeOK
      <4>2. LeaseOK(lease[e], e, table[lease[e].slot])
        BY <2>9, <4>1 DEF IInv
      <4>3. CASE lease[e].slot = s
        <5>1. lease[e].gen # old.gen /\ lease[e].gen <= old.gen
          BY <2>1, <4>2, <4>3, ModulesConstantsOK DEF LeaseOK, old
        <5>2. table'[s] = new
          BY <1>0, <2>2 DEF ModulesTypeOK
        <5> QED BY <2>4, <4>1, <4>3, <5>1, <5>2 DEF LeaseOK
      <4>4. CASE lease[e].slot # s
        <5>1. table'[lease[e].slot] = table[lease[e].slot]
          BY <1>0, <2>2, <4>4, <2>9, <4>1 DEF ModulesTypeOK
        <5> QED BY <4>1, <4>2, <5>1
      <4> QED BY <4>3, <4>4
    <3> QED BY <3>1, <3>2
  <2> QED BY <1>7, <2>7, <2>8, <2>9 DEF Claim, pollVars, IInv
<1>8. ASSUME NEW d \in Drivers, Release(d)
      PROVE  IInv' /\ TableStep
  <2>1. CASE ~LeaseValid(lease[d])
    <3>1. ModulesTypeOK' /\ UNCHANGED <<table, lease, poll>>
      BY <1>0, <1>8, <2>1 DEF Release, slotVars, pollVars, ModulesTypeOK
    <3> QED BY <1>a, <3>1 DEF IInv
  <2>2. CASE LeaseValid(lease[d])
    <3> DEFINE s == lease[d].slot
               new == Revoked(table[s])
    <3>1. s \in Slots /\ table[s] \in Slot /\ SlotOK(table[s])
      BY <1>0, <2>2 DEF LeaseValid, IInv, ModulesTypeOK
    <3>2. table' = [table EXCEPT ![s] = new]
      BY <1>0, <1>8, <2>2, <3>1 DEF Release, ModulesTypeOK
    <3>3. /\ new \in Slot /\ new.gen = table[s].gen + 1 /\ new.owner = None
          /\ new.state = table[s].state /\ new.entry = table[s].entry
      BY <3>1, RevokedOK DEF Revoked
    <3>4. table[s].gen \in Nat
      BY <3>1 DEF Slot
    <3> HIDE DEF new, s
    <3>5. SlotOK(new) /\ SlotStep(table[s], new)
      BY <3>1, <3>3, <3>4 DEF SlotOK, SlotStep, Valid
    <3>6. \A t \in Slots : SlotOK(table'[t]) /\ SlotStep(table[t], table'[t])
      BY <1>0, <3>1, <3>2, <3>5 DEF IInv, ModulesTypeOK, SlotStep
    <3>7. table' \in [Slots -> Slot]
      BY <1>0, <3>2, <3>3 DEF ModulesTypeOK
    <3>8. ModulesTypeOK' /\ UNCHANGED <<lease, poll>>
      BY <1>0, <1>8, <3>7 DEF Release, slotVars, pollVars, ModulesTypeOK
    <3> QED BY <1>b, <3>6, <3>8 DEF IInv
  <2> QED BY <2>1, <2>2
<1>9. ASSUME UNCHANGED vars
      PROVE  IInv' /\ TableStep
  <2>1. ModulesTypeOK' /\ UNCHANGED <<table, lease, poll>>
    BY <1>0, <1>9 DEF vars, slotVars, coreVars, pollVars, leaseVars, ModulesTypeOK
  <2> QED BY <1>a, <2>1 DEF IInv
<1> QED BY <1>1, <1>2, <1>3, <1>4, <1>5, <1>6, <1>7, <1>8, <1>9 DEF Next

(* In every state the slots are well formed, and a lease that carries its  *)
(* slot's present generation is the owner's, claimed on the present entry. *)
THEOREM IInvInvariant == Spec => []IInv
<1>1. IInv /\ [Next]_vars => IInv'
  BY NextIInv
<1> QED BY InitIInv, <1>1, PTL DEF Spec

-----------------------------------------------------------------------------
(* What follows.                                                           *)

(* A valid lease is its driver's, on the slot's present module.            *)
LEMMA ValidLease ==
  ASSUME IInv, NEW d \in Drivers, LeaseValid(lease[d])
  PROVE  LET slot == table[lease[d].slot]
         IN  /\ slot.owner = d /\ slot.state = "known" /\ slot.entry = lease[d].on
             /\ slot.claimed = lease[d].lines /\ lease[d].lines \subseteq Declared(slot)
  BY DEF IInv, LeaseValid, LeaseOK, SlotOK

(* Every variable of the slot table keeps its type.                        *)
THEOREM ModuleTypeCorrect == Spec => []ModulesTypeOK
  BY IInvInvariant, PTL DEF IInv

(* module_core_claim(), module_core_release(), revoke(): however slots are *)
(* claimed, released, revoked and claimed again, two drivers never hold    *)
(* valid leases on one slot.                                               *)
THEOREM OneHolder == Spec => []OneHolderPerSlot
<1>1. IInv => OneHolderPerSlot
  <2> SUFFICES ASSUME IInv, NEW d \in Drivers, NEW e \in Drivers,
                      LeaseValid(lease[d]), LeaseValid(lease[e]), lease[d].slot = lease[e].slot
               PROVE  d = e
    BY DEF OneHolderPerSlot
  <2>1. table[lease[d].slot].owner = d /\ table[lease[e].slot].owner = e
    BY ValidLease
  <2> QED BY <2>1
<1> QED BY <1>1, IInvInvariant, PTL

(* module_core_tick(): no lease survives the module it was claimed on.     *)
THEOREM LeasesDie == Spec => []LeaseDiesWithModule
<1>1. IInv => LeaseDiesWithModule
  BY ValidLease DEF LeaseDiesWithModule
<1> QED BY <1>1, IInvInvariant, PTL

(* A step of stark_module_spi.c leaves the table alone.                    *)
LEMMA SpiStepIsCoreStep == [SpiNext]_spiAllVars => [Next]_vars
<1>1. ASSUME NEW d \in Drivers,
             \/ AttachPins(d) \/ AttachCheck(d) \/ AttachAdd(d) \/ AttachFails(d)
             \/ XferCheck(d) \/ Transmit(d) \/ Detach(d)
      PROVE  UNCHANGED vars
  BY <1>1 DEF AttachPins, AttachCheck, AttachAdd, AttachFails, XferCheck, Transmit, Detach, DriverStep
<1> QED BY <1>1 DEF SpiNext, Next, spiAllVars

(* stark_module_spi.c reaches the table through claims and releases only:  *)
(* with its steps hidden, the drivers' system is the slot table's.         *)
THEOREM SpiImplementsCore == SpiSpec => Spec
<1>1. SpiInit => Init
  BY DEF SpiInit
<1> QED BY <1>1, SpiStepIsCoreStep, PTL DEF SpiSpec, Spec

-----------------------------------------------------------------------------
(* The SPI devices.                                                        *)

(* A device carries a lease of its slot on the chip select, one that a     *)
(* driver still keeps if it is of the slot's present generation.           *)
DeviceOK(dev, s, slot) ==
  dev # NoLease =>
    /\ dev \in Lease /\ dev.slot = s /\ "spi" \in dev.lines
    /\ dev.gen <= slot.gen
    /\ dev.gen = slot.gen => \E d \in Drivers : lease[d] = dev

SpiInv ==
  /\ IInv
  /\ SpiTypeOK
  /\ \A d \in Drivers : driverPc[d] \in {"check", "add"} =>
       lease[d].slot \in Slots /\ "spi" \in lease[d].lines
  /\ \A s \in Slots : DeviceOK(devices[s], s, table[s])

(* A step of the table keeps what the devices tell.                        *)
LEMMA DevicesKept ==
  ASSUME SpiInv, IInv', UNCHANGED devices, NEW s \in Slots,
         TableStep \/ \E d \in Drivers, t \in Slots, lines \in SUBSET Lines : Claim(d, t, lines)
  PROVE  DeviceOK(devices[s], s, table[s])'
<1> SUFFICES ASSUME devices[s] # NoLease
             PROVE  /\ devices[s].gen <= table'[s].gen
                    /\ devices[s].gen = table'[s].gen => \E d \in Drivers : lease'[d] = devices[s]
  BY DEF SpiInv, DeviceOK
<1> DEFINE dev == devices[s]
<1>1. /\ dev \in Lease /\ dev.slot = s /\ dev.gen <= table[s].gen
      /\ dev.gen = table[s].gen => \E d \in Drivers : lease[d] = dev
  BY DEF SpiInv, DeviceOK
<1>2. dev.gen \in Nat /\ table[s].gen \in Nat /\ table'[s].gen \in Nat
  <2>1. dev \in Lease /\ table[s] \in Slot /\ table'[s] \in Slot
    BY <1>1 DEF SpiInv, IInv, ModulesTypeOK
  <2> QED BY <2>1 DEF Lease, NoLease, Slot
<1>3. CASE TableStep
  <2>1. UNCHANGED lease /\ SlotStep(table[s], table'[s])
    BY <1>3 DEF TableStep
  <2> HIDE DEF dev
  <2>2. table'[s].gen >= table[s].gen
    BY <1>2, <2>1 DEF SlotStep
  <2> QED BY <1>1, <1>2, <2>1, <2>2 DEF dev
<1>4. ASSUME NEW d \in Drivers, NEW t \in Slots, NEW lines \in SUBSET Lines, Claim(d, t, lines)
      PROVE  /\ dev.gen <= table'[s].gen
             /\ dev.gen = table'[s].gen => \E e \in Drivers : lease'[e] = dev
  <2>1. table'[s].gen = table[s].gen
    BY <1>4 DEF Claim, SpiInv, IInv, ModulesTypeOK, Slot
  <2>2. \A e \in Drivers \ {d} : lease'[e] = lease[e]
    BY <1>4 DEF Claim, SpiInv, IInv, ModulesTypeOK
  <2>3. lease[d] = dev => dev.gen # table[s].gen
    <3> SUFFICES ASSUME lease[d] = dev, dev.gen = table[s].gen PROVE FALSE
      OBVIOUS
    <3>1. table[s].owner = d
      BY <1>1 DEF SpiInv, IInv, LeaseOK
    <3>2. LeaseValid(lease[d])
      BY <1>1, <3>1, ModulesConstantsOK DEF LeaseValid
    <3> QED BY <1>4, <3>2 DEF Claim
  <2> QED BY <1>1, <2>1, <2>2, <2>3
<1> QED BY <1>3, <1>4

(* Every step of the drivers' system keeps SpiInv.                         *)
LEMMA SpiNextInv == SpiInv /\ [SpiNext]_spiAllVars => SpiInv'
<1> SUFFICES ASSUME SpiInv, [SpiNext]_spiAllVars PROVE SpiInv'
  OBVIOUS
<1>0. IInv /\ SpiTypeOK
  BY DEF SpiInv
<1>1. ASSUME [Next]_vars, UNCHANGED spiVars,
             \A d \in Drivers : driverPc[d] # "idle" => lease'[d] = lease[d]
      PROVE  SpiInv'
  <2>1. IInv' /\ (TableStep \/ \E d \in Drivers, s \in Slots, lines \in SUBSET Lines : Claim(d, s, lines))
    BY <1>0, <1>1, NextIInv
  <2>2. \A s \in Slots : DeviceOK(devices[s], s, table[s])'
    BY <1>1, <2>1, DevicesKept DEF spiVars
  <2>3. SpiTypeOK'
    BY <1>0, <1>1, <2>1 DEF SpiTypeOK, IInv, spiVars
  <2> QED BY <1>1, <2>1, <2>2, <2>3 DEF SpiInv, spiVars
<1>2. ASSUME UNCHANGED vars, SpiTypeOK',
             \A d \in Drivers : driverPc'[d] \in {"check", "add"} =>
               lease[d].slot \in Slots /\ "spi" \in lease[d].lines,
             \A s \in Slots : DeviceOK(devices'[s], s, table[s])
      PROVE  SpiInv'
  <2>1. UNCHANGED <<table, lease>>
    BY <1>2 DEF vars, coreVars, leaseVars
  <2>2. IInv'
    BY <1>0, <1>2, NextIInv
  <2>3. \A s \in Slots : DeviceOK(devices[s], s, table[s])'
    BY <1>2, <2>1 DEF DeviceOK
  <2> QED BY <1>2, <2>1, <2>2, <2>3 DEF SpiInv
<1>3. UNCHANGED vars => ModulesTypeOK'
  BY <1>0, NextIInv DEF IInv
<1>4. ASSUME NEW d \in Drivers, NEW pc \in {"idle", "transmit"}, NEW from, DriverStep(d, from, pc),
             UNCHANGED <<handle, devices>>
      PROVE  SpiInv'
  <2>1. SpiTypeOK'
    BY <1>0, <1>3, <1>4 DEF SpiTypeOK, DriverStep
  <2>2. \A e \in Drivers : driverPc'[e] \in {"check", "add"} => driverPc[e] \in {"check", "add"}
    BY <1>0, <1>4 DEF DriverStep, SpiTypeOK
  <2> QED BY <1>2, <1>4, <2>1, <2>2 DEF DriverStep, SpiInv
<1>5. ASSUME NEW d \in Drivers, AttachPins(d)
      PROVE  SpiInv'
  <2>1. lease[d].slot \in Slots /\ "spi" \in lease[d].lines
    BY <1>0, <1>5, ValidLease DEF AttachPins, LeaseValid
  <2>2. SpiTypeOK'
    BY <1>0, <1>3, <1>5 DEF SpiTypeOK, AttachPins, DriverStep
  <2>3. \A e \in Drivers \ {d} : driverPc'[e] = driverPc[e]
    BY <1>0, <1>5 DEF AttachPins, DriverStep, SpiTypeOK
  <2> QED BY <1>2, <1>5, <2>1, <2>2, <2>3 DEF AttachPins, DriverStep, SpiInv
<1>6. ASSUME NEW d \in Drivers, AttachCheck(d)
      PROVE  SpiInv'
  <2>1. CASE devices[lease[d].slot] = NoLease
    <3>1. SpiTypeOK'
      BY <1>0, <1>3, <1>6 DEF SpiTypeOK, AttachCheck, DriverStep
    <3>2. \A e \in Drivers : driverPc'[e] \in {"check", "add"} => driverPc[e] \in {"check", "add"}
      BY <1>0, <1>6 DEF AttachCheck, DriverStep, SpiTypeOK
    <3> QED BY <1>2, <1>6, <3>1, <3>2 DEF AttachCheck, DriverStep, SpiInv
  <2>2. CASE devices[lease[d].slot] # NoLease
    BY <1>4, <1>6, <2>2 DEF AttachCheck
  <2> QED BY <2>1, <2>2
<1>7. ASSUME NEW d \in Drivers, AttachAdd(d) \/ AttachFails(d)
      PROVE  SpiInv'
  <2> DEFINE s == lease[d].slot
             dev == IF AttachAdd(d) THEN lease[d] ELSE NoLease
  <2>1. s \in Slots /\ "spi" \in lease[d].lines /\ lease[d] \in Lease
    BY <1>0, <1>7 DEF AttachAdd, AttachFails, DriverStep, SpiInv, IInv, ModulesTypeOK
  <2>2. /\ devices' = [devices EXCEPT ![s] = dev]
        /\ handle' \in [Drivers -> Slots \cup {0}]
        /\ driverPc' = [driverPc EXCEPT ![d] = "idle"]
        /\ UNCHANGED vars
    BY <1>0, <1>7, <2>1 DEF AttachAdd, AttachFails, DriverStep, SpiTypeOK
  <2>3. DeviceOK(dev, s, table[s])
    BY <1>0, <2>1 DEF DeviceOK, IInv, LeaseOK
  <2>4. dev \in Lease
    BY <2>1 DEF Lease
  <2> HIDE DEF s, dev
  <2>5. SpiTypeOK'
    BY <1>0, <1>3, <2>1, <2>2, <2>4 DEF SpiTypeOK
  <2>6. \A e \in Drivers : driverPc'[e] \in {"check", "add"} => driverPc[e] \in {"check", "add"}
    BY <1>0, <2>2 DEF SpiTypeOK
  <2>7. \A t \in Slots : DeviceOK(devices'[t], t, table[t])
    BY <1>0, <2>2, <2>3 DEF SpiInv, SpiTypeOK
  <2> QED BY <1>2, <2>2, <2>5, <2>6, <2>7 DEF SpiInv
<1>8. ASSUME NEW d \in Drivers, XferCheck(d) \/ Transmit(d)
      PROVE  SpiInv'
  BY <1>4, <1>8 DEF XferCheck, Transmit
<1>9. ASSUME NEW d \in Drivers, Detach(d)
      PROVE  SpiInv'
  <2>1. /\ handle[d] \in Slots /\ devices' = [devices EXCEPT ![handle[d]] = NoLease]
        /\ handle' \in [Drivers -> Slots \cup {0}]
        /\ driverPc' = driverPc /\ UNCHANGED vars
    BY <1>0, <1>9 DEF Detach, DriverStep, SpiTypeOK
  <2>2. SpiTypeOK'
    BY <1>0, <1>3, <2>1 DEF SpiTypeOK, Lease
  <2>3. \A t \in Slots : DeviceOK(devices'[t], t, table[t])
    BY <1>0, <2>1 DEF SpiInv, SpiTypeOK, DeviceOK
  <2> QED BY <1>2, <2>1, <2>2, <2>3 DEF SpiInv
<1>10. CASE UNCHANGED spiAllVars
  BY <1>1, <1>10 DEF spiAllVars, vars, leaseVars
<1>11. ASSUME UNCHANGED spiVars,
              \/ \E s \in Slots, c \in Contents \cup {None} : Fit(s, c)
              \/ BusCalls \/ Apply \/ RecomputeRound \/ EndRound
              \/ DriversWord
       PROVE  SpiInv'
  <2>1. UNCHANGED lease
    BY <1>11 DEF Fit, BusCalls, Apply, RecomputeRound, EndRound, DriversWord, Confirm, leaseVars
  <2>2. Next
    BY <1>11 DEF Next
  <2> QED BY <1>1, <1>11, <2>1, <2>2
<1>12. ASSUME UNCHANGED spiVars, NEW d \in Drivers, driverPc[d] = "idle",
              \/ \E s \in Slots, lines \in (SUBSET Lines) \ {{}} : Claim(d, s, lines)
              \/ Release(d)
       PROVE  SpiInv'
  <2>1. \A e \in Drivers \ {d} : lease'[e] = lease[e]
    BY <1>0, <1>12 DEF Claim, Release, IInv, ModulesTypeOK
  <2>2. Next
    BY <1>12 DEF Next
  <2> QED BY <1>1, <1>12, <2>1, <2>2
<1> QED BY <1>5, <1>6, <1>7, <1>8, <1>9, <1>10, <1>11, <1>12 DEF SpiNext

(* At boot no SPI device is attached.                                       *)
LEMMA SpiInitInv == SpiInit => SpiInv
  BY InitIInv DEF SpiInit, SpiInv, SpiTypeOK, IInv, DeviceOK, Lease

(* In every state an SPI device whose lease carries the slot's generation   *)
(* was attached by the slot's holder, on the module it was claimed on.      *)
THEOREM SpiInvInvariant == SpiSpec => []SpiInv
  BY SpiInitInv, SpiNextInv, PTL DEF SpiSpec

(* stark_module_spi_xfer(): a device whose lease passes the check is on    *)
(* the module it was added for, in the hands of the driver that claimed    *)
(* the chip select.                                                        *)
THEOREM LiveDevices == SpiSpec => []LiveDeviceIsOnItsModule
<1>1. SpiInv => LiveDeviceIsOnItsModule
  <2> SUFFICES ASSUME SpiInv, NEW s \in Slots, LeaseValid(devices[s])
               PROVE  /\ devices[s].slot = s
                      /\ table[s].entry = devices[s].on
                      /\ "spi" \in table[s].claimed
                      /\ \E d \in Drivers : lease[d] = devices[s] /\ table[s].owner = d
    BY DEF LiveDeviceIsOnItsModule
  <2>1. devices[s] # NoLease
    BY DEF LeaseValid, NoLease, Slots
  <2>2. /\ devices[s].slot = s /\ "spi" \in devices[s].lines
        /\ devices[s].gen = table[s].gen => \E d \in Drivers : lease[d] = devices[s]
    BY <2>1 DEF SpiInv, DeviceOK
  <2>3. PICK d \in Drivers : lease[d] = devices[s]
    BY <2>2 DEF LeaseValid
  <2> QED BY <2>2, <2>3, ValidLease DEF SpiInv
<1> QED BY <1>1, SpiInvInvariant, PTL

(* A device whose lease went stale is dead until it is attached again: no  *)
(* claim, release or poll brings its generation back.                      *)
THEOREM StaleDevices == SpiSpec => StaleDevicesStayStale
<1>1. SpiInv /\ [SpiNext]_spiAllVars =>
        [\A s \in Slots : devices'[s] = devices[s] /\ ~LeaseValid(devices[s])
                           => ~LeaseValid(devices[s])']_spiAllVars
  <2> SUFFICES ASSUME SpiInv, [SpiNext]_spiAllVars, NEW s \in Slots,
                      devices'[s] = devices[s], ~LeaseValid(devices[s]), LeaseValid(devices[s])'
               PROVE  FALSE
    OBVIOUS
  <2> DEFINE dev == devices[s]
  <2>1. /\ IInv' /\ (TableStep \/ \E d \in Drivers, t \in Slots, lines \in SUBSET Lines : Claim(d, t, lines))
    BY SpiStepIsCoreStep, NextIInv DEF SpiInv
  <2>2. dev # NoLease
    BY DEF LeaseValid, NoLease, Slots
  <2>3. /\ dev \in Lease /\ dev.slot = s /\ dev.gen <= table[s].gen
        /\ dev.gen = table[s].gen => \E d \in Drivers : lease[d] = dev
    BY <2>2 DEF SpiInv, DeviceOK
  <2>4. dev.gen = table'[s].gen
    BY <2>3 DEF LeaseValid
  <2>5. dev.gen # table[s].gen
    <3> SUFFICES ASSUME dev.gen = table[s].gen PROVE FALSE
      OBVIOUS
    <3>1. PICK d \in Drivers : lease[d] = dev
      BY <2>3
    <3>2. table[s].owner = d
      BY <2>3, <3>1 DEF SpiInv, IInv, LeaseOK
    <3> QED BY <2>3, <3>2, ModulesConstantsOK DEF LeaseValid
  <2>6. table[s].gen \in Nat /\ table'[s].gen \in Nat /\ dev.gen \in Nat
    <3>1. table[s] \in Slot /\ table'[s] \in Slot
      BY <2>1 DEF SpiInv, IInv, ModulesTypeOK
    <3> QED BY <2>4, <3>1 DEF Slot
  <2>7. table'[s].gen >= table[s].gen
    <3>1. CASE TableStep
      BY <2>6, <3>1 DEF TableStep, SlotStep
    <3>2. CASE \E d \in Drivers, t \in Slots, lines \in SUBSET Lines : Claim(d, t, lines)
      BY <2>6, <3>2 DEF Claim, SpiInv, IInv, ModulesTypeOK, Slot
    <3> QED BY <2>1, <3>1, <3>2
  <2> QED BY <2>3, <2>4, <2>5, <2>6, <2>7
<1> QED BY <1>1, SpiInvInvariant, PTL DEF SpiSpec, StaleDevicesStayStale
=============================================================================
