----------------------------- MODULE ModuleCore -----------------------------
(***************************************************************************)
(* The slot table of module_core.c: the module task polls every slot,      *)
(* drivers confirm capabilities and claim a slot's lines.                  *)
(*                                                                         *)
(* Every action is one critical section of the table's lock, or one step   *)
(* the module task takes without it.  Bus calls are made with the lock     *)
(* released.                                                               *)
(***************************************************************************)
EXTENDS Integers, FiniteSets

CONSTANTS
  NSlots,           \* STARK_MODULE_SLOTS
  Contents,         \* what a slot's ID EEPROM may hold
  Parse,            \* what module_desc_parse() makes of each
  Hash,             \* hash32() of each
  Unreadable,       \* contents that answer the probe and fail every read
  Wired,            \* the slots whose chip select and IRQ lines the board wires
  Providers,        \* the sets of capabilities that drivers confirm
  Drivers,          \* tasks that claim a slot
  None,             \* stands for no content, no hash and no owner
  MaxGen,           \* bound: no claim and no word in a later generation of a slot
  MaxDisturbances   \* bound: modules put in or taken out, bus faults

Caps == {"ir", "nfc", "spi", "irq", "unknown"}
Lines == {"spi", "irq"}
Exclusive == {"nfc"}

(* A content either fails to parse, or declares an id and capabilities.    *)
ASSUME ModulesConstantsOK ==
  /\ NSlots \in Nat \ {0}
  /\ Parse \in [Contents -> [ok : BOOLEAN, id : Nat, caps : SUBSET Caps]]
  /\ Contents \cap {"miss", "error"} = {}
  /\ None \notin Contents \cup {"miss", "error"}
  /\ DOMAIN Hash = Contents
  /\ Providers \subseteq SUBSET Caps
  /\ None \notin Drivers
  /\ MaxGen \in Nat
  /\ MaxDisturbances \in Nat

Slots == 1..NSlots

VARIABLES
  fitted,        \* what is in each slot
  disturbances,  \* modules moved and bus faults so far
  table,         \* c->slot
  confirmed,     \* c->confirmed
  caps,          \* c->caps
  poll,          \* module_core_tick(): [pc, slot, result, changed]
  lastPoll,      \* history: the result of each slot's previous poll
  lease,         \* the lease each driver keeps, with what it was claimed on
  holds          \* history: the driver has claimed and not released

slotVars == <<fitted, disturbances>>
coreVars == <<table, confirmed, caps>>
pollVars == <<poll, lastPoll>>
leaseVars == <<lease, holds>>
vars == <<slotVars, coreVars, pollVars, leaseVars>>

-----------------------------------------------------------------------------
(* One slot of the table.                                                  *)

MissLimit == 2
ReadLimit == 3

(* s->valid: a parsed, supported descriptor.                               *)
Valid(slot) == slot.state \in {"known", "conflict"}
Declared(slot) == IF slot.entry = None THEN {} ELSE Parse[slot.entry].caps

Supported(cs) == "ir" \notin cs /\ ("nfc" \in cs => "spi" \notin cs)

ClearEntry(slot) == [slot EXCEPT !.state = "absent", !.entry = None]
MakeGeneric(slot) == [slot EXCEPT !.state = "generic", !.entry = None]

Accept(slot, c) ==
  IF ~Parse[c].ok THEN MakeGeneric(slot)
  ELSE [slot EXCEPT !.state = IF Supported(Parse[c].caps) THEN "known" ELSE "generic", !.entry = c]

(* Definitions with Slip in their name are plausible mistakes in the ones  *)
(* that follow; they are used only to show that a property can fail.       *)

(* Slip: the generation stays.                                               *)
RevokedSlip(slot) == [slot EXCEPT !.owner = None, !.claimed = {}]

Revoked(slot) == [slot EXCEPT !.gen = @ + 1, !.owner = None, !.claimed = {}]

(* Slip: a miss does not undo a first read.                                  *)
MissedSlip(slot) ==
  [slot |-> [slot EXCEPT !.errors = 0, !.misses = IF @ < MissLimit THEN @ + 1 ELSE @],
   changed |-> FALSE]

(* apply(): the slot after a poll, and whether its entry changed.          *)
Missed(slot) ==
  LET counted == [slot EXCEPT !.seen = None, !.errors = 0,
                              !.misses = IF @ < MissLimit THEN @ + 1 ELSE @]
  IN  IF counted.misses < MissLimit \/ slot.state = "absent"
      THEN [slot |-> counted, changed |-> FALSE]
      ELSE [slot |-> ClearEntry([counted EXCEPT !.accepted = None]), changed |-> TRUE]

ReadFailed(slot) ==
  LET counted == [slot EXCEPT !.misses = 0, !.seen = None,
                              !.errors = IF @ < ReadLimit THEN @ + 1 ELSE @]
  IN  IF slot.state # "absent" \/ counted.errors < ReadLimit
      THEN [slot |-> counted, changed |-> FALSE]
      ELSE [slot |-> MakeGeneric(counted), changed |-> TRUE]

ReadBack(slot, c) ==
  LET h == Hash[c]
      noted == [slot EXCEPT !.misses = 0, !.errors = 0, !.seen = h]
  IN  IF slot.seen # h \/ slot.accepted = h
      THEN [slot |-> noted, changed |-> FALSE]
      ELSE [slot |-> Accept([noted EXCEPT !.accepted = h], c), changed |-> TRUE]

Polled(slot, result) ==
  CASE result = "miss" -> Missed(slot)
    [] result = "error" -> ReadFailed(slot)
    [] OTHER -> ReadBack(slot, result)

-----------------------------------------------------------------------------
(* recompute(): conflicts among the valid slots, then the capabilities.    *)

Overlap(a, b) ==
  /\ Valid(a) /\ Valid(b)
  /\ \/ Declared(a) \cap Declared(b) \cap Exclusive # {}
     \/ Parse[a.entry].id = Parse[b.entry].id /\ (Declared(a) \cup Declared(b)) \cap Exclusive # {}

Rivals(tbl, s) == {t \in Slots \ {s} : Overlap(tbl[s], tbl[t])}

(* Slip: a slot whose rival is gone stays in conflict.                       *)
ResolvedSlip(tbl) ==
  [s \in Slots |->
    IF Rivals(tbl, s) = {} THEN tbl[s]
    ELSE [tbl[s] EXCEPT !.state = "conflict", !.owner = None, !.claimed = {},
                        !.gen = @ + Cardinality(Rivals(tbl, s))]]

Resolved(tbl) ==
  [s \in Slots |->
    CASE Rivals(tbl, s) # {} ->
           [tbl[s] EXCEPT !.state = "conflict", !.owner = None, !.claimed = {},
                          !.gen = @ + Cardinality(Rivals(tbl, s))]
      [] Rivals(tbl, s) = {} /\ Valid(tbl[s]) -> [tbl[s] EXCEPT !.state = "known"]
      [] OTHER -> tbl[s]]

Withheld(tbl) ==
  {cap \in Exclusive : \E s \in Slots : Rivals(tbl, s) # {} /\
     \E t \in {s} \cup Rivals(tbl, s) : cap \in Declared(tbl[t])}

Effective(conf, tbl) == (conf \ Withheld(tbl)) \cap (Caps \ (Lines \cup {"unknown"}))

Recompute(conf) ==
  /\ table' = Resolved(table)
  /\ caps' = Effective(conf, table)

-----------------------------------------------------------------------------
(* The slots and the bus.                                                  *)

Disturb ==
  /\ disturbances < MaxDisturbances
  /\ disturbances' = disturbances + 1

Fit(s, c) ==
  /\ Disturb
  /\ fitted[s] # c
  /\ fitted' = [fitted EXCEPT ![s] = c]
  /\ UNCHANGED <<coreVars, pollVars, leaseVars>>

(* A probe and a read.  Without a fault the module in the slot answers.    *)
Answer(c) == CASE c = None -> "miss" [] c \in Unreadable -> "error" [] OTHER -> c

BusCalls ==
  /\ poll.pc = "bus"
  /\ \/ /\ poll' = [poll EXCEPT !.pc = "apply", !.result = Answer(fitted[poll.slot])]
        /\ UNCHANGED disturbances
     \/ /\ Disturb
        /\ \E fault \in {"miss", "error"} :
             poll' = [poll EXCEPT !.pc = "apply", !.result = fault]
  /\ UNCHANGED <<fitted, coreVars, lastPoll, leaseVars>>

-----------------------------------------------------------------------------
(* A round of the module task: module_core_tick(), then publish_change(),  *)
(* which changes nothing here.                                             *)

NextPoll(changed) ==
  LET next == CASE poll.slot < NSlots -> "bus"
                [] poll.slot = NSlots /\ changed -> "recompute"
                [] OTHER -> "end"
  IN  [pc |-> next, slot |-> IF next = "bus" THEN poll.slot + 1 ELSE 1,
       result |-> None, changed |-> changed]

(* Slip: a change of the slot does not revoke its lease.                     *)
ApplySlip ==
  /\ poll.pc = "apply"
  /\ LET step == Polled(table[poll.slot], poll.result)
     IN  /\ table' = [table EXCEPT ![poll.slot] = step.slot]
         /\ poll' = NextPoll(poll.changed \/ step.changed)
         /\ lastPoll' = [lastPoll EXCEPT ![poll.slot] = poll.result]
  /\ UNCHANGED <<slotVars, confirmed, caps, leaseVars>>

Apply ==
  /\ poll.pc = "apply"
  /\ LET s == poll.slot
         step == Polled(table[s], poll.result)
     IN  /\ table' = [table EXCEPT ![s] = IF step.changed THEN Revoked(step.slot) ELSE step.slot]
         /\ poll' = NextPoll(poll.changed \/ step.changed)
         /\ lastPoll' = [lastPoll EXCEPT ![s] = poll.result]
  /\ UNCHANGED <<slotVars, confirmed, caps, leaseVars>>

RecomputeRound ==
  /\ poll.pc = "recompute"
  /\ Recompute(confirmed)
  /\ poll' = [poll EXCEPT !.pc = "end"]
  /\ UNCHANGED <<slotVars, confirmed, lastPoll, leaseVars>>

EndRound ==
  /\ poll.pc = "end"
  /\ poll' = [poll EXCEPT !.pc = "bus", !.changed = FALSE]
  /\ UNCHANGED <<slotVars, coreVars, lastPoll, leaseVars>>

-----------------------------------------------------------------------------
(* Leases.  A driver keeps its lease after a release and after it went     *)
(* stale, and may use it again.  It claims one slot at a time.             *)

NoLease == [slot |-> 0, gen |-> 0, on |-> None, lines |-> {}]

LeaseValid(l) == l.slot \in Slots /\ table[l.slot].owner # None /\ table[l.slot].gen = l.gen

Claim(d, s, lines) ==
  /\ ~LeaseValid(lease[d])
  /\ table[s].gen <= MaxGen
  /\ table[s].state = "known"
  /\ lines \subseteq Declared(table[s])
  /\ s \in Wired
  /\ table[s].owner = None
  /\ table' = [table EXCEPT ![s].owner = d, ![s].claimed = lines]
  /\ lease' = [lease EXCEPT ![d] = [slot |-> s, gen |-> table[s].gen, on |-> table[s].entry, lines |-> lines]]
  /\ holds' = [holds EXCEPT ![d] = TRUE]
  /\ UNCHANGED <<slotVars, confirmed, caps, pollVars>>

Release(d) ==
  /\ lease[d] # NoLease
  /\ LET s == lease[d].slot
     IN  IF LeaseValid(lease[d])
         THEN table' = [table EXCEPT ![s] = Revoked(@)]
         ELSE UNCHANGED table
  /\ holds' = [holds EXCEPT ![d] = FALSE]
  /\ UNCHANGED <<slotVars, confirmed, caps, pollVars, lease>>

-----------------------------------------------------------------------------
(* module_core_confirm(): a driver's word on a capability.                 *)
Confirm(cs, present) ==
  /\ confirmed' = IF present THEN confirmed \cup cs ELSE confirmed \ cs
  /\ Recompute(confirmed')
  /\ UNCHANGED <<slotVars, pollVars, leaseVars>>

(* Any driver may give its word at any time.                               *)
DriversWord ==
  /\ \A s \in Slots : table[s].gen <= MaxGen
  /\ \E cs \in Providers, present \in BOOLEAN : Confirm(cs, present)

-----------------------------------------------------------------------------
EmptySlot == [state |-> "absent", entry |-> None, owner |-> None, claimed |-> {}, gen |-> 0,
              misses |-> 0, errors |-> 0, seen |-> None, accepted |-> None]

Init ==
  /\ fitted \in [Slots -> Contents \cup {None}]
  /\ disturbances = 0
  /\ table = [s \in Slots |-> EmptySlot]
  /\ confirmed = {}
  /\ caps = {}
  /\ poll = [pc |-> "bus", slot |-> 1, result |-> None, changed |-> FALSE]
  /\ lastPoll = [s \in Slots |-> None]
  /\ lease = [d \in Drivers |-> NoLease]
  /\ holds = [d \in Drivers |-> FALSE]

Next ==
  \/ \E s \in Slots, c \in Contents \cup {None} : Fit(s, c)
  \/ BusCalls \/ Apply \/ RecomputeRound \/ EndRound
  \/ DriversWord
  \/ \E d \in Drivers, s \in Slots, lines \in (SUBSET Lines) \ {{}} : Claim(d, s, lines)
  \/ \E d \in Drivers : Release(d)

Spec == Init /\ [][Next]_vars

-----------------------------------------------------------------------------
(* Properties.                                                             *)

Lease == [slot : Slots, gen : Nat, on : Contents, lines : SUBSET Lines] \cup {NoLease}

Hashes == {Hash[c] : c \in Contents} \cup {None}

Slot ==
  [state : {"absent", "known", "generic", "conflict"}, entry : Contents \cup {None},
   owner : Drivers \cup {None}, claimed : SUBSET Lines, gen : Nat,
   misses : 0..MissLimit, errors : 0..ReadLimit, seen : Hashes, accepted : Hashes]

(* Every variable has its type.                                            *)
ModulesTypeOK ==
  /\ fitted \in [Slots -> Contents \cup {None}]
  /\ disturbances \in 0..MaxDisturbances
  /\ table \in [Slots -> Slot]
  /\ confirmed \subseteq Caps /\ caps \subseteq Caps
  /\ poll \in [pc : {"bus", "apply", "recompute", "end"}, slot : Slots,
               result : Contents \cup {None, "miss", "error"}, changed : BOOLEAN]
  /\ lastPoll \in [Slots -> Contents \cup {None, "miss", "error"}]
  /\ lease \in [Drivers -> Lease]
  /\ holds \in [Drivers -> BOOLEAN]

(* stark_module_claim(): one owner per slot.  Whatever was claimed,        *)
(* released twice, revoked and claimed again, and with every old lease     *)
(* still around, two drivers never hold valid leases on one slot.          *)
OneHolderPerSlot ==
  \A d, e \in Drivers :
    LeaseValid(lease[d]) /\ LeaseValid(lease[e]) /\ lease[d].slot = lease[e].slot => d = e

(* A lease dies with its module: one that is still valid is on the module  *)
(* it was claimed on, and that module is known and declares the lines.     *)
LeaseDiesWithModule ==
  \A d \in Drivers : LeaseValid(lease[d]) =>
    LET slot == table[lease[d].slot]
    IN  /\ slot.state = "known"
        /\ slot.entry = lease[d].on
        /\ lease[d].lines \subseteq Declared(slot)

(* module_core_tick(): once a round has recomputed, conflicts are marked   *)
(* exactly, nobody holds a slot in conflict, and what conflicting modules  *)
(* declare is withheld, however confirmations fell into the round.         *)
ConflictsWithheld ==
  ~poll.changed \/ poll.pc = "end" =>
    /\ \A s \in Slots : table[s].state = "conflict" <=> Rivals(table, s) # {}
    /\ \A s \in Slots : table[s].state = "conflict" => table[s].owner = None
    /\ caps = Effective(confirmed, table)

(* "Two failed probes remove a module; a descriptor is accepted after two  *)
(* identical reads": an entry changes only on two polls that agree.        *)
EntriesFollowTwoPolls ==
  [][\A s \in Slots :
       \/ table'[s].entry # table[s].entry
       \/ table'[s].state = "absent" /\ table[s].state # "absent"
       => lastPoll[s] = poll.result]_vars
=============================================================================
