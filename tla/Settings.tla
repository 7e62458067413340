------------------------------- MODULE Settings ------------------------------
(***************************************************************************)
(* The settings (stark_settings/settings_core.c and its NVS port), the     *)
(* Settings app that changes them and writes them when it is left, and the *)
(* composition root's handler that applies a change to the service it is   *)
(* about (main/settings_apply.c).                                          *)
(*                                                                         *)
(* The store is external: a log of writes that a commit makes safe.  A     *)
(* reset keeps what was committed and a prefix of what was written since.  *)
(* Every access may fail.  A change event may be dropped by the bus.       *)
(* Settings_core's calls are all made on the UI task, one at a time; a     *)
(* restore is cut at each setting, where the bus can drop an event, and a  *)
(* commit at its writes, where a reset can hit it.                         *)
(***************************************************************************)
EXTENDS Integers, Sequences, SequencesExt

CONSTANTS SettingKeys,   \* the settings, in the order of the table
          SettingMax,    \* each setting's values are 0 .. its maximum, by steps of one
          SettingDef,    \* each setting's default
          MaxSets        \* bound: changes and commits in one behaviour

SetKeys == ToSet(SettingKeys)

ASSUME SettingsAssumption ==
  /\ SettingKeys \in Seq(SetKeys) /\ "schema" \notin SetKeys
  /\ SettingMax \in [SetKeys -> Nat]
  /\ SettingDef \in [SetKeys -> Nat] /\ \A k \in SetKeys : SettingDef[k] <= SettingMax[k]
  /\ MaxSets \in Nat

VARIABLES value, dirty,  \* settings_core_t, per key
          schemaDirty,   \* the store has no schema yet
          hasStore,      \* c->store is not NULL
          onFlash,       \* external: key (or "schema") -> committed value
          written,       \* external: the writes since, in order
          job,           \* [is, next]: the loop over the table the UI task is in, and its index
          toApply,       \* the setting events on the bus, oldest first
          unheard,       \* the settings whose last event was dropped or whose service refused
          applied,       \* what the service of each setting was last told
          sets

storeVars == <<hasStore, onFlash, written>>
applyVars == <<toApply, unheard, applied>>
setVars == <<value, dirty, schemaDirty, storeVars, job, applyVars, sets>>

SettingValid(k, v) == v \in 0 .. SettingMax[k]

\* The first step of a commit is the schema's, the last the commit proper.
Idle == [is |-> "none", next |-> 0]
Committing == [is |-> "commit", next |-> 0]
Restoring == [is |-> "restore", next |-> 1]
AtStep(loop, i) == job.is = loop /\ job.next = i
OnKey(loop) == job.is = loop /\ job.next \in DOMAIN SettingKeys
Onwards == job' = [job EXCEPT !.next = @ + 1]

------------------------------------------------------------------------------
(* The store.                                                                    *)

\* The last of the first n writes since the commit that was to this key.
LastWrite(k, n) == {i \in 1 .. n : written[i][1] = k /\ \A j \in i + 1 .. n : written[j][1] # k}
WrittenKeys(n) == {written[i][1] : i \in 1 .. n}

\* What a reset leaves of the store when n of the writes since the commit survive.
Surviving(n) ==
  [k \in DOMAIN onFlash \cup WrittenKeys(n) |->
     IF k \in WrittenKeys(n) THEN written[CHOOSE i \in LastWrite(k, n) : TRUE][2] ELSE onFlash[k]]

\* A store that is full or of another version is erased by open_store().
Erased == [k \in {} |-> 0]

\* settings_core_load(): what each key comes to from a store; "dirty" where it is to be rewritten.
LoadedValue(f, k) == IF "schema" \in DOMAIN f /\ k \in DOMAIN f /\ SettingValid(k, f[k])
                     THEN f[k] ELSE SettingDef[k]
LoadedDirty(f, k) == "schema" \in DOMAIN f /\ k \in DOMAIN f /\ ~SettingValid(k, f[k])

\* The values and the marks it leaves: the defaults without a store, or with one whose
\* schema cannot be read, and for a key that cannot, which is to be rewritten.
Values(store, f, unread) ==
  [k \in SetKeys |-> IF store /\ k \notin unread THEN LoadedValue(f, k) ELSE SettingDef[k]]
Marks(store, f, unread) ==
  [k \in SetKeys |-> store /\ (LoadedDirty(f, k) \/ ("schema" \in DOMAIN f /\ k \in unread))]
\* A new store is committed at once.
NewStore(store, f) == store /\ "schema" \notin DOMAIN f
AtLoad(store, f) == IF NewStore(store, f) THEN Committing ELSE Idle

------------------------------------------------------------------------------
\* A first boot, a store some of whose values are out of range or cannot be read, or none at all.
SetInit ==
  /\ onFlash \in {Erased} \cup {[k \in {"schema"} \cup K |-> 9] : K \in SUBSET SetKeys}
  /\ hasStore \in BOOLEAN
  /\ \E unread \in SUBSET SetKeys : /\ value = Values(hasStore, onFlash, unread)
                                   /\ dirty = Marks(hasStore, onFlash, unread)
  /\ schemaDirty = NewStore(hasStore, onFlash) /\ job = AtLoad(hasStore, onFlash)
  /\ written = << >> /\ toApply = << >> /\ unheard = {} /\ applied = value
  /\ sets = 0

\* settings_core_set(): what changes is marked and announced.
SetValue(k, v) ==
  /\ value' = [value EXCEPT ![k] = v]
  /\ dirty' = [dirty EXCEPT ![k] = @ \/ v # value[k]]
  /\ toApply' = IF v # value[k] THEN Append(toApply, k) ELSE toApply
  /\ UNCHANGED <<schemaDirty, storeVars, unheard, applied>>

\* app_settings step(): LEFT and RIGHT stop at the ends, OK wraps past the last.
Stepped(k, dir, wrap) ==
  IF value[k] + dir > SettingMax[k] THEN IF wrap THEN 0 ELSE SettingMax[k]
  ELSE IF value[k] + dir < 0 THEN 0 ELSE value[k] + dir

AdjustSetting(k, dir, wrap) ==
  /\ job = Idle /\ sets < MaxSets /\ sets' = sets + 1
  /\ SetValue(k, Stepped(k, dir, wrap)) /\ UNCHANGED job

\* stark_settings_restore_defaults(), confirmed in the app: a loop over the table, a commit.
RestoreDefaults ==
  /\ job = Idle /\ sets < MaxSets /\ sets' = sets + 1
  /\ job' = Restoring
  /\ UNCHANGED <<value, dirty, schemaDirty, storeVars, applyVars>>

RestoreKey ==
  /\ OnKey("restore") /\ Onwards
  /\ SetValue(SettingKeys[job.next], SettingDef[SettingKeys[job.next]]) /\ UNCHANGED sets

RestoreEnds ==
  /\ AtStep("restore", Len(SettingKeys) + 1)
  /\ job' = IF hasStore THEN Committing ELSE Idle
  /\ UNCHANGED <<value, dirty, schemaDirty, storeVars, applyVars, sets>>

\* settings_core_commit(), as it starts: from app_settings' on_stop.
Commit ==
  /\ job = Idle /\ hasStore /\ sets < MaxSets /\ sets' = sets + 1
  /\ job' = Committing
  /\ UNCHANGED <<value, dirty, schemaDirty, storeVars, applyVars>>

\* One set_u8 of a commit; a failing one ends it with everything still marked.
Write(k, v, ok) ==
  /\ IF ok THEN written' = Append(written, <<k, v>>) /\ Onwards
           ELSE UNCHANGED written /\ job' = Idle
  /\ UNCHANGED <<value, dirty, schemaDirty, hasStore, onFlash, applyVars, sets>>

Skip == Onwards /\ UNCHANGED <<value, dirty, schemaDirty, storeVars, applyVars, sets>>

CommitSchema(ok) == AtStep("commit", 0) /\ IF schemaDirty THEN Write("schema", 1, ok) ELSE Skip

CommitKey(ok) ==
  /\ OnKey("commit")
  /\ LET k == SettingKeys[job.next] IN IF dirty[k] THEN Write(k, value[k], ok) ELSE Skip

\* Slip: the marks are cleared before the commit is known to have worked.
CommitEndsSlip(ok) ==
  /\ AtStep("commit", Len(SettingKeys) + 1) /\ job' = Idle
  /\ dirty' = [k \in SetKeys |-> FALSE] /\ schemaDirty' = FALSE
  /\ IF ok THEN onFlash' = Surviving(Len(written)) /\ written' = << >> ELSE UNCHANGED <<onFlash, written>>
  /\ UNCHANGED <<value, hasStore, applyVars, sets>>

\* The commit proper, unless there was nothing to write.
CommitEnds(ok) ==
  /\ AtStep("commit", Len(SettingKeys) + 1) /\ job' = Idle
  /\ IF ok /\ (schemaDirty \/ \E k \in SetKeys : dirty[k])
     THEN /\ onFlash' = Surviving(Len(written)) /\ written' = << >>
          /\ dirty' = [k \in SetKeys |-> FALSE] /\ schemaDirty' = FALSE
     ELSE UNCHANGED <<onFlash, written, dirty, schemaDirty>>
  /\ UNCHANGED <<value, hasStore, applyVars, sets>>

\* A reset, the next stark_settings_init(), with a store or without, and everything applied
\* afresh (settings_apply_init()).
Reboot(f, store, unread) ==
  /\ onFlash' = f /\ written' = << >> /\ hasStore' = store
  /\ value' = Values(store, f, unread) /\ dirty' = Marks(store, f, unread)
  /\ schemaDirty' = NewStore(store, f) /\ job' = AtLoad(store, f)
  /\ toApply' = << >> /\ unheard' = {} /\ applied' = value' /\ UNCHANGED sets

\* on_setting() and apply(): the value is read when the event is handled.
ApplySetting(ok) ==
  /\ job = Idle
  /\ toApply # << >> /\ toApply' = Tail(toApply)
  /\ LET k == Head(toApply)
     IN IF ok THEN applied' = [applied EXCEPT ![k] = value[k]] /\ unheard' = unheard \ {k}
              ELSE unheard' = unheard \cup {k} /\ UNCHANGED applied
  /\ UNCHANGED <<value, dirty, schemaDirty, storeVars, job, sets>>

\* The bus drops its oldest event (EventBus.tla, Publish).
SettingDropped ==
  /\ toApply # << >> /\ toApply' = Tail(toApply)
  /\ unheard' = unheard \cup {Head(toApply)}
  /\ UNCHANGED <<value, dirty, schemaDirty, storeVars, job, applied, sets>>

SetNext ==
  \/ \E k \in SetKeys : AdjustSetting(k, 1, TRUE) \/ AdjustSetting(k, 1, FALSE) \/ AdjustSetting(k, -1, FALSE)
  \/ RestoreDefaults \/ RestoreKey \/ RestoreEnds \/ Commit
  \/ \E ok \in BOOLEAN : CommitSchema(ok) \/ CommitKey(ok) \/ CommitEnds(ok) \/ ApplySetting(ok)
  \/ \E n \in 0 .. Len(written), store \in BOOLEAN, unread \in SUBSET SetKeys :
       Reboot(Surviving(n), store, unread) \/ Reboot(Erased, store, unread)
  \/ SettingDropped

SetSpec == SetInit /\ [][SetNext]_setVars

------------------------------------------------------------------------------
\* A setting that is not marked for writing is what the next boot that can read it loads, whatever
\* writes failed or were cut short (settings_core_commit() clears no mark before the
\* commit worked), and one the bus lost no event of is applied or about to be.
SettingsKept ==
  /\ hasStore => \A n \in 0 .. Len(written), k \in SetKeys :
                   dirty[k] \/ value[k] = LoadedValue(Surviving(n), k)
  /\ \A k \in SetKeys : k \in unheard \/ k \in ToSet(toApply) \/ applied[k] = value[k]

==============================================================================
