--------------------------- MODULE ArchiveInterlock ---------------------------
(***************************************************************************)
(* Archive against Runtime tracking: two facts in two places.  Whether an  *)
(* Asset is archived is in the Asset Store; which devices are tracked is   *)
(* in the config entry's Runtime subentries, which Home Assistant adds and *)
(* removes without asking.  They are kept apart by the order of the        *)
(* Store's FIFO lock, checks under it, a reservation, and the quarantine   *)
(* that each setup derives.  Forms check first, on the published snapshot, *)
(* and submit what they saw; the entry reloads underneath.                 *)
(*                                                                         *)
(* A step is the code between two awaits.  Deployment and Purchases, which *)
(* only refuse more, are left out.                                         *)
(***************************************************************************)
EXTENDS Naturals, Sequences, FiniteSets

CONSTANTS
    MaxAssets,       \* Assets are numbered; the order is that of their UUIDs
    MaxSubentries,   \* Runtime subentries at a time
    Devices,         \* Home Assistant devices
    Flows,           \* open "Add Runtime" dialogs
    MaxCalls         \* bound on Store calls waiting for the lock

ASSUME BoundsAssumption ==
    /\ MaxAssets \in Nat /\ MaxSubentries \in Nat /\ MaxCalls \in Nat
    /\ "none" \notin Devices /\ "missing" \notin Devices

Assets == 1..MaxAssets
Subentries == 1..MaxSubentries
NoAsset == 0

VARIABLES
    disk,        \* the durable Store
    data,        \* _data, the manager's published snapshot
    uncertain,   \* _persistence_uncertain
    queue,       \* calls waiting for _mutation_lock; the first holds it
    writing,     \* the holder awaits the save of its candidate
    candidate,
    subentries,  \* entry.subentries, the Runtime ones
    updates,     \* subentry_updates of the reconciliation in progress
    quarantine,  \* runtime_quarantine
    reserved,    \* Assets with a reservation whose flow is gone
    flow,        \* the dialogs
    entry,       \* the config entry's state
    notified,    \* the update listener has been called
    starting,    \* Assets whose Runtime entity is being added by the platform
    writer       \* the Runtime writers; "unresolved" has left unpersisted time behind

storeVars == <<disk, data, uncertain>>
lockVars == <<queue, writing, candidate>>
configVars == <<subentries, notified>>
setupVars == <<updates, quarantine, starting, entry>>
vars == <<disk, data, uncertain, queue, writing, candidate, subentries, updates,
          quarantine, reserved, flow, entry, notified, starting, writer>>

-----------------------------------------------------------------------------
(* Data                                                                      *)

\* The primary device of each Asset, "none" without one, "missing" without Asset.
Links == Devices \union {"none", "missing"}
Stores == [device: [Assets -> Links], archived: SUBSET Assets]

\* A subentry that is not there has device "none"; hint is its asset_uuid.
Trackers == [device: Devices \union {"none"}, hint: Assets \union {NoAsset}]
NoTracker == [device |-> "none", hint |-> NoAsset]

Present(st) == {a \in Assets : st.device[a] # "missing"}
Owners(st, d) == {a \in Assets : st.device[a] = d}
Least(S) == CHOOSE a \in S : \A b \in S : a <= b

Tracked(subs) == {s \in Subentries : subs[s] # NoTracker}

\* resolve_runtime_subentry_asset: the Asset the hint names if it has no other
\* device, else the Asset of the device.
Resolve(st, sub) ==
    IF sub.hint # NoAsset /\ st.device[sub.hint] \in {"none", sub.device} THEN sub.hint
    ELSE IF Owners(st, sub.device) = {} THEN NoAsset
    ELSE Least(Owners(st, sub.device))

\* runtime_subentries_resolving_to.
ResolvingTo(st, subs, a) == {s \in Tracked(subs) : Resolve(st, subs[s]) = a}

\* Runtime subentries that resolve to an archived Asset.
Conflicts(st, subs) ==
    {s \in Tracked(subs) : Resolve(st, subs[s]) \in st.archived}

\* No device is the primary of two Assets (_validate_store_data).
Valid(st) == \A d \in Devices : Cardinality(Owners(st, d)) <= 1

Calls ==
    [op: {"archive", "restore"}, asset: Assets]
    \union [op: {"link"}, asset: Assets, device: Devices, expected: Links]
    \union [op: {"unlink"}, asset: Assets, expected: Links]
    \union [op: {"reserve"}, asset: Assets, flow: Flows]
    \union [op: {"reconcile", "retire"}]

TypeOK ==
    /\ disk \in Stores /\ data \in Stores /\ candidate \in Stores
    /\ uncertain \in BOOLEAN /\ writing \in BOOLEAN
    /\ queue \in Seq(Calls)
    /\ subentries \in [Subentries -> Trackers] /\ notified \in BOOLEAN
    /\ updates \in [Subentries -> Assets \union {NoAsset}]
    /\ quarantine \subseteq Subentries
    /\ reserved \subseteq Assets
    /\ flow \in [Flows -> [at: {"idle", "source", "waiting", "closed", "gone"},
                           device: Devices \union {"none"}]]
    /\ entry \in {"unloaded", "reconciling", "reconciled", "platforms", "loaded",
                  "prepared", "unloading", "failed"}
    /\ starting \subseteq Assets
    /\ writer \in [Assets -> {"none", "observing", "undurable", "durable", "unresolved"}]

IdleFlow == [at |-> "idle", device |-> "none"]

\* A dialog that was closed too early; the bound on dialogs counts it for good.
GoneFlow == [at |-> "gone", device |-> "none"]

\* The configuration belongs to the Store: the hint of a subentry agrees with it.
Consistent(st, sub) == sub.hint = NoAsset \/ st.device[sub.hint] = sub.device

StoredTrackers(st) ==
    {NoTracker} \union {t \in Trackers : t.device # "none" /\ Consistent(st, t)}

\* A started process: any valid Store with any configuration it may be next to.
Init ==
    /\ disk \in Stores /\ Valid(disk) /\ disk.archived \subseteq Present(disk)
    /\ subentries \in [Subentries -> StoredTrackers(disk)]
    /\ data = disk /\ uncertain = FALSE
    /\ queue = <<>> /\ writing = FALSE /\ candidate = disk
    /\ updates = [s \in Subentries |-> NoAsset]
    /\ quarantine = {} /\ reserved = {}
    /\ flow = [f \in Flows |-> IdleFlow]
    /\ entry = "unloaded" /\ notified = FALSE /\ starting = {}
    /\ writer = [a \in Assets |-> "none"]

\* entry.runtime_data is this manager.
Attached == entry \in {"platforms", "loaded", "prepared", "unloading", "failed"}

\* The update listener is registered: after the platforms are set up, until
\* the entry is unloaded.
Listening == entry \in {"loaded", "prepared", "unloading", "failed"}

-----------------------------------------------------------------------------
(* Calls and the lock                                                        *)

Submit(call) ==
    /\ Attached /\ Len(queue) < MaxCalls
    /\ queue' = Append(queue, call)
    /\ UNCHANGED <<storeVars, writing, candidate, configVars, setupVars, writer,
                   reserved, flow>>

RequestArchive(a) == a \in Present(data) /\ Submit([op |-> "archive", asset |-> a])
RequestRestore(a) == a \in Present(data) /\ Submit([op |-> "restore", asset |-> a])

\* Mutant: a subentry that names its Asset is not looked at.
DeviceInUseUnnamed(d) ==
    \E s \in Tracked(subentries) :
        subentries[s].device = d /\ subentries[s].hint = NoAsset

\* _ha_relationship_dependency_error: a Runtime subentry uses the device.
DeviceInUse(d) == \E s \in Tracked(subentries) : subentries[s].device = d

\* async_step_ha_relationship, unlink.
RequestUnlink(a) ==
    LET current == data.device[a] IN
    /\ current \in Devices /\ ~DeviceInUse(current)
    /\ Submit([op |-> "unlink", asset |-> a, expected |-> current])

\* async_step_ha_relationship, link or replace.
RequestLink(a, d) ==
    LET current == data.device[a] IN
    /\ a \in Present(data)
    /\ current \in Devices \ {d} => ~DeviceInUse(current)
    /\ Owners(data, d) \subseteq {a}
    /\ Submit([op |-> "link", asset |-> a, device |-> d, expected |-> current])

Holder == Head(queue)

\* The holder of the lock is op and has recovered the published snapshot.
Turn(op) == queue # <<>> /\ Holder.op = op /\ ~writing /\ ~uncertain

\* The holder's call ends: the next one has the lock.
Release == queue' = Tail(queue) /\ writing' = FALSE /\ candidate' = data'

Refuse == UNCHANGED storeVars /\ Release

\* The mutator returned st: save it if it differs from the published snapshot.
Mutated(st) ==
    IF st = data \/ ~Valid(st)
    THEN Refuse
    ELSE /\ writing' = TRUE /\ candidate' = st
         /\ UNCHANGED <<storeVars, queue>>

\* Flows whose call ends without an answer they can use go back to their form.
Answered(call) ==
    IF call.op = "reserve"
    THEN flow' = [flow EXCEPT ![call.flow] =
                     IF @.at = "closed" THEN IdleFlow ELSE [@ EXCEPT !.at = "source"]]
    ELSE UNCHANGED flow

\* _async_recover_uncertain_persistence before every call but async_retire.
Recover ==
    /\ queue # <<>> /\ Holder.op # "retire" /\ ~writing /\ uncertain
    /\ data' = disk /\ uncertain' = FALSE /\ candidate' = disk
    /\ UNCHANGED <<disk, queue, writing, configVars, setupVars, writer, reserved,
                   flow>>

RecoveryFails ==
    /\ queue # <<>> /\ Holder.op # "retire" /\ ~writing /\ uncertain
    /\ Refuse /\ Answered(Holder)
    /\ UNCHANGED <<configVars, setupVars, writer, reserved>>

-----------------------------------------------------------------------------
(* Mutators                                                                  *)

\* _runtime_archive_eligibility lets an Asset be archived.
Eligible(a) == writer[a] \in {"none", "durable"}

\* _archive_blockers_in.
Blocked(a) ==
    \/ ResolvingTo(data, subentries, a) # {}
    \/ a \in reserved
    \/ ~Eligible(a)

\* async_archive_asset.
Archive ==
    /\ Turn("archive")
    /\ LET a == Holder.asset IN
       IF a \in data.archived \/ Blocked(a)
       THEN Refuse
       ELSE Mutated([data EXCEPT !.archived = @ \union {a}])
    /\ UNCHANGED <<configVars, setupVars, writer, reserved, flow>>

\* async_restore_asset.
Restore ==
    /\ Turn("restore")
    /\ Mutated([data EXCEPT !.archived = @ \ {Holder.asset}])
    /\ UNCHANGED <<configVars, setupVars, writer, reserved, flow>>

\* Mutant: the Asset shown by the form may have been archived meanwhile.
AsShownUnchecked(call) == data.device[call.asset] = call.expected

\* The Asset is active and has the device the form showed.
AsShown(call) ==
    call.asset \notin data.archived /\ data.device[call.asset] = call.expected

\* async_link_asset_device_reporting.
Link ==
    /\ Turn("link")
    /\ IF AsShown(Holder) /\ Owners(data, Holder.device) \subseteq {Holder.asset}
       THEN Mutated([data EXCEPT !.device[Holder.asset] = Holder.device])
       ELSE Refuse
    /\ UNCHANGED <<configVars, setupVars, writer, reserved, flow>>

\* async_unlink_asset_device_reporting.
Unlink ==
    /\ Turn("unlink")
    /\ IF AsShown(Holder)
       THEN Mutated([data EXCEPT !.device[Holder.asset] = "none"])
       ELSE Refuse
    /\ UNCHANGED <<configVars, setupVars, writer, reserved, flow>>

-----------------------------------------------------------------------------
(* Saves                                                                     *)

\* Reconciliation ended: its hints are written to the subentries that are still
\* there, or setup fails.
Reconciled(ok) ==
    IF Holder.op # "reconcile"
    THEN UNCHANGED <<subentries, updates, entry>>
    ELSE /\ entry' = IF ok THEN "reconciled" ELSE "unloaded"
         /\ updates' = [s \in Subentries |-> NoAsset]
         /\ subentries' = [s \in Subentries |->
               IF ok /\ s \in Tracked(subentries) /\ updates[s] # NoAsset
               THEN [subentries[s] EXCEPT !.hint = updates[s]]
               ELSE subentries[s]]

SaveVerified ==
    /\ writing
    /\ disk' = candidate /\ data' = candidate /\ UNCHANGED uncertain
    /\ Release /\ Reconciled(TRUE)
    /\ UNCHANGED <<notified, quarantine, starting, writer, reserved, flow>>

SaveFails ==
    /\ writing /\ Refuse /\ Reconciled(FALSE)
    /\ UNCHANGED <<notified, quarantine, starting, writer, reserved, flow>>

\* The save could not be verified: it may have landed, nothing is published.
SaveAmbiguous(lands) ==
    /\ writing
    /\ disk' = IF lands THEN candidate ELSE disk
    /\ uncertain' = TRUE /\ UNCHANGED data
    /\ Release /\ Reconciled(FALSE)
    /\ UNCHANGED <<notified, quarantine, starting, writer, reserved, flow>>

\* Archive and Restore read the file once more and publish what they find.
SaveResolved(lands) ==
    /\ writing /\ Holder.op \in {"archive", "restore"}
    /\ disk' = (IF lands THEN candidate ELSE disk)
    /\ data' = disk' /\ UNCHANGED uncertain
    /\ Release
    /\ UNCHANGED <<configVars, setupVars, writer, reserved, flow>>

-----------------------------------------------------------------------------
(* The "Add Runtime" dialog                                                  *)

\* Home Assistant tells a registered listener that the subentries changed.
SubentriesChanged == notified' = (notified \/ Listening)

\* Mutant: the device is stored in the wrong field.
AddSubentrySwapped(d) ==
    /\ Tracked(subentries) # Subentries
    /\ subentries' = [subentries EXCEPT ![Least(Subentries \ Tracked(subentries))] =
                         [device |-> "none", hint |-> d]]
    /\ SubentriesChanged

\* Home Assistant adds the subentry that the flow created.
AddSubentry(d) ==
    /\ Tracked(subentries) # Subentries
    /\ subentries' = [subentries EXCEPT ![Least(Subentries \ Tracked(subentries))] =
                         [device |-> d, hint |-> NoAsset]]
    /\ SubentriesChanged

\* runtime_binding_target of a new subentry, which has no hint.
Target(d) == Resolve(data, [device |-> d, hint |-> NoAsset])

\* async_step_user: an untracked device whose Asset, if any, is active.
FlowChooses(f, d) ==
    /\ entry = "loaded" /\ flow[f].at = "idle"
    /\ ~DeviceInUse(d) /\ Target(d) \notin data.archived
    /\ flow' = [flow EXCEPT ![f] = [at |-> "source", device |-> d]]
    /\ UNCHANGED <<storeVars, lockVars, configVars, setupVars, writer, reserved>>

Waiting == {f \in Flows : flow[f].at \in {"waiting", "closed"}}

\* async_step_runtime_source: the Asset is looked up before the lock is asked
\* for.  A device without an Asset is tracked at once.
FlowSubmits(f) ==
    LET a == Target(flow[f].device) IN
    /\ entry = "loaded" /\ flow[f].at = "source"
    /\ Cardinality(Tracked(subentries)) + Cardinality(Waiting) < MaxSubentries
    /\ IF a = NoAsset
       THEN /\ AddSubentry(flow[f].device)
            /\ flow' = [flow EXCEPT ![f] = IdleFlow]
            /\ UNCHANGED queue
       ELSE /\ Len(queue) < MaxCalls
            /\ queue' = Append(queue, [op |-> "reserve", asset |-> a, flow |-> f])
            /\ flow' = [flow EXCEPT ![f].at = "waiting"]
            /\ UNCHANGED configVars
    /\ UNCHANGED <<storeVars, writing, candidate, setupVars, writer, reserved>>

\* The dialog is closed, or aborts because the entry is not loaded.
FlowCloses(f) ==
    /\ flow[f].at \in {"source", "waiting"}
    /\ flow' = [flow EXCEPT ![f] =
                   IF @.at = "waiting" THEN [@ EXCEPT !.at = "closed"] ELSE IdleFlow]
    /\ UNCHANGED <<storeVars, lockVars, configVars, setupVars, writer, reserved>>

\* Mutant: the Asset is not looked at again under the lock.
RefusedNever(a) == FALSE

\* async_reserve_runtime_binding refuses an Asset archived meanwhile.
Refused(a) == a \in data.archived

\* async_reserve_runtime_binding and the rest of the step, without an await: the
\* subentry is added and the reservation released with the flow.  A flow that
\* was removed meanwhile has released nothing and adds nothing.
Reserve ==
    LET f == Holder.flow IN
    /\ Turn("reserve")
    /\ Refuse
    /\ \/ /\ Refused(Holder.asset)
          /\ Answered(Holder) /\ UNCHANGED <<configVars, reserved>>
       \/ /\ ~Refused(Holder.asset) /\ flow[f].at = "closed"
          /\ reserved' = reserved \union {Holder.asset}
          /\ flow' = [flow EXCEPT ![f] = GoneFlow]
          /\ UNCHANGED configVars
       \/ /\ ~Refused(Holder.asset) /\ flow[f].at # "closed"
          /\ AddSubentry(flow[f].device)
          /\ flow' = [flow EXCEPT ![f] = IdleFlow]
          /\ UNCHANGED reserved
    /\ UNCHANGED <<setupVars, writer>>

RemoveSubentry(s) ==
    /\ s \in Tracked(subentries)
    /\ subentries' = [subentries EXCEPT ![s] = NoTracker]
    /\ SubentriesChanged
    /\ UNCHANGED <<storeVars, lockVars, setupVars, writer, reserved, flow>>

-----------------------------------------------------------------------------
(* Writers                                                                   *)

Registered == {a \in Assets : writer[a] \in {"observing", "undurable", "durable"}}

Orphaned(a) ==
    writer[a] = "observing" /\ ResolvingTo(data, subentries, a) = {}

\* async_retire_orphaned_runtime_writers: the writer stops, with or without time
\* still to be committed.
RetireOrphan(a) ==
    /\ notified /\ Attached /\ Orphaned(a)
    /\ \E state \in {"undurable", "durable"} : writer' = [writer EXCEPT ![a] = state]
    /\ UNCHANGED <<storeVars, lockVars, configVars, setupVars, reserved,
                   flow>>

\* _async_update_listener has retired what it found.
ListenerDone ==
    /\ notified /\ (Attached => \A a \in Assets : ~Orphaned(a))
    /\ notified' = FALSE
    /\ UNCHANGED <<storeVars, lockVars, subentries, setupVars, writer, reserved,
                   flow>>

\* The interval, or async_finalize_runtime before an Archive, commits what a
\* stopped writer holds: a Store mutation of an active Asset.
WriterCommits(a) ==
    /\ writer[a] = "undurable" /\ Attached /\ ~writing
    /\ a \notin disk.archived
    /\ writer' = [writer EXCEPT ![a] = "durable"]
    /\ UNCHANGED <<storeVars, lockVars, configVars, setupVars, reserved,
                   flow>>

\* The Runtime entity is removed on its own; what its last commit could not
\* persist is unresolved.
WriterRemoved(a) ==
    /\ a \in Registered /\ entry \in {"loaded", "failed"}
    /\ \E left \in {"none"} \union IF writer[a] = "durable" THEN {} ELSE {"unresolved"} :
          writer' = [writer EXCEPT ![a] = left]
    /\ UNCHANGED <<storeVars, lockVars, configVars, setupVars, reserved, flow>>

-----------------------------------------------------------------------------
(* Reload                                                                    *)

\* async_prepare_runtime_unload: every writer commits and stops, or the unload is
\* refused.
Prepare ==
    /\ entry = "loaded"
    /\ \E S \in SUBSET {a \in Registered :
                           a \in disk.archived => writer[a] # "undurable"} :
          /\ writer' = [a \in Assets |-> IF a \in S THEN "durable" ELSE writer[a]]
          /\ entry' = IF S = Registered THEN "prepared" ELSE "failed"
    /\ UNCHANGED <<storeVars, lockVars, configVars, updates, quarantine, starting, reserved, flow>>

\* The platforms are unloaded, the writers with them, and async_retire asks for the
\* lock; or a platform refuses.
UnloadPlatforms ==
    /\ entry = "prepared"
    /\ \/ /\ entry' = "unloading"
          /\ writer' = [a \in Assets |-> IF a \in Registered THEN "none" ELSE writer[a]]
          /\ queue' = Append(queue, [op |-> "retire"])
       \/ entry' = "failed" /\ UNCHANGED <<writer, queue>>
    /\ UNCHANGED <<storeVars, writing, candidate, configVars, updates, quarantine,
                   starting, reserved, flow>>

\* async_retire: every call behind it is refused, runtime_data is deleted.
Retire ==
    /\ queue # <<>> /\ Holder.op = "retire" /\ ~writing
    /\ queue' = <<>>
    /\ flow' = [f \in Flows |-> IF flow[f].at \in {"waiting", "closed"}
                                THEN IdleFlow ELSE flow[f]]
    /\ entry' = "unloaded"
    /\ UNCHANGED <<storeVars, writing, candidate, configVars, updates, quarantine,
                   starting, writer, reserved>>

\* async_setup_entry: a new manager loads the file, derives its quarantine, and
\* asks for the lock to reconcile.
Setup ==
    /\ entry = "unloaded"
    /\ data' = disk /\ uncertain' = FALSE /\ candidate' = disk
    /\ quarantine' = Conflicts(disk, subentries)
    /\ queue' = <<[op |-> "reconcile"]>>
    /\ entry' = "reconciling"
    /\ writer' = [a \in Assets |-> "none"]
    /\ UNCHANGED <<disk, writing, configVars, updates, starting, reserved, flow>>

\* _reconcile_entry_data for one Runtime subentry: its Asset gets the device, a
\* device nobody owns gets a new Asset, the subentry gets the hint.
Adopt(acc, s) ==
    LET named == Resolve(acc.store, subentries[s])
        free == Assets \ Present(acc.store)
        a == IF named # NoAsset THEN named ELSE Least(free)
    IN
    IF s \notin Tracked(subentries) \/ s \in quarantine THEN acc
    ELSE IF named = NoAsset /\ free = {} THEN [acc EXCEPT !.exhausted = TRUE]
    ELSE [store |-> [acc.store EXCEPT !.device[a] = subentries[s].device],
          hint |-> [acc.hint EXCEPT ![s] = a],
          exhausted |-> acc.exhausted]

\* The subentries in turn.
Adopted[n \in 0..MaxSubentries] ==
    IF n = 0
    THEN [store |-> data, hint |-> [s \in Subentries |-> NoAsset], exhausted |-> FALSE]
    ELSE Adopt(Adopted[n - 1], n)

Reconciliation == Adopted[MaxSubentries]

\* async_reconcile_entry: setup fails if the result is invalid or permanent
\* numbers have run out.
Reconcile ==
    /\ Turn("reconcile")
    /\ LET r == Reconciliation IN
       \/ /\ r.exhausted \/ ~Valid(r.store)
          /\ Refuse /\ entry' = "unloaded" /\ UNCHANGED <<updates, subentries>>
       \/ /\ ~r.exhausted /\ Valid(r.store) /\ r.store = data
          /\ Refuse /\ entry' = "reconciled" /\ UNCHANGED updates
          /\ subentries' = [s \in Subentries |->
                IF r.hint[s] = NoAsset THEN subentries[s]
                ELSE [subentries[s] EXCEPT !.hint = r.hint[s]]]
       \/ /\ ~r.exhausted /\ Valid(r.store) /\ r.store # data
          /\ Mutated(r.store) /\ updates' = r.hint
          /\ UNCHANGED <<entry, subentries>>
    /\ UNCHANGED <<notified, quarantine, starting, writer, reserved, flow>>

\* runtime_data is set and the sensor platform walks the subentries: one Runtime
\* entity for each Asset of a tracked device that is not quarantined.
StartPlatforms ==
    /\ entry = "reconciled"
    /\ entry' = "platforms"
    /\ starting' = UNION {Owners(data, subentries[s].device) :
                             s \in Tracked(subentries) \ quarantine}
    /\ UNCHANGED <<storeVars, lockVars, configVars, updates, quarantine, writer,
                   reserved, flow>>

\* async_added_to_hass: register_runtime_checkpoint refuses a published archived
\* Asset.
RegisterWriter(a) ==
    /\ a \in starting
    /\ starting' = starting \ {a}
    /\ writer' = IF a \in data.archived THEN writer ELSE [writer EXCEPT ![a] = "observing"]
    /\ UNCHANGED <<storeVars, lockVars, configVars, updates, quarantine, entry, reserved, flow>>

\* async_setup_entry registers the update listener and returns.
SetupDone ==
    /\ entry = "platforms" /\ starting = {}
    /\ entry' = "loaded"
    /\ UNCHANGED <<storeVars, lockVars, configVars, updates, quarantine, starting,
                   writer, reserved, flow>>

\* Home Assistant stops, at any point: the Store's file and the subentries stay.
\* It is the only way out of a failed unload.
ProcessStops ==
    /\ entry # "unloaded"
    /\ entry' = "unloaded" /\ notified' = FALSE
    /\ data' = disk /\ uncertain' = FALSE
    /\ queue' = <<>> /\ writing' = FALSE /\ candidate' = disk
    /\ updates' = [s \in Subentries |-> NoAsset]
    /\ quarantine' = {} /\ reserved' = {} /\ starting' = {}
    /\ flow' = [f \in Flows |-> IdleFlow]
    /\ writer' = [a \in Assets |-> "none"]
    /\ UNCHANGED <<disk, subentries>>

-----------------------------------------------------------------------------
Next ==
    \/ \E a \in Assets : RequestArchive(a)
    \/ \E a \in Assets : RequestRestore(a)
    \/ \E a \in Assets : RequestUnlink(a)
    \/ \E a \in Assets, d \in Devices : RequestLink(a, d)
    \/ Recover \/ RecoveryFails
    \/ Archive \/ Restore \/ Link \/ Unlink
    \/ SaveVerified \/ SaveFails
    \/ \E lands \in BOOLEAN : SaveAmbiguous(lands)
    \/ \E lands \in BOOLEAN : SaveResolved(lands)
    \/ \E f \in Flows, d \in Devices : FlowChooses(f, d)
    \/ \E f \in Flows : FlowSubmits(f)
    \/ \E f \in Flows : FlowCloses(f)
    \/ Reserve
    \/ \E s \in Subentries : RemoveSubentry(s)
    \/ \E a \in Assets : RetireOrphan(a)
    \/ ListenerDone
    \/ \E a \in Assets : WriterCommits(a)
    \/ \E a \in Assets : WriterRemoved(a)
    \/ Prepare \/ UnloadPlatforms \/ Retire
    \/ Setup \/ Reconcile \/ StartPlatforms
    \/ \E a \in Assets : RegisterWriter(a)
    \/ SetupDone
    \/ ProcessStops

Spec == Init /\ [][Next]_vars

-----------------------------------------------------------------------------
(* Properties                                                                *)

\* "A successful operation sequence never ends with archived_at != null and a
\* Runtime subentry that resolves to the Asset": whatever forms, calls and reloads
\* are interleaved, no step creates such a conflict; those a setup starts with can
\* only go away.
NoArchivedBinding ==
    [][Conflicts(disk', subentries') \subseteq Conflicts(disk, subentries)]_vars

\* Nothing gives an archived Asset a device or takes one away: no form submitted
\* while it was active, and no reconciliation of a subentry that names it.
ArchivedKeepsReferences ==
    [][\A a \in disk.archived \intersect disk'.archived :
          disk'.device[a] = disk.device[a]]_vars

\* Every setup can reconcile its subentries into a valid Store, so no sequence of
\* accepted operations makes the entry fail at every later setup.
SetupIsPossible ==
    entry = "reconciling" => Valid(Reconciliation.store)

\* RuntimeSubentryFlow: the reservation is released "when the flow ends".
NoAbandonedReservation == reserved = {}

\* _async_update_listener: a writer whose subentry is gone "stops observing at
\* once", so none is left when the listener has run.
OrphansStop ==
    entry = "loaded" /\ ~notified => \A a \in Assets : ~Orphaned(a)
=============================================================================
