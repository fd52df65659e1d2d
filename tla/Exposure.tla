------------------------------ MODULE Exposure ------------------------------
(***************************************************************************)
(* What Home Assistant shows of the Store: Asset Devices, entity registry  *)
(* entries, running entities and stale-reference Repairs.  All of it is    *)
(* derived.  Setup migrates old unique IDs, places every entity after a    *)
(* read-only preflight, and takes its own changes back if a registry call  *)
(* fails; afterwards callbacks follow each published snapshot and each     *)
(* registry event.                                                         *)
(*                                                                         *)
(* An Asset Device belongs to the entry, or to the purchase subentry until *)
(* exposure takes it over, and has the metadata that was last written to   *)
(* it.                                                                     *)
(*                                                                         *)
(* There is one external device, one purchase and one Runtime subentry,    *)
(* both of the first Asset.  Kinds of entities that are handled alike have *)
(* one representative.  A registry call may raise before or after its      *)
(* effect.  Home Assistant's registries are external.                      *)
(***************************************************************************)
EXTENDS Integers, FiniteSets

CONSTANTS
    NumAssets,   \* Assets in the order of their UUIDs
    Schedules,   \* Maintenance Schedule UUIDs
    AssetOf,     \* the Asset of each Schedule
    Linking,     \* bound: Assets that are linked and unlinked
    Archiving,   \* bound: Assets that are archived and restored
    Renaming     \* bound: Assets whose metadata a form changes

Assets == 1..NumAssets

ASSUME ExposureAssumption ==
    /\ NumAssets \in Nat \ {0}
    /\ AssetOf \in [Schedules -> Assets]
    /\ Linking \subseteq Assets /\ Archiving \subseteq Assets /\ Renaming \subseteq Assets

VARIABLES
    store,       \* the published snapshot
    external,    \* is the external device in the Device Registry?
    subentries,  \* subentries of the config entry
    registry,    \* Asset Devices and entity registry entries of this integration
    platforms,   \* state of each platform
    shown,       \* what each running entity shows
    indexed,     \* Assets whose Relationships entity follows the external device
    issues       \* Assets with a stale-reference issue

vars == <<store, external, subentries, registry, platforms, shown, indexed, issues>>

-----------------------------------------------------------------------------
(* Entities                                                                  *)

First == 1
Platforms == {"sensor", "binary_sensor"}

\* Asset entities in the order of their placement; relationships stands for
\* deployment, installed_date, asset_id and lifecycle_status too.
KindOrder == [lifecycle |-> 1, runtime |-> 2, relationships |-> 3, replacement |-> 4]
AssetKinds == DOMAIN KindOrder
OldKinds == {"lifecycle", "runtime"}

\* status stands for the due-date sensor too.
ScheduleKinds == {"status", "preparation"}

AssetIds == AssetKinds \X Assets
ScheduleIds == ScheduleKinds \X Schedules
UniqueIds == AssetIds \union ScheduleIds
Owner(u) == IF u \in AssetIds THEN u[2] ELSE AssetOf[u[2]]
PlatformOf(u) == IF u[1] = "preparation" THEN "binary_sensor" ELSE "sensor"

Nothing == [id |-> "nothing"]
Entry(id, device, owner, disabled) ==
    [id |-> id, device |-> device, owner |-> owner, disabled |-> disabled]
Entries == [id: {"old", "new"}, device: {"asset", "external", "none"},
            owner: {"parent", "purchase", "runtime"}, disabled: {"no", "integration"}]

Registered(reg) == {u \in UniqueIds : reg.entities[u] # Nothing}
OnDevice(reg, a) == {u \in Registered(reg) : Owner(u) = a /\ reg.entities[u].device = "asset"}
Running == {u \in UniqueIds : shown[u] # Nothing}
Up(p) == platforms[p] = "up"

\* The entry's callbacks and forms work from the end of exposure on.
Attached == \E p \in Platforms : platforms[p] # "down"
Loaded == \A p \in Platforms : platforms[p] \in {"up", "failed"}
Unloaded == \A p \in Platforms : platforms[p] = "down"

\* _maintenance_sensor_unique_ids, _preparation_unique_ids.
Expected(st) ==
    {<<"status", s>> : s \in {t \in Schedules : st.schedules[t] # "none"}}
    \union {<<"preparation", s>> : s \in {t \in Schedules : st.schedules[t] = "reminder"}}

\* active_replacement_predecessor or _successor: the one Replacement is that of the
\* first Asset by the second.
InReplacement(st, a) == st.replaced /\ a \in {First, First + 1}

\* What an entity renders when it writes its state.
View(st, present, u) ==
    CASE u[1] = "lifecycle" -> [id |-> u, archived |-> Owner(u) \in st.archived]
      [] u[1] = "runtime" -> [id |-> u, tracked |-> TRUE]
      [] u[1] = "relationships" -> [id |-> u, linked |-> Owner(u) \in st.linked, present |-> present]
      [] u[1] = "replacement" -> [id |-> u, replaced |-> InReplacement(st, Owner(u))]
      [] OTHER ->
            [id |-> u, schedule |-> st.schedules[u[2]], archived |-> Owner(u) \in st.archived]

\* desired_stale_reference_issues over the active Assets.
StaleReferences(st, present) == IF present THEN {} ELSE st.linked \ st.archived

Tracked == "runtime" \in subentries

TypeOK ==
    /\ store \in [born: SUBSET Assets, archived: SUBSET Assets, linked: SUBSET Assets,
                  replaced: BOOLEAN, schedules: [Schedules -> {"none", "plain", "reminder"}]]
    /\ store.archived \subseteq store.born /\ store.linked \subseteq store.born
    /\ external \in BOOLEAN
    /\ subentries \subseteq {"purchase", "runtime"}
    /\ registry \in [devices: SUBSET Assets,     \* Assets with an Asset Device; of these:
                     misplaced: SUBSET Assets,   \*   owned by the purchase subentry,
                     outdated: SUBSET Assets,    \*   without the Store's latest metadata
                     entities: [UniqueIds -> Entries \union {Nothing}],
                     old: [OldKinds -> Entries \union {Nothing}]]
    /\ registry.misplaced \union registry.outdated \subseteq registry.devices
    /\ platforms \in [Platforms -> {"down", "pending", "up", "failed"}]
    /\ DOMAIN shown = UniqueIds
    /\ indexed \subseteq Assets /\ issues \subseteq Assets

-----------------------------------------------------------------------------
(* Migration and exposure of the registries                                  *)

\* _migrate_or_relink_entity: an existing pair is refused, see Migratable.
Migrated(reg, kinds) ==
    LET moved == {k \in kinds : reg.old[k] # Nothing} IN
    [reg EXCEPT
        !.entities = [u \in UniqueIds |->
            IF u \in moved \X {First} THEN reg.old[u[1]] ELSE @[u]],
        !.old = [k \in OldKinds |-> IF k \in moved THEN Nothing ELSE @[k]]]

Migratable(reg) ==
    \A k \in OldKinds : reg.old[k] # Nothing => reg.entities[<<k, First>>] = Nothing

\* build_exposure_migration_plan: its refusals.  The entries of this integration
\* must all be canonical, and the Runtime subentry must name its Asset's device.
Plannable(reg) ==
    /\ \A k \in OldKinds : reg.old[k] = Nothing
    /\ \A u \in Registered(reg) \intersect AssetIds : Owner(u) \in store.born
    /\ Tracked => First \in store.linked

Enabled(reg, u) ==
    /\ u[1] = "replacement" /\ InReplacement(store, Owner(u))
    /\ reg.entities[u].disabled = "integration"

Placed(reg, u) ==
    [reg.entities[u] EXCEPT !.device = "asset", !.owner = "parent",
                            !.disabled = IF Enabled(reg, u) THEN "no" ELSE @]

\* Mutant: an entity that is on its device already is left there.
UpdatesByDevice(reg) ==
    {u \in Registered(reg) \intersect AssetIds :
        reg.entities[u].device # "asset" \/ Enabled(reg, u)}

\* The entity updates that exposure makes.
Updates(reg) == {u \in Registered(reg) \intersect AssetIds : Placed(reg, u) # reg.entities[u]}

\* Calls are made for the devices first, then for the entities by kind and UUID.
EntityCall(u) == NumAssets * KindOrder[u[1]] + u[2]
Calls(reg) == store.born \union {EntityCall(u) : u \in Updates(reg)}

\* The call that raises first, whether it had its effect, and the calls that
\* raise when their effects are taken back.
NoFault == [at |-> NumAssets * 5 + 1, effect |-> FALSE, broken |-> {}]
Faults(reg) ==
    [at: Calls(reg), effect: BOOLEAN,
     broken: {{}, Calls(reg)} \union {{c} : c \in Calls(reg)}]
Done(fault, call) == call < fault.at \/ (call = fault.at /\ fault.effect)

\* A device call creates the Asset's device or gives the one there is to the entry,
\* in both cases with the Store's metadata.
Exposed(reg, fault) ==
    LET reached == {a \in store.born : Done(fault, a)} IN
    [reg EXCEPT
        !.devices = @ \union reached,
        !.misplaced = @ \ reached,
        !.outdated = @ \ reached,
        !.entities = [u \in UniqueIds |->
            IF u \in Updates(reg) /\ Done(fault, EntityCall(u)) THEN Placed(reg, u) ELSE @[u]]]

\* Mutant: a device whose creation raised is not looked for.
MadeReported(reg, fault) == {a \in store.born \ reg.devices : a < fault.at}

\* created_device_ids with _discover_attempt_devices.
Made(reg, fault) == {a \in store.born \ reg.devices : Done(fault, a)}

\* Home Assistant drops a device with the entities on it.
WithoutDevices(reg, gone) ==
    [reg EXCEPT !.devices = @ \ gone, !.misplaced = @ \ gone, !.outdated = @ \ gone,
                !.entities = [u \in UniqueIds |->
                    IF \E a \in gone : u \in OnDevice(reg, a) THEN Nothing ELSE @[u]]]

Restored(reg, fault) ==
    [Exposed(reg, fault) EXCEPT !.entities = [u \in UniqueIds |->
        IF u \in Updates(reg) /\ EntityCall(u) \notin fault.broken THEN reg.entities[u] ELSE @[u]]]

\* Mutant: a device is removed with whatever is on it.
RolledBackReferenced(reg, fault) ==
    WithoutDevices(Restored(reg, fault), Made(reg, fault) \ fault.broken)

\* _rollback_exposure_registry: a device that was there keeps the owner and the
\* metadata that the attempt gave it.
RolledBack(reg, fault) ==
    LET restored == Restored(reg, fault) IN
    WithoutDevices(restored,
        {a \in Made(reg, fault) \ fault.broken : OnDevice(restored, a) = {}})

-----------------------------------------------------------------------------
(* Setup and unload                                                          *)

\* Home Assistant drops the entities and the devices of a subentry.
WithoutSubentry(reg, x) ==
    WithoutDevices(
        [reg EXCEPT !.entities = [u \in UniqueIds |->
                        IF @[u] # Nothing /\ @[u].owner = x THEN Nothing ELSE @[u]],
                    !.old = [k \in OldKinds |->
                        IF @[k] # Nothing /\ @[k].owner = x THEN Nothing ELSE @[k]]],
        IF x = "purchase" THEN reg.misplaced ELSE {})

\* Assets whose metadata the Store changed since their device was written.
Outdated(reg, renamed) == [reg EXCEPT !.outdated = @ \union (renamed \intersect reg.devices)]

\* Builds before 0.4.x, 0.5 or a new installation with one Asset, each of them also
\* with an incomplete projection: a device on the subentry and nothing on it.  0.7.
InitialRegistries ==
    LET none == [devices |-> {}, misplaced |-> {}, outdated |-> {},
                 entities |-> [u \in UniqueIds |-> Nothing],
                 old |-> [k \in OldKinds |-> Nothing]]
        Legacy(k) == Entry("old", "external", IF k = "runtime" THEN "runtime" ELSE "purchase", "no")
        early == {none,
            [none EXCEPT !.old = [k \in OldKinds |-> Legacy(k)]],
            [none EXCEPT !.entities = [u \in UniqueIds |->
                IF u \in OldKinds \X {First} THEN Legacy(u[1]) ELSE Nothing]]}
        complete == [none EXCEPT !.devices = {First},
                                 !.entities = [u \in UniqueIds |->
            IF u \notin AssetKinds \X {First} THEN Nothing
            ELSE Entry(IF u[1] \in OldKinds THEN "old" ELSE "new", "asset",
                       IF u[1] = "runtime" THEN "runtime" ELSE "parent",
                       IF u[1] = "replacement" THEN "integration" ELSE "no")]]
    IN early
       \union {[reg EXCEPT !.devices = {First}, !.misplaced = {First}, !.outdated = {First}] :
                   reg \in early}
       \union {complete, Outdated(complete, {First})}

Init ==
    /\ store = [born |-> {First}, archived |-> {}, linked |-> {First}, replaced |-> FALSE,
                schedules |-> [s \in Schedules |-> "none"]]
    /\ external = TRUE
    /\ subentries = {"purchase", "runtime"}
    /\ registry \in InitialRegistries
    /\ platforms = [p \in Platforms |-> "down"]
    /\ shown = [u \in UniqueIds |-> Nothing]
    /\ indexed = {} /\ issues = {}

\* async_setup_entry: migration, exposure, Repairs.  The platforms follow.
Setup ==
    /\ Unloaded
    /\ LET reg == Migrated(registry, OldKinds) IN
       /\ Migratable(registry) /\ Plannable(reg)
       /\ registry' = Exposed(reg, NoFault)
    /\ platforms' = [p \in Platforms |-> "pending"]
    /\ issues' = StaleReferences(store, external)
    /\ UNCHANGED <<store, external, subentries, shown, indexed>>

\* _refresh_home_assistant_metadata: reconciliation may take over what the external
\* device that a subentry names says of itself.
Refreshed == IF external /\ subentries # {} THEN {First} ELSE {}

\* The same setup when a call of the migration or of exposure raises.
SetupFails ==
    /\ Unloaded
    /\ Migratable(registry)
    /\ \E found \in {registry, Outdated(registry, Refreshed)} :
        LET reg == Migrated(found, OldKinds) IN
        \/ \E kinds \in SUBSET OldKinds : registry' = Migrated(found, kinds)
        \/ /\ Plannable(reg)
           /\ \E fault \in Faults(reg) : registry' = RolledBack(reg, fault)
    /\ UNCHANGED <<store, external, subentries, platforms, shown, indexed, issues>>

\* Entities a platform adds, with what Home Assistant registers for them.
Added(reg, ids) ==
    [reg EXCEPT !.entities = [u \in UniqueIds |->
        CASE u \in ids /\ @[u] # Nothing -> [@[u] EXCEPT !.device = "asset", !.owner = "parent"]
          [] u \in ids /\ @[u] = Nothing ->
                Entry("new", "asset", "parent",
                      IF u[1] = "replacement" /\ ~InReplacement(store, Owner(u))
                      THEN "integration" ELSE "no")
          [] OTHER -> @[u]]]

\* Disabled entities are registered and do not run.
Show(reg, ids) ==
    [u \in UniqueIds |->
        IF u \in ids /\ reg.entities[u].disabled = "no"
        THEN View(store, external, u) ELSE shown[u]]

\* MaintenanceEntityCoordinator.async_setup: orphans go, what is missing is built.
ScheduleEntities(p) == {u \in Expected(store) : PlatformOf(u) = p /\ Owner(u) \in registry.devices}
WithoutOrphans(reg, p) ==
    [reg EXCEPT !.entities = [u \in UniqueIds |->
        IF u \in ScheduleIds \ Expected(store) /\ PlatformOf(u) = p THEN Nothing ELSE @[u]]]

StartBinarySensors ==
    /\ platforms["binary_sensor"] = "pending"
    /\ LET ids == ScheduleEntities("binary_sensor") IN
       /\ registry' = Added(WithoutOrphans(registry, "binary_sensor"), ids)
       /\ shown' = Show(registry', ids)
    /\ platforms' = [platforms EXCEPT !["binary_sensor"] = "up"]
    /\ UNCHANGED <<store, external, subentries, indexed, issues>>

\* sensor.py, async_setup_entry: an Asset that was created since exposure ran has
\* no device, and then no sensor is added.
StartSensors ==
    /\ platforms["sensor"] = "pending"
    /\ IF store.born \subseteq registry.devices
       THEN LET assetIds == {u \in AssetIds : Owner(u) \in store.born /\
                                (u[1] = "runtime" => u[2] = First /\ Tracked)}
                ids == assetIds \union ScheduleEntities("sensor")
            IN /\ registry' = Added(WithoutOrphans(registry, "sensor"), ids)
               /\ shown' = Show(registry', ids)
               /\ indexed' = store.linked
               /\ platforms' = [platforms EXCEPT !["sensor"] = "up"]
       ELSE /\ platforms' = [platforms EXCEPT !["sensor"] = "failed"]
            /\ UNCHANGED <<registry, shown, indexed>>
    /\ UNCHANGED <<store, external, subentries, issues>>

\* Issues and registry entries stay.
Unload ==
    /\ Loaded
    /\ platforms' = [p \in Platforms |-> "down"]
    /\ shown' = [u \in UniqueIds |-> Nothing]
    /\ indexed' = {}
    /\ UNCHANGED <<store, external, subentries, registry, issues>>

-----------------------------------------------------------------------------
(* Following the Store                                                       *)

\* Mutant: entities that nobody expects are removed, whoever they belong to.
OrphansOfAll(st, changed) ==
    {u \in Running \intersect ScheduleIds :
        u \notin {e \in Expected(st) : Owner(e) \in changed}}

\* _remove_orphans for the Assets that changed.
Orphans(st, changed) ==
    {u \in Running \intersect ScheduleIds : Owner(u) \in changed /\ u \notin Expected(st)}

\* _publish and its listeners: Repairs, the Asset entities, the coordinators.  Nothing
\* follows new metadata: the devices of renamed Assets are outdated.
Publish(st, changed, renamed) ==
    LET orphans == Orphans(st, changed)
        built == {u \in Expected(st) \ Running :
            /\ Owner(u) \in changed \intersect registry.devices
            /\ Up(PlatformOf(u))}
        kept == {u \in Running \ orphans : Owner(u) \in changed}
    IN /\ Attached
       /\ store' = st
       /\ issues' = StaleReferences(st, external)
       /\ registry' = Added([Outdated(registry, renamed) EXCEPT !.entities = [u \in UniqueIds |->
                                IF u \in orphans THEN Nothing ELSE @[u]]], built)
       /\ shown' = [u \in UniqueIds |->
            CASE u \in orphans -> Nothing
              [] u \in kept \union built -> View(st, external, u)
              [] OTHER -> shown[u]]
       /\ UNCHANGED <<external, subentries, platforms, indexed>>

\* Mutations of the Store, by forms or by a later call that recovers an unknown save.
CreateAsset ==
    \E a \in Assets \ store.born : Publish([store EXCEPT !.born = @ \union {a}], {a}, {})

\* Metadata, purchase, deployment and lifecycle: no entity here shows them.
EditAsset ==
    \E a \in store.born \ store.archived :
        \E renamed \in SUBSET ({a} \intersect Renaming) : Publish(store, {a}, renamed)

\* A device that a subentry names is not unlinked; one that is linked and there may
\* bring new metadata.
LinkOrUnlink ==
    \E a \in (store.born \ store.archived) \intersect Linking :
        /\ a = First => subentries = {}
        /\ \/ /\ a \in store.linked
              /\ Publish([store EXCEPT !.linked = @ \ {a}], {a}, {})
           \/ /\ a \notin store.linked
              /\ \E renamed \in SUBSET (IF external THEN {a} \intersect Renaming ELSE {}) :
                    Publish([store EXCEPT !.linked = @ \union {a}], {a}, renamed)

ReplaceOrVoid ==
    /\ {First, First + 1} \subseteq store.born
    /\ ~store.replaced => {First, First + 1} \intersect store.archived = {}
    /\ Publish([store EXCEPT !.replaced = ~@], {First, First + 1}, {})

ArchiveOrRestore ==
    \E a \in store.born \intersect Archiving :
        /\ a = First => ~Tracked
        /\ Publish([store EXCEPT !.archived = IF a \in @ THEN @ \ {a} ELSE @ \union {a}], {a}, {})

MaintainSchedule ==
    \E s \in Schedules, form \in {"none", "plain", "reminder"} :
        /\ AssetOf[s] \in store.born \ store.archived
        /\ form # store.schedules[s]
        /\ Publish([store EXCEPT !.schedules[s] = form], {AssetOf[s]}, {})

-----------------------------------------------------------------------------
(* Following Home Assistant                                                  *)

\* A device disappears with nothing of ours but its link, or appears again; both
\* are announced: Repairs and the indexed Relationships entities follow.
DeviceEvent ==
    LET present == ~external
        Unlinked(e) == IF e # Nothing /\ e.device = "external" THEN [e EXCEPT !.device = "none"] ELSE e
    IN /\ external' = present
       /\ registry' = [registry EXCEPT
            !.entities = [u \in UniqueIds |-> Unlinked(@[u])],
            !.old = [k \in OldKinds |-> Unlinked(@[k])]]
       /\ issues' = IF Attached THEN StaleReferences(store, present) ELSE issues
       /\ shown' = [u \in UniqueIds |->
            IF u \in Running /\ u[1] = "relationships" /\ Owner(u) \in indexed
            THEN View(store, present, u) ELSE shown[u]]
       /\ UNCHANGED <<store, subentries, platforms, indexed>>

\* The update listener reloads.
RemoveSubentry ==
    \E x \in subentries :
        /\ subentries' = subentries \ {x}
        /\ registry' = WithoutSubentry(registry, x)
        /\ UNCHANGED <<store, external, platforms, shown, indexed, issues>>

AddRuntime ==
    /\ Loaded /\ ~Tracked /\ First \in store.linked \ store.archived
    /\ subentries' = subentries \union {"runtime"}
    /\ UNCHANGED <<store, external, registry, platforms, shown, indexed, issues>>

Next ==
    \/ Setup \/ SetupFails \/ StartBinarySensors \/ StartSensors \/ Unload
    \/ CreateAsset \/ EditAsset \/ LinkOrUnlink \/ ReplaceOrVoid \/ ArchiveOrRestore \/ MaintainSchedule
    \/ DeviceEvent \/ RemoveSubentry \/ AddRuntime

Spec == Init /\ [][Next]_vars

-----------------------------------------------------------------------------
(* Properties                                                                *)

\* No entity loses its entity ID, and with it its history and its settings: not by
\* the migration, not by a failed setup and its rollback, not by a reload, and not
\* by a change of the Store about another Asset or Schedule.  It goes only with its
\* Schedule or reminder, or with the subentry it belonged to when that is removed
\* before exposure could move it (ARCHITECTURE.md: "preserving its entity ID").
IdentitiesAreKept ==
    [][/\ \A u \in Registered(registry) :
            \/ registry'.entities[u].id = registry.entities[u].id
            \/ u \in ScheduleIds \ Expected(store')
            \/ registry.entities[u].owner \in subentries \ subentries'
       /\ \A k \in OldKinds : registry.old[k] # Nothing =>
            \/ registry'.old[k] # Nothing
            \/ registry'.entities[<<k, First>>].id = registry.old[k].id
            \/ registry.old[k].owner \in subentries \ subentries']_vars

\* Whatever call of exposure raises, with its effect or without: if taking back
\* works, the same devices exist and every entity is where it was.  Otherwise an
\* entity is where it was or where it belongs, a device that was there stays, and a
\* device made by this attempt stays only if it could not be removed or is still in
\* use.  The update of a device that was there is never taken back, and nothing else
\* changes its owner or its metadata: it is as it was, or the entry's with what the
\* Store says if its call had its effect (_rollback_exposure_registry,
\* _discover_attempt_devices).
FailureIsCompensated ==
    LET reg == Migrated(registry, OldKinds) IN
    Unloaded /\ Plannable(reg) => \A fault \in Faults(reg) :
        LET left == RolledBack(reg, fault) IN
        /\ fault.broken = {} => left.devices = reg.devices /\ left.entities = reg.entities
        /\ left.old = reg.old
        /\ reg.devices \subseteq left.devices
        /\ left.misplaced = {a \in reg.misplaced : ~Done(fault, a)}
        /\ left.outdated = {a \in reg.outdated : ~Done(fault, a)}
        /\ \A a \in left.devices \ reg.devices : a \in fault.broken \/ OnDevice(left, a) # {}
        /\ \A u \in UniqueIds :
            left.entities[u] # reg.entities[u] =>
                EntityCall(u) \in fault.broken /\ left.entities[u] = Placed(reg, u)

\* Once its calls work again, the next setup completes and leaves every Asset with
\* its device, the entry's and with the Store's metadata, and every entity of an Asset on it, owned by the entry, whatever was
\* left by failed attempts, older builds, or Assets and subentries that came and
\* went (async_reconcile_exposure_registry).
NextSetupConverges ==
    LET reg == Migrated(registry, OldKinds)
        done == Exposed(reg, NoFault)
    IN Unloaded =>
        /\ Migratable(registry) /\ Plannable(reg)
        /\ done.devices = store.born /\ done.misplaced = {} /\ done.outdated = {}
        /\ \A u \in Registered(done) \intersect AssetIds :
            /\ done.entities[u].device = "asset" /\ done.entities[u].owner = "parent"
            /\ u[1] = "replacement" /\ InReplacement(store, Owner(u)) =>
                  done.entities[u].disabled = "no"

\* What is shown follows the Store without a reload.  From exposure on the issues are
\* those of the current references.  A platform that is up has, for each Asset with a
\* device, exactly the Maintenance entities its Schedules call for, registered and
\* running; and every running entity shows the published snapshot, its Relationships
\* with the devices that were linked when the platform started
\* (async_add_publish_listener, MaintenanceEntityCoordinator).
FollowsTheStore ==
    LET Current(u) == View(store, external, u)
        Followed(u) == u[1] = "relationships" => Owner(u) \in indexed
        HasDevice(u) == Owner(u) \in registry.devices
    IN /\ TypeOK
       /\ Attached => issues = StaleReferences(store, external)
       /\ \A u \in ScheduleIds : Up(PlatformOf(u)) =>
            /\ (u \in Registered(registry)) = (u \in Running)
            /\ (u \in Running) = (u \in Expected(store) /\ HasDevice(u))
       /\ \A u \in Running :
            Current(u) = IF Followed(u) THEN shown[u] ELSE [shown[u] EXCEPT !.present = external]

=============================================================================
