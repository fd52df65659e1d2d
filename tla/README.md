# Device Lifecycle in TLA+

A verification project for the Home Assistant integration in
`src/custom_components/device_lifecycle`. It models what the integration does
with time, failures and concurrency; the source, not the documents, is the
reference. Home Assistant itself (its event loop, `Store` base class, registries
and flow manager) is external: it appears only through what the integration
calls and is told.

Home Assistant runs the integration on one asyncio loop. Code between two
`await`s is atomic; everything else interleaves. All modules use that grain: **a
step is the code between two awaits**, and what follows the last await of a call
(publish, answer, release of the lock) is one step.

## 1. The system

| Component | State | Operations | Hard parts |
|---|---|---|---|
| Asset Store (`storage.py`, `AssetStoreManager`, `DeviceLifecycleStore`, `_StoreLifecycle`) | one JSON file, published snapshot, `uncertain`/`retired`/`ready` flags per manager; lock, owner and `store_seen` per process | setup, migrate, mutate, verified save, recover, resolve, retire | ambiguous writes, cancelled saves, stale managers, lost and corrupt files, permanent numbers |
| Config entry (`__init__.py`) | the entry's state and current manager | setup, unload, update listener | failing at any step, reload with calls in flight |
| Runtime writer (`sensor.py`) | committed total, pending deltas, running interval, quiesced flag, listeners | source change, interval, checkpoint, finalize, retire, shutdown, prepare unload, removal | retry of ambiguous commits, order of queued operations, nothing lost or counted twice |
| Runtime accounting (`storage.py`) | canonical `total_seconds`, registered writers, unresolved Assets | compare-and-set commit, checkpoint, eligibility | idempotence, truthful reports |
| Archive and Restore (`archive.py`, `storage.py`, flows) | `archived_at`, binding reservations, quarantine | archive, restore, reserve, quarantine at setup | three parties check each other's evidence at different times |
| Lifecycle and Replacement (`storage.py`) | event chains, replacement graph | transition, replace, correct, void | chains and graphs stay well formed over long histories |
| Quick Create (`storage.py`) | one transaction over Asset, Purchase, Replacement, predecessor | create, replay | replay after a lost answer against changed data |
| Purchases, relationships (`storage.py`) | members, sources, device links | reconcile, link, unlink, assign | configuration and Store converge, user choices survive |
| Maintenance (`maintenance*.py`) | schedules, events, correction graph | ten requests, projection, entities | idempotence, confirmation guards, calendar arithmetic |
| Exposure and entity migration (`exposure.py`, `migration.py`) | Home Assistant registries | preflight, apply, roll back | a failure half way |
| Repairs (`stale_references.py`, `runtime_conflicts.py`) | issue sets | synchronise, delete | follow publishes and registry events |
| Flows (`config_flow.py`) | drafts | forms, submits | values checked before an await and used after it |

Interactions: flows, Runtime writers and setup call the manager; the manager
publishes to entities and Repairs through synchronous listeners; a config
subentry change makes the update listener retire orphaned writers and reload the
entry; a reload replaces the manager, while the fence in `hass.data` survives.
Lock order: a writer's own lock first, the Store's fence inside each commit.

What makes each part correct is stated as the properties below; `PROJECT.json`
lists the hazards they are aimed at, each at its line.

## 2. Modules

`StoreData` - the payload and the requests, pure. A snapshot keeps what the
persistence protocol can get wrong: the Assets that exist with their permanent
number (`number[u]`, 0 for none), the allocator `next`, which Assets are archived
and which were edited since their creation. Four requests stand for the kinds of
mutations the protocol tells apart: `quick_create` (carries its own UUID, is
replayed, allocates), `edit` (cannot be replayed), `archive` and `restore` (are
replayed by state). Blockers of Archive belong to another component and are left
out here.

`AssetStore` - the protocol. One canonical file (`file`, `durable`, `sidecar`),
the process-wide fence (`lock`, `owner`, `storeSeen`), manager objects (`data`,
`uncertain`, `retired`, `ready`, `exposed`), concurrent calls (`pc` and what
belongs to a call) and the config entry. How actions map to the code:

- a call: `Invoke`, then under the lock `RefuseFenced`, `BeginRecovery` with
  `Recover`/`RecoveryFails`, or `BeginMutation`; a changed candidate is written
  (`WriteLands`, `WriteFails`), read back (`Verified`, `Unverified`) and, if its
  fate is unknown and the request can be replayed, resolved (`Resolve`,
  `ResolutionFails`);
- `CancelWaiting` and `CancelSave` are a task's cancellation; during a save it
  drains the I/O under the lock (`_async_wait_for_persistence`);
- setup: `SetupBegin`, `SetupTakesOver`, `SetupProbe`, one of the `Load...`
  actions or the migration, then `EntryLoaded` or `EntrySetupRaises`; unload:
  `UnloadBegin`, `Retire`;
- `ProcessStops`, `ProcessStarts`, `FileCorrupted`, `BackupRestored`,
  `FileDeleted` are the environment. Home Assistant's `Store` swallows some write
  errors, renames an unreadable file aside and saves a migrated payload itself;
  these are modelled where the code relies on them.

Every failed save is ambiguous in this code (`async_save` raises nothing else),
so there is no definite write error. A plain error of the resolution of Quick
Create and the raw ambiguous error are both answered `"ambiguous"`. The lock is
granted to any waiting task; its first-in-first-out order appears as strong
fairness. A manager is callable from the end of its setup (`exposed`), slightly
earlier than `entry.runtime_data` is assigned. A restart with all evidence of the
Store deleted is excluded, as `docs/adr/bl03-persistence-and-offline-recovery.md`
does: no code could tell it from a first installation.

`DurableCalls` - the abstract specification: one durable value, requests applied
whole and at most once between call and answer, answers that are true.
`AssetStore!Calls` is the refinement mapping: the value is the file's payload, a
call is committed once its candidate has reached the disk.

`RuntimeWriter` - the Runtime writer of one Asset against the canonical total.
The Store is what `DurableCalls` promises, so a commit lands at most once
(`CommitLands`), returns (`CommitReturns`) or raises without saying whether it
landed (`CommitFails`). Each operation is one `Handle...` action up to its first
commit; the operation's name in `holder` says what to do after its last one. Time
is counted in ticks, the source in the four values `_is_active` tells apart
(above the threshold, between the thresholds, below, unavailable). `sealed` caches
the sum of the pending deltas, which the code recomputes. `start`, `span` and
`dropped` are history variables. A preparation for unload keeps measuring during
its commits and discards what it measured in that time when they succeed
(`async_prepare_runtime_unload` sets `_active_since` to `None`): `dropped` counts it.

`ArchiveInterlock` - Archive against Runtime tracking. Whether an Asset is
archived is in the Store (`disk`, `data`), which devices are tracked is in the
entry's Runtime subentries, and Home Assistant changes those without asking. The
parties that keep them apart are modelled together because none of them can be
judged alone:

- the lock is a FIFO of calls (`queue`, the head holds it); each mutator reads the
  published snapshot, and a changed candidate is saved (`SaveVerified`, `SaveFails`,
  `SaveAmbiguous`, `SaveResolved`) as `AssetStore` has it in detail;
- `Resolve` is `resolve_runtime_subentry_asset`; `Blocked` the evidence Archive
  collects under the lock: resolving subentries, reservations, the writer;
- forms (`RequestArchive`, `RequestRestore`, `RequestLink`, `RequestUnlink`) check on
  the published snapshot and submit what they showed;
- the "Add Runtime" dialog is `FlowChooses`, `FlowSubmits`, `Reserve`, and
  `FlowCloses`, which may come while the reservation waits. From the lock to the
  added subentry there is no await, so `Reserve` is one step, and a reservation
  outlives it only when its dialog was closed (`reserved`);
- the entry: `Setup` (load, quarantine), `Reconcile` (`Adopt` for each subentry in turn, `Adopted`),
  `Reconciled` (hints written back), `StartPlatforms`, `RegisterWriter`, `SetupDone`
  (listener), `RetireOrphan`/`ListenerDone` (update listener), `Prepare`,
  `UnloadPlatforms`, `Retire`; the writer keeps only what `Eligible` tells apart.

Deployment and Purchases refuse more and are left out, as is the entity migration
inside setup. The configuration belongs to the Store: a subentry's hint agrees
with it at the start.

`AssetHistory` - what the mutators make of Lifecycle, deployment, replacement and
Quick Create requests. A mutator is an operator from a snapshot, a clock and a
request to an outcome and a candidate (`SetLifecycle`, `Replace`, `Correct`, `Void`,
`QuickCreate`, ...); `Validated` is the validation of the whole candidate, with the
order the code has: an equal candidate is no change, an invalid one is refused.
`Submit`, `SubmitManual` and `SubmitQuickCreate` save it. The clock is chosen at
each request, so it may be set back; a Quick Create carries the snapshot of its
predecessor that its form has shown. An event's or record's index stands for its
UUID. Purchase, warranty and device link of a Quick Create are left out.

`Maintenance` - the ten Maintenance requests on schedules and events: creation,
edits, starting points, intervals, enabling, deletion, recording, voiding and
correcting. Each is an operator with the guards, confirmations and no-op rules of
`maintenance_mutations.py`; `Submit` runs it as `_run_maintenance` does, `Told` is
what an ambiguous save is resolved to. A form may be stale, and any request may be
sent again. The projection does not take part in the guards.

`CivilCalendar` and `MaintenanceProjection` - the pure projection of one schedule:
anchor, Runtime safety, conditions, combination, reminder. The calendar is civil
time with leap years, month ends and the last day of year 9999, after which there
is no due date. The actions change what is projected: days pass, the clock is set
back, Runtime grows, work is recorded and voided.

`Exposure` - everything Home Assistant shows of the Store: Asset Devices, registry
entries, running entities, stale-reference issues. A device may still belong to the
purchase subentry (`misplaced`: an incomplete projection, which the preflight accepts
and a device call gives to the entry) and may lack the Store's latest metadata
(`outdated`: after a form, a link or the refresh of a reconciliation; only a device call
writes it). `Setup` is migration, preflight and apply; in `SetupFails` the migration
stops at any point, or one registry call of exposure raises, with or without its effect,
and the compensation runs, itself with calls that raise. It takes back entity moves and
devices that the attempt made, not the update of a device that was there
(`exposure.py:579-584`, `469-537`). `InReplacement` decides per Asset whether it has the
replacement entity. `StartBinarySensors` and `StartSensors` follow in either order.
`Publish` is the Store's synchronous fan-out to Repairs, Asset entities and Maintenance
coordinators. The registries may come from any older build.

`AssetStoreInvariant` holds the inductive invariant of `AssetStore` and `StoreDataLemmas`
what its payload operators preserve; the `...Proofs` modules hold the theorems of the
module they are named after, with its inductive invariant where it has no module of
its own. `MC...` give the checker values and symmetry.

## 3. Runs

| Run | Bounds | Shows |
|---|---|---|
| `store_fence` | 2 callers, 2 managers, 1 UUID, 1 number, 1 fault | `Coherent`: the published snapshot of an active manager is the durable one unless it is marked uncertain. `PublishedIsDurable`: verify first, publish second. `FencedWrites`: only the owner writes, never from an old snapshot. `ImplementsDurableCalls`: the refinement |
| `store_identity` | 1 caller, 2 managers, 2 UUIDs, 2 numbers, 2 faults | `IdentityPermanent`: no number is lost, changed or reused over crashes, corruption, deletion, migration and restoration |
| `store_progress` | 1 caller, 2 managers, 1 fault, fair | `EveryCallReturns`, `EntryNeverHangs`: no failure or cancellation leaves the fence held |
| `runtime_safety` | 3 ticks, 1 waiting event | `Conserved`, `OneInDoubt`, `ReportsAreDurable`, `QuiescedStaysQuiet` over all operations, failures and restarts |
| `runtime_progress` | 2 ticks, no waiting events, fair | `SealedIsCommitted`: the interval alone drains sealed time, also after a failed retirement |
| `archive_interlock` | 2 Assets, 2 devices, 1 subentry, 1 dialog, 2 waiting calls | `NoArchivedBinding`: no step creates a Runtime subentry that resolves to an archived Asset. `ArchivedKeepsReferences`: neither a form submitted earlier nor a reconciliation gives an archived Asset a device or takes one away. `SetupIsPossible`: no accepted sequence makes every later setup fail |
| `archive_abandoned`, `archive_orphan` | as above, 1 or 2 devices | disagreements, see below |
| `projection` | 2 events, days around month ends, a leap day and the end of the calendar | `OkIsProven`: "ok" rests on one piece of evidence for every interval. `DueInTheRightMonth`: months are counted from the anchor, also over short months. `AlarmIsSticky`: time alone never ends an alarm. `DueIsAnnounced`: due comes before overdue, the reminder before due. `RecordingNeverRegresses`: recording, late or not, never moves the anchor to an earlier day |
| `maintenance` | 1 schedule, 3 events, 2 contexts | `StoreIsValid`: what the requests lead to loads again. `LocksAreConfirmed`, `LockedBaselineIsFinal`: a starting point is locked knowingly and then final. `RetryIsRecognised`: what landed is recognised. `HistoryIsPermanent`, `ArchivedIsFrozen` |
| `history` | 3 Assets, one from a draft; 5 Assets, events, records and marks together; 2 days | `LineagesAreSound`: chains in recorded order, replacements one to one and without a circle. `NothingTwice`: a form sent again, at any later clock but before any other form, changes nothing more. `RefusalsAreJustified`: the validation of the whole store never makes a legal request impossible. `HistoryIsPermanent`, `ArchivedIsFrozen`. `ReplayIsExact`: after a Quick Create has landed, exactly the commands with that effect are replays |
| `exposure` | 2 Assets, both archived and renamed, one linked and unlinked; 1 schedule, 1 external device, 2 subentries | `FollowsTheStore`: entities and issues are those of the published snapshot. `FailureIsCompensated`: for every failing call, with none, one or all of the compensations failing too, entities and devices are as they were or where they belong, and devices that were there keep their update. `NextSetupConverges`: whatever was left behind, the devices are the entry's, have the Store's metadata and carry their entities. `IdentitiesAreKept`: no entity loses its entity ID |

Why the bounds are enough. Two callers give every race for the lock, a third only
repeats one of them. Two managers are the fence's owner and a stale one; an object
nobody refers to stands for a new one, so reloads are unbounded. One UUID lets two
callers meet on the same Asset; two UUIDs let two Assets, made by one caller's
successive calls, compete for a number, and two numbers exhaust the range. `MaxFaults` bounds stops, corruptions and deletions
together; two of them give corruption followed by a restart, which is the case the
sidecar exists for. Three ticks give three pending deltas or two with a running
interval. The proofs remove all these bounds for the safety
properties. In `ArchiveInterlock` two Assets and two devices give every way a link can move under a subentry; one
subentry at a time may still be removed and added for the other device, and two
waiting calls (a reload may add a third) are one that checks and one that
overtakes it. `MaxSubentries` also counts dialogs that wait, so a subentry is never
dropped for want of room; `Flows` counts dialogs left behind by `FlowCloses` for
good. What two dialogs or two subentries do to one device is outside these bounds;
the proofs include it.

In `history` five records give a lineage of three Assets with two replacements, a
correction or a circle of two Assets, three events of one Asset (an undated step
between dated ones) and a Quick Create that retires a deployed predecessor and
starts its own chain. The bound ends a history, so this run has
`CHECK_DEADLOCK FALSE`; in `projection` the last day of the calendar ends the days,
for the same reason. Two clock values are before and after. In `maintenance`
three events are one, its corrector and one more, which gives chains and attempts at
circles and at a second corrector; schedules do not refer to each other, so one is
enough, and the two contexts are a day and a meter value that make a request
plausible or not. In `projection` an event before and one after the baseline meet
every rule of the anchor; its days are chosen where the arithmetic bends.
In `exposure` one external device and one subentry of each type suffice because entities
of different Assets meet only in the order of the calls, for which two Assets are
enough, and links follow the one external device, so one Asset is linked and unlinked
(`Linking`); faults are unbounded, one per setup, with compensation failing at none, one
or all calls.

Fairness. `AssetStore!FairSpec`: steps of the lock's holder are weakly fair - an
executor job ends; the code says that a stalled disk holds the fence - and taking
the lock is strongly fair because `asyncio.Lock` is first in, first out. Nothing
is assumed about callers, cancellations or faults. `RuntimeWriter!FairSpec`: the
interval timer fires, the lock is first in, first out, and a commit that is tried
again and again succeeds. `CHECK_DEADLOCK` is on in all runs but `history` and
`projection`. The four modules on data and registries state safety only; what
must happen there happens in the same call.

### Findings

`archive_abandoned`. The "Add Runtime" dialog takes its reservation in a call and
keeps the release afterwards. Closed while the call waits, it has already run
`async_remove`; Home Assistant ignores the result of the removed flow, and the
reservation blocks Archive of that Asset until a restart.

`archive_orphan`. The update listener is registered after the platforms. A subentry
removed in between leaves a writer that observes and no reload.

### Observations

Met while modelling, not checked by a run of their own:

- `RuntimeWriterDurability` documents `observing` as "whether the writer can still
  create Runtime" (`storage.py:1510`), but `runtime_durability` reports
  `not _removing`, which a removal sets before it has the Runtime lock and seals
  its interval. In between, `_runtime_archive_eligibility` can answer
  `QUIESCED_DURABLE` for a writer with unsealed time. `QuiescedStaysQuiet`
  therefore speaks of writers that are removed after they stopped observing.
- The "Add Runtime" dialog resolves its Asset before it waits and the reservation
  does not resolve again (`config_flow.py:7359`). An unlink queued ahead makes the
  subentry resolve to nothing, and the next setup makes a second Asset for the
  device.
- With a configuration older than the Store, an archived Asset can be named by a
  quarantined subentry whose device another Asset owns by now. Restoring it makes
  reconciliation give one device to two Assets (`storage.py:4699`): every later
  setup fails. And the dependency check of a link looks at the Asset's current
  device only (`config_flow.py:1596`), so an unlinked Asset that such a subentry
  names can be moved away and the subentry then resolves by its device, to an
  archived Asset. `ArchiveInterlock` starts from consistent configurations.
- A Maintenance deletion that has landed in an ambiguous save has nothing left to
  be recognised by and is reported as failed; sent again it is refused.
- Effective dates along a lifecycle may decrease over an undated step: the
  validation compares neighbours. `LineagesAreSound` says no more.
- `_RelationshipsRegistryCoordinator` and `_DeploymentAreaRegistryCoordinator` index
  device and area IDs when the platform starts. An Asset linked by a save whose
  outcome was unknown, which a later call recovers and publishes without a reload,
  is not refreshed when the new device disappears, although the listener says
  "Refresh only projections that store the exact changed registry ID"
  (`sensor.py:1237`). `FollowsTheStore` exempts that part.
- An Asset created between exposure and the start of the sensor platform has no
  device; the platform raises and no sensor runs until the next setup.

## 4. Proofs

The theorems hold for every value of the constants: any sets of callers, managers,
Assets, Schedules, statuses and dates, and any bound on records, faults or time.
They state every safety property of every run. In each module `Invariant` is `Spec => []IInv` and the other theorems follow from it.

| Module | Theorems | What the inductive invariant adds to the properties |
|---|---|---|
| `AssetStoreProofs` | `TypeCorrect`, `CoherentHolds`, `PublishedIsDurableHolds`, `FencedWritesHold`, `IdentityPermanentHolds`, `Implementation` (every behaviour is one of `DurableCalls!ASpec`) | Who holds the lock and in which step (`LockInv`, `CallInv`, `EntryInv`); the holder works through the fence's owner (`HolderInv`); a candidate is the request applied to the payload that was durable when the lock was taken (`Prepared`, `SaveInv`); whoever finds no file has evidence that a Store existed unless nothing was ever allocated (`EvidenceInv`); payloads are valid (`FileInv`) |
| `RuntimeWriterProofs` | `TypeCorrect`, `ConservedHolds`, `OneInDoubtHolds`, `ReportsAreDurableHolds`, `QuiescedStaysQuietHolds` | The pending deltas are a chain from the committed total to what was sealed (`SealedInv`), so the one in doubt is the first; whoever holds the lock has something to commit, and a removed writer told the manager what it left (`HolderInv`) |
| `ArchiveInterlockProofs` | `TypeCorrect`, `SetupIsPossibleHolds`, `NoArchivedBindingHolds`, `ArchivedKeepsReferencesHolds` | Snapshots are valid and agree with the hints (`SnapshotInv`); from the published snapshot to a candidate or to the disk an archived Asset keeps its device, none disappears and a device changes hands only through "none" (`ChangeInv`); what a form saw still holds when its call has the lock, or the call is refused, whatever overtook it (`CallInv`); the hints a reconciliation will write name the owners (`HintInv`) |
| `ExposureProofs` | `FollowsTheStoreHolds`, `FailureIsCompensatedHolds`, `NextSetupConvergesHolds`, `IdentitiesAreKeptHolds` | Registry entries belong to Assets that exist and sit on devices that are there and are the entry's, and an old unique ID is never beside the new one (`Sound`); what runs shows the published snapshot, but for a device nobody watches (`ShownInv`) |
| `MaintenanceProofs` | `StoreIsValidHolds`, `LocksAreConfirmedHolds`, `RetryIsRecognisedHolds`, `HistoryIsPermanentHolds`, `LockedBaselineIsFinalHolds`, `ArchivedIsFrozenHolds` | The snapshot consists of records and is valid (`Loads`); one lemma per request shows that its candidate loads |
| `AssetHistoryProofs` | `LineagesAreSoundHolds`, `NothingTwiceHolds`, `RefusalsAreJustifiedHolds`, `HistoryIsPermanentHolds`, `ArchivedIsFrozenHolds`, `ReplayIsExactHolds` | On top of the validation: every Asset's transitions are one chain in the order they were recorded, and their Assets exist (`Sound`). The code validates a chain by its links only; that it is the recorded order comes from how the mutators append |
| `MaintenanceProjectionProofs` | `TypeCorrect`, `OkIsProvenHolds`, `DueInTheRightMonthHolds`, `AlarmIsStickyHolds`, `DueIsAnnouncedHolds`, `RecordingNeverRegressesHolds` | The recorded events and the baseline are calendar dates; the rest is arithmetic over the whole calendar |

Some arguments a reader may want to know before reading them:

- `EvidenceInv` carries permanent numbers: `LoadAbsent` may publish an empty Store
  only if the last durable payload was empty.
- `FailureIsCompensatedHolds` compares the registry before exposure with the one
  after the rollback, entity by entity and device by device, for every failing call
  and every set of failing compensations. The registries are not restored as a whole:
  a device that was there has its new owner and metadata if its call had its effect,
  which is what `NextSetupConvergesHolds` then starts from.
- A misplaced device carries no entity, because entities are placed after every
  device call (`DevicesFirst`). So nothing is assumed about what Home Assistant does
  with entities on a subentry's device when that subentry is removed.
- `LineagesAreSoundHolds`: a replacement chain has a first Asset because the Assets
  that exist are finite and no Asset has two predecessors; a chain without an end
  would have to return to its start, which the validation's circle check excludes.
- `ReplayIsExactHolds`: the effect of a Quick Create is a function of its command
  (`Effect`), and the code's replay conditions are exactly "the effect is there".
- `NoArchivedBindingHolds` rests on the calls that wait. A dialog whose reservation
  waits was checked against the snapshot published then (`Alone`); each call ahead of
  it may change devices, and `InOrder` says which pairs of calls can be in the queue
  together: of two forms for one Asset that both expect its device, the second is
  refused once the first has been saved, and a link ahead of a reservation does not
  give the reserved device to another Asset. `Overtaken` says the same of a
  call and a save whose outcome is unknown, which a later call may yet publish.
- `SetupIsPossibleHolds`: `Adopted[n]`, the first n subentries reconciled, is a valid
  snapshot in which no archived Asset has changed; by induction on n.
- Induction is needed for dates (adding days over month ends) and for `Adopted` only.
  The provers cannot instantiate the library's induction schemes, which take a predicate; `SetInduction`
  takes a set instead and is proved from the well-foundedness of `<`. With it, counts
  of days are defined for every number and move strictly through valid dates.

Assumptions about constants are in `ASSUME`s of the modules, and TLC evaluates them on
the runs. Apart from sizes and types they say that what stands for something absent is
none of the things: the absent marker is no UUID, "none" and "missing" no device, "none" no lifecycle status
(`const.py:132`), "no_one" no Asset, "active" no reason for voiding. Days are dates
of the calendar.

What the attempts showed. `Exposure` took the one Asset in a replacement for a property
of the whole Store: with more than two Assets in lineages the replacement entity must be
decided per Asset (`InReplacement`), which the bounds of its run could not tell. In
`Maintenance`, `AssetHistory`, `MaintenanceProjection`, `CivilCalendar` and
`ArchiveInterlock` some `CASE`s had overlapping arms; where TLC takes the first, TLA+
leaves the choice open, so they are `IF`s or disjuncts now, in the code's order. The
first candidates for the invariant of `ArchiveInterlock` were not inductive: what a
waiting call may still rely on also depends on the calls ahead of it and on a save in
doubt, which no property mentions. `Exposure` knew of a device only that it exists, and
its rollback then restored whole registries; the code updates devices that are there and
never takes that back, so `FailureIsCompensated` claims less now.

The inductive invariants were also checked with TLC on the bounds of the runs, that of
`ArchiveInterlock` in addition by simulation with three Assets, two subentries, two
dialogs and four calls.

Only model-checked:

- the liveness properties `EveryCallReturns`, `EntryNeverHangs` and
  `SealedIsCommitted`: fairness and `ENABLED` are out of the provers' reach;
- the two findings, which are counterexamples.

## 5. Not modelled

- Presentation (forms, labels, translations, dashboard, icons), canonical parsing
  and formatting, record shapes and packaging: they keep no state over time.
- Purchases: subentries, assignment, reconciliation and their part of Quick Create,
  the warranty fields, explicit related devices. They are merges of data under the
  same mutation protocol; the protocol is modelled, the merge rules are not.
- Runtime initialisation and the legacy import, which run once per Asset.
- Cancellation of a Runtime writer's operations, which Home Assistant does not
  normally cancel, and two Runtime dialogs or subentries for one device.
- In `Exposure`: the fields of a device's metadata, a device that a subentry owns with
  entities on it already, the midnight timer, entities disabled by the user, devices
  deleted by hand, Runtime-conflict issues, registry files that a crash leaves older
  than memory, and a Store restored without an Asset that the registry has entities of
  (setup refuses that).

## 6. Plan

No safety property is left that only TLC checks. What could still be added:

- properties for the hazards that have none (`PROJECT.json` says why at each), above
  all the two reads of a writer's evidence outside the Runtime lock;
- Purchases: their subentries and reconciliation, as a second user of the
  reconciliation that `ArchiveInterlock` has for Runtime;
- a proof that `RuntimeWriter`'s commits are calls of `DurableCalls`, which the module
  takes over by hand.
