------------------------------ MODULE AssetStore ------------------------------
(***************************************************************************)
(* The persistence protocol of AssetStoreManager (storage.py) and the      *)
(* config-entry setup and unload that create and retire managers           *)
(* (__init__.py).  One canonical file, one fence per Home Assistant        *)
(* process (a FIFO asyncio.Lock, the owning manager and the monotonic      *)
(* store_seen flag), one manager object per entry setup, and concurrent    *)
(* calls, each of which may hold a reference to an old manager.            *)
(*                                                                         *)
(* A step is the code between two awaits.  Everything a call does after    *)
(* its last await (publish, answer, release of the lock) is one step.      *)
(***************************************************************************)
EXTENDS StoreData

CONSTANTS
    Tasks,       \* concurrent callers of the Store API
    Managers,    \* AssetStoreManager objects; a collected one is reused
    EntryTask,   \* the config entry's own setup or unload as the lock holder
    Nobody,      \* no lock holder, no owner, no manager
    NoRequest,
    MaxFaults    \* bound on process stops, corruptions and deletions together

ASSUME ConstantsAssumption ==
    /\ Nobody \notin Tasks \union Managers
    /\ EntryTask \notin Tasks \union {Nobody}
    /\ NoRequest \notin Requests
    /\ MaxFaults \in Nat

VARIABLES
    \* the disk
    file,        \* the canonical path: absent, corrupt, a Store 3.1 or a 4.1 file
    durable,     \* the last complete payload the canonical path held
    sidecar,     \* a preserved <key>.corrupt.<timestamp> file exists
    \* _StoreLifecycle, in hass.data
    lock, owner, storeSeen,
    \* AssetStoreManager attributes
    data, uncertain, retired, ready,
    exposed,     \* managers whose async_setup succeeded: callers may hold them
    \* the calls
    pc, target, request,
    landed,      \* the call's candidate reached the disk (history)
    outcome,     \* how the call that ended last was answered
    candidate,   \* the snapshot being written under the lock
    cancelled,   \* the lock holder's save was cancelled and is being drained
    \* the config entry
    entry, current, existed,
    faults

diskVars == <<file, durable, sidecar>>
managerVars == <<data, uncertain, retired, ready, exposed>>
callVars == <<pc, target, request, landed, outcome, candidate, cancelled>>
entryVars == <<entry, current, existed>>
vars == <<file, durable, sidecar, lock, owner, storeSeen, data, uncertain,
          retired, ready, exposed, pc, target, request, landed, outcome,
          candidate, cancelled, entry, current, existed, faults>>

Outcomes == {"none", "ok", "refused", "not_loaded", "unrecovered",
             "not_persisted", "ambiguous", "cancelled"}
Writing == {"writing", "verifying", "resolving"}
Holding == Writing \union {"recovering"}
SetupHolding == {"probing", "loading", "migrating", "migrate_verifying"}

TypeOK ==
    /\ file \in {"absent", "corrupt", "legacy", "current"}
    /\ durable \in Snapshot /\ sidecar \in BOOLEAN
    /\ lock \in Tasks \union {EntryTask, Nobody}
    /\ owner \in Managers \union {Nobody} /\ storeSeen \in BOOLEAN
    /\ data \in [Managers -> Snapshot]
    /\ uncertain \in [Managers -> BOOLEAN]
    /\ retired \in [Managers -> BOOLEAN]
    /\ ready \in [Managers -> BOOLEAN]
    /\ exposed \subseteq Managers
    /\ pc \in [Tasks -> {"idle", "queued"} \union Holding]
    /\ target \in [Tasks -> Managers \union {Nobody}]
    /\ request \in [Tasks -> Requests \union {NoRequest}]
    /\ landed \in [Tasks -> BOOLEAN]
    /\ outcome \in Outcomes
    /\ candidate \in Snapshot /\ cancelled \in BOOLEAN
    /\ entry \in {"stopped", "unloaded", "setup_queued", "starting", "loaded",
                  "retire_queued"} \union SetupHolding
    /\ current \in Managers \union {Nobody} /\ existed \in BOOLEAN
    /\ faults \in 0..MaxFaults

Init ==
    /\ \/ file = "absent" /\ durable = Empty
       \/ /\ file \in {"legacy", "current"}
          /\ \E u \in Uuids : durable \in {Empty, Allocate(Empty, u)}
    /\ MaxNumber = 0 => durable = Empty
    /\ sidecar = FALSE
    /\ lock = Nobody /\ owner = Nobody /\ storeSeen = FALSE
    /\ data = [m \in Managers |-> Empty]
    /\ uncertain = [m \in Managers |-> FALSE]
    /\ retired = [m \in Managers |-> FALSE]
    /\ ready = [m \in Managers |-> TRUE]
    /\ exposed = {}
    /\ pc = [t \in Tasks |-> "idle"]
    /\ target = [t \in Tasks |-> Nobody]
    /\ request = [t \in Tasks |-> NoRequest]
    /\ landed = [t \in Tasks |-> FALSE]
    /\ outcome = "none"
    /\ candidate = Empty /\ cancelled = FALSE
    /\ entry = "unloaded" /\ current = Nobody /\ existed = FALSE
    /\ faults = 0

-----------------------------------------------------------------------------
(* Calls                                                                     *)

\* Mutant of Active: ownership of the fence is not checked.
ActiveUnfenced(m) == ready[m]

\* The guard of _async_recover_uncertain_persistence.
Active(m) == ~retired[m] /\ ready[m] /\ owner \in {m, Nobody}

\* Mutant of Return: a cancelled holder does not release the lock.
ReturnCancelledHolding(t, o) ==
    /\ pc' = [pc EXCEPT ![t] = "idle"]
    /\ target' = [target EXCEPT ![t] = Nobody]
    /\ request' = [request EXCEPT ![t] = NoRequest]
    /\ landed' = [landed EXCEPT ![t] = FALSE]
    /\ outcome' = o
    /\ IF lock = t /\ o # "cancelled"
       THEN lock' = Nobody /\ candidate' = Empty /\ cancelled' = FALSE
       ELSE UNCHANGED <<lock, candidate, cancelled>>

\* Call t ends with answer o and, if it holds the lock, releases it.
Return(t, o) ==
    /\ pc' = [pc EXCEPT ![t] = "idle"]
    /\ target' = [target EXCEPT ![t] = Nobody]
    /\ request' = [request EXCEPT ![t] = NoRequest]
    /\ landed' = [landed EXCEPT ![t] = FALSE]
    /\ outcome' = o
    /\ IF lock = t
       THEN lock' = Nobody /\ candidate' = Empty /\ cancelled' = FALSE
       ELSE UNCHANGED <<lock, candidate, cancelled>>

\* _publish: the snapshot becomes the manager's canonical data.
Publish(m, d) == data' = [data EXCEPT ![m] = d]

SetUncertain(m, b) == uncertain' = [uncertain EXCEPT ![m] = b]

\* A flow, a Runtime writer or reconciliation calls a mutation of manager m,
\* which may have been retired or replaced since the caller obtained it.
Invoke(t, m, r) ==
    /\ pc[t] = "idle" /\ m \in exposed
    /\ pc' = [pc EXCEPT ![t] = "queued"]
    /\ target' = [target EXCEPT ![t] = m]
    /\ request' = [request EXCEPT ![t] = r]
    /\ outcome' = "none"
    /\ UNCHANGED <<diskVars, lock, owner, storeSeen, managerVars, landed,
                   candidate, cancelled, entryVars, faults>>

\* The mutator runs on a copy of d; a changed candidate goes to async_save.
Mutate(t, d) ==
    LET r == request[t] IN
    \/ Verdict(d, r) = "refused" /\ Return(t, "refused")
    \/ Verdict(d, r) = "unchanged" /\ Return(t, "ok")
    \/ /\ Verdict(d, r) = "changed"
       /\ IF ValidIdentity(Apply(d, r))
          THEN /\ pc' = [pc EXCEPT ![t] = "writing"]
               /\ lock' = t
               /\ candidate' = Apply(d, r)
               /\ UNCHANGED <<target, request, landed, outcome, cancelled>>
          ELSE Return(t, "refused")

\* The call gets the lock but its manager was retired or replaced.
RefuseFenced(t) ==
    /\ pc[t] = "queued" /\ lock = Nobody
    /\ ~Active(target[t])
    /\ Return(t, "not_loaded")
    /\ UNCHANGED <<diskVars, owner, storeSeen, managerVars, entryVars, faults>>

\* The call gets the lock of a manager whose last save is unresolved.
BeginRecovery(t) ==
    /\ pc[t] = "queued" /\ lock = Nobody
    /\ Active(target[t]) /\ uncertain[target[t]]
    /\ lock' = t
    /\ pc' = [pc EXCEPT ![t] = "recovering"]
    /\ UNCHANGED <<diskVars, owner, storeSeen, managerVars, target, request, landed,
                   outcome, candidate, cancelled, entryVars, faults>>

\* The call gets the lock and mutates the published snapshot at once.
BeginMutation(t) ==
    /\ pc[t] = "queued" /\ lock = Nobody
    /\ Active(target[t]) /\ ~uncertain[target[t]]
    /\ Mutate(t, data[target[t]])
    /\ UNCHANGED <<diskVars, owner, storeSeen, managerVars, entryVars, faults>>

\* The recovery read returns a complete valid snapshot, which is published
\* before the mutator sees it.
Recover(t) ==
    /\ pc[t] = "recovering"
    /\ file = "current" /\ ValidIdentity(durable)
    /\ storeSeen' = TRUE
    /\ SetUncertain(target[t], FALSE)
    /\ Publish(target[t], durable)
    /\ Mutate(t, durable)
    /\ UNCHANGED <<diskVars, owner, retired, ready, exposed, entryVars, faults>>

\* The recovery read fails or finds no file: nothing is inferred from that.
RecoveryFails(t) ==
    /\ pc[t] = "recovering"
    /\ Return(t, "unrecovered")
    /\ UNCHANGED <<diskVars, owner, storeSeen, managerVars, entryVars, faults>>

\* The executor's atomic write replaces the file ...
WriteLands(t) ==
    /\ pc[t] = "writing"
    /\ file' = "current" /\ durable' = candidate
    /\ landed' = [landed EXCEPT ![t] = TRUE]
    /\ pc' = [pc EXCEPT ![t] = "verifying"]
    /\ UNCHANGED <<sidecar, lock, owner, storeSeen, managerVars, target, request,
                   outcome, candidate, cancelled, entryVars, faults>>

\* ... or fails: Home Assistant may swallow the WriteError, so async_save
\* goes on to the readback all the same.
WriteFails(t) ==
    /\ pc[t] = "writing"
    /\ pc' = [pc EXCEPT ![t] = "verifying"]
    /\ UNCHANGED <<diskVars, lock, owner, storeSeen, managerVars, target, request,
                   landed, outcome, candidate, cancelled, entryVars, faults>>

Matches == file = "current" /\ durable = candidate

\* Mutant of Verified: the return of async_save is taken for a readback.
VerifiedUnread(t) ==
    /\ pc[t] = "verifying"
    /\ storeSeen' = TRUE
    /\ SetUncertain(target[t], FALSE)
    /\ Publish(target[t], candidate)
    /\ Return(t, IF cancelled THEN "cancelled" ELSE "ok")
    /\ UNCHANGED <<diskVars, owner, retired, ready, exposed, entryVars, faults>>

\* Exact readback: publish, then answer; a cancelled caller still learns
\* only of its cancellation.
Verified(t) ==
    /\ pc[t] = "verifying" /\ Matches
    /\ storeSeen' = TRUE
    /\ SetUncertain(target[t], FALSE)
    /\ Publish(target[t], candidate)
    /\ Return(t, IF cancelled THEN "cancelled" ELSE "ok")
    /\ UNCHANGED <<diskVars, owner, retired, ready, exposed, entryVars, faults>>

\* Mutant of Unverified: a failed save is taken for a save that did not happen.
UnverifiedTrusted(t) ==
    /\ pc[t] = "verifying"
    /\ storeSeen' = TRUE
    /\ SetUncertain(target[t], FALSE)
    /\ Return(t, IF cancelled THEN "cancelled" ELSE "ambiguous")
    /\ UNCHANGED <<diskVars, owner, data, retired, ready, exposed, entryVars, faults>>

\* The write raised, the readback failed or it does not match: the save is
\* ambiguous and a request that can be replayed asks the disk once more.
Unverified(t) ==
    /\ pc[t] = "verifying"
    /\ storeSeen' = TRUE
    /\ SetUncertain(target[t], TRUE)
    /\ IF ~cancelled /\ Replayable(request[t])
       THEN /\ pc' = [pc EXCEPT ![t] = "resolving"]
            /\ UNCHANGED <<lock, target, request, landed, outcome, candidate, cancelled>>
       ELSE Return(t, IF cancelled THEN "cancelled" ELSE "ambiguous")
    /\ UNCHANGED <<diskVars, owner, data, retired, ready, exposed, entryVars, faults>>

\* Mutant of Resolve: the snapshot read back is not searched for the request.
ResolveUnsearched(t) ==
    /\ pc[t] = "resolving"
    /\ file = "current" /\ ValidIdentity(durable)
    /\ SetUncertain(target[t], FALSE)
    /\ Publish(target[t], durable)
    /\ Return(t, "ok")
    /\ UNCHANGED <<diskVars, owner, storeSeen, retired, ready, exposed, entryVars, faults>>

\* _async_resolve_ambiguous_persistence and the tail of Quick Create.
Resolve(t) ==
    /\ pc[t] = "resolving"
    /\ file = "current" /\ ValidIdentity(durable)
    /\ SetUncertain(target[t], FALSE)
    /\ Publish(target[t], durable)
    /\ Return(t, IF Reflects(durable, request[t]) THEN "ok" ELSE "not_persisted")
    /\ UNCHANGED <<diskVars, owner, storeSeen, retired, ready, exposed, entryVars, faults>>

ResolutionFails(t) ==
    /\ pc[t] = "resolving"
    /\ Return(t, "ambiguous")
    /\ UNCHANGED <<diskVars, owner, storeSeen, managerVars, entryVars, faults>>

\* Cancelled while waiting for the lock or while only reading: the call ends.
CancelWaiting(t) ==
    /\ pc[t] \in {"queued", "recovering", "resolving"}
    /\ Return(t, "cancelled")
    /\ UNCHANGED <<diskVars, owner, storeSeen, managerVars, entryVars, faults>>

\* Cancelled during a save: the I/O is drained under the lock.
CancelSave(t) ==
    /\ pc[t] \in {"writing", "verifying"} /\ ~cancelled
    /\ cancelled' = TRUE
    /\ SetUncertain(target[t], TRUE)
    /\ UNCHANGED <<diskVars, lock, owner, storeSeen, data, retired, ready, exposed, pc,
                   target, request, landed, outcome, candidate, entryVars, faults>>

-----------------------------------------------------------------------------
(* Entry setup and unload                                                    *)

\* async_setup_entry constructs a manager; an object that is neither the
\* fence's owner nor held by a call stands for a new one.
SetupBegin(m) ==
    /\ entry = "unloaded"
    /\ m # owner /\ \A t \in Tasks : target[t] # m
    /\ entry' = "setup_queued" /\ current' = m
    /\ data' = [data EXCEPT ![m] = Empty]
    /\ SetUncertain(m, FALSE)
    /\ retired' = [retired EXCEPT ![m] = FALSE]
    /\ ready' = [ready EXCEPT ![m] = TRUE]
    /\ exposed' = exposed \ {m}
    /\ UNCHANGED <<diskVars, lock, owner, storeSeen, callVars, existed, faults>>

SetupCancelledInQueue ==
    /\ entry = "setup_queued"
    /\ entry' = "unloaded"
    /\ UNCHANGED <<diskVars, lock, owner, storeSeen, managerVars, callVars, current,
                   existed, faults>>

\* Mutant of SetupTakesOver: fences the previous owner even if there is none.
SetupFencesAnyone ==
    /\ entry = "setup_queued" /\ lock = Nobody
    /\ lock' = EntryTask /\ entry' = "probing"
    /\ storeSeen' = (storeSeen \/ (owner # Nobody /\ (data[owner] # Empty \/ uncertain[owner])))
    /\ retired' = [m \in Managers \union {owner} |->
                      m # current /\ (m = owner \/ (m \in Managers /\ retired[m]))]
    /\ owner' = current
    /\ ready' = [ready EXCEPT ![current] = FALSE]
    /\ UNCHANGED <<diskVars, data, uncertain, exposed, callVars, current, existed, faults>>

\* async_setup: remember what the previous owner knew, fence it, take over.
SetupTakesOver ==
    /\ entry = "setup_queued" /\ lock = Nobody
    /\ lock' = EntryTask /\ entry' = "probing"
    /\ storeSeen' = (storeSeen \/ (owner # Nobody /\ (data[owner] # Empty \/ uncertain[owner])))
    /\ retired' = [m \in Managers |-> retired[m] \/ (m = owner /\ m # current)]
    /\ owner' = current
    /\ ready' = [ready EXCEPT ![current] = FALSE]
    /\ UNCHANGED <<diskVars, data, uncertain, exposed, callVars, current, existed, faults>>

SetupProbe ==
    /\ entry = "probing" /\ entry' = "loading"
    /\ existed' = (file # "absent")
    /\ storeSeen' = (storeSeen \/ file # "absent")
    /\ UNCHANGED <<diskVars, lock, owner, managerVars, callVars, current, faults>>

\* The end of async_setup: the manager either holds a canonical snapshot or
\* is left unusable; the lock is released.
SetupSucceeds(d) ==
    /\ Publish(current, d)
    /\ SetUncertain(current, FALSE)
    /\ ready' = [ready EXCEPT ![current] = TRUE]
    /\ exposed' = exposed \union {current}
    /\ entry' = "starting"
    /\ lock' = Nobody
    /\ UNCHANGED <<retired, candidate>>

\* Mutant of SetupFails: an error during setup leaves the fence held.
SetupFailsHolding ==
    /\ entry' = "unloaded" /\ candidate' = Empty
    /\ UNCHANGED <<lock, managerVars>>

SetupFails ==
    /\ entry' = "unloaded" /\ lock' = Nobody /\ candidate' = Empty
    /\ UNCHANGED managerVars

\* async_load reads a current, valid file.
LoadCurrent ==
    /\ entry = "loading" /\ file = "current" /\ ValidIdentity(durable)
    /\ storeSeen' = TRUE
    /\ SetupSucceeds(durable)
    /\ UNCHANGED <<diskVars, owner, pc, target, request, landed, outcome, cancelled,
                   current, existed, faults>>

\* Mutant of LoadAbsent: no canonical file always means a first installation.
LoadAbsentAsNew ==
    /\ entry = "loading" /\ file = "absent"
    /\ SetupSucceeds(Empty)
    /\ UNCHANGED <<diskVars, owner, storeSeen, pc, target, request, landed, outcome,
                   cancelled, current, existed, faults>>

\* async_load finds no canonical file: a first installation only if nothing,
\* in this process or beside the path, says that the Store ever existed.
LoadAbsent ==
    /\ entry = "loading" /\ file = "absent"
    /\ storeSeen' = (storeSeen \/ (~existed /\ sidecar))
    /\ IF storeSeen' THEN SetupFails ELSE SetupSucceeds(Empty)
    /\ UNCHANGED <<diskVars, owner, pc, target, request, landed, outcome, cancelled,
                   current, existed, faults>>

\* async_load finds invalid JSON, which Home Assistant renames aside, and
\* returns None; the file existed, so setup refuses.
LoadCorrupt ==
    /\ entry = "loading" /\ file = "corrupt"
    /\ file' = "absent" /\ sidecar' = TRUE
    /\ SetupFails
    /\ UNCHANGED <<durable, owner, storeSeen, pc, target, request, landed, outcome,
                   cancelled, current, existed, faults>>

\* A read error, an unsupported version or an invalid payload.
LoadFails ==
    /\ entry = "loading" /\ SetupFails
    /\ UNCHANGED <<diskVars, owner, storeSeen, pc, target, request, landed, outcome,
                   cancelled, current, existed, faults>>

\* async_load migrates a Store 3.1 file and saves the result itself.
BeginMigration ==
    /\ entry = "loading" /\ file = "legacy"
    /\ entry' = "migrating" /\ candidate' = Migrate(durable)
    /\ UNCHANGED <<diskVars, lock, owner, storeSeen, managerVars, pc, target, request,
                   landed, outcome, cancelled, current, existed, faults>>

MigrationLands ==
    /\ entry = "migrating" /\ entry' = "migrate_verifying"
    /\ file' = "current" /\ durable' = candidate
    /\ UNCHANGED <<sidecar, lock, owner, storeSeen, managerVars, callVars, current,
                   existed, faults>>

MigrationWriteFails ==
    /\ entry = "migrating" /\ entry' = "migrate_verifying"
    /\ UNCHANGED <<diskVars, lock, owner, storeSeen, managerVars, callVars, current,
                   existed, faults>>

MigrationVerified ==
    /\ entry = "migrate_verifying" /\ Matches /\ ValidIdentity(candidate)
    /\ storeSeen' = TRUE
    /\ Publish(current, candidate)
    /\ SetUncertain(current, FALSE)
    /\ ready' = [ready EXCEPT ![current] = TRUE]
    /\ exposed' = exposed \union {current}
    /\ entry' = "starting" /\ lock' = Nobody /\ candidate' = Empty
    /\ UNCHANGED <<diskVars, owner, retired, pc, target, request, landed, outcome,
                   cancelled, current, existed, faults>>

MigrationUnverified ==
    /\ entry = "migrate_verifying" /\ SetupFails
    /\ UNCHANGED <<diskVars, owner, storeSeen, pc, target, request, landed, outcome,
                   cancelled, current, existed, faults>>

\* The rest of async_setup_entry completes, or raises after the manager was
\* set up: that manager is never retired.
EntryLoaded ==
    /\ entry = "starting" /\ entry' = "loaded"
    /\ UNCHANGED <<diskVars, lock, owner, storeSeen, managerVars, callVars, current,
                   existed, faults>>

EntrySetupRaises ==
    /\ entry = "starting" /\ entry' = "unloaded"
    /\ UNCHANGED <<diskVars, lock, owner, storeSeen, managerVars, callVars, current,
                   existed, faults>>

\* async_unload_entry reaches async_retire, then gets the lock.
UnloadBegin ==
    /\ entry = "loaded" /\ entry' = "retire_queued"
    /\ UNCHANGED <<diskVars, lock, owner, storeSeen, managerVars, callVars, current,
                   existed, faults>>

Retire ==
    /\ entry = "retire_queued" /\ lock = Nobody
    /\ entry' = "unloaded"
    /\ retired' = [retired EXCEPT ![current] = TRUE]
    /\ UNCHANGED <<diskVars, lock, owner, storeSeen, data, uncertain, ready, exposed,
                   callVars, current, existed, faults>>

-----------------------------------------------------------------------------
(* The process and the file system                                           *)

\* The process ends at any point; a write that has not landed never does.
ProcessStops ==
    /\ entry # "stopped" /\ faults < MaxFaults
    /\ faults' = faults + 1
    /\ entry' = "stopped" /\ current' = Nobody /\ existed' = FALSE
    /\ lock' = Nobody /\ owner' = Nobody /\ storeSeen' = FALSE
    /\ data' = [m \in Managers |-> Empty]
    /\ uncertain' = [m \in Managers |-> FALSE]
    /\ retired' = [m \in Managers |-> FALSE]
    /\ ready' = [m \in Managers |-> TRUE]
    /\ exposed' = {}
    /\ pc' = [t \in Tasks |-> "idle"]
    /\ target' = [t \in Tasks |-> Nobody]
    /\ request' = [t \in Tasks |-> NoRequest]
    /\ landed' = [t \in Tasks |-> FALSE]
    /\ outcome' = "none"
    /\ candidate' = Empty /\ cancelled' = FALSE
    /\ UNCHANGED diskVars

\* A new process starts.  The code cannot know an installation all of whose
\* files were deleted; the supported procedure keeps some evidence.
ProcessStarts ==
    /\ entry = "stopped"
    /\ file # "absent" \/ sidecar \/ durable = Empty
    /\ entry' = "unloaded"
    /\ UNCHANGED <<diskVars, lock, owner, storeSeen, managerVars, callVars, current,
                   existed, faults>>

\* The file becomes unreadable as JSON while Home Assistant is down.
FileCorrupted ==
    /\ entry = "stopped" /\ file \in {"legacy", "current"} /\ faults < MaxFaults
    /\ faults' = faults + 1 /\ file' = "corrupt"
    /\ UNCHANGED <<durable, sidecar, lock, owner, storeSeen, managerVars, callVars,
                   entryVars>>

\* The offline restoration procedure: the complete last snapshot, Home
\* Assistant fully stopped, sidecars kept.
BackupRestored ==
    /\ entry = "stopped" /\ file \in {"absent", "corrupt"}
    /\ file' = "current"
    /\ UNCHANGED <<durable, sidecar, lock, owner, storeSeen, managerVars, callVars,
                   entryVars, faults>>

\* Somebody deletes the canonical file of a Store this process has seen.
FileDeleted ==
    /\ entry # "stopped" /\ storeSeen /\ file # "absent" /\ faults < MaxFaults
    /\ faults' = faults + 1 /\ file' = "absent"
    /\ UNCHANGED <<durable, sidecar, lock, owner, storeSeen, managerVars, callVars,
                   entryVars>>

-----------------------------------------------------------------------------
\* The steps of a call that has the lock; they need only the executor.
HolderStep(t) ==
    \/ Recover(t) \/ RecoveryFails(t)
    \/ WriteLands(t) \/ WriteFails(t)
    \/ Verified(t) \/ Unverified(t)
    \/ Resolve(t) \/ ResolutionFails(t)

AcquireStep(t) == RefuseFenced(t) \/ BeginRecovery(t) \/ BeginMutation(t)

CallStep(t) ==
    \/ \E m \in Managers, r \in Requests : Invoke(t, m, r)
    \/ AcquireStep(t)
    \/ HolderStep(t)
    \/ CancelWaiting(t)
    \/ CancelSave(t)

SetupHolderStep ==
    \/ SetupProbe
    \/ LoadCurrent \/ LoadAbsent \/ LoadCorrupt \/ LoadFails
    \/ BeginMigration \/ MigrationLands \/ MigrationWriteFails
    \/ MigrationVerified \/ MigrationUnverified

EntryStep ==
    \/ \E m \in Managers : SetupBegin(m)
    \/ SetupCancelledInQueue
    \/ SetupTakesOver
    \/ SetupHolderStep
    \/ EntryLoaded \/ EntrySetupRaises
    \/ UnloadBegin \/ Retire

FaultStep ==
    \/ ProcessStops \/ ProcessStarts
    \/ FileCorrupted \/ BackupRestored \/ FileDeleted

Next == (\E t \in Tasks : CallStep(t)) \/ EntryStep \/ FaultStep

Spec == Init /\ [][Next]_vars

\* asyncio.Lock is first in, first out, so a waiting call or entry step is
\* granted the lock if it is free again and again; executor I/O settles.  The
\* code relies on the second: a stalled disk holds the fence (ARCHITECTURE).
FairSpec ==
    /\ Spec
    /\ \A t \in Tasks : WF_vars(HolderStep(t)) /\ SF_vars(AcquireStep(t))
    /\ WF_vars(SetupHolderStep) /\ SF_vars(SetupTakesOver) /\ SF_vars(Retire)

-----------------------------------------------------------------------------
(* Properties                                                                *)

\* Between calls, what an active manager publishes is what the disk holds,
\* unless the manager knows that it does not know: _persistence_uncertain is
\* exactly the licence for the two to differ.
Coherent ==
    \A m \in Managers :
        /\ m = owner /\ m \in exposed /\ Active(m) /\ ~uncertain[m]
        /\ \A t \in Tasks : pc[t] # "verifying"
        => data[m] = durable

\* A snapshot becomes visible to readers only when it is the complete durable
\* content of the canonical path (verify first, publish second), or when a
\* manager is created or its process ends.
PublishedIsDurable ==
    [][\A m \in Managers :
          \/ data'[m] = data[m]
          \/ data'[m] = durable'
          \/ entry' \in {"setup_queued", "stopped"}]_vars

\* Only the fence's owner, never a retired or replaced manager, changes the
\* file, and only from a snapshot that was durable when it did.
FencedWrites ==
    [][durable' # durable =>
          \E t \in Tasks :
              /\ lock = t /\ target[t] = owner /\ ~retired[owner]
              /\ data[owner] = durable]_vars

\* Permanent Asset IDs: across saves, failures, reloads, migrations, process
\* restarts and lost files no Asset loses or changes its number and no number
\* is handed out twice.
IdentityPermanent == [][KeepsIdentity(durable, durable')]_durable

\* Every call is answered: no error, cancellation or reload leaves the fence
\* held, and a cancelled caller does not end with the lock.
EveryCallReturns == \A t \in Tasks : pc[t] = "queued" ~> pc[t] = "idle"

\* Entry setup and unload always come to an end, waiting calls or not.
EntryNeverHangs ==
    /\ entry = "setup_queued" ~> entry \notin SetupHolding \union {"setup_queued"}
    /\ entry = "retire_queued" ~> entry # "retire_queued"

\* The protocol implements atomic, at-most-once, truthfully answered calls on
\* one durable value.
CallStatus ==
    [t \in Tasks |-> CASE pc[t] = "idle" -> "idle"
                       [] OTHER -> IF landed[t] THEN "committed" ELSE "open"]

Calls == INSTANCE DurableCalls WITH
    value  <- durable,
    status <- CallStatus,
    asked  <- request,
    answer <- outcome

ImplementsDurableCalls == Calls!ASpec

=============================================================================
