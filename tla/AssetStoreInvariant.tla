------------------------ MODULE AssetStoreInvariant ------------------------
(***************************************************************************)
(* The inductive invariant of AssetStore: TypeOK and Coherent, strength-   *)
(* ened by what each lock holder relies on between two of its awaits.      *)
(***************************************************************************)
EXTENDS AssetStore

\* The part that keeps the types: a call in progress has a request and a
\* manager, and so has the entry while it is set up, in use or retired.
TypeInv ==
    /\ TypeOK
    /\ \A t \in Tasks : pc[t] # "idle" => target[t] \in Managers /\ request[t] \in Requests
    /\ entry \notin {"stopped", "unloaded"} => current \in Managers

\* The fence has one holder, and the holder knows it.
LockInv ==
    /\ \A t \in Tasks : pc[t] \in Holding <=> lock = t
    /\ entry \in SetupHolding <=> lock = EntryTask

\* A call in progress asks its manager, once published to callers; only a call
\* that has written can have landed.
CallInv ==
    \A t \in Tasks :
        /\ pc[t] = "idle" => request[t] = NoRequest
        /\ pc[t] # "idle" => target[t] \in exposed
        /\ landed[t] => pc[t] \in {"verifying", "resolving"}

\* The entry's manager owns the fence, not yet usable, while its setup holds
\* the lock.
EntryInv ==
    /\ entry \in SetupHolding => owner = current /\ ~ready[current]
    /\ entry = "loading" /\ existed => storeSeen
    /\ exposed # {} => owner # Nobody

\* Whoever holds the lock for a call is the active owner.
HolderInv ==
    \A t \in Tasks :
        pc[t] \in Holding => target[t] = owner /\ ~retired[owner] /\ ready[owner]

\* A snapshot about to be written is the request applied to what is durable.
Prepared(t) ==
    /\ candidate = Apply(durable, request[t])
    /\ Verdict(durable, request[t]) = "changed"
    /\ data[owner] = durable

SaveInv ==
    \A t \in Tasks :
        /\ pc[t] \in {"writing", "verifying"} => ValidIdentity(candidate)
        /\ pc[t] = "writing" => Prepared(t)
        /\ pc[t] = "verifying" => IF landed[t] THEN Reflects(durable, request[t])
                                  ELSE Prepared(t)
        /\ pc[t] = "resolving" => /\ uncertain[owner]
                                  /\ Reflects(durable, request[t]) <=> landed[t]

\* A running process, or the disk it runs on, remembers a Store that was used.
EvidenceInv ==
    entry # "stopped" /\ durable # Empty => storeSeen \/ sidecar \/ file # "absent"

\* The file is a valid payload, a Store 3.1 file has no archived Asset, and
\* migration writes what is there.
FileInv ==
    /\ ValidIdentity(durable)
    /\ file = "legacy" => durable.archived = {}
    /\ entry \in {"migrating", "migrate_verifying"} => candidate = durable

IInv ==
    /\ TypeInv /\ LockInv /\ CallInv /\ EntryInv /\ HolderInv
    /\ SaveInv /\ EvidenceInv /\ FileInv /\ Coherent
=============================================================================
