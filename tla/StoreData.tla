------------------------------ MODULE StoreData ------------------------------
(***************************************************************************)
(* The canonical payload of the Asset Store and the requests that change   *)
(* it, cut down to what the persistence protocol can get wrong: which      *)
(* Asset UUIDs exist, the permanent DLxxxx number of each, the allocator,  *)
(* the archived Assets, and the Assets edited since they were created.     *)
(* All operators are pure: a mutator works on a detached deep copy.        *)
(***************************************************************************)
EXTENDS Naturals

CONSTANTS
    Uuids,      \* Asset UUIDs proposed by the requests
    MaxNumber   \* MAX_ASSET_NUMBER, the last permanent number (9999 in the code)

ASSUME MaxNumberAssumption == MaxNumber \in Nat

\* number[u] = 0 means that no Asset has UUID u.
Snapshot == [next: Nat, number: [Uuids -> Nat],
             archived: SUBSET Uuids, edited: SUBSET Uuids]

\* _empty_store_data: the payload of a first installation.
Empty == [next |-> 1, number |-> [u \in Uuids |-> 0], archived |-> {}, edited |-> {}]

Requests == [op: {"quick_create", "edit", "archive", "restore"}, uuid: Uuids]

Exists(d, u) == d.number[u] # 0

\* Whether a request is refused, already holds ("unchanged"), or changes d.

\* Quick Create repeats its UUID to be replayed: the persisted Asset must still
\* be the reviewed one (_quick_replay_result), a new one needs a free number.
QuickCreateVerdict(d, u) ==
    CASE Exists(d, u) /\ u \in d.edited    -> "refused"
      [] Exists(d, u) /\ u \notin d.edited -> "unchanged"
      [] OTHER -> IF d.next > MaxNumber THEN "refused" ELSE "changed"

\* async_update_asset_metadata_reporting, an edit of an active Asset.
EditVerdict(d, u) ==
    CASE ~Exists(d, u) \/ u \in d.archived -> "refused"
      [] OTHER -> IF u \in d.edited THEN "unchanged" ELSE "changed"

ArchiveVerdict(d, u) ==
    CASE ~Exists(d, u) -> "refused"
      [] OTHER -> IF u \in d.archived THEN "unchanged" ELSE "changed"

RestoreVerdict(d, u) ==
    CASE ~Exists(d, u) -> "refused"
      [] OTHER -> IF u \in d.archived THEN "changed" ELSE "unchanged"

Verdict(d, r) ==
    CASE r.op = "quick_create" -> QuickCreateVerdict(d, r.uuid)
      [] r.op = "edit"         -> EditVerdict(d, r.uuid)
      [] r.op = "archive"      -> ArchiveVerdict(d, r.uuid)
      [] OTHER                 -> RestoreVerdict(d, r.uuid)

\* _allocate_asset_id inside _create_asset_in_snapshot: the next number, and a
\* record that is neither archived nor edited.
Allocate(d, u) ==
    [next     |-> d.next + 1,
     number   |-> [d.number EXCEPT ![u] = d.next],
     archived |-> d.archived \ {u},
     edited   |-> d.edited \ {u}]

\* The candidate snapshot of a request whose verdict is "changed".
Apply(d, r) ==
    CASE r.op = "quick_create" -> Allocate(d, r.uuid)
      [] r.op = "edit"         -> [d EXCEPT !.edited = @ \union {r.uuid}]
      [] r.op = "archive"      -> [d EXCEPT !.archived = @ \union {r.uuid}]
      [] OTHER                 -> [d EXCEPT !.archived = @ \ {r.uuid}]

\* Quick Create, Archive and Restore recognise their own outcome in a snapshot
\* that was read back; an edit does not.
Replayable(r) == r.op # "edit"

Reflects(d, r) ==
    /\ Exists(d, r.uuid)
    /\ CASE r.op = "quick_create" -> r.uuid \notin d.edited
         [] r.op = "edit"         -> r.uuid \in d.edited
         [] r.op = "archive"      -> r.uuid \in d.archived
         [] OTHER                 -> r.uuid \notin d.archived

\* The payload part of _migrate_v3_1_to_v4_1: every Asset becomes active,
\* identity and allocator are carried over.
Migrate(d) == [d EXCEPT !.archived = {}]

-----------------------------------------------------------------------------
\* What _validate_store_payload requires of identity: the allocator is in its
\* range and past every Asset, and distinct Assets have distinct numbers.
ValidIdentity(d) ==
    /\ d.next \in 1..(MaxNumber + 1)
    /\ \A u \in Uuids : d.number[u] < d.next
    /\ \A u, v \in Uuids : Exists(d, u) /\ d.number[u] = d.number[v] => u = v

\* Nothing a later snapshot may take back: the number of an Asset and every
\* number already handed out.
KeepsIdentity(old, new) ==
    /\ old.next <= new.next
    /\ \A u \in Uuids : Exists(old, u) => new.number[u] = old.number[u]
    /\ \A u \in Uuids : ~Exists(old, u) /\ Exists(new, u) => new.number[u] >= old.next
=============================================================================
