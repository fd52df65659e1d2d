-------------------------- MODULE StoreDataLemmas --------------------------
(***************************************************************************)
(* What the operators of StoreData return, keep and rule out.              *)
(***************************************************************************)
EXTENDS StoreData, TLAPS

\* The payload of a first installation is well formed.
LEMMA EmptyType == Empty \in Snapshot
  BY DEF Empty, Snapshot

\* _empty_store_data passes the Store validation.
LEMMA EmptyValid == ValidIdentity(Empty)
  BY MaxNumberAssumption DEF Empty, ValidIdentity, Exists

\* _allocate_asset_id yields a well-formed candidate.
LEMMA AllocateType ==
  ASSUME NEW d \in Snapshot, NEW u \in Uuids
  PROVE  Allocate(d, u) \in Snapshot
  BY DEF Allocate, Snapshot

\* Every request turns a well-formed snapshot into a well-formed candidate.
LEMMA ApplyType ==
  ASSUME NEW d \in Snapshot, NEW r \in Requests
  PROVE  Apply(d, r) \in Snapshot
  <1>1. r.uuid \in Uuids
    BY DEF Requests
  <1>2. CASE r.op = "quick_create"
    BY <1>1, <1>2, AllocateType DEF Apply
  <1>3. CASE r.op # "quick_create"
    BY <1>1, <1>3 DEF Apply, Snapshot
  <1> QED  BY <1>2, <1>3

\* The migrated payload is well formed.
LEMMA MigrateType ==
  ASSUME NEW d \in Snapshot
  PROVE  Migrate(d) \in Snapshot
  BY DEF Migrate, Snapshot

\* Store 3.1 knows no archived Asset, so migration keeps the modelled payload.
LEMMA MigrateLegacy ==
  ASSUME NEW d \in Snapshot, d.archived = {}
  PROVE  Migrate(d) = d
  BY DEF Migrate, Snapshot

\* A request that changes a snapshot is not yet reflected in it: a readback
\* without the request proves that the save did not land.
LEMMA ChangedNotReflected ==
  ASSUME NEW d \in Snapshot, NEW r \in Requests, Verdict(d, r) = "changed"
  PROVE  ~Reflects(d, r)
  <1>1. r.uuid \in Uuids /\ r.op \in {"quick_create", "edit", "archive", "restore"}
    BY DEF Requests
  <1>2. CASE r.op = "quick_create"
    BY <1>1, <1>2 DEF Verdict, QuickCreateVerdict, Reflects
  <1>3. CASE r.op = "edit"
    BY <1>1, <1>3 DEF Verdict, EditVerdict, Reflects
  <1>4. CASE r.op = "archive"
    BY <1>1, <1>4 DEF Verdict, ArchiveVerdict, Reflects
  <1>5. CASE r.op = "restore"
    BY <1>1, <1>5 DEF Verdict, RestoreVerdict, Reflects
  <1> QED  BY <1>1, <1>2, <1>3, <1>4, <1>5

\* The candidate of such a request reflects it, so a readback that finds the
\* request proves that the save landed.
LEMMA AppliedReflected ==
  ASSUME NEW d \in Snapshot, NEW r \in Requests, Verdict(d, r) = "changed",
         d.next # 0
  PROVE  Reflects(Apply(d, r), r)
  <1>1. r.uuid \in Uuids /\ r.op \in {"quick_create", "edit", "archive", "restore"}
    BY DEF Requests
  <1>2. CASE r.op = "quick_create"
    BY <1>1, <1>2 DEF Verdict, QuickCreateVerdict, Reflects, Apply, Allocate, Exists, Snapshot
  <1>3. CASE r.op = "edit"
    BY <1>1, <1>3 DEF Verdict, EditVerdict, Reflects, Apply, Exists, Snapshot
  <1>4. CASE r.op = "archive"
    BY <1>1, <1>4 DEF Verdict, ArchiveVerdict, Reflects, Apply, Exists, Snapshot
  <1>5. CASE r.op = "restore"
    BY <1>1, <1>5 DEF Verdict, RestoreVerdict, Reflects, Apply, Exists, Snapshot
  <1> QED  BY <1>1, <1>2, <1>3, <1>4, <1>5

\* Identity is never taken back by a request that changes the snapshot.
LEMMA ApplyKeepsIdentity ==
  ASSUME NEW d \in Snapshot, NEW r \in Requests, Verdict(d, r) = "changed"
  PROVE  KeepsIdentity(d, Apply(d, r))
  <1>1. r.uuid \in Uuids
    BY DEF Requests
  <1>2. CASE r.op = "quick_create"
    <2>1. ~Exists(d, r.uuid)
      BY <1>1, <1>2 DEF Verdict, QuickCreateVerdict
    <2> QED
      BY <1>1, <1>2, <2>1 DEF KeepsIdentity, Apply, Allocate, Exists, Snapshot
  <1>3. CASE r.op # "quick_create"
    <2>1. Apply(d, r).next = d.next /\ Apply(d, r).number = d.number
      BY <1>3 DEF Apply, Snapshot
    <2> QED
      BY <2>1 DEF KeepsIdentity, Exists, Snapshot
  <1> QED  BY <1>2, <1>3
\* A request that changes a valid snapshot produces a valid one, so the
\* validation before each save never refuses it.
LEMMA ApplyValid ==
  ASSUME NEW d \in Snapshot, NEW r \in Requests, Verdict(d, r) = "changed",
         ValidIdentity(d)
  PROVE  ValidIdentity(Apply(d, r))
  <1>1. r.uuid \in Uuids
    BY DEF Requests
  <1>2. CASE r.op = "quick_create"
    <2>1. ~Exists(d, r.uuid) /\ d.next <= MaxNumber
      BY <1>1, <1>2, MaxNumberAssumption DEF Verdict, QuickCreateVerdict, Snapshot
    <2> QED
      BY <1>1, <1>2, <2>1, MaxNumberAssumption
      DEF ValidIdentity, Apply, Allocate, Exists, Snapshot
  <1>3. CASE r.op # "quick_create"
    <2>1. Apply(d, r).next = d.next /\ Apply(d, r).number = d.number
      BY <1>3 DEF Apply, Snapshot
    <2> QED
      BY <2>1 DEF ValidIdentity, Exists
  <1> QED  BY <1>2, <1>3
=============================================================================
