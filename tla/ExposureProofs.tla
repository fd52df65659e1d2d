---------------------------- MODULE ExposureProofs ----------------------------
(***************************************************************************)
(* Proofs about Exposure for any number of Assets and any Schedules.       *)
(***************************************************************************)
EXTENDS Exposure, TLAPS

Registries == [devices: SUBSET Assets, misplaced: SUBSET Assets, outdated: SUBSET Assets,
               entities: [UniqueIds -> Entries \union {Nothing}],
               old: [OldKinds -> Entries \union {Nothing}]]

\* What every registry of this integration satisfies, between any two calls: its
\* entries belong to Assets that exist, an entry on an Asset Device keeps the device
\* there and in the hands of the entry, and an old unique ID has not been migrated yet.
Sound(reg, born) ==
    /\ reg \in Registries
    /\ reg.devices \subseteq born
    /\ reg.misplaced \subseteq reg.devices
    /\ reg.outdated \subseteq reg.devices
    /\ \A u \in UniqueIds : reg.entities[u] # Nothing =>
          /\ Owner(u) \in born
          /\ reg.entities[u].device = "asset" => Owner(u) \in reg.devices \ reg.misplaced
          /\ u \in ScheduleIds => reg.entities[u].device = "asset"
                                  /\ reg.entities[u].owner = "parent"
                                  /\ reg.entities[u].disabled = "no"
    /\ \A k \in OldKinds : reg.old[k] # Nothing =>
          reg.old[k].device # "asset" /\ reg.entities[<<k, First>>] = Nothing

\* Old unique IDs and devices of a subentry are gone once an entry is set up, and the
\* Runtime subentry names an Asset with a device.
RegistryInv ==
    /\ First \in store.born
    /\ Tracked => First \in store.linked
    /\ Sound(registry, store.born)
    /\ ~Unloaded => registry.misplaced = {} /\ \A k \in OldKinds : registry.old[k] = Nothing

\* A running entity belongs to a platform that is up and shows the published
\* snapshot, but for the external device when it does not follow that.
ShownInv ==
    \A u \in UniqueIds : shown[u] # Nothing =>
        /\ Up(PlatformOf(u))
        /\ \/ shown[u] = View(store, external, u)
           \/ /\ u[1] = "relationships" /\ Owner(u) \notin indexed
              /\ shown[u] = View(store, ~external, u)

\* The Maintenance entities of a platform that is up.
MaintenanceInv ==
    \A u \in ScheduleIds : Up(PlatformOf(u)) =>
        /\ (registry.entities[u] # Nothing) = (shown[u] # Nothing)
        /\ (shown[u] # Nothing) = (u \in Expected(store) /\ Owner(u) \in registry.devices)

IssuesInv == Attached => issues = StaleReferences(store, external)

IInv == TypeOK /\ RegistryInv /\ ShownInv /\ MaintenanceInv /\ IssuesInv

-----------------------------------------------------------------------------
(* Identifiers                                                               *)

\* The parts of a unique ID, and whose it is.
LEMMA AssetIdParts ==
  \A u \in AssetIds : /\ u[1] \in AssetKinds /\ u[2] \in Assets /\ u = <<u[1], u[2]>>
                      /\ u \in UniqueIds /\ u \notin ScheduleIds
                      /\ Owner(u) = u[2] /\ PlatformOf(u) = "sensor"
  BY DEF AssetIds, AssetKinds, KindOrder, ScheduleIds, ScheduleKinds, UniqueIds, Owner,
         PlatformOf

LEMMA ScheduleIdParts ==
  \A u \in ScheduleIds : /\ u[1] \in ScheduleKinds /\ u[2] \in Schedules /\ u = <<u[1], u[2]>>
                         /\ u \in UniqueIds /\ u \notin AssetIds
                         /\ Owner(u) = AssetOf[u[2]] /\ Owner(u) \in Assets
                         /\ PlatformOf(u) \in Platforms
  BY ExposureAssumption DEF AssetIds, AssetKinds, KindOrder, ScheduleIds, ScheduleKinds,
     UniqueIds, Owner, PlatformOf, Platforms

\* An old unique ID stands for an entity of the first Asset.
LEMMA OldIds ==
  \A k \in OldKinds : /\ <<k, First>> \in AssetIds /\ <<k, First>> \in UniqueIds
                      /\ Owner(<<k, First>>) = First /\ k # "replacement"
                      /\ <<k, First>>[1] = k
  BY ExposureAssumption DEF OldKinds, AssetIds, AssetKinds, KindOrder, UniqueIds, Owner,
     First, Assets

\* No registry entry and no view is what stands for nothing.
LEMMA EntriesAreSomething ==
  /\ \A e \in Entries : e # Nothing /\ e.id # Nothing.id
  /\ \A st, present, u : View(st, present, u) # Nothing
  BY DEF Entries, Nothing, View

-----------------------------------------------------------------------------
(* What each function of the registry returns                                *)

\* The fields of a registry.
LEMMA RegistryParts ==
  ASSUME NEW reg \in Registries
  PROVE  /\ reg.devices \in SUBSET Assets /\ reg.misplaced \in SUBSET Assets
         /\ reg.outdated \in SUBSET Assets
         /\ reg.entities \in [UniqueIds -> Entries \union {Nothing}]
         /\ reg.old \in [OldKinds -> Entries \union {Nothing}]
  BY DEF Registries

\* Renaming Assets outdates devices and nothing else.
LEMMA OutdatedParts ==
  ASSUME NEW reg \in Registries, NEW renamed
  PROVE  LET o == Outdated(reg, renamed) IN
         /\ o \in Registries /\ o.devices = reg.devices /\ o.misplaced = reg.misplaced
         /\ o.entities = reg.entities /\ o.old = reg.old
         /\ o.outdated = reg.outdated \union (renamed \intersect reg.devices)
  BY RegistryParts DEF Outdated, Registries

LEMMA OutdatedSound ==
  ASSUME NEW reg, NEW born, Sound(reg, born), NEW renamed
  PROVE  Sound(Outdated(reg, renamed), born)
  <1> DEFINE o == Outdated(reg, renamed)
  <1>1. /\ o \in Registries /\ o.devices = reg.devices /\ o.misplaced = reg.misplaced
        /\ o.entities = reg.entities /\ o.old = reg.old
        /\ o.outdated = reg.outdated \union (renamed \intersect reg.devices)
    BY OutdatedParts DEF Sound
  <1> HIDE DEF o
  <1> QED
    BY <1>1 DEF Sound, o

\* Migration moves old unique IDs to entities of the first Asset.
LEMMA MigratedParts ==
  ASSUME NEW reg \in Registries, NEW kinds \in SUBSET OldKinds
  PROVE  LET m == Migrated(reg, kinds) IN
         /\ m \in Registries /\ m.devices = reg.devices
         /\ m.misplaced = reg.misplaced /\ m.outdated = reg.outdated
         /\ \A u \in UniqueIds : m.entities[u] =
               IF \E k \in kinds : reg.old[k] # Nothing /\ u = <<k, First>>
               THEN reg.old[u[1]] ELSE reg.entities[u]
         /\ \A k \in OldKinds : m.old[k] = IF k \in kinds THEN Nothing ELSE reg.old[k]
  <1> DEFINE moved == {k \in kinds : reg.old[k] # Nothing}
             ents == [u \in UniqueIds |->
                        IF u \in moved \X {First} THEN reg.old[u[1]] ELSE reg.entities[u]]
             olds == [k \in OldKinds |-> IF k \in moved THEN Nothing ELSE reg.old[k]]
  <1>1. Migrated(reg, kinds) = [reg EXCEPT !.entities = ents, !.old = olds]
    BY DEF Migrated
  <1>2. \A u \in UniqueIds : u \in moved \X {First} <=>
           \E k \in kinds : reg.old[k] # Nothing /\ u = <<k, First>>
    OBVIOUS
  <1>3. \A u \in UniqueIds : u \in moved \X {First} => u[1] \in moved /\ u[1] \in OldKinds
    OBVIOUS
  <1>4. ents \in [UniqueIds -> Entries \union {Nothing}]
    BY <1>3, RegistryParts
  <1>5. olds \in [OldKinds -> Entries \union {Nothing}]
    BY RegistryParts
  <1>6. \A k \in OldKinds : olds[k] = IF k \in kinds THEN Nothing ELSE reg.old[k]
    OBVIOUS
  <1>7. \A u \in UniqueIds : ents[u] =
           IF \E k \in kinds : reg.old[k] # Nothing /\ u = <<k, First>>
           THEN reg.old[u[1]] ELSE reg.entities[u]
    BY <1>2
  <1> HIDE DEF ents, olds
  <1> QED
    BY <1>1, <1>4, <1>5, <1>6, <1>7 DEF Registries

\* What an update writes is an entry, on the Asset's device and owned by the entry.
LEMMA PlacedParts ==
  ASSUME NEW reg \in Registries, NEW u \in UniqueIds, reg.entities[u] # Nothing
  PROVE  /\ Placed(reg, u) \in Entries
         /\ Placed(reg, u).id = reg.entities[u].id
         /\ Placed(reg, u).device = "asset" /\ Placed(reg, u).owner = "parent"
         /\ Placed(reg, u).disabled =
               IF Enabled(reg, u) THEN "no" ELSE reg.entities[u].disabled
  <1>1. reg.entities[u] \in Entries
    BY DEF Registries
  <1> QED
    BY <1>1 DEF Placed, Entries

\* Updates concern registered entities of Assets.
LEMMA UpdatesParts ==
  ASSUME NEW reg, NEW u \in Updates(reg)
  PROVE  u \in AssetIds /\ u \in UniqueIds /\ reg.entities[u] # Nothing
  BY DEF Updates, Registered, UniqueIds

\* Exposure creates devices and places entities, as far as its calls were done.
LEMMA ExposedParts ==
  ASSUME NEW reg \in Registries, NEW fault, store.born \subseteq Assets
  PROVE  LET x == Exposed(reg, fault) IN
         /\ x \in Registries
         /\ x.devices = reg.devices \union {a \in store.born : Done(fault, a)}
         /\ x.misplaced = reg.misplaced \ {a \in store.born : Done(fault, a)}
         /\ x.outdated = reg.outdated \ {a \in store.born : Done(fault, a)}
         /\ x.old = reg.old
         /\ \A u \in UniqueIds : x.entities[u] =
               IF u \in Updates(reg) /\ Done(fault, EntityCall(u))
               THEN Placed(reg, u) ELSE reg.entities[u]
  <1> DEFINE ents == [u \in UniqueIds |->
                        IF u \in Updates(reg) /\ Done(fault, EntityCall(u))
                        THEN Placed(reg, u) ELSE reg.entities[u]]
             reached == {a \in store.born : Done(fault, a)}
  <1>1. Exposed(reg, fault) =
           [reg EXCEPT !.devices = reg.devices \union reached, !.misplaced = reg.misplaced \ reached,
                       !.outdated = reg.outdated \ reached, !.entities = ents]
    BY DEF Exposed
  <1>2. \A u \in UniqueIds : ents[u] =
           IF u \in Updates(reg) /\ Done(fault, EntityCall(u))
           THEN Placed(reg, u) ELSE reg.entities[u]
    OBVIOUS
  <1>3. ents \in [UniqueIds -> Entries \union {Nothing}]
    BY PlacedParts, UpdatesParts, RegistryParts
  <1>4. reached \subseteq Assets
    OBVIOUS
  <1>5. reached = {a \in store.born : Done(fault, a)}
    OBVIOUS
  <1> HIDE DEF ents, reached
  <1> QED
    BY <1>1, <1>2, <1>3, <1>4, <1>5 DEF Registries

\* Dropping devices drops what is on them.
LEMMA WithoutDevicesParts ==
  ASSUME NEW reg \in Registries, NEW gone
  PROVE  LET w == WithoutDevices(reg, gone) IN
         /\ w \in Registries /\ w.devices = reg.devices \ gone /\ w.old = reg.old
         /\ w.misplaced = reg.misplaced \ gone /\ w.outdated = reg.outdated \ gone
         /\ \A u \in UniqueIds : w.entities[u] =
               IF \E a \in gone : u \in OnDevice(reg, a) THEN Nothing ELSE reg.entities[u]
  BY RegistryParts DEF WithoutDevices, Registries

\* Adding entities moves what is registered and registers what is not.
LEMMA AddedParts ==
  ASSUME NEW reg \in Registries, NEW ids
  PROVE  LET a == Added(reg, ids)
             disabled(u) == IF u[1] = "replacement" /\ ~InReplacement(store, Owner(u))
                            THEN "integration" ELSE "no"
         IN
         /\ a \in Registries /\ a.devices = reg.devices /\ a.old = reg.old
         /\ a.misplaced = reg.misplaced /\ a.outdated = reg.outdated
         /\ \A u \in UniqueIds :
               /\ u \notin ids => a.entities[u] = reg.entities[u]
               /\ u \in ids => /\ a.entities[u] \in Entries
                               /\ a.entities[u].device = "asset"
                               /\ a.entities[u].owner = "parent"
               /\ u \in ids /\ reg.entities[u] # Nothing =>
                     /\ a.entities[u].id = reg.entities[u].id
                     /\ a.entities[u].disabled = reg.entities[u].disabled
               /\ u \in ids /\ reg.entities[u] = Nothing => a.entities[u].disabled = disabled(u)
  <1> DEFINE disabled(u) == IF u[1] = "replacement" /\ ~InReplacement(store, Owner(u))
                            THEN "integration" ELSE "no"
             entity(u) == CASE u \in ids /\ reg.entities[u] # Nothing ->
                                 [reg.entities[u] EXCEPT !.device = "asset", !.owner = "parent"]
                            [] u \in ids /\ reg.entities[u] = Nothing ->
                                 Entry("new", "asset", "parent", disabled(u))
                            [] OTHER -> reg.entities[u]
             ents == [u \in UniqueIds |-> entity(u)]
  <1>1. Added(reg, ids) = [reg EXCEPT !.entities = ents]
    BY DEF Added
  <1>2. \A u \in UniqueIds :
           /\ u \notin ids => entity(u) = reg.entities[u]
           /\ u \in ids => /\ entity(u) \in Entries
                           /\ entity(u).device = "asset" /\ entity(u).owner = "parent"
           /\ u \in ids /\ reg.entities[u] # Nothing =>
                 entity(u).id = reg.entities[u].id /\ entity(u).disabled = reg.entities[u].disabled
           /\ u \in ids /\ reg.entities[u] = Nothing => entity(u).disabled = disabled(u)
    <2> TAKE u \in UniqueIds
    <2>1. reg.entities[u] \in Entries \union {Nothing}
      BY DEF Registries
    <2>2. disabled(u) \in {"no", "integration"}
      OBVIOUS
    <2> HIDE DEF disabled
    <2>3. CASE u \notin ids
      BY <2>3
    <2>4. CASE u \in ids /\ reg.entities[u] # Nothing
      BY <2>1, <2>4 DEF Entries
    <2>5. CASE u \in ids /\ reg.entities[u] = Nothing
      BY <2>2, <2>5 DEF Entries, Entry
    <2> QED
      BY <2>3, <2>4, <2>5
  <1> HIDE DEF entity
  <1>3. \A u \in UniqueIds : entity(u) \in Entries \union {Nothing}
    BY <1>2 DEF Registries
  <1>4. ents \in [UniqueIds -> Entries \union {Nothing}]
    BY <1>3
  <1>5. \A u \in UniqueIds : ents[u] = entity(u)
    OBVIOUS
  <1> HIDE DEF ents, disabled
  <1>6. /\ Added(reg, ids) \in Registries /\ Added(reg, ids).devices = reg.devices
        /\ Added(reg, ids).misplaced = reg.misplaced /\ Added(reg, ids).outdated = reg.outdated
        /\ Added(reg, ids).old = reg.old /\ Added(reg, ids).entities = ents
    BY <1>1, <1>4 DEF Registries
  <1> QED
    BY <1>2, <1>5, <1>6 DEF disabled

-----------------------------------------------------------------------------
(* Migration, exposure and rollback                                          *)

\* Calls for entities come after those for devices, and all before NoFault.
LEMMA CallOrder ==
  /\ \A a \in Assets : a \in Nat /\ a <= NumAssets
  /\ \A u \in AssetIds : /\ EntityCall(u) \in Nat /\ NumAssets < EntityCall(u)
                         /\ EntityCall(u) <= NumAssets * 5
  <1>1. NumAssets \in Nat \ {0}
    BY ExposureAssumption
  <1>2. \A a \in Assets : a \in Nat /\ 0 < a /\ a <= NumAssets
    BY <1>1 DEF Assets
  <1>3. ASSUME NEW u \in AssetIds
        PROVE  /\ EntityCall(u) \in Nat /\ NumAssets < EntityCall(u)
               /\ EntityCall(u) <= NumAssets * 5
    <2>1. u[2] \in Nat /\ 0 < u[2] /\ u[2] <= NumAssets
      BY <1>2, AssetIdParts
    <2>2. KindOrder[u[1]] \in 1..4
      BY AssetIdParts DEF AssetKinds, KindOrder
    <2>3. PICK n \in 1..4 : EntityCall(u) = NumAssets * n + u[2]
      BY <2>2 DEF EntityCall
    <2>4. CASE n = 1
      BY <1>1, <2>1, <2>3, <2>4
    <2>5. CASE n = 2
      BY <1>1, <2>1, <2>3, <2>5
    <2>6. CASE n = 3
      BY <1>1, <2>1, <2>3, <2>6
    <2>7. CASE n = 4
      BY <1>1, <2>1, <2>3, <2>7
    <2> QED
      BY <2>4, <2>5, <2>6, <2>7
  <1> QED
    BY <1>2, <1>3

\* Without a fault every call is made.
LEMMA NoFaultDoes ==
  /\ \A a \in Assets : Done(NoFault, a)
  /\ \A u \in AssetIds : Done(NoFault, EntityCall(u))
  <1>1. NumAssets \in Nat
    BY ExposureAssumption
  <1>2. ASSUME NEW c \in Nat, c <= NumAssets * 5
        PROVE  Done(NoFault, c)
    BY <1>1, <1>2 DEF Done, NoFault
  <1>3. \A a \in Assets : a \in Nat /\ a <= NumAssets * 5
    BY <1>1, CallOrder
  <1> QED
    BY <1>2, <1>3, CallOrder

\* An entity is only placed when its device has been created.
LEMMA DevicesFirst ==
  ASSUME NEW reg, NEW fault \in Faults(reg), store.born \subseteq Assets,
         NEW a \in Assets, NEW u \in AssetIds, Done(fault, EntityCall(u))
  PROVE  Done(fault, a)
  <1>1. fault.at \in Calls(reg)
    BY DEF Faults
  <1>2. fault.at \in Nat
    BY <1>1, CallOrder, AssetIdParts DEF Calls, Updates
  <1>3. a \in Nat /\ EntityCall(u) \in Nat /\ a < EntityCall(u)
    <2>1. a \in Nat /\ EntityCall(u) \in Nat /\ NumAssets \in Nat /\ a <= NumAssets
          /\ NumAssets < EntityCall(u)
      BY CallOrder, ExposureAssumption
    <2> QED
      BY <2>1
  <1> QED
    BY <1>2, <1>3 DEF Done

\* Migration keeps the registry sound, whichever old unique IDs it moves.
LEMMA MigratedSound ==
  ASSUME NEW reg, Sound(reg, store.born), First \in store.born, NEW kinds \in SUBSET OldKinds
  PROVE  Sound(Migrated(reg, kinds), store.born)
  <1> DEFINE m == Migrated(reg, kinds)
  <1>1. reg \in Registries
    BY DEF Sound
  <1>2. /\ m \in Registries /\ m.devices = reg.devices
        /\ m.misplaced = reg.misplaced /\ m.outdated = reg.outdated
        /\ \A u \in UniqueIds : m.entities[u] =
              IF \E k \in kinds : reg.old[k] # Nothing /\ u = <<k, First>>
              THEN reg.old[u[1]] ELSE reg.entities[u]
        /\ \A k \in OldKinds : m.old[k] = IF k \in kinds THEN Nothing ELSE reg.old[k]
    BY <1>1, MigratedParts
  <1> HIDE DEF m
  <1>3. ASSUME NEW u \in UniqueIds, m.entities[u] # Nothing
        PROVE  /\ Owner(u) \in store.born
               /\ m.entities[u].device = "asset" => Owner(u) \in m.devices \ m.misplaced
               /\ u \in ScheduleIds => m.entities[u].device = "asset"
                                       /\ m.entities[u].owner = "parent"
                                       /\ m.entities[u].disabled = "no"
    <2>1. CASE \E k \in kinds : reg.old[k] # Nothing /\ u = <<k, First>>
      <3>1. PICK k \in OldKinds : reg.old[k] # Nothing /\ u = <<k, First>>
        BY <2>1
      <3>2. m.entities[u] = reg.old[k] /\ u \notin ScheduleIds /\ Owner(u) = First
        BY <1>2, <2>1, <3>1, OldIds, AssetIdParts
      <3> QED
        BY <3>1, <3>2 DEF Sound
    <2>2. CASE ~(\E k \in kinds : reg.old[k] # Nothing /\ u = <<k, First>>)
      BY <1>2, <1>3, <2>2 DEF Sound
    <2> QED
      BY <2>1, <2>2
  <1>4. ASSUME NEW k \in OldKinds, m.old[k] # Nothing
        PROVE  m.old[k].device # "asset" /\ m.entities[<<k, First>>] = Nothing
    <2>1. k \notin kinds /\ m.old[k] = reg.old[k] /\ reg.old[k] # Nothing
      BY <1>2, <1>4
    <2>2. ~ \E j \in kinds : reg.old[j] # Nothing /\ <<k, First>> = <<j, First>>
      BY <2>1
    <2>3. m.entities[<<k, First>>] = reg.entities[<<k, First>>]
      BY <1>2, <2>2, OldIds
    <2> QED
      BY <2>1, <2>3 DEF Sound
  <1>5. m.devices \subseteq store.born /\ m.misplaced \subseteq m.devices /\ m.outdated \subseteq m.devices
    BY <1>2 DEF Sound
  <1> QED
    BY <1>2, <1>3, <1>4, <1>5 DEF Sound, m

\* A complete exposure keeps the registry sound.
LEMMA ExposedSound ==
  ASSUME NEW reg, Sound(reg, store.born), store.born \subseteq Assets,
         \A k \in OldKinds : reg.old[k] = Nothing
  PROVE  LET x == Exposed(reg, NoFault) IN
         /\ Sound(x, store.born) /\ x.devices = store.born /\ x.old = reg.old
         /\ x.misplaced = {} /\ x.outdated = {}
         /\ \A u \in UniqueIds : x.entities[u] =
               IF u \in Updates(reg) THEN Placed(reg, u) ELSE reg.entities[u]
  <1> DEFINE x == Exposed(reg, NoFault)
  <1>1. reg \in Registries
    BY DEF Sound
  <1>2. /\ x \in Registries
        /\ x.devices = reg.devices \union {a \in store.born : Done(NoFault, a)}
        /\ x.misplaced = reg.misplaced \ {a \in store.born : Done(NoFault, a)}
        /\ x.outdated = reg.outdated \ {a \in store.born : Done(NoFault, a)}
        /\ x.old = reg.old
        /\ \A u \in UniqueIds : x.entities[u] =
              IF u \in Updates(reg) /\ Done(NoFault, EntityCall(u))
              THEN Placed(reg, u) ELSE reg.entities[u]
    BY <1>1, ExposedParts
  <1>3. x.devices = store.born /\ x.misplaced = {} /\ x.outdated = {}
    <2>1. {a \in store.born : Done(NoFault, a)} = store.born
      BY NoFaultDoes
    <2> QED
      BY <1>2, <2>1 DEF Sound
  <1>4. \A u \in UniqueIds : x.entities[u] =
           IF u \in Updates(reg) THEN Placed(reg, u) ELSE reg.entities[u]
    BY <1>2, NoFaultDoes, UpdatesParts
  <1> HIDE DEF x
  <1>7. ASSUME NEW u \in UniqueIds, x.entities[u] # Nothing
        PROVE  /\ Owner(u) \in store.born
               /\ u \in ScheduleIds => x.entities[u].device = "asset"
                                       /\ x.entities[u].owner = "parent"
                                       /\ x.entities[u].disabled = "no"
    <2>1. CASE u \in Updates(reg)
      BY <2>1, UpdatesParts, AssetIdParts DEF Sound
    <2>2. CASE u \notin Updates(reg)
      BY <2>2, <1>4, <1>7 DEF Sound
    <2> QED
      BY <2>1, <2>2
  <1>8. Sound(x, store.born)
    BY <1>2, <1>3, <1>7 DEF Sound
  <1> QED
    BY <1>2, <1>3, <1>4, <1>8 DEF x

\* What a rollback restores: an update stays only if it was made and taking it back
\* raises.
LEMMA RestoredParts ==
  ASSUME NEW reg \in Registries, NEW fault, store.born \subseteq Assets
  PROVE  LET r == Restored(reg, fault) IN
         /\ r \in Registries /\ r.old = reg.old
         /\ r.devices = reg.devices \union {a \in store.born : Done(fault, a)}
         /\ r.misplaced = reg.misplaced \ {a \in store.born : Done(fault, a)}
         /\ r.outdated = reg.outdated \ {a \in store.born : Done(fault, a)}
         /\ \A u \in UniqueIds : r.entities[u] =
               IF u \in Updates(reg) /\ Done(fault, EntityCall(u))
                  /\ EntityCall(u) \in fault.broken
               THEN Placed(reg, u) ELSE reg.entities[u]
  <1> DEFINE x == Exposed(reg, fault)
             ents == [u \in UniqueIds |->
                        IF u \in Updates(reg) /\ EntityCall(u) \notin fault.broken
                        THEN reg.entities[u] ELSE x.entities[u]]
  <1>1. Restored(reg, fault) = [x EXCEPT !.entities = ents]
    BY DEF Restored
  <1>2. /\ x \in Registries /\ x.old = reg.old
        /\ x.devices = reg.devices \union {a \in store.born : Done(fault, a)}
        /\ x.misplaced = reg.misplaced \ {a \in store.born : Done(fault, a)}
        /\ x.outdated = reg.outdated \ {a \in store.born : Done(fault, a)}
        /\ \A u \in UniqueIds : x.entities[u] =
              IF u \in Updates(reg) /\ Done(fault, EntityCall(u))
              THEN Placed(reg, u) ELSE reg.entities[u]
    BY ExposedParts
  <1> HIDE DEF x
  <1>3. ents \in [UniqueIds -> Entries \union {Nothing}]
    BY <1>2, RegistryParts
  <1>4. \A u \in UniqueIds : ents[u] =
           IF u \in Updates(reg) /\ Done(fault, EntityCall(u))
              /\ EntityCall(u) \in fault.broken
           THEN Placed(reg, u) ELSE reg.entities[u]
    BY <1>2
  <1> HIDE DEF ents
  <1> QED
    BY <1>1, <1>2, <1>3, <1>4 DEF Registries

\* A rollback removes only devices of this attempt, and only empty ones, so it
\* never takes an entity with a device; those that were there keep their update.
LEMMA RolledBackParts ==
  ASSUME NEW reg \in Registries, NEW fault, store.born \subseteq Assets
  PROVE  LET left == RolledBack(reg, fault) IN
         /\ left \in Registries /\ left.old = reg.old
         /\ \A u \in UniqueIds : left.entities[u] =
               IF u \in Updates(reg) /\ Done(fault, EntityCall(u))
                  /\ EntityCall(u) \in fault.broken
               THEN Placed(reg, u) ELSE reg.entities[u]
         /\ left.devices = reg.devices \union
               {a \in store.born : Done(fault, a)
                                   /\ (a \in fault.broken \/ OnDevice(left, a) # {})}
         /\ left.misplaced = reg.misplaced \ {a \in store.born : Done(fault, a)}
         /\ left.outdated = reg.outdated \ {a \in store.born : Done(fault, a)}
  <1> DEFINE r == Restored(reg, fault)
             gone == {a \in Made(reg, fault) \ fault.broken : OnDevice(r, a) = {}}
             left == RolledBack(reg, fault)
  <1>1. left = WithoutDevices(r, gone)
    BY DEF RolledBack
  <1>2. /\ r \in Registries /\ r.old = reg.old
        /\ r.devices = reg.devices \union {a \in store.born : Done(fault, a)}
        /\ r.misplaced = reg.misplaced \ {a \in store.born : Done(fault, a)}
        /\ r.outdated = reg.outdated \ {a \in store.born : Done(fault, a)}
        /\ \A u \in UniqueIds : r.entities[u] =
              IF u \in Updates(reg) /\ Done(fault, EntityCall(u))
                 /\ EntityCall(u) \in fault.broken
              THEN Placed(reg, u) ELSE reg.entities[u]
    BY RestoredParts
  <1> HIDE DEF r
  <1>3. \A u \in UniqueIds : ~ \E a \in gone : u \in OnDevice(r, a)
    OBVIOUS
  <1>4. /\ left \in Registries /\ left.devices = r.devices \ gone /\ left.old = r.old
        /\ left.misplaced = r.misplaced \ gone /\ left.outdated = r.outdated \ gone
        /\ \A u \in UniqueIds : left.entities[u] = r.entities[u]
    BY <1>1, <1>2, <1>3, WithoutDevicesParts
  <1>5. \A a : OnDevice(left, a) = OnDevice(r, a)
    BY <1>4 DEF OnDevice, Registered
  <1>6. gone = {a \in store.born \ reg.devices :
                  Done(fault, a) /\ a \notin fault.broken /\ OnDevice(left, a) = {}}
    BY <1>5 DEF Made
  <1> HIDE DEF left, gone
  <1>7. left.devices = reg.devices \union
           {a \in store.born : Done(fault, a)
                               /\ (a \in fault.broken \/ OnDevice(left, a) # {})}
    <2>1. left.devices = (reg.devices \union {a \in store.born : Done(fault, a)}) \ gone
      BY <1>2, <1>4
    <2>2. reg.devices \intersect gone = {}
      BY <1>6
    <2>3. ASSUME NEW a
          PROVE  a \in left.devices <=>
                    \/ a \in reg.devices
                    \/ a \in store.born /\ Done(fault, a)
                       /\ (a \in fault.broken \/ OnDevice(left, a) # {})
      <3>1. CASE a \in reg.devices
        BY <2>1, <2>2, <3>1
      <3>2. CASE a \notin reg.devices
        BY <2>1, <1>6, <3>2
      <3> QED
        BY <3>1, <3>2
    <2> QED
      BY <2>3
  <1>8. gone \subseteq {a \in store.born : Done(fault, a)}
    BY <1>6
  <1>9. /\ left.misplaced = reg.misplaced \ {a \in store.born : Done(fault, a)}
        /\ left.outdated = reg.outdated \ {a \in store.born : Done(fault, a)}
    BY <1>2, <1>4, <1>8
  <1> QED
    BY <1>2, <1>4, <1>7, <1>9 DEF left

\* A failed exposure that was rolled back leaves a sound registry.
LEMMA RolledBackSound ==
  ASSUME NEW reg, Sound(reg, store.born), NEW fault \in Faults(reg), store.born \subseteq Assets,
         \A k \in OldKinds : reg.old[k] = Nothing
  PROVE  Sound(RolledBack(reg, fault), store.born)
  <1> DEFINE left == RolledBack(reg, fault)
  <1>1. reg \in Registries
    BY DEF Sound
  <1>2. /\ left \in Registries /\ left.old = reg.old
        /\ \A u \in UniqueIds : left.entities[u] =
              IF u \in Updates(reg) /\ Done(fault, EntityCall(u))
                 /\ EntityCall(u) \in fault.broken
              THEN Placed(reg, u) ELSE reg.entities[u]
        /\ left.devices = reg.devices \union
              {a \in store.born : Done(fault, a)
                                  /\ (a \in fault.broken \/ OnDevice(left, a) # {})}
        /\ left.misplaced = reg.misplaced \ {a \in store.born : Done(fault, a)}
        /\ left.outdated = reg.outdated \ {a \in store.born : Done(fault, a)}
    BY <1>1, RolledBackParts
  <1> HIDE DEF left
  <1>3. ASSUME NEW u \in UniqueIds, left.entities[u] # Nothing
        PROVE  /\ Owner(u) \in store.born
               /\ left.entities[u].device = "asset" => Owner(u) \in left.devices \ left.misplaced
               /\ u \in ScheduleIds => left.entities[u].device = "asset"
                                       /\ left.entities[u].owner = "parent"
                                       /\ left.entities[u].disabled = "no"
    <2>1. CASE left.entities[u] = reg.entities[u]
      BY <1>2, <1>3, <2>1 DEF Sound
    <2>2. CASE left.entities[u] # reg.entities[u]
      <3>1. /\ u \in Updates(reg) /\ Done(fault, EntityCall(u))
            /\ left.entities[u] = Placed(reg, u)
        BY <1>2, <2>2
      <3>2. /\ u \in AssetIds /\ u \notin ScheduleIds /\ reg.entities[u] # Nothing
            /\ Owner(u) \in Assets
        BY <3>1, UpdatesParts, AssetIdParts
      <3>3. Owner(u) \in store.born
        BY <3>2 DEF Sound
      <3>4. Done(fault, Owner(u))
        BY <3>1, <3>2, DevicesFirst
      <3>5. left.entities[u].device = "asset"
        BY <1>1, <3>1, <3>2, PlacedParts
      <3>6. u \in OnDevice(left, Owner(u))
        BY <1>3, <3>5 DEF OnDevice, Registered
      <3> QED
        BY <1>2, <3>2, <3>3, <3>4, <3>6
    <2> QED
      BY <2>1, <2>2
  <1>4. /\ left.devices \subseteq store.born
        /\ left.misplaced \subseteq left.devices /\ left.outdated \subseteq left.devices
    BY <1>2 DEF Sound
  <1> QED
    BY <1>2, <1>3, <1>4 DEF Sound, left

-----------------------------------------------------------------------------
(* What a registry keeps through the other steps                             *)

\* A subentry goes with its entities and its devices; as those carry no entity, every
\* other entity stays.
LEMMA WithoutSubentryParts ==
  ASSUME NEW reg, NEW born, Sound(reg, born), NEW x
  PROVE  LET s == WithoutSubentry(reg, x)
             gone == IF x = "purchase" THEN reg.misplaced ELSE {}
         IN
         /\ s \in Registries
         /\ s.devices = reg.devices \ gone
         /\ s.misplaced = reg.misplaced \ gone /\ s.outdated = reg.outdated \ gone
         /\ \A u \in UniqueIds : s.entities[u] =
               IF reg.entities[u] # Nothing /\ reg.entities[u].owner = x
               THEN Nothing ELSE reg.entities[u]
         /\ \A k \in OldKinds : s.old[k] =
               IF reg.old[k] # Nothing /\ reg.old[k].owner = x
               THEN Nothing ELSE reg.old[k]
  <1> DEFINE gone == IF x = "purchase" THEN reg.misplaced ELSE {}
             ents == [u \in UniqueIds |->
                        IF reg.entities[u] # Nothing /\ reg.entities[u].owner = x
                        THEN Nothing ELSE reg.entities[u]]
             olds == [k \in OldKinds |->
                        IF reg.old[k] # Nothing /\ reg.old[k].owner = x
                        THEN Nothing ELSE reg.old[k]]
             mid == [reg EXCEPT !.entities = ents, !.old = olds]
  <1>1. WithoutSubentry(reg, x) = WithoutDevices(mid, gone)
    BY DEF WithoutSubentry
  <1>2. ents \in [UniqueIds -> Entries \union {Nothing}]
        /\ olds \in [OldKinds -> Entries \union {Nothing}]
    BY RegistryParts DEF Sound
  <1>3. /\ \A u \in UniqueIds : ents[u] =
              IF reg.entities[u] # Nothing /\ reg.entities[u].owner = x
              THEN Nothing ELSE reg.entities[u]
        /\ \A k \in OldKinds : olds[k] =
              IF reg.old[k] # Nothing /\ reg.old[k].owner = x
              THEN Nothing ELSE reg.old[k]
    OBVIOUS
  <1> HIDE DEF ents, olds
  <1>4. /\ mid \in Registries /\ mid.devices = reg.devices /\ mid.misplaced = reg.misplaced
        /\ mid.outdated = reg.outdated /\ mid.entities = ents /\ mid.old = olds
    BY <1>2 DEF Sound, Registries
  <1> HIDE DEF mid
  <1>5. gone \subseteq reg.misplaced
    OBVIOUS
  <1>6. \A u \in UniqueIds : ~ \E a \in gone : u \in OnDevice(mid, a)
    BY <1>3, <1>4, <1>5 DEF Sound, OnDevice, Registered
  <1>7. LET w == WithoutDevices(mid, gone) IN
        /\ w \in Registries /\ w.devices = mid.devices \ gone /\ w.old = mid.old
        /\ w.misplaced = mid.misplaced \ gone /\ w.outdated = mid.outdated \ gone
        /\ \A u \in UniqueIds : w.entities[u] = mid.entities[u]
    BY <1>4, <1>6, WithoutDevicesParts
  <1> QED
    BY <1>1, <1>3, <1>4, <1>7

\* Registry entries that are dropped or lose their link leave the rest sound, and so do
\* devices of a subentry.
LEMMA FewerSound ==
  ASSUME NEW reg, NEW left \in Registries, Sound(reg, store.born),
         left.devices \subseteq reg.devices, left.misplaced \subseteq left.devices,
         left.outdated \subseteq left.devices,
         reg.devices \ reg.misplaced \subseteq left.devices \ left.misplaced,
         \A u \in UniqueIds :
            \/ left.entities[u] = reg.entities[u] \/ left.entities[u] = Nothing
            \/ /\ reg.entities[u] # Nothing /\ u \notin ScheduleIds
               /\ left.entities[u].device # "asset",
         \A k \in OldKinds :
            \/ left.old[k] = reg.old[k] \/ left.old[k] = Nothing
            \/ reg.old[k] # Nothing /\ left.old[k].device # "asset",
         \A u \in UniqueIds : reg.entities[u] = Nothing => left.entities[u] = Nothing
  PROVE  Sound(left, store.born)
  <1>1. ASSUME NEW u \in UniqueIds, left.entities[u] # Nothing
        PROVE  /\ Owner(u) \in store.born
               /\ left.entities[u].device = "asset" => Owner(u) \in left.devices \ left.misplaced
               /\ u \in ScheduleIds => left.entities[u].device = "asset"
                                       /\ left.entities[u].owner = "parent"
                                       /\ left.entities[u].disabled = "no"
    BY <1>1 DEF Sound
  <1>2. ASSUME NEW k \in OldKinds, left.old[k] # Nothing
        PROVE  left.old[k].device # "asset" /\ left.entities[<<k, First>>] = Nothing
    BY <1>2, OldIds DEF Sound
  <1> QED
    BY <1>1, <1>2 DEF Sound

\* Entities that are added belong to devices that are there and the entry's; an Asset
\* entity is only added once old unique IDs are gone.
LEMMA AddedSound ==
  ASSUME NEW reg, Sound(reg, store.born), NEW ids \in SUBSET UniqueIds,
         \A u \in ids : Owner(u) \in reg.devices, reg.misplaced = {},
         \A k \in OldKinds : reg.old[k] = Nothing
  PROVE  Sound(Added(reg, ids), store.born)
  <1> DEFINE a == Added(reg, ids)
  <1>1. reg \in Registries
    BY DEF Sound
  <1>2. /\ a \in Registries /\ a.devices = reg.devices /\ a.old = reg.old
        /\ a.misplaced = reg.misplaced /\ a.outdated = reg.outdated
        /\ \A u \in UniqueIds :
              /\ u \notin ids => a.entities[u] = reg.entities[u]
              /\ u \in ids => /\ a.entities[u] \in Entries
                              /\ a.entities[u].device = "asset"
                              /\ a.entities[u].owner = "parent"
              /\ u \in ids /\ reg.entities[u] # Nothing =>
                    a.entities[u].disabled = reg.entities[u].disabled
              /\ u \in ids /\ reg.entities[u] = Nothing /\ u[1] # "replacement" =>
                    a.entities[u].disabled = "no"
    BY <1>1, AddedParts
  <1> HIDE DEF a
  <1>3. ASSUME NEW u \in UniqueIds, a.entities[u] # Nothing
        PROVE  /\ Owner(u) \in store.born
               /\ a.entities[u].device = "asset" => Owner(u) \in a.devices \ a.misplaced
               /\ u \in ScheduleIds => a.entities[u].device = "asset"
                                       /\ a.entities[u].owner = "parent"
                                       /\ a.entities[u].disabled = "no"
    <2>1. CASE u \in ids
      <3>1. u \in ScheduleIds => u[1] # "replacement"
        BY ScheduleIdParts DEF ScheduleKinds
      <3> QED
        BY <1>2, <2>1, <3>1 DEF Sound
    <2>2. CASE u \notin ids
      BY <1>2, <1>3, <2>2 DEF Sound
    <2> QED
      BY <2>1, <2>2
  <1> QED
    BY <1>2, <1>3 DEF Sound, a

LEMMA SoundGrows ==
  ASSUME NEW reg, NEW born, NEW more, born \subseteq more, Sound(reg, born)
  PROVE  Sound(reg, more)
  BY DEF Sound

\* The registry has its type whatever Assets there are.
LEMMA SoundType ==
  ASSUME NEW reg, NEW born, Sound(reg, born)
  PROVE  /\ reg \in Registries /\ reg.devices \subseteq born
         /\ reg.misplaced \union reg.outdated \subseteq reg.devices
  BY DEF Sound

-----------------------------------------------------------------------------
(* What is shown                                                             *)

\* Maintenance entities are entities of Schedules.
LEMMA ExpectedParts ==
  \A st : /\ Expected(st) \subseteq ScheduleIds
          /\ \A u \in ScheduleIds :
                u \in Expected(st) <=> \/ u[1] = "status" /\ st.schedules[u[2]] # "none"
                                       \/ u[1] = "preparation" /\ st.schedules[u[2]] = "reminder"
  BY DEF Expected, ScheduleIds, ScheduleKinds

\* What an entity shows of the Store: its own Asset and its own Schedule.
LEMMA ViewParts ==
  ASSUME NEW st, NEW st2, NEW present, NEW u \in UniqueIds,
         Owner(u) \in st.archived <=> Owner(u) \in st2.archived,
         Owner(u) \in st.linked <=> Owner(u) \in st2.linked,
         InReplacement(st, Owner(u)) <=> InReplacement(st2, Owner(u)),
         u \in ScheduleIds => st.schedules[u[2]] = st2.schedules[u[2]]
  PROVE  View(st, present, u) = View(st2, present, u)
  <1>1. InReplacement(st, Owner(u)) = InReplacement(st2, Owner(u))
    BY DEF InReplacement
  <1>2. CASE u \in AssetIds
    BY <1>1, <1>2, AssetIdParts DEF View, AssetKinds, KindOrder
  <1>3. CASE u \in ScheduleIds
    BY <1>3, ScheduleIdParts DEF View, ScheduleKinds
  <1> QED
    BY <1>2, <1>3 DEF UniqueIds

\* Only Relationships show whether the external device is there.
LEMMA ViewPresent ==
  ASSUME NEW st, NEW p, NEW q, NEW u \in UniqueIds, u[1] # "relationships"
  PROVE  View(st, p, u) = View(st, q, u)
  BY DEF View

\* A setup that succeeds.
LEMMA SetupStep ==
  ASSUME IInv, Setup
  PROVE  IInv'
  <1> DEFINE reg == Migrated(registry, OldKinds)
  <1>1. /\ Unloaded /\ registry' = Exposed(reg, NoFault)
        /\ platforms' = [p \in Platforms |-> "pending"]
        /\ issues' = StaleReferences(store, external)
        /\ UNCHANGED <<store, external, subentries, shown, indexed>>
    BY DEF Setup
  <1>2. store.born \subseteq Assets /\ First \in store.born /\ Sound(registry, store.born)
    BY DEF IInv, TypeOK, RegistryInv
  <1>3. Sound(reg, store.born) /\ \A k \in OldKinds : reg.old[k] = Nothing
    <2>1. Sound(reg, store.born)
      BY <1>2, MigratedSound
    <2>2. registry \in Registries
      BY <1>2, SoundType
    <2> QED
      BY <2>1, <2>2, MigratedParts
  <1> HIDE DEF reg
  <1>4. /\ Sound(registry', store.born) /\ registry'.misplaced = {}
        /\ \A k \in OldKinds : registry'.old[k] = Nothing
    BY <1>1, <1>2, <1>3, ExposedSound
  <1>5. RegistryInv'
    BY <1>1, <1>2, <1>4 DEF IInv, RegistryInv, Tracked
  <1>6. StaleReferences(store, external) \subseteq Assets
    BY DEF StaleReferences, IInv, TypeOK
  <1>7. TypeOK'
    BY <1>1, <1>4, <1>6, SoundType DEF IInv, TypeOK, Registries
  <1>8. \A u \in UniqueIds : PlatformOf(u) \in Platforms
    BY AssetIdParts, ScheduleIdParts DEF UniqueIds, Platforms
  <1>9. \A u \in UniqueIds : shown[u] = Nothing
    BY <1>1, <1>8 DEF IInv, ShownInv, Unloaded, Up
  <1>10. ShownInv' /\ MaintenanceInv' /\ IssuesInv'
    BY <1>1, <1>8, <1>9, ScheduleIdParts DEF ShownInv, MaintenanceInv, IssuesInv, Up, Attached,
       Platforms
  <1> QED
    BY <1>5, <1>7, <1>10 DEF IInv

\* A setup that fails at any registry call.
LEMMA SetupFailsStep ==
  ASSUME IInv, SetupFails
  PROVE  IInv'
  <1>1. Unloaded /\ UNCHANGED <<store, external, subentries, platforms, shown, indexed, issues>>
    BY DEF SetupFails
  <1>2. store.born \subseteq Assets /\ First \in store.born /\ Sound(registry, store.born)
    BY DEF IInv, TypeOK, RegistryInv
  <1>3. Sound(registry', store.born)
    <2>1. PICK found \in {registry, Outdated(registry, Refreshed)} :
             \/ \E kinds \in SUBSET OldKinds : registry' = Migrated(found, kinds)
             \/ \E fault \in Faults(Migrated(found, OldKinds)) :
                   registry' = RolledBack(Migrated(found, OldKinds), fault)
      BY DEF SetupFails
    <2>2. Sound(found, store.born)
      BY <1>2, OutdatedSound
    <2>3. CASE \E kinds \in SUBSET OldKinds : registry' = Migrated(found, kinds)
      BY <1>2, <2>2, <2>3, MigratedSound
    <2>4. CASE \E fault \in Faults(Migrated(found, OldKinds)) :
                  registry' = RolledBack(Migrated(found, OldKinds), fault)
      <3> DEFINE reg == Migrated(found, OldKinds)
      <3>1. Sound(reg, store.born)
        BY <1>2, <2>2, MigratedSound
      <3>2. \A k \in OldKinds : reg.old[k] = Nothing
        BY <2>2, SoundType, MigratedParts
      <3> HIDE DEF reg
      <3> QED
        BY <1>2, <2>4, <3>1, <3>2, RolledBackSound DEF reg
    <2> QED
      BY <2>1, <2>3, <2>4
  <1>4. registry' \in Registries /\ registry'.misplaced \union registry'.outdated \subseteq registry'.devices
    BY <1>3, SoundType
  <1>5. TypeOK' /\ RegistryInv'
    BY <1>1, <1>2, <1>3, <1>4 DEF IInv, TypeOK, RegistryInv, Registries, Tracked, Unloaded
  <1>6. \A u \in ScheduleIds : ~Up(PlatformOf(u))
    BY <1>1, ScheduleIdParts DEF Unloaded, Up
  <1>7. ShownInv' /\ MaintenanceInv' /\ IssuesInv'
    BY <1>1, <1>6 DEF IInv, ShownInv, MaintenanceInv, IssuesInv, Up, Attached
  <1> QED
    BY <1>5, <1>7 DEF IInv

\* Orphans of a platform are dropped when it starts.
LEMMA WithoutOrphansParts ==
  ASSUME NEW reg \in Registries, NEW p
  PROVE  LET w == WithoutOrphans(reg, p) IN
         /\ w \in Registries /\ w.devices = reg.devices /\ w.old = reg.old
         /\ w.misplaced = reg.misplaced /\ w.outdated = reg.outdated
         /\ \A u \in UniqueIds : w.entities[u] =
               IF u \in ScheduleIds \ Expected(store) /\ PlatformOf(u) = p
               THEN Nothing ELSE reg.entities[u]
  BY RegistryParts DEF WithoutOrphans, Registries

\* A platform that starts with entities whose devices are there.
LEMMA PlatformStarts ==
  ASSUME IInv, NEW p \in Platforms, platforms[p] = "pending", NEW ids \in SUBSET UniqueIds,
         \A u \in ids : PlatformOf(u) = p /\ Owner(u) \in registry.devices,
         \A u \in ScheduleIds : u \in ids <=> u \in ScheduleEntities(p),
         registry' = Added(WithoutOrphans(registry, p), ids),
         shown' = Show(registry', ids),
         platforms' = [platforms EXCEPT ![p] = "up"],
         UNCHANGED <<store, external, subentries, issues>>,
         indexed' \subseteq Assets, p = "sensor" \/ indexed' = indexed
  PROVE  IInv'
  <1> DEFINE reg == WithoutOrphans(registry, p)
  <1>1. /\ Sound(registry, store.born) /\ registry \in Registries
        /\ platforms \in [Platforms -> {"down", "pending", "up", "failed"}]
    BY SoundType DEF IInv, RegistryInv, TypeOK
  <1>2. registry.misplaced = {} /\ \A k \in OldKinds : registry.old[k] = Nothing
    BY DEF IInv, RegistryInv, Unloaded
  <1>3. /\ reg \in Registries /\ reg.devices = registry.devices /\ reg.old = registry.old
        /\ reg.misplaced = registry.misplaced /\ reg.outdated = registry.outdated
        /\ \A u \in UniqueIds : reg.entities[u] =
              IF u \in ScheduleIds \ Expected(store) /\ PlatformOf(u) = p
              THEN Nothing ELSE registry.entities[u]
    BY <1>1, WithoutOrphansParts
  <1> HIDE DEF reg
  <1>4. Sound(reg, store.born)
    BY <1>1, <1>3, FewerSound, SoundType
  <1>5. Sound(registry', store.born)
    BY <1>2, <1>3, <1>4, AddedSound DEF reg
  <1>6. /\ registry' \in Registries /\ registry'.devices = registry.devices
        /\ registry'.old = registry.old /\ registry'.misplaced = registry.misplaced
        /\ registry'.outdated = registry.outdated
        /\ \A u \in UniqueIds : /\ u \notin ids => registry'.entities[u] = reg.entities[u]
                                /\ u \in ids => registry'.entities[u] \in Entries
    BY <1>3, AddedParts DEF reg
  <1>7. /\ platforms' \in [Platforms -> {"down", "pending", "up", "failed"}]
        /\ \A q \in Platforms : platforms'[q] = IF q = p THEN "up" ELSE platforms[q]
    BY <1>1
  <1>8. RegistryInv'
    BY <1>2, <1>5, <1>6 DEF IInv, RegistryInv, Tracked
  <1>9. \A u \in UniqueIds : PlatformOf(u) \in Platforms
    BY AssetIdParts, ScheduleIdParts DEF UniqueIds, Platforms
  <1>10. \A u \in UniqueIds : PlatformOf(u) = p => shown[u] = Nothing
    BY DEF IInv, ShownInv, Up
  <1>11. /\ DOMAIN shown' = UniqueIds
         /\ \A u \in UniqueIds : shown'[u] =
               IF u \in ids /\ registry'.entities[u].disabled = "no"
               THEN View(store, external, u) ELSE shown[u]
    BY DEF Show
  <1>12. TypeOK'
    <2>1. registry'.misplaced \union registry'.outdated \subseteq registry'.devices
      BY <1>1, <1>6, SoundType
    <2> QED
      BY <1>6, <1>7, <1>11, <2>1 DEF IInv, TypeOK, Registries
  <1>13. ShownInv'
    <2> SUFFICES ASSUME NEW u \in UniqueIds, shown'[u] # Nothing
                 PROVE  /\ platforms'[PlatformOf(u)] = "up"
                        /\ \/ shown'[u] = View(store, external, u)
                           \/ /\ u[1] = "relationships" /\ Owner(u) \notin indexed'
                              /\ shown'[u] = View(store, ~external, u)
      BY DEF ShownInv, Up
    <2>1. CASE PlatformOf(u) = p
      BY <1>7, <1>10, <1>11, <2>1
    <2>2. CASE PlatformOf(u) # p
      <3>1. shown'[u] = shown[u] /\ shown[u] # Nothing
        BY <1>11, <2>2
      <3>2. u[1] = "relationships" => indexed' = indexed
        BY <2>2, AssetIdParts, ScheduleIdParts DEF UniqueIds, ScheduleKinds
      <3> QED
        BY <1>7, <1>9, <2>2, <3>1, <3>2 DEF IInv, ShownInv, Up
    <2> QED
      BY <2>1, <2>2
  <1>14. MaintenanceInv'
    <2> SUFFICES ASSUME NEW u \in ScheduleIds, platforms'[PlatformOf(u)] = "up"
                 PROVE  /\ (registry'.entities[u] # Nothing) = (shown'[u] # Nothing)
                        /\ (shown'[u] # Nothing) =
                              (u \in Expected(store) /\ Owner(u) \in registry'.devices)
      BY DEF MaintenanceInv, Up
    <2>0. u \in UniqueIds /\ PlatformOf(u) \in Platforms
      BY ScheduleIdParts
    <2>1. CASE PlatformOf(u) # p
      <3>1. /\ registry'.entities[u] = registry.entities[u] /\ shown'[u] = shown[u]
            /\ platforms[PlatformOf(u)] = "up"
        BY <1>3, <1>6, <1>7, <1>11, <2>0, <2>1
      <3> QED
        BY <1>6, <3>1 DEF IInv, MaintenanceInv, Up
    <2>2. CASE u \in ids
      <3>1. u \in Expected(store) /\ Owner(u) \in registry'.devices
        BY <1>6, <2>2 DEF ScheduleEntities
      <3>2. registry'.entities[u] # Nothing
        BY <1>6, <2>0, <2>2, EntriesAreSomething
      <3>3. registry'.entities[u].disabled = "no"
        BY <1>5, <2>0, <3>2 DEF Sound
      <3> QED
        BY <1>11, <2>0, <2>2, <3>1, <3>2, <3>3, EntriesAreSomething
    <2>3. CASE PlatformOf(u) = p /\ u \notin ids
      <3>1. ~(u \in Expected(store) /\ Owner(u) \in registry'.devices)
        BY <1>6, <2>3 DEF ScheduleEntities
      <3>2. registry'.entities[u] = reg.entities[u]
        BY <1>6, <2>0, <2>3
      <3>3. registry'.entities[u] = Nothing
        <4>1. CASE u \in Expected(store)
          BY <1>1, <1>3, <1>6, <2>0, <3>1, <3>2, <4>1 DEF Sound
        <4>2. CASE u \notin Expected(store)
          BY <1>3, <2>0, <2>3, <3>2, <4>2
        <4> QED
          BY <4>1, <4>2
      <3>4. shown'[u] = Nothing
        BY <1>10, <1>11, <2>0, <2>3
      <3> QED
        BY <3>1, <3>3, <3>4
    <2> QED
      BY <2>1, <2>2, <2>3
  <1>15. IssuesInv'
    BY DEF IInv, IssuesInv, Attached
  <1> QED
    BY <1>8, <1>12, <1>13, <1>14, <1>15 DEF IInv

LEMMA StartBinarySensorsStep ==
  ASSUME IInv, StartBinarySensors
  PROVE  IInv'
  <1> DEFINE ids == ScheduleEntities("binary_sensor")
  <1>1. /\ ids \in SUBSET UniqueIds
        /\ \A u \in ids : PlatformOf(u) = "binary_sensor" /\ Owner(u) \in registry.devices
    BY ExpectedParts, ScheduleIdParts DEF ScheduleEntities
  <1>2. indexed \subseteq Assets
    BY DEF IInv, TypeOK
  <1> HIDE DEF ids
  <1>3. \A u \in ScheduleIds : u \in ids <=> u \in ScheduleEntities("binary_sensor")
    BY DEF ids
  <1> QED
    BY <1>1, <1>2, <1>3, PlatformStarts DEF StartBinarySensors, Platforms, ids

LEMMA StartSensorsStep ==
  ASSUME IInv, StartSensors
  PROVE  IInv'
  <1>1. CASE store.born \subseteq registry.devices
    <2> DEFINE assetIds == {u \in AssetIds : Owner(u) \in store.born /\
                              (u[1] = "runtime" => u[2] = First /\ Tracked)}
               ids == assetIds \union ScheduleEntities("sensor")
    <2>1. /\ platforms["sensor"] = "pending"
          /\ registry' = Added(WithoutOrphans(registry, "sensor"), ids)
          /\ shown' = Show(registry', ids) /\ indexed' = store.linked
          /\ platforms' = [platforms EXCEPT !["sensor"] = "up"]
          /\ UNCHANGED <<store, external, subentries, issues>>
      BY <1>1 DEF StartSensors
    <2>2. /\ ids \in SUBSET UniqueIds
          /\ \A u \in ids : PlatformOf(u) = "sensor" /\ Owner(u) \in registry.devices
      BY <1>1, ExpectedParts, ScheduleIdParts, AssetIdParts DEF ScheduleEntities
    <2>3. \A u \in ScheduleIds : u \in ids <=> u \in ScheduleEntities("sensor")
      BY ScheduleIdParts
    <2>4. store.linked \subseteq Assets
      BY DEF IInv, TypeOK
    <2> HIDE DEF ids
    <2> QED
      BY <2>1, <2>2, <2>3, <2>4, PlatformStarts DEF Platforms
  <1>2. CASE ~(store.born \subseteq registry.devices)
    <2>1. /\ platforms["sensor"] = "pending" /\ platforms' = [platforms EXCEPT !["sensor"] = "failed"]
          /\ UNCHANGED <<registry, shown, indexed, store, external, subentries, issues>>
      BY <1>2 DEF StartSensors
    <2>2. /\ platforms' \in [Platforms -> {"down", "pending", "up", "failed"}]
          /\ \A q \in Platforms : platforms'[q] = "up" <=> platforms[q] = "up"
          /\ \A q \in Platforms : platforms'[q] = "down" <=> platforms[q] = "down"
      BY <2>1 DEF IInv, TypeOK
    <2>3. \A u \in UniqueIds : PlatformOf(u) \in Platforms
      BY AssetIdParts, ScheduleIdParts DEF UniqueIds, Platforms
    <2>4. TypeOK' /\ RegistryInv' /\ IssuesInv'
      BY <2>1, <2>2 DEF IInv, TypeOK, RegistryInv, Tracked, Unloaded, IssuesInv, Attached
    <2>5. ShownInv' /\ MaintenanceInv'
      BY <2>1, <2>2, <2>3, ScheduleIdParts DEF IInv, ShownInv, MaintenanceInv, Up
    <2> QED
      BY <2>4, <2>5 DEF IInv
  <1> QED
    BY <1>1, <1>2

LEMMA UnloadStep ==
  ASSUME IInv, Unload
  PROVE  IInv'
  <1>1. /\ platforms' = [p \in Platforms |-> "down"]
        /\ shown' = [u \in UniqueIds |-> Nothing] /\ indexed' = {}
        /\ UNCHANGED <<store, external, subentries, registry, issues>>
    BY DEF Unload
  <1>2. TypeOK' /\ RegistryInv' /\ IssuesInv'
    BY <1>1 DEF IInv, TypeOK, RegistryInv, Tracked, Unloaded, IssuesInv, Attached
  <1>3. \A u \in ScheduleIds : ~Up(PlatformOf(u))'
    BY <1>1, ScheduleIdParts DEF Up
  <1>4. ShownInv' /\ MaintenanceInv'
    BY <1>1, <1>3 DEF ShownInv, MaintenanceInv
  <1> QED
    BY <1>2, <1>4 DEF IInv

\* Publishing a snapshot that differs from the last one only about some Assets.
LEMMA PublishStep ==
  ASSUME IInv, NEW st, NEW changed \in SUBSET Assets, NEW renamed,
         Publish(st, changed, renamed),
         st \in [born: SUBSET Assets, archived: SUBSET Assets, linked: SUBSET Assets,
                 replaced: BOOLEAN, schedules: [Schedules -> {"none", "plain", "reminder"}]],
         st.archived \subseteq st.born, st.linked \subseteq st.born,
         store.born \subseteq st.born, Tracked => First \in st.linked,
         \A a \in Assets \ changed :
            /\ a \in store.archived <=> a \in st.archived
            /\ a \in store.linked <=> a \in st.linked
            /\ InReplacement(store, a) <=> InReplacement(st, a),
         \A s \in Schedules : AssetOf[s] \notin changed => store.schedules[s] = st.schedules[s]
  PROVE  IInv'
  <1> DEFINE orphans == Orphans(st, changed)
             built == {u \in Expected(st) \ Running :
                         /\ Owner(u) \in changed \intersect registry.devices
                         /\ Up(PlatformOf(u))}
             kept == {u \in Running \ orphans : Owner(u) \in changed}
             base == Outdated(registry, renamed)
             ents == [u \in UniqueIds |-> IF u \in orphans THEN Nothing ELSE base.entities[u]]
             reg == [base EXCEPT !.entities = ents]
  <1>1. /\ Attached /\ store' = st /\ issues' = StaleReferences(st, external)
        /\ registry' = Added(reg, built)
        /\ shown' = [u \in UniqueIds |->
              CASE u \in orphans -> Nothing
                [] u \in kept \union built -> View(st, external, u)
                [] OTHER -> shown[u]]
        /\ UNCHANGED <<external, subentries, platforms, indexed>>
    BY DEF Publish
  <1>2. /\ Sound(registry, store.born) /\ registry \in Registries
        /\ registry.misplaced = {} /\ \A k \in OldKinds : registry.old[k] = Nothing
    BY <1>1, SoundType DEF IInv, RegistryInv, Unloaded, Attached
  <1>3. \A u \in UniqueIds : Owner(u) \in Assets /\ PlatformOf(u) \in Platforms
    BY AssetIdParts, ScheduleIdParts DEF UniqueIds, Platforms
  <1>4. built \subseteq ScheduleIds /\ built \subseteq UniqueIds /\ ScheduleIds \subseteq UniqueIds
    BY ExpectedParts, ScheduleIdParts
  <1>5. /\ reg \in Registries /\ reg.devices = registry.devices /\ reg.old = registry.old
        /\ reg.misplaced = registry.misplaced /\ reg.outdated \subseteq reg.devices
        /\ \A u \in UniqueIds : reg.entities[u] =
              IF u \in orphans THEN Nothing ELSE registry.entities[u]
    <2>1. /\ base \in Registries /\ base.devices = registry.devices
          /\ base.misplaced = registry.misplaced /\ base.entities = registry.entities
          /\ base.old = registry.old /\ base.outdated \subseteq base.devices
      BY <1>2, OutdatedParts, SoundType
    <2> HIDE DEF base
    <2>2. ents \in [UniqueIds -> Entries \union {Nothing}]
      BY <2>1, RegistryParts
    <2>3. \A u \in UniqueIds : ents[u] = IF u \in orphans THEN Nothing ELSE registry.entities[u]
      BY <2>1
    <2> HIDE DEF ents, orphans
    <2> QED
      BY <2>1, <2>2, <2>3 DEF Registries
  <1>6. \A u \in UniqueIds : u \in Running <=> shown[u] # Nothing
    BY DEF Running
  <1>7. \A u \in orphans : u \in ScheduleIds /\ u \in Running /\ Owner(u) \in changed
                           /\ u \notin Expected(st)
    BY DEF Orphans
  <1>8. \A u \in ScheduleIds : Owner(u) \in changed /\ shown[u] # Nothing /\ u \notin orphans
           => u \in Expected(st)
    BY <1>4 DEF Orphans, Running
  <1>9. \A u \in UniqueIds : u \in kept <=> shown[u] # Nothing /\ u \notin orphans
                                            /\ Owner(u) \in changed
    BY <1>6
  <1>10. \A u : u \in built <=> /\ u \in Expected(st) /\ u \notin Running
                                /\ Owner(u) \in changed /\ Owner(u) \in registry.devices
                                /\ Up(PlatformOf(u))
    OBVIOUS
  <1> HIDE DEF orphans, built, kept, ents, reg
  <1>11. Sound(registry', st.born)
    <2>1. Sound(reg, store.born)
      BY <1>2, <1>5, FewerSound, SoundType
    <2>2. Sound(registry', store.born)
      BY <1>1, <1>2, <1>4, <1>5, <1>10, <2>1, AddedSound
    <2> QED
      BY <2>2, SoundGrows
  <1>12. /\ registry' \in Registries /\ registry'.devices = registry.devices
         /\ registry'.old = registry.old /\ registry'.misplaced = registry.misplaced
         /\ \A u \in UniqueIds : /\ u \notin built => registry'.entities[u] = reg.entities[u]
                                 /\ u \in built => registry'.entities[u] \in Entries
    BY <1>1, <1>5, AddedParts
  <1>13. StaleReferences(st, external) \subseteq Assets
    BY DEF StaleReferences
  <1>14. TypeOK'
    <2>1. registry'.misplaced \union registry'.outdated \subseteq registry'.devices
      BY <1>11, SoundType
    <2> QED
      BY <1>1, <1>12, <1>13, <2>1 DEF IInv, TypeOK, Registries
  <1>15. RegistryInv'
    BY <1>1, <1>2, <1>11, <1>12 DEF IInv, RegistryInv, Tracked
  <1>16. IssuesInv'
    BY <1>1 DEF IssuesInv
  <1>17. \A u \in UniqueIds : shown'[u] =
            IF u \in orphans THEN Nothing
            ELSE IF u \in kept \/ u \in built THEN View(st, external, u) ELSE shown[u]
    <2> TAKE u \in UniqueIds
    <2>1. shown'[u] = CASE u \in orphans -> Nothing
                       [] u \in kept \union built -> View(st, external, u)
                       [] OTHER -> shown[u]
      BY <1>1
    <2>2. u \in orphans => u \notin kept \union built
      BY <1>7, <1>9, <1>10
    <2> QED
      BY <2>1, <2>2
  <1>18. ASSUME NEW u \in UniqueIds, Owner(u) \notin changed, NEW p
         PROVE  View(st, p, u) = View(store, p, u)
    BY <1>3, <1>18, ViewParts, ScheduleIdParts
  <1>19. ShownInv'
    <2> SUFFICES ASSUME NEW u \in UniqueIds, shown'[u] # Nothing
                 PROVE  /\ Up(PlatformOf(u))
                        /\ \/ shown'[u] = View(st, external, u)
                           \/ /\ u[1] = "relationships" /\ Owner(u) \notin indexed
                              /\ shown'[u] = View(st, ~external, u)
      BY <1>1 DEF ShownInv, Up
    <2>1. CASE u \in kept
      BY <1>9, <1>17, <2>1 DEF IInv, ShownInv
    <2>2. CASE u \in built
      BY <1>7, <1>10, <1>17, <2>2
    <2>3. CASE u \notin kept /\ u \notin built
      <3>1. shown'[u] = shown[u] /\ shown[u] # Nothing /\ u \notin orphans
        BY <1>17, <2>3
      <3>2. Owner(u) \notin changed
        BY <1>9, <2>3, <3>1
      <3> QED
        BY <1>18, <3>1, <3>2 DEF IInv, ShownInv
    <2> QED
      BY <2>1, <2>2, <2>3
  <1>20. MaintenanceInv'
    <2> SUFFICES ASSUME NEW u \in ScheduleIds, Up(PlatformOf(u))
                 PROVE  /\ (registry'.entities[u] # Nothing) = (shown'[u] # Nothing)
                        /\ (shown'[u] # Nothing) =
                              (u \in Expected(st) /\ Owner(u) \in registry'.devices)
      BY <1>1 DEF MaintenanceInv, Up
    <2>1. /\ u \in UniqueIds
          /\ (registry.entities[u] # Nothing) = (shown[u] # Nothing)
          /\ (shown[u] # Nothing) = (u \in Expected(store) /\ Owner(u) \in registry.devices)
      BY <1>4 DEF IInv, MaintenanceInv
    <2>2. CASE u \in orphans
      <3>1. u \notin Expected(st) /\ u \notin built
        BY <1>7, <1>10, <2>2
      <3> QED
        BY <1>5, <1>12, <1>17, <2>1, <2>2, <3>1
    <2>3. CASE u \in built
      <3>1. u \in Expected(st) /\ Owner(u) \in registry.devices /\ u \notin orphans
        BY <1>7, <1>10, <2>3
      <3> QED
        BY <1>12, <1>17, <2>1, <2>3, <3>1, EntriesAreSomething
    <2>4. CASE u \notin orphans /\ u \notin built
      <3>1. registry'.entities[u] = registry.entities[u]
        BY <1>5, <1>12, <2>1, <2>4
      <3>2. (shown'[u] # Nothing) = (shown[u] # Nothing)
        BY <1>9, <1>17, <2>1, <2>4, EntriesAreSomething
      <3>3. CASE Owner(u) \in changed
        BY <1>6, <1>8, <1>10, <1>12, <2>1, <2>4, <3>1, <3>2, <3>3
      <3>4. CASE Owner(u) \notin changed
        <4>1. u \in Expected(st) <=> u \in Expected(store)
          BY <3>4, ExpectedParts, ScheduleIdParts
        <4> QED
          BY <1>12, <2>1, <3>1, <3>2, <4>1
      <3> QED
        BY <3>3, <3>4
    <2> QED
      BY <2>2, <2>3, <2>4
  <1> QED
    BY <1>14, <1>15, <1>16, <1>19, <1>20 DEF IInv

\* Every mutation of the Store publishes the Assets it is about.
LEMMA MutationStep ==
  ASSUME IInv,
         \/ CreateAsset \/ EditAsset \/ LinkOrUnlink \/ ReplaceOrVoid \/ ArchiveOrRestore
         \/ MaintainSchedule
  PROVE  IInv'
  <1> DEFINE Stores == [born: SUBSET Assets, archived: SUBSET Assets, linked: SUBSET Assets,
                        replaced: BOOLEAN,
                        schedules: [Schedules -> {"none", "plain", "reminder"}]]
  <1>1. /\ store \in Stores /\ store.archived \subseteq store.born
        /\ store.linked \subseteq store.born /\ First \in store.born
        /\ Tracked => First \in store.linked
    BY DEF IInv, TypeOK, RegistryInv
  <1>2. ASSUME NEW a \in Assets \ store.born,
               Publish([store EXCEPT !.born = @ \union {a}], {a}, {})
        PROVE  IInv'
    <2> DEFINE st == [store EXCEPT !.born = @ \union {a}]
    <2>1. /\ st \in Stores /\ st.born = store.born \union {a} /\ st.archived = store.archived
          /\ st.linked = store.linked /\ st.replaced = store.replaced
          /\ st.schedules = store.schedules
      BY <1>1
    <2> HIDE DEF st
    <2>2. Publish(st, {a}, {}) /\ {a} \in SUBSET Assets
      BY <1>2 DEF st
    <2> QED
      BY <1>1, <2>1, <2>2, PublishStep DEF InReplacement
  <1>3. ASSUME NEW a \in store.born \ store.archived, NEW renamed, Publish(store, {a}, renamed)
        PROVE  IInv'
    BY <1>1, <1>3, PublishStep DEF InReplacement
  <1>4. ASSUME NEW a \in store.born \ store.archived, a = First => subentries = {},
               NEW linked \in SUBSET store.born, store.linked \ {a} = linked \ {a}, NEW renamed,
               Publish([store EXCEPT !.linked = linked], {a}, renamed)
        PROVE  IInv'
    <2> DEFINE st == [store EXCEPT !.linked = linked]
    <2>1. /\ st \in Stores /\ st.born = store.born /\ st.archived = store.archived
          /\ st.linked = linked /\ st.replaced = store.replaced
          /\ st.schedules = store.schedules
      BY <1>1
    <2> HIDE DEF st
    <2>2. Publish(st, {a}, renamed) /\ {a} \in SUBSET Assets
      BY <1>1, <1>4 DEF st
    <2>3. Tracked => First \in linked
      BY <1>1, <1>4 DEF Tracked
    <2>4. \A b \in Assets \ {a} : b \in store.linked <=> b \in linked
      BY <1>4
    <2> QED
      BY <1>1, <2>1, <2>2, <2>3, <2>4, PublishStep DEF InReplacement
  <1>5. CASE ReplaceOrVoid
    <2> DEFINE st == [store EXCEPT !.replaced = ~@]
    <2>1. /\ st \in Stores /\ st.born = store.born /\ st.archived = store.archived
          /\ st.linked = store.linked /\ st.schedules = store.schedules
      BY <1>1
    <2> HIDE DEF st
    <2>2. Publish(st, {First, First + 1}, {}) /\ {First, First + 1} \in SUBSET Assets
      BY <1>1, <1>5 DEF ReplaceOrVoid, st
    <2>3. \A a \in Assets \ {First, First + 1} :
             InReplacement(store, a) <=> InReplacement(st, a)
      BY DEF InReplacement
    <2> QED
      BY <1>1, <2>1, <2>2, <2>3, PublishStep
  <1>6. ASSUME NEW a \in store.born,
               Publish([store EXCEPT !.archived = IF a \in @ THEN @ \ {a} ELSE @ \union {a}],
                       {a}, {})
        PROVE  IInv'
    <2> DEFINE archived == IF a \in store.archived THEN store.archived \ {a}
                           ELSE store.archived \union {a}
               st == [store EXCEPT !.archived = archived]
    <2>1. /\ st \in Stores /\ st.born = store.born /\ st.archived = archived
          /\ st.linked = store.linked /\ st.replaced = store.replaced
          /\ st.schedules = store.schedules
      BY <1>1
    <2> HIDE DEF st
    <2>2. Publish(st, {a}, {}) /\ {a} \in SUBSET Assets
      BY <1>1, <1>6 DEF st
    <2> QED
      BY <1>1, <2>1, <2>2, PublishStep DEF InReplacement
  <1>7. ASSUME NEW s \in Schedules, NEW form \in {"none", "plain", "reminder"},
               Publish([store EXCEPT !.schedules[s] = form], {AssetOf[s]}, {})
        PROVE  IInv'
    <2> DEFINE st == [store EXCEPT !.schedules[s] = form]
    <2>1. /\ st \in Stores /\ st.born = store.born /\ st.archived = store.archived
          /\ st.linked = store.linked /\ st.replaced = store.replaced
          /\ \A t \in Schedules : t # s => st.schedules[t] = store.schedules[t]
      BY <1>1
    <2> HIDE DEF st
    <2>2. Publish(st, {AssetOf[s]}, {}) /\ {AssetOf[s]} \in SUBSET Assets
      BY <1>7, ExposureAssumption DEF st
    <2> QED
      BY <1>1, <2>1, <2>2, PublishStep DEF InReplacement
  <1>8. CASE LinkOrUnlink
    <2>1. PICK a \in store.born \ store.archived :
             /\ a = First => subentries = {}
             /\ \/ Publish([store EXCEPT !.linked = store.linked \ {a}], {a}, {})
                \/ \E renamed : Publish([store EXCEPT !.linked = store.linked \union {a}], {a}, renamed)
      BY <1>8 DEF LinkOrUnlink
    <2> QED
      BY <1>1, <1>4, <2>1
  <1> QED
    BY <1>2, <1>3, <1>5, <1>6, <1>7, <1>8
       DEF CreateAsset, EditAsset, ArchiveOrRestore, MaintainSchedule

\* The external device goes or comes back: entities lose their link to it, and
\* those that follow it are written again.
LEMMA DeviceEventStep ==
  ASSUME IInv, DeviceEvent
  PROVE  IInv'
  <1> DEFINE Unlinked(e) == IF e # Nothing /\ e.device = "external"
                            THEN [e EXCEPT !.device = "none"] ELSE e
             ents == [u \in UniqueIds |-> Unlinked(registry.entities[u])]
             olds == [k \in OldKinds |-> Unlinked(registry.old[k])]
  <1>1. /\ external' = ~external /\ registry' = [registry EXCEPT !.entities = ents, !.old = olds]
        /\ issues' = IF Attached THEN StaleReferences(store, ~external) ELSE issues
        /\ shown' = [u \in UniqueIds |->
             IF u \in Running /\ u[1] = "relationships" /\ Owner(u) \in indexed
             THEN View(store, ~external, u) ELSE shown[u]]
        /\ UNCHANGED <<store, subentries, platforms, indexed>>
    BY DEF DeviceEvent
  <1>2. Sound(registry, store.born) /\ registry \in Registries /\ external \in BOOLEAN
    BY SoundType DEF IInv, RegistryInv, TypeOK
  <1>3. \A e \in Entries \union {Nothing} :
           /\ Unlinked(e) \in Entries \union {Nothing}
           /\ Unlinked(e) = Nothing <=> e = Nothing
           /\ Unlinked(e) = e \/ (e # Nothing /\ e.device = "external" /\ Unlinked(e).device = "none")
    BY EntriesAreSomething DEF Entries
  <1> HIDE DEF Unlinked
  <1>4. /\ \A u \in UniqueIds : ents[u] = Unlinked(registry.entities[u])
                                /\ registry.entities[u] \in Entries \union {Nothing}
        /\ \A k \in OldKinds : olds[k] = Unlinked(registry.old[k])
                               /\ registry.old[k] \in Entries \union {Nothing}
        /\ ents \in [UniqueIds -> Entries \union {Nothing}]
        /\ olds \in [OldKinds -> Entries \union {Nothing}]
    BY <1>2, <1>3, RegistryParts
  <1> HIDE DEF ents, olds
  <1>5. /\ registry' \in Registries /\ registry'.devices = registry.devices
        /\ registry'.misplaced = registry.misplaced /\ registry'.outdated = registry.outdated
        /\ registry'.entities = ents /\ registry'.old = olds
    BY <1>1, <1>2, <1>4 DEF Registries
  <1>6. \A u \in UniqueIds :
           /\ registry'.entities[u] = Nothing <=> registry.entities[u] = Nothing
           /\ \/ registry'.entities[u] = registry.entities[u]
              \/ /\ registry.entities[u] # Nothing /\ registry.entities[u].device = "external"
                 /\ registry'.entities[u].device = "none"
    BY <1>3, <1>4, <1>5
  <1>7. \A k \in OldKinds :
           /\ registry'.old[k] = Nothing <=> registry.old[k] = Nothing
           /\ \/ registry'.old[k] = registry.old[k]
              \/ registry.old[k] # Nothing /\ registry'.old[k].device = "none"
    BY <1>3, <1>4, <1>5
  <1>8. \A u \in ScheduleIds : u \in UniqueIds /\ u[1] # "relationships"
    BY ScheduleIdParts DEF ScheduleKinds
  <1>9. Sound(registry', store.born)
    <2>1. \A u \in UniqueIds :
             \/ registry'.entities[u] = registry.entities[u] \/ registry'.entities[u] = Nothing
             \/ /\ registry.entities[u] # Nothing /\ u \notin ScheduleIds
                /\ registry'.entities[u].device # "asset"
      BY <1>2, <1>6 DEF Sound
    <2> QED
      BY <1>2, <1>5, <1>6, <1>7, <2>1, FewerSound, SoundType
  <1>10. RegistryInv'
    BY <1>1, <1>5, <1>7, <1>9 DEF IInv, RegistryInv, Tracked, Unloaded
  <1>11. IssuesInv'
    BY <1>1 DEF IssuesInv, Attached
  <1>12. TypeOK'
    <2>1. StaleReferences(store, ~external) \subseteq Assets
      BY DEF StaleReferences, IInv, TypeOK
    <2> QED
      BY <1>1, <1>2, <1>5, <1>9, <2>1, SoundType DEF IInv, TypeOK, Registries
  <1>13. \A u \in UniqueIds : shown'[u] =
            IF shown[u] # Nothing /\ u[1] = "relationships" /\ Owner(u) \in indexed
            THEN View(store, ~external, u) ELSE shown[u]
    BY <1>1 DEF Running
  <1>14. ShownInv'
    <2>1. (~external') = external
      BY <1>1, <1>2
    <2>2. \A u : View(store', external', u) = View(store, ~external, u)
                /\ View(store', ~external', u) = View(store, external, u)
      BY <1>1, <2>1
    <2> SUFFICES ASSUME NEW u \in UniqueIds, shown'[u] # Nothing
                 PROVE  /\ Up(PlatformOf(u))
                        /\ \/ shown'[u] = View(store, ~external, u)
                           \/ /\ u[1] = "relationships" /\ Owner(u) \notin indexed
                              /\ shown'[u] = View(store, external, u)
      BY <1>1, <2>2 DEF ShownInv, Up
    <2>3. /\ Up(PlatformOf(u)) /\ shown[u] # Nothing
          /\ \/ shown[u] = View(store, external, u)
             \/ u[1] = "relationships" /\ shown[u] = View(store, ~external, u)
      BY <1>13 DEF IInv, ShownInv
    <2>4. CASE u[1] = "relationships" /\ Owner(u) \in indexed
      BY <1>13, <2>3, <2>4
    <2>5. CASE u[1] = "relationships" /\ Owner(u) \notin indexed
      BY <1>13, <2>3, <2>5
    <2>6. CASE u[1] # "relationships"
      BY <1>13, <2>3, <2>6, ViewPresent
    <2> QED
      BY <2>4, <2>5, <2>6
  <1>15. MaintenanceInv'
    <2>1. \A u \in ScheduleIds : shown'[u] = shown[u]
      BY <1>8, <1>13
    <2>2. \A u \in ScheduleIds : (registry'.entities[u] # Nothing) = (registry.entities[u] # Nothing)
      BY <1>6, <1>8
    <2> QED
      BY <1>1, <1>5, <2>1, <2>2 DEF IInv, MaintenanceInv, Up
  <1> QED
    BY <1>10, <1>11, <1>12, <1>14, <1>15 DEF IInv

\* A subentry goes with the entities and devices it still owns, or the Runtime one is
\* added.
LEMMA SubentryStep ==
  ASSUME IInv, RemoveSubentry \/ AddRuntime
  PROVE  IInv'
  <1>1. CASE AddRuntime
    BY <1>1 DEF AddRuntime, IInv, TypeOK, RegistryInv, Tracked, Unloaded, ShownInv,
       MaintenanceInv, IssuesInv, Up, Attached
  <1>2. ASSUME NEW x \in subentries, subentries' = subentries \ {x},
               registry' = WithoutSubentry(registry, x),
               UNCHANGED <<store, external, platforms, shown, indexed, issues>>
        PROVE  IInv'
    <2>1. Sound(registry, store.born) /\ x # "parent"
      BY DEF IInv, RegistryInv, TypeOK
    <2> DEFINE gone == IF x = "purchase" THEN registry.misplaced ELSE {}
    <2>2. /\ registry' \in Registries /\ registry'.devices = registry.devices \ gone
          /\ registry'.misplaced = registry.misplaced \ gone
          /\ registry'.outdated = registry.outdated \ gone
          /\ \A u \in UniqueIds : registry'.entities[u] =
                IF registry.entities[u] # Nothing /\ registry.entities[u].owner = x
                THEN Nothing ELSE registry.entities[u]
          /\ \A k \in OldKinds : registry'.old[k] =
                IF registry.old[k] # Nothing /\ registry.old[k].owner = x
                THEN Nothing ELSE registry.old[k]
      BY <1>2, <2>1, WithoutSubentryParts
    <2>3. Sound(registry', store.born)
      <3>1. /\ registry'.devices \subseteq registry.devices
            /\ registry'.misplaced \union registry'.outdated \subseteq registry'.devices
            /\ registry.devices \ registry.misplaced \subseteq registry'.devices \ registry'.misplaced
        BY <2>1, <2>2, SoundType
      <3> QED
        BY <2>1, <2>2, <3>1, FewerSound
    <2>4. \A u \in ScheduleIds : registry'.entities[u] = registry.entities[u]
      BY <2>1, <2>2, ScheduleIdParts DEF Sound
    <2>5. TypeOK'
      BY <1>2, <2>2, <2>3, SoundType DEF IInv, TypeOK, Registries
    <2>6. RegistryInv'
      BY <1>2, <2>2, <2>3 DEF IInv, RegistryInv, Tracked, Unloaded
    <2>7. ~Unloaded => registry'.devices = registry.devices
      BY <2>2 DEF IInv, RegistryInv
    <2>8. \A u \in ScheduleIds : Up(PlatformOf(u)) => ~Unloaded
      BY ScheduleIdParts DEF Up, Unloaded
    <2>9. ShownInv' /\ IssuesInv' /\ MaintenanceInv'
      BY <1>2, <2>4, <2>7, <2>8 DEF IInv, ShownInv, MaintenanceInv, IssuesInv, Up, Attached
    <2> QED
      BY <2>5, <2>6, <2>9 DEF IInv
  <1> QED
    BY <1>1, <1>2 DEF RemoveSubentry
-----------------------------------------------------------------------------
(* The invariant                                                             *)

\* Older builds leave sound registries.
LEMMA InitialSound ==
  ASSUME NEW reg \in InitialRegistries
  PROVE  Sound(reg, {First})
  <1> DEFINE Legacy(k) == Entry("old", "external",
                                IF k = "runtime" THEN "runtime" ELSE "purchase", "no")
             Current(u) == Entry(IF u[1] \in OldKinds THEN "old" ELSE "new", "asset",
                                 IF u[1] = "runtime" THEN "runtime" ELSE "parent",
                                 IF u[1] = "replacement" THEN "integration" ELSE "no")
             none == [devices |-> {}, misplaced |-> {}, outdated |-> {},
                      entities |-> [u \in UniqueIds |-> Nothing],
                      old |-> [k \in OldKinds |-> Nothing]]
             legacyIds == [none EXCEPT !.old = [k \in OldKinds |-> Legacy(k)]]
             legacyEntities == [none EXCEPT !.entities = [u \in UniqueIds |->
                IF u \in OldKinds \X {First} THEN Legacy(u[1]) ELSE Nothing]]
             early == {none, legacyIds, legacyEntities}
             complete == [none EXCEPT !.devices = {First}, !.entities = [u \in UniqueIds |->
                IF u \notin AssetKinds \X {First} THEN Nothing ELSE Current(u)]]
  <1>1. /\ \A k : Legacy(k) \in Entries /\ Legacy(k).device = "external"
        /\ \A u : Current(u) \in Entries
    BY DEF Entry, Entries
  <1>2. First \in Assets
    BY ExposureAssumption DEF First, Assets
  <1>3. \/ reg \in early
        \/ \E e \in early :
              reg = [e EXCEPT !.devices = {First}, !.misplaced = {First}, !.outdated = {First}]
        \/ reg \in {complete, Outdated(complete, {First})}
    BY DEF InitialRegistries
  <1> HIDE DEF Legacy, Current
  <1>4. /\ \A u \in OldKinds \X {First} : u \in AssetKinds \X {First}
        /\ \A u \in AssetKinds \X {First} : Owner(u) = First /\ u \notin ScheduleIds
    <2>1. \A u \in AssetKinds \X {First} : u \in AssetIds /\ u[2] = First
      BY <1>2 DEF AssetIds
    <2> QED
      BY <2>1, AssetIdParts DEF OldKinds, AssetKinds, KindOrder
  <1>5. ASSUME NEW e \in early
        PROVE  /\ Sound(e, {First})
               /\ \A u \in UniqueIds : e.entities[u] # Nothing => e.entities[u].device # "asset"
    <2>1. CASE e = none
      BY <2>1 DEF Sound, Registries
    <2>2. CASE e = legacyIds
      <3>1. /\ e.devices = {} /\ e.misplaced = {} /\ e.outdated = {}
            /\ e.entities = [u \in UniqueIds |-> Nothing]
            /\ e.old = [k \in OldKinds |-> Legacy(k)]
        BY <2>2
      <3>2. e \in Registries
        BY <1>1, <2>2 DEF Registries
      <3> QED
        BY <1>1, <3>1, <3>2, OldIds DEF Sound
    <2>3. CASE e = legacyEntities
      <3>1. /\ e.devices = {} /\ e.misplaced = {} /\ e.outdated = {}
            /\ e.old = [k \in OldKinds |-> Nothing]
            /\ e.entities = [u \in UniqueIds |->
                                IF u \in OldKinds \X {First} THEN Legacy(u[1]) ELSE Nothing]
        BY <2>3
      <3>2. e \in Registries
        BY <1>1, <2>3 DEF Registries
      <3>3. \A u \in UniqueIds : e.entities[u] # Nothing =>
               /\ u \in AssetKinds \X {First} /\ e.entities[u].device = "external"
        BY <1>1, <1>4, <3>1
      <3>4. \A k \in OldKinds : e.old[k] = Nothing
        BY <3>1
      <3> QED
        BY <1>4, <3>1, <3>2, <3>3, <3>4 DEF Sound
    <2> QED
      BY <2>1, <2>2, <2>3
  <1>6. ASSUME NEW e \in early,
               reg = [e EXCEPT !.devices = {First}, !.misplaced = {First}, !.outdated = {First}]
        PROVE  Sound(reg, {First})
    <2>1. /\ Sound(e, {First}) /\ e \in Registries
          /\ \A u \in UniqueIds : e.entities[u] # Nothing => e.entities[u].device # "asset"
      BY <1>5, SoundType
    <2> HIDE DEF early
    <2>2. /\ reg \in Registries /\ reg.devices = {First} /\ reg.misplaced = {First}
          /\ reg.outdated = {First} /\ reg.entities = e.entities /\ reg.old = e.old
      BY <1>2, <1>6, <2>1 DEF Registries
    <2> QED
      BY <2>1, <2>2 DEF Sound
  <1>7. Sound(complete, {First})
    <2> DEFINE c == complete
    <2>1. /\ c.devices = {First} /\ c.misplaced = {} /\ c.outdated = {}
          /\ c.old = [k \in OldKinds |-> Nothing]
          /\ c.entities = [u \in UniqueIds |->
                              IF u \notin AssetKinds \X {First} THEN Nothing ELSE Current(u)]
      OBVIOUS
    <2>2. c \in Registries
      BY <1>1, <1>2 DEF Registries
    <2> HIDE DEF complete, c
    <2>3. \A u \in UniqueIds : c.entities[u] # Nothing => u \in AssetKinds \X {First}
      BY <2>1
    <2>4. \A k \in OldKinds : c.old[k] = Nothing
      BY <2>1
    <2>5. Sound(c, {First})
      BY <1>4, <2>1, <2>2, <2>3, <2>4 DEF Sound
    <2> QED
      BY <2>5 DEF c
  <1> HIDE DEF early, complete
  <1>8. Sound(Outdated(complete, {First}), {First})
    BY <1>7, OutdatedSound
  <1> QED
    BY <1>3, <1>5, <1>6, <1>7, <1>8

LEMMA InitInv ==
  Init => IInv
  <1> SUFFICES ASSUME Init
               PROVE  IInv
    OBVIOUS
  <1>1. /\ store = [born |-> {First}, archived |-> {}, linked |-> {First}, replaced |-> FALSE,
                    schedules |-> [s \in Schedules |-> "none"]]
        /\ external = TRUE /\ subentries = {"purchase", "runtime"}
        /\ platforms = [p \in Platforms |-> "down"]
        /\ shown = [u \in UniqueIds |-> Nothing] /\ indexed = {} /\ issues = {}
        /\ Sound(registry, {First}) /\ First \in Assets
    BY InitialSound, ExposureAssumption DEF Init, First, Assets
  <1>2. registry \in Registries
    BY <1>1, SoundType
  <1>3. TypeOK
    BY <1>1, <1>2, SoundType DEF TypeOK, Registries
  <1>4. RegistryInv
    BY <1>1 DEF RegistryInv, Unloaded, Tracked
  <1>5. \A u \in ScheduleIds : ~Up(PlatformOf(u))
    BY <1>1, ScheduleIdParts DEF Up
  <1>6. ShownInv /\ MaintenanceInv /\ IssuesInv
    BY <1>1, <1>5 DEF ShownInv, MaintenanceInv, IssuesInv, Attached
  <1> QED
    BY <1>3, <1>4, <1>6 DEF IInv

LEMMA StepInv ==
  IInv /\ [Next]_vars => IInv'
  <1> SUFFICES ASSUME IInv, [Next]_vars
               PROVE  IInv'
    OBVIOUS
  <1>1. CASE UNCHANGED vars
    BY <1>1 DEF vars, IInv, TypeOK, RegistryInv, Tracked, Unloaded, ShownInv, MaintenanceInv,
       IssuesInv, Up, Attached
  <1>2. CASE Setup
    BY <1>2, SetupStep
  <1>3. CASE SetupFails
    BY <1>3, SetupFailsStep
  <1>4. CASE StartBinarySensors
    BY <1>4, StartBinarySensorsStep
  <1>5. CASE StartSensors
    BY <1>5, StartSensorsStep
  <1>6. CASE Unload
    BY <1>6, UnloadStep
  <1>7. CASE \/ CreateAsset \/ EditAsset \/ LinkOrUnlink \/ ReplaceOrVoid \/ ArchiveOrRestore
             \/ MaintainSchedule
    BY <1>7, MutationStep
  <1>8. CASE DeviceEvent
    BY <1>8, DeviceEventStep
  <1>9. CASE RemoveSubentry \/ AddRuntime
    BY <1>9, SubentryStep
  <1> QED
    BY <1>1, <1>2, <1>3, <1>4, <1>5, <1>6, <1>7, <1>8, <1>9 DEF Next

\* The inductive invariant: registries, shown entities and issues derive from the
\* Store between any two steps.
THEOREM Invariant == Spec => []IInv
  <1> QED
    BY InitInv, StepInv, PTL DEF Spec

-----------------------------------------------------------------------------
(* What is shown follows the Store                                           *)

\* The Maintenance entities, the issues and every running entity follow each
\* published snapshot and each registry event (MaintenanceEntityCoordinator,
\* async_add_publish_listener).
THEOREM FollowsTheStoreHolds == Spec => []FollowsTheStore
  <1>1. IInv => FollowsTheStore
    <2> SUFFICES ASSUME IInv
                 PROVE  FollowsTheStore
      OBVIOUS
    <2>1. \A u \in ScheduleIds : Up(PlatformOf(u)) =>
             /\ (u \in Registered(registry)) = (u \in Running)
             /\ (u \in Running) = (u \in Expected(store) /\ Owner(u) \in registry.devices)
      <3>1. \A u \in ScheduleIds : /\ u \in Registered(registry) <=> registry.entities[u] # Nothing
                                   /\ u \in Running <=> shown[u] # Nothing
        BY ScheduleIdParts DEF Registered, Running
      <3> QED
        BY <3>1 DEF IInv, MaintenanceInv
    <2>2. ASSUME NEW u \in Running
          PROVE  View(store, external, u) =
                    IF u[1] = "relationships" => Owner(u) \in indexed
                    THEN shown[u] ELSE [shown[u] EXCEPT !.present = external]
      <3>1. \/ shown[u] = View(store, external, u)
            \/ /\ u[1] = "relationships" /\ Owner(u) \notin indexed
               /\ shown[u] = View(store, ~external, u)
        BY DEF IInv, ShownInv, Running
      <3>2. CASE u[1] = "relationships" => Owner(u) \in indexed
        BY <3>1, <3>2
      <3>3. CASE u[1] = "relationships" /\ Owner(u) \notin indexed
        <4> DEFINE linked == Owner(u) \in store.linked
        <4>1. \A p : View(store, p, u) = [id |-> u, linked |-> linked, present |-> p]
          BY <3>3 DEF View
        <4> HIDE DEF linked
        <4>2. PICK q : shown[u] = [id |-> u, linked |-> linked, present |-> q]
          BY <3>1, <4>1
        <4>3. [shown[u] EXCEPT !.present = external]
                 = [id |-> u, linked |-> linked, present |-> external]
          BY <4>2
        <4> QED
          BY <3>3, <4>1, <4>3
      <3> QED
        BY <3>2, <3>3
    <2> QED
      BY <2>1, <2>2 DEF FollowsTheStore, IInv, IssuesInv
  <1> QED
    BY <1>1, Invariant, PTL

-----------------------------------------------------------------------------
(* Setup                                                                     *)

\* What the registry is when exposure starts.
LEMMA MigratedFirst ==
  ASSUME IInv
  PROVE  LET reg == Migrated(registry, OldKinds) IN
         /\ reg \in Registries /\ Sound(reg, store.born) /\ store.born \subseteq Assets
         /\ \A k \in OldKinds : reg.old[k] = Nothing
  <1>1. store.born \subseteq Assets /\ First \in store.born /\ Sound(registry, store.born)
    BY DEF IInv, TypeOK, RegistryInv
  <1>2. registry \in Registries
    BY <1>1, SoundType
  <1> QED
    BY <1>1, <1>2, MigratedSound, MigratedParts

\* A failed setup is compensated, whichever call of exposure raises and whichever
\* calls raise when their effects are taken back: the entities and the devices there
\* are, though not the updates of devices that were there (_rollback_exposure_registry).
THEOREM FailureIsCompensatedHolds == Spec => []FailureIsCompensated
  <1>1. IInv => FailureIsCompensated
    <2> DEFINE reg == Migrated(registry, OldKinds)
    <2> SUFFICES ASSUME IInv, NEW fault \in Faults(reg)
                 PROVE  LET left == RolledBack(reg, fault) IN
                        /\ fault.broken = {} =>
                              left.devices = reg.devices /\ left.entities = reg.entities
                        /\ left.old = reg.old
                        /\ reg.devices \subseteq left.devices
                        /\ left.misplaced = {a \in reg.misplaced : ~Done(fault, a)}
                        /\ left.outdated = {a \in reg.outdated : ~Done(fault, a)}
                        /\ \A a \in left.devices \ reg.devices :
                              a \in fault.broken \/ OnDevice(left, a) # {}
                        /\ \A u \in UniqueIds :
                              left.entities[u] # reg.entities[u] =>
                                 /\ EntityCall(u) \in fault.broken
                                 /\ left.entities[u] = Placed(reg, u)
      BY DEF FailureIsCompensated
    <2> DEFINE left == RolledBack(reg, fault)
    <2>1. reg \in Registries /\ Sound(reg, store.born) /\ store.born \subseteq Assets
      BY MigratedFirst
    <2> HIDE DEF reg
    <2>2. /\ left \in Registries /\ left.old = reg.old
          /\ \A u \in UniqueIds : left.entities[u] =
                IF u \in Updates(reg) /\ Done(fault, EntityCall(u))
                   /\ EntityCall(u) \in fault.broken
                THEN Placed(reg, u) ELSE reg.entities[u]
          /\ left.devices = reg.devices \union
                {a \in store.born : Done(fault, a)
                                    /\ (a \in fault.broken \/ OnDevice(left, a) # {})}
          /\ left.misplaced = reg.misplaced \ {a \in store.born : Done(fault, a)}
          /\ left.outdated = reg.outdated \ {a \in store.born : Done(fault, a)}
      BY <2>1, RolledBackParts
    <2> HIDE DEF left
    <2>3. ASSUME fault.broken = {}
          PROVE  left.devices = reg.devices /\ left.entities = reg.entities
      <3>1. \A u \in UniqueIds : left.entities[u] = reg.entities[u]
        BY <2>2, <2>3
      <3>2. \A a \in store.born : OnDevice(left, a) # {} => a \in reg.devices
        BY <2>1, <3>1 DEF OnDevice, Registered, Sound
      <3>3. left.devices = reg.devices
        BY <2>2, <2>3, <3>2
      <3>4. /\ reg.entities \in [UniqueIds -> Entries \union {Nothing}]
            /\ left.entities \in [UniqueIds -> Entries \union {Nothing}]
        BY <2>1, <2>2, RegistryParts
      <3> QED
        BY <3>1, <3>3, <3>4
    <2>4. /\ reg.devices \subseteq left.devices
          /\ \A a \in left.devices \ reg.devices : a \in fault.broken \/ OnDevice(left, a) # {}
      BY <2>2
    <2>5. \A u \in UniqueIds : left.entities[u] # reg.entities[u] =>
             EntityCall(u) \in fault.broken /\ left.entities[u] = Placed(reg, u)
      BY <2>2
    <2>6. /\ left.misplaced = {a \in reg.misplaced : ~Done(fault, a)}
          /\ left.outdated = {a \in reg.outdated : ~Done(fault, a)}
      BY <2>1, <2>2 DEF Sound
    <2> QED
      BY <2>2, <2>3, <2>4, <2>5, <2>6 DEF left
  <1> QED
    BY <1>1, Invariant, PTL

\* The next setup is never refused and puts everything where it belongs, whatever
\* came before it (async_reconcile_exposure_registry).
THEOREM NextSetupConvergesHolds == Spec => []NextSetupConverges
  <1>1. IInv => NextSetupConverges
    <2> DEFINE reg == Migrated(registry, OldKinds)
               done == Exposed(reg, NoFault)
    <2> SUFFICES ASSUME IInv
                 PROVE  /\ Migratable(registry) /\ Plannable(reg)
                        /\ done.devices = store.born
                        /\ done.misplaced = {} /\ done.outdated = {}
                        /\ \A u \in Registered(done) \intersect AssetIds :
                              /\ done.entities[u].device = "asset"
                              /\ done.entities[u].owner = "parent"
                              /\ u[1] = "replacement" /\ InReplacement(store, Owner(u)) =>
                                    done.entities[u].disabled = "no"
      BY DEF NextSetupConverges
    <2>1. /\ reg \in Registries /\ Sound(reg, store.born) /\ store.born \subseteq Assets
          /\ \A k \in OldKinds : reg.old[k] = Nothing
      BY MigratedFirst
    <2>2. Migratable(registry)
      BY DEF IInv, RegistryInv, Sound, Migratable
    <2> HIDE DEF reg
    <2>3. Plannable(reg)
      BY <2>1 DEF IInv, RegistryInv, Sound, Plannable, Registered
    <2>4. /\ done.devices = store.born /\ done.misplaced = {} /\ done.outdated = {}
          /\ \A u \in UniqueIds : done.entities[u] =
                IF u \in Updates(reg) THEN Placed(reg, u) ELSE reg.entities[u]
      BY <2>1, ExposedSound
    <2> HIDE DEF done
    <2>5. ASSUME NEW u \in Registered(done) \intersect AssetIds
          PROVE  /\ done.entities[u].device = "asset" /\ done.entities[u].owner = "parent"
                 /\ u[1] = "replacement" /\ InReplacement(store, Owner(u)) =>
                       done.entities[u].disabled = "no"
      <3>1. u \in UniqueIds /\ u \in AssetIds /\ done.entities[u] # Nothing
        BY DEF Registered
      <3>2. reg.entities[u] # Nothing
        BY <2>4, <3>1, UpdatesParts
      <3>3. done.entities[u] = Placed(reg, u)
        BY <2>4, <3>1, <3>2 DEF Updates, Registered
      <3>4. reg.entities[u].disabled \in {"no", "integration"}
        BY <2>1, <3>1, <3>2 DEF Registries, Entries
      <3> QED
        BY <2>1, <3>1, <3>2, <3>3, <3>4, PlacedParts DEF Enabled
    <2> QED
      BY <2>2, <2>3, <2>4, <2>5 DEF done
  <1> QED
    BY <1>1, Invariant, PTL
-----------------------------------------------------------------------------
(* Identities                                                                *)

\* What a step may do to the identities of this integration's entities.
Kept ==
    /\ \A u \in Registered(registry) :
        \/ registry'.entities[u].id = registry.entities[u].id
        \/ u \in ScheduleIds \ Expected(store')
        \/ registry.entities[u].owner \in subentries \ subentries'
    /\ \A k \in OldKinds : registry.old[k] # Nothing =>
        \/ registry'.old[k] # Nothing
        \/ registry'.entities[<<k, First>>].id = registry.old[k].id
        \/ registry.old[k].owner \in subentries \ subentries'

\* Migration gives every old unique ID its entity, and no entity is in its place.
LEMMA MigrationKeeps ==
  ASSUME IInv, NEW found \in {registry, Outdated(registry, Refreshed)},
         NEW kinds \in SUBSET OldKinds
  PROVE  LET m == Migrated(found, kinds) IN
         /\ m \in Registries
         /\ \A u \in UniqueIds : registry.entities[u] # Nothing =>
               m.entities[u] = registry.entities[u]
         /\ \A k \in OldKinds : registry.old[k] # Nothing =>
               IF k \in kinds THEN m.entities[<<k, First>>] = registry.old[k]
               ELSE m.old[k] = registry.old[k]
  <1> DEFINE m == Migrated(found, kinds)
  <1>1. registry \in Registries /\ Sound(registry, store.born)
    BY SoundType DEF IInv, RegistryInv
  <1>0. /\ found \in Registries /\ found.entities = registry.entities
        /\ found.old = registry.old
    BY <1>1, OutdatedParts
  <1>2. /\ m \in Registries
        /\ \A u \in UniqueIds : m.entities[u] =
              IF \E k \in kinds : registry.old[k] # Nothing /\ u = <<k, First>>
              THEN registry.old[u[1]] ELSE registry.entities[u]
        /\ \A k \in OldKinds : m.old[k] = IF k \in kinds THEN Nothing ELSE registry.old[k]
    BY <1>0, MigratedParts
  <1> HIDE DEF m
  <1>3. ASSUME NEW u \in UniqueIds, registry.entities[u] # Nothing
        PROVE  m.entities[u] = registry.entities[u]
    <2>1. ~ \E k \in kinds : registry.old[k] # Nothing /\ u = <<k, First>>
      BY <1>1, <1>3 DEF Sound
    <2> QED
      BY <1>2, <2>1
  <1>4. ASSUME NEW k \in kinds, registry.old[k] # Nothing
        PROVE  m.entities[<<k, First>>] = registry.old[k]
    <2>1. <<k, First>> \in UniqueIds /\ <<k, First>>[1] = k
      BY OldIds
    <2> QED
      BY <1>2, <1>4, <2>1
  <1> QED
    BY <1>2, <1>3, <1>4 DEF m

\* Setup, complete or failed.
LEMMA SetupKeeps ==
  ASSUME IInv, Setup \/ SetupFails
  PROVE  Kept
  <1>1. PICK found \in {registry, Outdated(registry, Refreshed)} :
           LET reg == Migrated(found, OldKinds) IN
           \/ registry' = Exposed(reg, NoFault)
           \/ \E kinds \in SUBSET OldKinds : registry' = Migrated(found, kinds)
           \/ \E fault \in Faults(reg) : registry' = RolledBack(reg, fault)
    BY DEF Setup, SetupFails
  <1> DEFINE reg == Migrated(found, OldKinds)
  <1>2. /\ reg \in Registries /\ store.born \subseteq Assets
        /\ \A u \in UniqueIds : registry.entities[u] # Nothing =>
              reg.entities[u] = registry.entities[u]
        /\ \A k \in OldKinds : registry.old[k] # Nothing =>
              reg.entities[<<k, First>>] = registry.old[k]
    BY MigrationKeeps DEF IInv, TypeOK
  <1>3. \A u \in UniqueIds : u \in Updates(reg) => Placed(reg, u).id = reg.entities[u].id
    BY <1>2, UpdatesParts, PlacedParts
  <1> HIDE DEF reg
  <1>4. ASSUME \A u \in UniqueIds :
                  \/ registry'.entities[u] = reg.entities[u]
                  \/ u \in Updates(reg) /\ registry'.entities[u] = Placed(reg, u)
        PROVE  Kept
    <2>1. \A u \in UniqueIds : registry'.entities[u].id = reg.entities[u].id
      BY <1>3, <1>4
    <2> QED
      BY <1>2, <2>1, OldIds DEF Kept, Registered
  <1>5. CASE registry' = Exposed(reg, NoFault)
    <2>1. \A u \in UniqueIds :
             \/ registry'.entities[u] = reg.entities[u]
             \/ u \in Updates(reg) /\ registry'.entities[u] = Placed(reg, u)
      BY <1>2, <1>5, ExposedParts
    <2> QED
      BY <1>4, <2>1
  <1>6. CASE \E fault \in Faults(reg) : registry' = RolledBack(reg, fault)
    <2>1. PICK fault \in Faults(reg) : registry' = RolledBack(reg, fault)
      BY <1>6
    <2>2. \A u \in UniqueIds : RolledBack(reg, fault).entities[u] =
             IF u \in Updates(reg) /\ Done(fault, EntityCall(u))
                /\ EntityCall(u) \in fault.broken
             THEN Placed(reg, u) ELSE reg.entities[u]
      BY <1>2, RolledBackParts
    <2>3. \A u \in UniqueIds :
             \/ registry'.entities[u] = reg.entities[u]
             \/ u \in Updates(reg) /\ registry'.entities[u] = Placed(reg, u)
      BY <2>1, <2>2
    <2> QED
      BY <1>4, <2>3
  <1>7. CASE \E kinds \in SUBSET OldKinds : registry' = Migrated(found, kinds)
    <2>1. PICK kinds \in SUBSET OldKinds : registry' = Migrated(found, kinds)
      BY <1>7
    <2>2. /\ \A u \in UniqueIds : registry.entities[u] # Nothing =>
                registry'.entities[u] = registry.entities[u]
          /\ \A k \in OldKinds : registry.old[k] # Nothing =>
                IF k \in kinds THEN registry'.entities[<<k, First>>] = registry.old[k]
                ELSE registry'.old[k] = registry.old[k]
      BY <2>1, MigrationKeeps
    <2> QED
      BY <2>2 DEF Kept, Registered
  <1> QED
    BY <1>1, <1>5, <1>6, <1>7 DEF reg

\* A platform drops orphans and adds entities under the entity IDs they had.
LEMMA PlatformKeeps ==
  ASSUME IInv, NEW p, NEW ids, registry' = Added(WithoutOrphans(registry, p), ids),
         store' = store
  PROVE  Kept
  <1> DEFINE reg == WithoutOrphans(registry, p)
  <1>1. registry \in Registries
    BY SoundType DEF IInv, RegistryInv
  <1>2. /\ reg \in Registries /\ reg.old = registry.old
        /\ \A u \in UniqueIds : reg.entities[u] =
              IF u \in ScheduleIds \ Expected(store) /\ PlatformOf(u) = p
              THEN Nothing ELSE registry.entities[u]
    BY <1>1, WithoutOrphansParts
  <1> HIDE DEF reg
  <1>3. /\ registry'.old = registry.old
        /\ \A u \in UniqueIds : reg.entities[u] # Nothing =>
              registry'.entities[u].id = reg.entities[u].id
    BY <1>2, AddedParts DEF reg
  <1> QED
    BY <1>2, <1>3 DEF Kept, Registered

\* A published snapshot takes only the entities of Schedules it no longer calls for.
LEMMA PublishKeeps ==
  ASSUME IInv, NEW st, NEW changed, NEW renamed, Publish(st, changed, renamed)
  PROVE  Kept
  <1> DEFINE orphans == Orphans(st, changed)
             built == {u \in Expected(st) \ Running :
                         /\ Owner(u) \in changed \intersect registry.devices
                         /\ Up(PlatformOf(u))}
             base == Outdated(registry, renamed)
             ents == [u \in UniqueIds |-> IF u \in orphans THEN Nothing ELSE base.entities[u]]
             reg == [base EXCEPT !.entities = ents]
  <1>1. store' = st /\ registry' = Added(reg, built)
    BY DEF Publish
  <1>2. registry \in Registries
    BY SoundType DEF IInv, RegistryInv
  <1>3. \A u \in orphans : u \in ScheduleIds \ Expected(st)
    BY DEF Orphans
  <1>4. /\ reg \in Registries /\ reg.old = registry.old
        /\ \A u \in UniqueIds : reg.entities[u] =
              IF u \in orphans THEN Nothing ELSE registry.entities[u]
    <2>1. /\ base \in Registries /\ base.devices = registry.devices
          /\ base.misplaced = registry.misplaced /\ base.entities = registry.entities
          /\ base.old = registry.old
      BY <1>2, OutdatedParts
    <2> HIDE DEF base
    <2>2. ents \in [UniqueIds -> Entries \union {Nothing}]
      BY <2>1, RegistryParts
    <2>3. \A u \in UniqueIds : ents[u] = IF u \in orphans THEN Nothing ELSE registry.entities[u]
      BY <2>1
    <2> HIDE DEF ents, orphans
    <2> QED
      BY <2>1, <2>2, <2>3 DEF Registries
  <1> HIDE DEF orphans, built, ents, reg
  <1>5. /\ registry'.old = registry.old
        /\ \A u \in UniqueIds : reg.entities[u] # Nothing =>
              registry'.entities[u].id = reg.entities[u].id
    BY <1>1, <1>4, AddedParts
  <1> QED
    BY <1>1, <1>3, <1>4, <1>5 DEF Kept, Registered

\* No entity loses its entity ID but with its Schedule, its reminder or the subentry it
\* still belonged to (ARCHITECTURE.md: "preserving its entity ID").
THEOREM IdentitiesAreKeptHolds == Spec => IdentitiesAreKept
  <1>1. IInv /\ [Next]_vars => [Kept]_vars
    <2> SUFFICES ASSUME IInv, Next
                 PROVE  Kept
      OBVIOUS
    <2>1. CASE Setup \/ SetupFails
      BY <2>1, SetupKeeps
    <2>2. CASE StartBinarySensors
      BY <2>2, PlatformKeeps DEF StartBinarySensors
    <2>3. CASE StartSensors
      <3>1. CASE store.born \subseteq registry.devices
        BY <2>3, <3>1, PlatformKeeps DEF StartSensors
      <3>2. CASE ~(store.born \subseteq registry.devices)
        BY <2>3, <3>2 DEF StartSensors, Kept
      <3> QED
        BY <3>1, <3>2
    <2>4. CASE Unload \/ AddRuntime
      BY <2>4 DEF Unload, AddRuntime, Kept
    <2>5. CASE \/ CreateAsset \/ EditAsset \/ LinkOrUnlink \/ ReplaceOrVoid
               \/ ArchiveOrRestore \/ MaintainSchedule
      <3>1. \E st, changed, renamed : Publish(st, changed, renamed)
        BY <2>5 DEF CreateAsset, EditAsset, LinkOrUnlink, ReplaceOrVoid, ArchiveOrRestore,
           MaintainSchedule
      <3> QED
        BY <3>1, PublishKeeps
    <2>6. CASE DeviceEvent
      <3> DEFINE Unlinked(e) == IF e # Nothing /\ e.device = "external"
                                THEN [e EXCEPT !.device = "none"] ELSE e
                 ents == [u \in UniqueIds |-> Unlinked(registry.entities[u])]
                 olds == [k \in OldKinds |-> Unlinked(registry.old[k])]
      <3>1. registry \in Registries
        BY SoundType DEF IInv, RegistryInv
      <3>2. registry' = [registry EXCEPT !.entities = ents, !.old = olds]
        BY <2>6 DEF DeviceEvent
      <3>3. \A e \in Entries \union {Nothing} :
               /\ Unlinked(e).id = e.id
               /\ e # Nothing => Unlinked(e) # Nothing
        BY EntriesAreSomething DEF Entries
      <3> HIDE DEF Unlinked
      <3>4. /\ \A u \in UniqueIds : ents[u] = Unlinked(registry.entities[u])
                                    /\ registry.entities[u] \in Entries \union {Nothing}
            /\ \A k \in OldKinds : olds[k] = Unlinked(registry.old[k])
                                   /\ registry.old[k] \in Entries \union {Nothing}
        BY <3>1, RegistryParts
      <3> HIDE DEF ents, olds
      <3>5. registry'.entities = ents /\ registry'.old = olds
        BY <3>1, <3>2 DEF Registries
      <3> QED
        BY <3>3, <3>4, <3>5 DEF Kept, Registered
    <2>7. CASE RemoveSubentry
      <3>1. PICK x \in subentries : /\ subentries' = subentries \ {x}
                                    /\ registry' = WithoutSubentry(registry, x)
        BY <2>7 DEF RemoveSubentry
      <3>2. Sound(registry, store.born)
        BY DEF IInv, RegistryInv
      <3>3. /\ \A u \in UniqueIds : registry'.entities[u] =
                  IF registry.entities[u] # Nothing /\ registry.entities[u].owner = x
                  THEN Nothing ELSE registry.entities[u]
            /\ \A k \in OldKinds : registry'.old[k] =
                  IF registry.old[k] # Nothing /\ registry.old[k].owner = x
                  THEN Nothing ELSE registry.old[k]
        BY <3>1, <3>2, WithoutSubentryParts
      <3> QED
        BY <3>1, <3>3 DEF Kept, Registered
    <2> QED
      BY <2>1, <2>2, <2>3, <2>4, <2>5, <2>6, <2>7 DEF Next
  <1> QED
    BY <1>1, Invariant, PTL DEF Spec, IdentitiesAreKept, Kept
=============================================================================
