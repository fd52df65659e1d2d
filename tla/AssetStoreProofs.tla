-------------------------- MODULE AssetStoreProofs --------------------------
(***************************************************************************)
(* Proofs about AssetStore for any number of callers, managers, Assets,    *)
(* permanent numbers and faults.                                           *)
(***************************************************************************)
EXTENDS AssetStoreInvariant, StoreDataLemmas

\* Ending a call keeps the types, whatever its answer.
LEMMA ReturnType ==
  ASSUME TypeInv, NEW t \in Tasks, NEW o \in Outcomes, Return(t, o)
  PROVE  /\ lock' \in Tasks \union {EntryTask, Nobody}
         /\ pc' \in [Tasks -> {"idle", "queued"} \union Holding]
         /\ target' \in [Tasks -> Managers \union {Nobody}]
         /\ request' \in [Tasks -> Requests \union {NoRequest}]
         /\ landed' \in [Tasks -> BOOLEAN]
         /\ outcome' \in Outcomes
         /\ candidate' \in Snapshot /\ cancelled' \in BOOLEAN
         /\ \A s \in Tasks : pc'[s] # "idle" =>
               target'[s] \in Managers /\ request'[s] \in Requests
  BY EmptyType DEF Return, TypeInv, TypeOK

\* A mutation under the lock keeps the types, whatever snapshot it starts from.
LEMMA MutateType ==
  ASSUME TypeInv, NEW t \in Tasks, pc[t] # "idle",
         NEW d \in Snapshot, Mutate(t, d)
  PROVE  /\ lock' \in Tasks \union {EntryTask, Nobody}
         /\ pc' \in [Tasks -> {"idle", "queued"} \union Holding]
         /\ target' \in [Tasks -> Managers \union {Nobody}]
         /\ request' \in [Tasks -> Requests \union {NoRequest}]
         /\ landed' \in [Tasks -> BOOLEAN]
         /\ outcome' \in Outcomes
         /\ candidate' \in Snapshot /\ cancelled' \in BOOLEAN
         /\ \A s \in Tasks : pc'[s] # "idle" =>
               target'[s] \in Managers /\ request'[s] \in Requests
  <1>1. Apply(d, request[t]) \in Snapshot
    BY ApplyType DEF TypeInv
  <1> QED
    BY <1>1, EmptyType DEF Mutate, Return, TypeInv, TypeOK, Holding, Writing, Outcomes

\* Every step of a call keeps the types.
LEMMA CallType ==
  ASSUME TypeInv, NEW t \in Tasks, CallStep(t)
  PROVE  TypeInv'
  <1> USE EmptyType DEF TypeInv, TypeOK, diskVars, managerVars, entryVars,
                        Holding, Writing, SetupHolding, Outcomes
  <1>1. ASSUME NEW m \in Managers, NEW r \in Requests, Invoke(t, m, r)
        PROVE  TypeInv'
    BY <1>1 DEF Invoke
  <1>2. CASE RefuseFenced(t)
    BY <1>2 DEF RefuseFenced, Return
  <1>3. CASE BeginRecovery(t)
    BY <1>3 DEF BeginRecovery
  <1>4. CASE BeginMutation(t)
    <2>1. data[target[t]] \in Snapshot
      BY <1>4 DEF BeginMutation, Active
    <2> QED
      BY <1>4, <2>1, MutateType DEF BeginMutation
  <1>5. CASE Recover(t)
    BY <1>5, MutateType DEF Recover, Publish, SetUncertain
  <1>6. CASE RecoveryFails(t)
    BY <1>6 DEF RecoveryFails, Return
  <1>7. CASE WriteLands(t)
    BY <1>7 DEF WriteLands
  <1>8. CASE WriteFails(t)
    BY <1>8 DEF WriteFails
  <1>9. CASE Verified(t)
    <2>1. PICK o \in Outcomes : Return(t, o)
      BY <1>9 DEF Verified
    <2> QED
      BY <1>9, <2>1, ReturnType DEF Verified, Publish, SetUncertain
  <1>10. CASE Unverified(t)
    <2>1. CASE ~cancelled /\ Replayable(request[t])
      BY <1>10, <2>1 DEF Unverified, SetUncertain
    <2>2. CASE ~(~cancelled /\ Replayable(request[t]))
      <3>1. PICK o \in Outcomes : Return(t, o)
        BY <1>10, <2>2 DEF Unverified
      <3> QED
        BY <1>10, <3>1, ReturnType DEF Unverified, SetUncertain
    <2> QED
      BY <2>1, <2>2
  <1>11. CASE Resolve(t)
    <2>1. PICK o \in Outcomes : Return(t, o)
      BY <1>11 DEF Resolve
    <2> QED
      BY <1>11, <2>1, ReturnType DEF Resolve, Publish, SetUncertain
  <1>12. CASE ResolutionFails(t)
    BY <1>12 DEF ResolutionFails, Return
  <1>13. CASE CancelWaiting(t)
    BY <1>13 DEF CancelWaiting, Return
  <1>14. CASE CancelSave(t)
    BY <1>14 DEF CancelSave, SetUncertain
  <1> QED
    BY <1>1, <1>2, <1>3, <1>4, <1>5, <1>6, <1>7, <1>8, <1>9, <1>10, <1>11, <1>12,
       <1>13, <1>14 DEF CallStep, AcquireStep, HolderStep

\* Every step of entry setup and unload keeps the types.
LEMMA EntryType ==
  ASSUME TypeInv, EntryStep
  PROVE  TypeInv'
  <1> USE EmptyType DEF TypeInv, TypeOK, diskVars, managerVars, callVars, entryVars,
                        Holding, Writing, SetupHolding, Outcomes, SetupFails
  <1>1. ASSUME NEW m \in Managers, SetupBegin(m)
        PROVE  TypeInv'
    BY <1>1 DEF SetupBegin, SetUncertain
  <1>2. CASE SetupCancelledInQueue
    BY <1>2 DEF SetupCancelledInQueue
  <1>3. CASE SetupTakesOver
    BY <1>3 DEF SetupTakesOver
  <1>4. CASE SetupProbe
    BY <1>4 DEF SetupProbe
  <1>5. CASE LoadCurrent
    BY <1>5 DEF LoadCurrent, SetupSucceeds, Publish, SetUncertain
  <1>6. CASE LoadAbsent
    BY <1>6 DEF LoadAbsent, SetupSucceeds, Publish, SetUncertain
  <1>7. CASE LoadCorrupt
    BY <1>7 DEF LoadCorrupt
  <1>8. CASE LoadFails
    BY <1>8 DEF LoadFails
  <1>9. CASE BeginMigration
    BY <1>9, MigrateType DEF BeginMigration
  <1>10. CASE MigrationLands
    BY <1>10 DEF MigrationLands
  <1>11. CASE MigrationWriteFails
    BY <1>11 DEF MigrationWriteFails
  <1>12. CASE MigrationVerified
    BY <1>12 DEF MigrationVerified, Publish, SetUncertain
  <1>13. CASE MigrationUnverified
    BY <1>13 DEF MigrationUnverified
  <1>14. CASE EntryLoaded \/ EntrySetupRaises \/ UnloadBegin
    BY <1>14 DEF EntryLoaded, EntrySetupRaises, UnloadBegin
  <1>15. CASE Retire
    BY <1>15 DEF Retire
  <1> QED
    BY <1>1, <1>2, <1>3, <1>4, <1>5, <1>6, <1>7, <1>8, <1>9, <1>10, <1>11, <1>12,
       <1>13, <1>14, <1>15 DEF EntryStep, SetupHolderStep

\* Faults and restarts keep the types.
LEMMA FaultType ==
  ASSUME TypeInv, FaultStep
  PROVE  TypeInv'
  <1> USE EmptyType, ConstantsAssumption
      DEF TypeInv, TypeOK, diskVars, managerVars, callVars, entryVars,
          Holding, Writing, SetupHolding, Outcomes
  <1>1. CASE ProcessStops
    <2>1. faults' \in 0..MaxFaults
      BY <1>1 DEF ProcessStops
    <2>2. /\ pc' = [t \in Tasks |-> "idle"] /\ target' = [t \in Tasks |-> Nobody]
          /\ request' = [t \in Tasks |-> NoRequest]
          /\ landed' = [t \in Tasks |-> FALSE]
      BY <1>1 DEF ProcessStops
    <2> QED
      BY <1>1, <2>1, <2>2 DEF ProcessStops
  <1>2. CASE ProcessStarts \/ BackupRestored
    BY <1>2 DEF ProcessStarts, BackupRestored
  <1>3. CASE FileCorrupted \/ FileDeleted
    BY <1>3 DEF FileCorrupted, FileDeleted
  <1> QED
    BY <1>1, <1>2, <1>3 DEF FaultStep

\* The initial state is well typed.
LEMMA InitType == Init => TypeInv
  <1> SUFFICES ASSUME Init
               PROVE  TypeInv
    OBVIOUS
  <1>1. durable \in Snapshot
    BY EmptyType, AllocateType DEF Init
  <1>2. faults \in 0..MaxFaults
    BY ConstantsAssumption DEF Init
  <1> QED
    BY <1>1, <1>2, EmptyType
    DEF Init, TypeInv, TypeOK, Holding, Writing, SetupHolding, Outcomes

\* Type correctness: in every reachable state each variable of the protocol,
\* the fence, the managers, the calls and the files has its type.
THEOREM TypeCorrect == Spec => []TypeOK
  <1>1. TypeInv /\ [Next]_vars => TypeInv'
    <2> SUFFICES ASSUME TypeInv, [Next]_vars
                 PROVE  TypeInv'
      OBVIOUS
    <2>1. CASE Next
      BY <2>1, CallType, EntryType, FaultType DEF Next
    <2>2. CASE UNCHANGED vars
      BY <2>2 DEF vars, TypeInv, TypeOK
    <2> QED
      BY <2>1, <2>2
  <1>2. TypeInv => TypeOK
    BY DEF TypeInv
  <1> QED
    BY InitType, <1>1, <1>2, PTL DEF Spec
\* Every step of a call keeps the inductive invariant.
LEMMA CallKeeps ==
  ASSUME IInv, NEW t \in Tasks, CallStep(t)
  PROVE  IInv'
  <1> USE ConstantsAssumption
      DEF IInv, TypeInv, TypeOK, LockInv, CallInv, EntryInv, HolderInv, SaveInv,
          EvidenceInv, FileInv, Coherent, Active, diskVars, managerVars, entryVars,
          Holding, Writing, SetupHolding
  <1>0. TypeInv'
    BY CallType
  <1>1. ASSUME NEW m \in Managers, NEW r \in Requests, Invoke(t, m, r)
        PROVE  IInv'
    BY <1>0, <1>1 DEF Invoke, Prepared
  <1>2. CASE RefuseFenced(t)
    BY <1>0, <1>2 DEF RefuseFenced, Return
  <1>3. CASE BeginRecovery(t)
    BY <1>0, <1>3 DEF BeginRecovery
  <1>4. CASE BeginMutation(t)
    <2>1. LockInv' /\ CallInv'
      BY <1>0, <1>4 DEF BeginMutation, Mutate, Return, Prepared
    <2>2. EntryInv' /\ HolderInv'
      BY <1>0, <1>4 DEF BeginMutation, Mutate, Return, Prepared
    <2>3. SaveInv'
      BY <1>0, <1>4 DEF BeginMutation, Mutate, Return, Prepared
    <2>4. EvidenceInv' /\ FileInv'
      BY <1>0, <1>4 DEF BeginMutation, Mutate, Return, Prepared
    <2>5. Coherent'
      BY <1>0, <1>4 DEF BeginMutation, Mutate, Return, Prepared
    <2> QED
      BY <1>0, <2>1, <2>2, <2>3, <2>4, <2>5
  <1>5. CASE Recover(t)
    <2>1. LockInv' /\ CallInv'
      BY <1>0, <1>5 DEF Recover, Publish, SetUncertain, Mutate, Return, Prepared
    <2>2. EntryInv' /\ HolderInv'
      BY <1>0, <1>5 DEF Recover, Publish, SetUncertain, Mutate, Return, Prepared
    <2>3. SaveInv'
      BY <1>0, <1>5 DEF Recover, Publish, SetUncertain, Mutate, Return, Prepared
    <2>4. EvidenceInv' /\ FileInv'
      BY <1>0, <1>5 DEF Recover, Publish, SetUncertain, Mutate, Return, Prepared
    <2>5. Coherent'
      BY <1>0, <1>5 DEF Recover, Publish, SetUncertain, Mutate, Return, Prepared
    <2> QED
      BY <1>0, <2>1, <2>2, <2>3, <2>4, <2>5
  <1>6. CASE RecoveryFails(t)
    BY <1>0, <1>6 DEF RecoveryFails, Return
  <1>7. CASE WriteLands(t)
    <2>1. LockInv' /\ CallInv'
      BY <1>0, <1>7 DEF WriteLands, Prepared
    <2>2. EntryInv' /\ HolderInv'
      BY <1>0, <1>7 DEF WriteLands, Prepared
    <2>3. SaveInv'
      <3>1. durable \in Snapshot /\ durable.next # 0 /\ request[t] \in Requests
        BY <1>7 DEF WriteLands, ValidIdentity
      <3>2. Reflects(candidate, request[t])
        BY <1>7, <3>1, AppliedReflected DEF WriteLands, Prepared
      <3> QED
        BY <1>0, <1>7, <3>2 DEF WriteLands, Prepared
    <2>4. EvidenceInv' /\ FileInv'
      BY <1>0, <1>7 DEF WriteLands, Prepared
    <2>5. Coherent'
      BY <1>0, <1>7 DEF WriteLands, Prepared
    <2> QED
      BY <1>0, <2>1, <2>2, <2>3, <2>4, <2>5
  <1>8. CASE WriteFails(t)
    BY <1>0, <1>8 DEF WriteFails, Prepared
  <1>9. CASE Verified(t)
    <2>1. LockInv' /\ CallInv'
      BY <1>0, <1>9 DEF Verified, Matches, Publish, SetUncertain, Return, Prepared
    <2>2. EntryInv' /\ HolderInv'
      BY <1>0, <1>9 DEF Verified, Matches, Publish, SetUncertain, Return, Prepared
    <2>3. SaveInv'
      BY <1>0, <1>9 DEF Verified, Matches, Publish, SetUncertain, Return, Prepared
    <2>4. EvidenceInv' /\ FileInv'
      BY <1>0, <1>9 DEF Verified, Matches, Publish, SetUncertain, Return, Prepared
    <2>5. Coherent'
      BY <1>0, <1>9 DEF Verified, Matches, Publish, SetUncertain, Return, Prepared
    <2> QED
      BY <1>0, <2>1, <2>2, <2>3, <2>4, <2>5
  <1>10. CASE Unverified(t)
    <2>1. LockInv' /\ CallInv'
      BY <1>0, <1>10 DEF Unverified, SetUncertain, Return, Prepared
    <2>2. EntryInv' /\ HolderInv'
      BY <1>0, <1>10 DEF Unverified, SetUncertain, Return, Prepared
    <2>3. SaveInv'
      <3>1. Reflects(durable, request[t]) <=> landed[t]
        BY <1>10, ChangedNotReflected DEF Unverified, Prepared
      <3>2. CASE ~cancelled /\ Replayable(request[t])
        BY <1>0, <1>10, <3>1, <3>2 DEF Unverified, SetUncertain, Prepared
      <3>3. CASE ~(~cancelled /\ Replayable(request[t]))
        BY <1>0, <1>10, <3>3 DEF Unverified, SetUncertain, Return, Prepared
      <3> QED
        BY <3>2, <3>3
    <2>4. EvidenceInv' /\ FileInv'
      BY <1>0, <1>10 DEF Unverified, SetUncertain, Return, Prepared
    <2>5. Coherent'
      BY <1>0, <1>10 DEF Unverified, SetUncertain, Return, Prepared
    <2> QED
      BY <1>0, <2>1, <2>2, <2>3, <2>4, <2>5
  <1>11. CASE Resolve(t)
    BY <1>0, <1>11 DEF Resolve, Publish, SetUncertain, Return
  <1>12. CASE ResolutionFails(t)
    BY <1>0, <1>12 DEF ResolutionFails, Return
  <1>13. CASE CancelWaiting(t)
    <2>1. SaveInv'
      <3> SUFFICES ASSUME NEW s \in Tasks, s # t
                   PROVE  /\ pc'[s] = pc[s] /\ request'[s] = request[s]
                          /\ landed'[s] = landed[s]
                          /\ pc[s] \in Writing => candidate' = candidate
        BY <1>13 DEF CancelWaiting, Return, Prepared
      <3> QED
        BY <1>13 DEF CancelWaiting, Return
    <2> QED
      BY <1>0, <1>13, <2>1 DEF CancelWaiting, Return
  <1>14. CASE CancelSave(t)
    BY <1>0, <1>14 DEF CancelSave, SetUncertain, Prepared
  <1> QED
    BY <1>1, <1>2, <1>3, <1>4, <1>5, <1>6, <1>7, <1>8, <1>9, <1>10, <1>11, <1>12,
       <1>13, <1>14 DEF CallStep, AcquireStep, HolderStep

\* Every step of entry setup and unload keeps the inductive invariant.
LEMMA EntryKeeps ==
  ASSUME IInv, EntryStep
  PROVE  IInv'
  <1> USE ConstantsAssumption
      DEF IInv, TypeInv, TypeOK, LockInv, CallInv, EntryInv, HolderInv, SaveInv,
          EvidenceInv, FileInv, Coherent, Prepared, Active, diskVars, managerVars, callVars,
          entryVars, Holding, Writing, SetupHolding
  <1>0. TypeInv'
    BY EntryType
  <1>1. ASSUME NEW m \in Managers, SetupBegin(m)
        PROVE  IInv'
    BY <1>0, <1>1 DEF SetupBegin, SetUncertain
  <1>2. CASE SetupCancelledInQueue
    BY <1>0, <1>2 DEF SetupCancelledInQueue
  <1>3. CASE SetupTakesOver
    BY <1>0, <1>3 DEF SetupTakesOver
  <1>4. CASE SetupProbe
    BY <1>0, <1>4 DEF SetupProbe
  <1>5. CASE LoadCurrent
    BY <1>0, <1>5 DEF LoadCurrent, SetupSucceeds, Publish, SetUncertain
  <1>6. CASE LoadAbsent
    BY <1>0, <1>6 DEF LoadAbsent, SetupSucceeds, SetupFails, Publish, SetUncertain
  <1>7. CASE LoadCorrupt
    BY <1>0, <1>7 DEF LoadCorrupt, SetupFails
  <1>8. CASE LoadFails
    BY <1>0, <1>8 DEF LoadFails, SetupFails
  <1>9. CASE BeginMigration
    BY <1>0, <1>9, MigrateLegacy DEF BeginMigration
  <1>10. CASE MigrationLands
    BY <1>0, <1>10 DEF MigrationLands
  <1>11. CASE MigrationWriteFails
    BY <1>0, <1>11 DEF MigrationWriteFails
  <1>12. CASE MigrationVerified
    BY <1>0, <1>12 DEF MigrationVerified, Matches, Publish, SetUncertain
  <1>13. CASE MigrationUnverified
    BY <1>0, <1>13 DEF MigrationUnverified, SetupFails
  <1>14. CASE EntryLoaded \/ EntrySetupRaises \/ UnloadBegin
    BY <1>0, <1>14 DEF EntryLoaded, EntrySetupRaises, UnloadBegin
  <1>15. CASE Retire
    BY <1>0, <1>15 DEF Retire
  <1> QED
    BY <1>1, <1>2, <1>3, <1>4, <1>5, <1>6, <1>7, <1>8, <1>9, <1>10, <1>11, <1>12,
       <1>13, <1>14, <1>15 DEF EntryStep, SetupHolderStep

\* Faults and restarts keep the inductive invariant.
LEMMA FaultKeeps ==
  ASSUME IInv, FaultStep
  PROVE  IInv'
  <1> USE ConstantsAssumption
      DEF IInv, TypeInv, TypeOK, LockInv, CallInv, EntryInv, HolderInv, SaveInv,
          EvidenceInv, FileInv, Coherent, Prepared, Active, diskVars, managerVars, callVars,
          entryVars, Holding, Writing, SetupHolding
  <1>0. TypeInv'
    BY FaultType
  <1>1. CASE ProcessStops
    BY <1>0, <1>1 DEF ProcessStops
  <1>2. CASE ProcessStarts
    BY <1>0, <1>2 DEF ProcessStarts
  <1>3. CASE FileCorrupted
    BY <1>0, <1>3 DEF FileCorrupted
  <1>4. CASE BackupRestored
    BY <1>0, <1>4 DEF BackupRestored
  <1>5. CASE FileDeleted
    BY <1>0, <1>5 DEF FileDeleted
  <1> QED
    BY <1>1, <1>2, <1>3, <1>4, <1>5 DEF FaultStep

\* The invariant holds initially.
LEMMA InitInv == Init => IInv
  <1> SUFFICES ASSUME Init
               PROVE  IInv
    OBVIOUS
  <1>1. ValidIdentity(durable)
    BY EmptyValid, MaxNumberAssumption
    DEF Init, ValidIdentity, Allocate, Empty, Exists
  <1>2. TypeInv
    BY InitType
  <1> QED
    BY <1>1, <1>2, ConstantsAssumption
    DEF Init, IInv, LockInv, CallInv, EntryInv, HolderInv, SaveInv, EvidenceInv,
        FileInv, Coherent, Holding, Writing, SetupHolding, Empty, Allocate

\* IInv is an inductive invariant of the protocol.
THEOREM Invariant == Spec => []IInv
  <1>1. IInv /\ [Next]_vars => IInv'
    <2> SUFFICES ASSUME IInv, [Next]_vars
                 PROVE  IInv'
      OBVIOUS
    <2>1. CASE Next
      BY <2>1, CallKeeps, EntryKeeps, FaultKeeps DEF Next
    <2>2. CASE UNCHANGED vars
      BY <2>2
      DEF vars, IInv, TypeInv, TypeOK, LockInv, CallInv, EntryInv, HolderInv, SaveInv,
          Prepared, EvidenceInv, FileInv, Coherent, Active
    <2> QED
      BY <2>1, <2>2
  <1> QED
    BY InitInv, <1>1, PTL DEF Spec

-----------------------------------------------------------------------------
\* Between calls, an active manager that is not in doubt publishes exactly
\* what the disk holds.
THEOREM CoherentHolds == Spec => []Coherent
  <1>1. IInv => Coherent
    BY DEF IInv
  <1> QED
    BY Invariant, <1>1, PTL

\* Only WriteLands changes the payload on disk: no other step of a call, of
\* entry setup (migration included) or of a fault does.
LEMMA DurableStep ==
  ASSUME IInv, [Next]_vars
  PROVE  durable' = durable \/ \E t \in Tasks : WriteLands(t)
  <1> USE DEF diskVars
  <1>1. ASSUME NEW t \in Tasks, CallStep(t), ~WriteLands(t)
        PROVE  durable' = durable
    BY <1>1
    DEF CallStep, AcquireStep, HolderStep, Invoke, RefuseFenced, BeginRecovery,
        BeginMutation, Recover, RecoveryFails, WriteFails, Verified, Unverified,
        Resolve, ResolutionFails, CancelWaiting, CancelSave
  <1>2. CASE EntryStep
    BY <1>2
    DEF EntryStep, SetupHolderStep, SetupBegin, SetupCancelledInQueue, SetupTakesOver,
        SetupProbe, LoadCurrent, LoadAbsent, LoadCorrupt, LoadFails, BeginMigration,
        MigrationLands, MigrationWriteFails, MigrationVerified, MigrationUnverified,
        EntryLoaded, EntrySetupRaises, UnloadBegin, Retire, IInv, FileInv
  <1>3. CASE FaultStep
    BY <1>3
    DEF FaultStep, ProcessStops, ProcessStarts, FileCorrupted, BackupRestored, FileDeleted
  <1>4. CASE UNCHANGED vars
    BY <1>4 DEF vars
  <1> QED
    BY <1>1, <1>2, <1>3, <1>4 DEF Next

\* Permanent Asset IDs survive every save, failure, reload, migration and
\* restart.
THEOREM IdentityPermanentHolds == Spec => IdentityPermanent
  <1>1. IInv /\ [Next]_vars => [KeepsIdentity(durable, durable')]_durable
    <2> SUFFICES ASSUME IInv, [Next]_vars, durable' # durable
                 PROVE  KeepsIdentity(durable, durable')
      OBVIOUS
    <2>1. PICK t \in Tasks : WriteLands(t)
      BY DurableStep
    <2>2. durable' = Apply(durable, request[t]) /\ Verdict(durable, request[t]) = "changed"
      BY <2>1 DEF WriteLands, IInv, SaveInv, Prepared
    <2>3. durable \in Snapshot /\ request[t] \in Requests
      BY <2>1 DEF WriteLands, IInv, TypeInv, TypeOK
    <2> QED
      BY <2>2, <2>3, ApplyKeepsIdentity
  <1> QED
    BY Invariant, <1>1, PTL DEF Spec, IdentityPermanent

\* Only the active owner of the fence changes the file, and only from a
\* snapshot that is durable when it does.
THEOREM FencedWritesHold == Spec => FencedWrites
  <1> DEFINE Fenced == durable' # durable =>
                 \E t \in Tasks : /\ lock = t /\ target[t] = owner /\ ~retired[owner]
                                  /\ data[owner] = durable
  <1>1. IInv /\ [Next]_vars => [Fenced]_vars
    <2> SUFFICES ASSUME IInv, [Next]_vars, durable' # durable
                 PROVE  \E t \in Tasks : /\ lock = t /\ target[t] = owner
                                         /\ ~retired[owner] /\ data[owner] = durable
      OBVIOUS
    <2>1. PICK t \in Tasks : WriteLands(t)
      BY DurableStep
    <2> QED
      BY <2>1 DEF WriteLands, IInv, LockInv, HolderInv, SaveInv, Prepared, Holding, Writing
  <1> QED
    BY Invariant, <1>1, PTL DEF Spec, FencedWrites
\* Verify first, publish second: what becomes visible to readers is the
\* complete durable content of the canonical path.
THEOREM PublishedIsDurableHolds == Spec => PublishedIsDurable
  <1> DEFINE Published == \A m \in Managers :
                 \/ data'[m] = data[m]
                 \/ data'[m] = durable'
                 \/ entry' \in {"setup_queued", "stopped"}
  <1>1. IInv /\ [Next]_vars => [Published]_vars
    <2> SUFFICES ASSUME IInv, [Next]_vars
                 PROVE  Published
      OBVIOUS
    <2> USE DEF diskVars, managerVars, entryVars, Publish
    <2>1. ASSUME NEW t \in Tasks, CallStep(t)
          PROVE  Published
      <3>1. CASE Recover(t) \/ Resolve(t)
        BY <3>1 DEF Recover, Resolve, IInv, TypeInv, TypeOK
      <3>2. CASE Verified(t)
        BY <3>2 DEF Verified, Matches, IInv, TypeInv, TypeOK
      <3>3. CASE ~(Recover(t) \/ Resolve(t) \/ Verified(t))
        BY <2>1, <3>3
        DEF CallStep, AcquireStep, HolderStep, Invoke, RefuseFenced, BeginRecovery,
            BeginMutation, RecoveryFails, WriteLands, WriteFails, Unverified,
            ResolutionFails, CancelWaiting, CancelSave
      <3> QED
        BY <3>1, <3>2, <3>3
    <2>2. CASE EntryStep
      <3>1. CASE LoadAbsent
        <4>1. durable = Empty \/ storeSeen'
          BY <3>1, <2>2 DEF LoadAbsent, IInv, EvidenceInv, EntryInv, TypeInv, TypeOK
        <4> QED
          BY <3>1, <4>1 DEF LoadAbsent, SetupSucceeds, SetupFails, IInv, TypeInv, TypeOK
      <3>2. CASE LoadCurrent
        BY <3>2 DEF LoadCurrent, SetupSucceeds, IInv, TypeInv, TypeOK
      <3>3. CASE MigrationVerified
        BY <3>3 DEF MigrationVerified, Matches, IInv, TypeInv, TypeOK
      <3>4. CASE ~(LoadAbsent \/ LoadCurrent \/ MigrationVerified)
        BY <2>2, <3>4
        DEF EntryStep, SetupHolderStep, SetupBegin, SetupCancelledInQueue, SetupTakesOver,
            SetupProbe, LoadCorrupt, LoadFails, BeginMigration, MigrationLands,
            MigrationWriteFails, MigrationUnverified, EntryLoaded, EntrySetupRaises,
            UnloadBegin, Retire, SetupFails
      <3> QED
        BY <3>1, <3>2, <3>3, <3>4
    <2>3. CASE FaultStep
      BY <2>3
      DEF FaultStep, ProcessStops, ProcessStarts, FileCorrupted, BackupRestored, FileDeleted
    <2>4. CASE UNCHANGED vars
      BY <2>4 DEF vars
    <2> QED
      BY <2>1, <2>2, <2>3, <2>4 DEF Next
  <1> QED
    BY Invariant, <1>1, PTL DEF Spec, PublishedIsDurable

-----------------------------------------------------------------------------
\* The abstract specification speaks of the same requests and snapshots.
LEMMA SameData ==
  /\ Calls!Empty = Empty
  /\ Calls!Requests = Requests
  /\ \A d, u : Calls!Allocate(d, u) = Allocate(d, u)
  /\ \A d, r : Calls!Verdict(d, r) = Verdict(d, r)
  /\ \A d, r : Calls!Apply(d, r) = Apply(d, r)
  BY DEF Calls!Empty, Empty, Calls!Requests, Requests, Calls!Allocate, Allocate,
         Calls!Verdict, Verdict, Calls!QuickCreateVerdict, QuickCreateVerdict,
         Calls!EditVerdict, EditVerdict, Calls!ArchiveVerdict, ArchiveVerdict,
         Calls!RestoreVerdict, RestoreVerdict, Calls!Exists, Exists, Calls!Apply, Apply

\* Ending a call with a truthful answer is the abstract Answer.
LEMMA ReturnAnswers ==
  ASSUME IInv, NEW t \in Tasks, pc[t] # "idle", NEW a \in Calls!Answers,
         Return(t, a), Calls!Truthful(t, a), durable' = durable
  PROVE  Calls!ANext
  <1>1. CallStatus[t] # "idle"
    BY DEF CallStatus
  <1>2. CallStatus' = [CallStatus EXCEPT ![t] = "idle"]
    BY DEF CallStatus, Return, IInv, TypeInv, TypeOK
  <1>3. request' = [request EXCEPT ![t] = NoRequest] /\ outcome' = a
    BY DEF Return
  <1>4. Calls!Answer(t, a)
    BY <1>1, <1>2, <1>3 DEF Calls!Answer
  <1> QED
    BY <1>4 DEF Calls!ANext

\* A mutation of the durable snapshot either is answered at once, truthfully,
\* or stays open until its save.
LEMMA MutateImplements ==
  ASSUME IInv, NEW t \in Tasks, pc[t] \in {"queued", "recovering"},
         Mutate(t, durable), durable' = durable
  PROVE  [Calls!ANext]_(Calls!avars)
  <1> DEFINE v == Verdict(durable, request[t])
  <1>1. CallStatus[t] = "open" /\ durable \in Snapshot /\ request[t] \in Requests
        /\ ValidIdentity(durable)
    BY DEF CallStatus, IInv, CallInv, FileInv, TypeInv, TypeOK
  <1>2. CASE v = "refused"
    <2>1. Return(t, "refused")
      BY <1>2 DEF Mutate
    <2>2. Calls!Truthful(t, "refused") /\ "refused" \in Calls!Answers
      BY <1>1, <1>2, SameData DEF Calls!Truthful, Calls!Answers
    <2> QED
      BY <2>1, <2>2, ReturnAnswers
  <1>3. CASE v = "unchanged"
    <2>1. Return(t, "ok")
      BY <1>3 DEF Mutate
    <2>2. Calls!Truthful(t, "ok") /\ "ok" \in Calls!Answers
      BY <1>1, <1>3, SameData DEF Calls!Truthful, Calls!Answers
    <2> QED
      BY <2>1, <2>2, ReturnAnswers
  <1>4. CASE v = "changed"
    <2>1. ValidIdentity(Apply(durable, request[t]))
      BY <1>1, <1>4, ApplyValid
    <2>2. /\ pc' = [pc EXCEPT ![t] = "writing"]
          /\ UNCHANGED <<request, landed, outcome>>
      BY <1>4, <2>1 DEF Mutate
    <2>3. CallStatus' = CallStatus
      BY <2>2 DEF CallStatus, IInv, TypeInv, TypeOK
    <2> QED
      BY <2>2, <2>3 DEF Calls!avars
  <1> QED
    BY <1>2, <1>3, <1>4 DEF Mutate
\* Every step of a call is a step of the abstract specification or a stutter.
LEMMA CallImplements ==
  ASSUME IInv, NEW t \in Tasks, CallStep(t)
  PROVE  [Calls!ANext]_(Calls!avars)
  <1>0. pc[t] # "idle" /\ ~landed[t] => CallStatus[t] = "open"
    BY DEF CallStatus
  <1>1. ASSUME NEW m \in Managers, NEW r \in Requests, Invoke(t, m, r)
        PROVE  [Calls!ANext]_(Calls!avars)
    <2>1. CallStatus[t] = "idle" /\ CallStatus' = [CallStatus EXCEPT ![t] = "open"]
      BY <1>1 DEF Invoke, CallStatus, IInv, CallInv, TypeInv, TypeOK
    <2>2. Calls!Open(t)
      BY <1>1, <2>1, SameData DEF Invoke, Calls!Open, diskVars
    <2> QED
      BY <2>2 DEF Calls!ANext
  <1>2. CASE RefuseFenced(t)
    <2>1. Return(t, "not_loaded") /\ durable' = durable
      BY <1>2 DEF RefuseFenced, diskVars
    <2>2. Calls!Truthful(t, "not_loaded") /\ "not_loaded" \in Calls!Answers
      BY <1>2, <1>0 DEF RefuseFenced, Calls!Truthful, Calls!Answers, IInv, CallInv
    <2> QED
      BY <1>2, <2>1, <2>2, ReturnAnswers DEF RefuseFenced
  <1>3. CASE BeginRecovery(t)
    <2>1. CallStatus' = CallStatus
      BY <1>3 DEF BeginRecovery, CallStatus, IInv, TypeInv, TypeOK
    <2> QED
      BY <1>3, <2>1 DEF BeginRecovery, diskVars, Calls!avars
  <1>4. CASE BeginMutation(t)
    <2>1. data[target[t]] = durable
      <3>1. /\ target[t] \in exposed /\ target[t] \in Managers /\ owner # Nobody
            /\ \A s \in Tasks : pc[s] # "verifying"
        BY <1>4, ConstantsAssumption
        DEF BeginMutation, IInv, CallInv, LockInv, EntryInv, TypeInv, Holding, Writing
      <3>2. target[t] = owner /\ Active(target[t]) /\ ~uncertain[target[t]]
        BY <1>4, <3>1 DEF BeginMutation, Active
      <3> QED
        BY <3>1, <3>2 DEF IInv, Coherent
    <2> QED
      BY <1>4, <2>1, MutateImplements DEF BeginMutation, diskVars
  <1>5. CASE Recover(t)
    BY <1>5, MutateImplements DEF Recover, diskVars
  <1>6. CASE RecoveryFails(t)
    <2>1. Return(t, "unrecovered") /\ durable' = durable
      BY <1>6 DEF RecoveryFails, diskVars
    <2>2. Calls!Truthful(t, "unrecovered") /\ "unrecovered" \in Calls!Answers
      BY <1>6, <1>0 DEF RecoveryFails, Calls!Truthful, Calls!Answers, IInv, CallInv
    <2> QED
      BY <1>6, <2>1, <2>2, ReturnAnswers DEF RecoveryFails
  <1>7. CASE WriteLands(t)
    <2>1. CallStatus[t] = "open" /\ CallStatus' = [CallStatus EXCEPT ![t] = "committed"]
      BY <1>7 DEF WriteLands, CallStatus, IInv, CallInv, TypeInv, TypeOK
    <2>2. durable' = Apply(durable, request[t]) /\ Verdict(durable, request[t]) = "changed"
      BY <1>7 DEF WriteLands, IInv, SaveInv, Prepared
    <2>3. Calls!Commit(t)
      BY <1>7, <2>1, <2>2, SameData DEF WriteLands, Calls!Commit
    <2> QED
      BY <2>3 DEF Calls!ANext
  <1>8. CASE WriteFails(t)
    <2>1. CallStatus' = CallStatus
      BY <1>8 DEF WriteFails, CallStatus, IInv, TypeInv, TypeOK
    <2> QED
      BY <1>8, <2>1 DEF WriteFails, diskVars, Calls!avars
  <1>9. CASE Verified(t)
    <2>1. landed[t]
      <3>1. CASE ~landed[t]
        <4>1. durable = Apply(durable, request[t]) /\ Verdict(durable, request[t]) = "changed"
          BY <1>9, <3>1 DEF Verified, Matches, IInv, SaveInv, Prepared
        <4>2. durable \in Snapshot /\ durable.next # 0 /\ request[t] \in Requests
          BY <1>9 DEF Verified, IInv, TypeInv, TypeOK, FileInv, ValidIdentity
        <4> QED
          BY <4>1, <4>2, AppliedReflected, ChangedNotReflected
      <3> QED
        BY <3>1 DEF IInv, TypeInv, TypeOK
    <2>2. CallStatus[t] = "committed"
      BY <1>9, <2>1 DEF Verified, CallStatus
    <2>3. PICK a \in {"ok", "cancelled"} : Return(t, a)
      BY <1>9 DEF Verified
    <2>4. Calls!Truthful(t, a) /\ a \in Calls!Answers
      BY <2>2 DEF Calls!Truthful, Calls!Answers
    <2> QED
      BY <1>9, <2>3, <2>4, ReturnAnswers DEF Verified, diskVars
  <1>10. CASE Unverified(t)
    <2>1. CASE ~cancelled /\ Replayable(request[t])
      <3>1. CallStatus' = CallStatus
        BY <1>10, <2>1 DEF Unverified, CallStatus, IInv, TypeInv, TypeOK
      <3> QED
        BY <1>10, <2>1, <3>1 DEF Unverified, diskVars, Calls!avars
    <2>2. CASE ~(~cancelled /\ Replayable(request[t]))
      <3>1. PICK a \in {"ambiguous", "cancelled"} : Return(t, a)
        BY <1>10, <2>2 DEF Unverified
      <3>2. Calls!Truthful(t, a) /\ a \in Calls!Answers
        BY DEF Calls!Truthful, Calls!Answers
      <3> QED
        BY <1>10, <3>1, <3>2, ReturnAnswers DEF Unverified, diskVars
    <2> QED
      BY <2>1, <2>2
  <1>11. CASE Resolve(t)
    <2>1. Reflects(durable, request[t]) <=> landed[t]
      BY <1>11 DEF Resolve, IInv, SaveInv
    <2>2. CallStatus[t] = IF landed[t] THEN "committed" ELSE "open"
      BY <1>11 DEF Resolve, CallStatus
    <2>3. CASE landed[t]
      <3>1. Return(t, "ok")
        BY <1>11, <2>1, <2>3 DEF Resolve
      <3>2. Calls!Truthful(t, "ok") /\ "ok" \in Calls!Answers
        BY <2>2, <2>3 DEF Calls!Truthful, Calls!Answers
      <3> QED
        BY <1>11, <3>1, <3>2, ReturnAnswers DEF Resolve, diskVars
    <2>4. CASE ~landed[t]
      <3>1. Return(t, "not_persisted")
        BY <1>11, <2>1, <2>4 DEF Resolve
      <3>2. Calls!Truthful(t, "not_persisted") /\ "not_persisted" \in Calls!Answers
        BY <2>2, <2>4 DEF Calls!Truthful, Calls!Answers
      <3> QED
        BY <1>11, <3>1, <3>2, ReturnAnswers DEF Resolve, diskVars
    <2> QED
      BY <2>3, <2>4
  <1>12. CASE ResolutionFails(t)
    <2>1. Return(t, "ambiguous") /\ durable' = durable
      BY <1>12 DEF ResolutionFails, diskVars
    <2>2. Calls!Truthful(t, "ambiguous") /\ "ambiguous" \in Calls!Answers
      BY <1>12 DEF Calls!Truthful, Calls!Answers
    <2> QED
      BY <1>12, <2>1, <2>2, ReturnAnswers DEF ResolutionFails
  <1>13. CASE CancelWaiting(t)
    <2>1. Return(t, "cancelled") /\ durable' = durable
      BY <1>13 DEF CancelWaiting, diskVars
    <2>2. Calls!Truthful(t, "cancelled") /\ "cancelled" \in Calls!Answers
      BY <1>13 DEF Calls!Truthful, Calls!Answers
    <2> QED
      BY <1>13, <2>1, <2>2, ReturnAnswers DEF CancelWaiting
  <1>14. CASE CancelSave(t)
    <2>1. CallStatus' = CallStatus
      BY <1>14 DEF CancelSave, CallStatus, IInv, TypeInv, TypeOK
    <2> QED
      BY <1>14, <2>1 DEF CancelSave, diskVars, Calls!avars
  <1> QED
    BY <1>1, <1>2, <1>3, <1>4, <1>5, <1>6, <1>7, <1>8, <1>9, <1>10, <1>11, <1>12,
       <1>13, <1>14 DEF CallStep, AcquireStep, HolderStep

\* Entry setup, unload and the file system are invisible to the abstract
\* specification; a process stop forgets the calls and keeps the value.
LEMMA OtherImplements ==
  ASSUME IInv, EntryStep \/ FaultStep \/ UNCHANGED vars
  PROVE  [Calls!ANext]_(Calls!avars)
  <1>1. CASE ProcessStops
    <2>1. CallStatus' = [t \in Tasks |-> "idle"]
      BY <1>1 DEF ProcessStops, CallStatus
    <2>2. Calls!Forget
      BY <1>1, <2>1 DEF ProcessStops, Calls!Forget, diskVars
    <2> QED
      BY <2>2 DEF Calls!ANext
  <1>2. CASE ~ProcessStops
    <2>1. durable' = durable
      <3>1. ~\E t \in Tasks : WriteLands(t)
        BY <1>2
        DEF WriteLands, EntryStep, FaultStep, vars, SetupHolderStep, SetupBegin,
            SetupCancelledInQueue, SetupTakesOver, SetupProbe, LoadCurrent, LoadAbsent,
            LoadCorrupt, LoadFails, BeginMigration, MigrationLands, MigrationWriteFails,
            MigrationVerified, MigrationUnverified, EntryLoaded, EntrySetupRaises,
            UnloadBegin, Retire, ProcessStarts, FileCorrupted, BackupRestored, FileDeleted,
            callVars, IInv, TypeInv, TypeOK
      <3> QED
        BY <3>1, DurableStep DEF Next
    <2>2. UNCHANGED <<pc, request, landed, outcome>>
      BY <1>2
      DEF EntryStep, FaultStep, vars, SetupHolderStep, SetupBegin, SetupCancelledInQueue,
          SetupTakesOver, SetupProbe, LoadCurrent, LoadAbsent, LoadCorrupt, LoadFails,
          BeginMigration, MigrationLands, MigrationWriteFails, MigrationVerified,
          MigrationUnverified, EntryLoaded, EntrySetupRaises, UnloadBegin, Retire,
          ProcessStarts, FileCorrupted, BackupRestored, FileDeleted, callVars
    <2> QED
      BY <2>1, <2>2 DEF Calls!avars, CallStatus
  <1> QED
    BY <1>1, <1>2

\* The persistence protocol implements atomic calls on one durable value: each
\* request is applied whole, to the current value, at most once between its
\* call and its answer, and every answer tells the truth about that.
THEOREM Implementation == Spec => ImplementsDurableCalls
  <1>1. Init => Calls!AInit
    <2> SUFFICES ASSUME Init
                 PROVE  Calls!AInit
      OBVIOUS
    <2>1. durable \in {Calls!Empty} \union {Calls!Allocate(Calls!Empty, u) : u \in Uuids}
      BY SameData DEF Init
    <2>2. CallStatus = [t \in Tasks |-> "idle"]
      BY DEF Init, CallStatus
    <2> QED
      BY <2>1, <2>2 DEF Init, Calls!AInit
  <1>2. IInv /\ [Next]_vars => [Calls!ANext]_(Calls!avars)
    BY CallImplements, OtherImplements DEF Next
  <1> QED
    BY Invariant, <1>1, <1>2, PTL DEF Spec, ImplementsDurableCalls, Calls!ASpec
=============================================================================
