------------------------ MODULE ArchiveInterlockProofs ------------------------
(***************************************************************************)
(* Proofs about ArchiveInterlock for any Assets, devices, subentries,      *)
(* dialogs and waiting calls.                                              *)
(***************************************************************************)
EXTENDS ArchiveInterlock, FiniteSetTheorems, SequenceTheorems, WellFoundedInduction, TLAPS

\* A snapshot that setup accepts, and the hints of subentries that agree with it.
Sound(st) == st \in Stores /\ Valid(st) /\ st.archived \subseteq Present(st)

Agrees(st, subs) ==
    \A s \in Tracked(subs) : subs[s].device \in Devices /\ Consistent(st, subs[s])

\* What may be saved after old: an archived Asset keeps its device, none disappears,
\* and a device changes hands only through "none".
Follows(old, new) ==
    /\ \A a \in old.archived \union new.archived : new.device[a] = old.device[a]
    /\ \A a \in Assets : old.device[a] # "missing" => new.device[a] # "missing"
    /\ \A a, b \in Assets :
          new.device[a] # old.device[a] /\ new.device[a] \in Devices /\ b # a
             => old.device[b] # new.device[a]

Changes(x) == x.op \in {"link", "unlink"}

\* What a waiting call was checked for and still finds: an Archive or Restore has its
\* Asset, nobody but its Asset owns the device of a reservation, and no subentry names
\* an Asset by a device that is to be taken away.
Alone(st, flows, subs, x) ==
    /\ x.op \in {"archive", "restore"} => st.device[x.asset] # "missing"
    /\ x.op = "reserve" =>
          /\ flows[x.flow].at \in {"waiting", "closed"}
          /\ \A b \in Assets : st.device[b] = flows[x.flow].device => b = x.asset
    /\ x.op = "unlink" \/ (x.op = "link" /\ x.device # x.expected) =>
          \A s \in Subentries : subs[s].hint # NoAsset => subs[s].device # x.expected

\* What x, ahead of y, leaves of that: if x changes y's Asset as its form showed it, y's
\* form showed the same; a device that x takes away is not one that y gives to another
\* Asset; and a device whose Asset y is to track goes to no other Asset.
InOrder(st, flows, x, y) ==
    /\ Changes(x) /\ Changes(y) /\ x.asset = y.asset /\ x.expected = st.device[x.asset]
          => y.expected = st.device[x.asset]
    /\ Changes(x) /\ y.op = "link" /\ x.asset # y.asset /\ x.expected = y.device
          => st.device[x.asset] # y.device
    /\ x.op = "link" /\ y.op = "reserve" /\ x.device = flows[y.flow].device
       /\ st.device[y.asset] # x.device
          => x.asset = y.asset
    /\ x.op = "reserve" /\ y.op = "reserve" => x.flow # y.flow

Waits(st, flows, subs, calls) ==
    /\ \A i \in 1..Len(calls) : Alone(st, flows, subs, calls[i])
    /\ \A i, j \in 1..Len(calls) : i < j => InOrder(st, flows, calls[i], calls[j])

\* Call x was made when old was published, and new is going to be: it does not expect
\* what new takes away, or expects it of the Asset that new takes it from.
Overtaken(old, new, flows, x) ==
    \A b \in Assets : new.device[b] # old.device[b] =>
        /\ Changes(x) /\ x.asset = b => x.expected = old.device[b]
        /\ x.op = "link" /\ x.asset # b => x.device # old.device[b]
        /\ x.op = "reserve" /\ flows[x.flow].device = new.device[b] => x.asset = b

SnapshotInv ==
    \A st \in {disk, data, candidate} : Sound(st) /\ Agrees(st, subentries)

\* Memory and disk differ only when a save is in doubt, a candidate from memory only
\* during a save, and a setup has the lock for itself.
StageInv ==
    /\ uncertain \/ data = disk
    /\ writing \/ candidate = data
    /\ writing => ~uncertain /\ queue # <<>>
    /\ entry = "unloaded" => queue = <<>>
    /\ entry = "reconciling" => ~uncertain
    /\ \A i \in 1..Len(queue) :
          /\ queue[i].op = "reconcile" => entry = "reconciling"
          /\ entry = "reconciling" => queue[i].op = "reconcile" /\ i = 1

ChangeInv ==
    /\ Follows(data, disk) /\ Follows(data, candidate)
    /\ Conflicts(candidate, subentries) \subseteq Conflicts(data, subentries)

FlowInv ==
    \A f \in Flows : flow[f].at \in {"source", "waiting", "closed"} => flow[f].device \in Devices

CallInv ==
    /\ Waits(data, flow, subentries, queue)
    /\ \A i \in 1..Len(queue) :
          /\ Overtaken(data, disk, flow, queue[i])
          /\ i > 1 => Overtaken(data, candidate, flow, queue[i])

\* The hints that a reconciliation is going to write name the owners of the devices.
HintInv ==
    writing /\ Holder.op = "reconcile" =>
        \A s \in Tracked(subentries) : updates[s] # NoAsset =>
            candidate.device[updates[s]] = subentries[s].device

Protocol == SnapshotInv /\ StageInv /\ ChangeInv /\ FlowInv /\ CallInv /\ HintInv

IInv == TypeOK /\ Protocol
-----------------------------------------------------------------------------
(* Numbers                                                                   *)

\* Induction with a set for the predicate.
LEMMA SetInduction ==
  ASSUME NEW S, 0 \in S, \A n \in Nat : n \in S => n + 1 \in S
  PROVE  Nat \subseteq S
  <1> DEFINE T == Nat \ S
             R == {ss \in Nat \X Nat : ss[1] < ss[2]}
  <1>1. IsWellFoundedOn(R, Nat)
    BY NatLessThanWellFounded DEF OpToRel
  <1>2. SUFFICES ASSUME T # {} PROVE FALSE
    OBVIOUS
  <1>3. T \subseteq Nat
    OBVIOUS
  <1>4. PICK x \in T : \A y \in T : ~(<<y, x>> \in R)
    BY <1>1, <1>2, <1>3, WFMin
  <1>5. x \in Nat /\ x \notin S /\ x # 0
    OBVIOUS
  <1>6. PICK y \in Nat : x = y + 1
    <2>1. x - 1 \in Nat /\ x = (x - 1) + 1
      BY <1>5
    <2> QED
      BY <2>1
  <1>7. <<y, x>> \in R
    BY <1>5, <1>6
  <1> QED
    BY <1>4, <1>5, <1>6, <1>7

LEMMA LeastIs ==
  ASSUME NEW S \in SUBSET Nat, S # {}
  PROVE  Least(S) \in S
  <1> DEFINE R == {ss \in Nat \X Nat : ss[1] < ss[2]}
  <1>1. IsWellFoundedOn(R, Nat)
    BY NatLessThanWellFounded DEF OpToRel
  <1>2. PICK x \in S : \A y \in S : ~(<<y, x>> \in R)
    BY <1>1, WFMin
  <1>3. ASSUME NEW y \in S, y < x
        PROVE  FALSE
    <2>1. <<y, x>> \in R
      BY <1>3
    <2> QED
      BY <1>2, <2>1
  <1>4. \A y \in S : x <= y
    BY <1>3
  <1> QED
    BY <1>4 DEF Least

-----------------------------------------------------------------------------
(* Snapshots and subentries                                                  *)

LEMMA Values ==
  /\ "none" \notin Devices /\ "missing" \notin Devices
  /\ NoAsset \notin Assets /\ Assets \subseteq Nat /\ Subentries \subseteq Nat
  BY BoundsAssumption DEF NoAsset, Assets, Subentries

LEMMA StoreType ==
  ASSUME NEW st \in Stores
  PROVE  /\ st.device \in [Assets -> Links] /\ st.archived \in SUBSET Assets
         /\ st = [device |-> st.device, archived |-> st.archived]
  BY DEF Stores

\* A valid store has at most one owner for each device.
LEMMA ValidIs ==
  ASSUME NEW st \in Stores
  PROVE  Valid(st) <=> \A a, b \in Assets :
                          st.device[a] \in Devices /\ st.device[a] = st.device[b] => a = b
  <1>1. \A d : IsFiniteSet(Owners(st, d)) /\ Owners(st, d) \subseteq Assets
    <2>1. IsFiniteSet(Assets)
      BY FS_Interval, BoundsAssumption DEF Assets
    <2> QED
      BY <2>1, FS_Subset DEF Owners
  <1>2. ASSUME Valid(st), NEW a \in Assets, NEW b \in Assets,
               st.device[a] \in Devices, st.device[a] = st.device[b], a # b
        PROVE  FALSE
    <2> DEFINE d == st.device[a]
               O == Owners(st, d)
    <2>1. Cardinality(O) <= 1 /\ a \in O /\ b \in O
      BY <1>2 DEF Valid, Owners
    <2>2. {a, b} \subseteq O /\ IsFiniteSet(O)
      BY <1>1, <2>1
    <2>3. Cardinality({a, b}) <= Cardinality(O) /\ IsFiniteSet({a, b})
      BY <2>2, FS_Subset
    <2>4. Cardinality({a}) = 1 /\ IsFiniteSet({a})
      BY FS_Singleton
    <2>5. Cardinality({a} \union {b}) = Cardinality({a}) + 1
      BY <1>2, <2>4, FS_AddElement
    <2>6. {a} \union {b} = {a, b}
      OBVIOUS
    <2>7. Cardinality(O) \in Nat
      BY <2>2, FS_CardinalityType
    <2> QED
      BY <2>1, <2>3, <2>4, <2>5, <2>6, <2>7
  <1>3. ASSUME \A a, b \in Assets :
                  st.device[a] \in Devices /\ st.device[a] = st.device[b] => a = b,
               NEW d \in Devices
        PROVE  Cardinality(Owners(st, d)) <= 1
    <2>1. CASE Owners(st, d) = {}
      BY <2>1, FS_EmptySet
    <2>2. CASE Owners(st, d) # {}
      <3>1. PICK a : a \in Owners(st, d)
        BY <2>2
      <3>2. Owners(st, d) = {a}
        BY <1>3, <3>1 DEF Owners
      <3> QED
        BY <3>2, FS_Singleton
    <2> QED
      BY <2>1, <2>2
  <1> QED
    BY <1>2, <1>3 DEF Valid

\* A subentry that agrees with a sound store resolves to the owner of its device.
LEMMA ResolveIs ==
  ASSUME NEW st, Sound(st), NEW sub \in Trackers, sub.device \in Devices, Consistent(st, sub)
  PROVE  /\ Resolve(st, sub) \in Assets \union {NoAsset}
         /\ \A a \in Assets : Resolve(st, sub) = a <=> st.device[a] = sub.device
  <1>1. /\ st \in Stores
        /\ \A a, b \in Assets : st.device[a] \in Devices /\ st.device[a] = st.device[b] => a = b
    BY ValidIs DEF Sound
  <1>2. sub.hint \in Assets \union {NoAsset}
    BY DEF Trackers
  <1>3. CASE sub.hint # NoAsset
    <2>1. sub.hint \in Assets /\ st.device[sub.hint] = sub.device
      BY <1>2, <1>3 DEF Consistent
    <2>2. Resolve(st, sub) = sub.hint
      BY <1>3, <2>1 DEF Resolve
    <2> QED
      BY <1>1, <2>1, <2>2
  <1>4. CASE sub.hint = NoAsset /\ Owners(st, sub.device) = {}
    <2>1. Resolve(st, sub) = NoAsset
      BY <1>4 DEF Resolve
    <2> QED
      BY <1>4, <2>1, Values DEF Owners
  <1>5. CASE sub.hint = NoAsset /\ Owners(st, sub.device) # {}
    <2>1. Resolve(st, sub) = Least(Owners(st, sub.device))
      BY <1>5 DEF Resolve
    <2>2. Owners(st, sub.device) \in SUBSET Nat
      BY Values DEF Owners
    <2>3. Resolve(st, sub) \in Owners(st, sub.device)
      BY <1>5, <2>1, <2>2, LeastIs
    <2> QED
      BY <1>1, <2>3 DEF Owners
  <1> QED
    BY <1>3, <1>4, <1>5

\* The subentries of an archived owner.
LEMMA ConflictsAre ==
  ASSUME NEW st, Sound(st), NEW subs \in [Subentries -> Trackers], Agrees(st, subs)
  PROVE  Conflicts(st, subs) =
            {s \in Tracked(subs) : \E a \in st.archived : st.device[a] = subs[s].device}
  <1>1. st.archived \subseteq Assets
    BY DEF Sound, Stores
  <1>2. ASSUME NEW s \in Tracked(subs)
        PROVE  Resolve(st, subs[s]) \in st.archived
                  <=> \E a \in st.archived : st.device[a] = subs[s].device
    <2>1. subs[s] \in Trackers /\ subs[s].device \in Devices /\ Consistent(st, subs[s])
      BY <1>2 DEF Agrees, Tracked
    <2>2. \A a \in Assets : Resolve(st, subs[s]) = a <=> st.device[a] = subs[s].device
      BY <2>1, ResolveIs
    <2> QED
      BY <1>1, <2>2
  <1> QED
    BY <1>2 DEF Conflicts

LEMMA ConflictsShrink ==
  ASSUME NEW old, NEW new, NEW subs \in [Subentries -> Trackers],
         Sound(old), Sound(new), Agrees(old, subs), Agrees(new, subs),
         Follows(old, new), new.archived \subseteq old.archived
  PROVE  Conflicts(new, subs) \subseteq Conflicts(old, subs)
  <1>1. /\ Conflicts(old, subs) =
              {s \in Tracked(subs) : \E a \in old.archived : old.device[a] = subs[s].device}
        /\ Conflicts(new, subs) =
              {s \in Tracked(subs) : \E a \in new.archived : new.device[a] = subs[s].device}
    BY ConflictsAre
  <1> QED
    BY <1>1 DEF Follows

LEMMA FollowsItself ==
  ASSUME NEW st
  PROVE  Follows(st, st)
  BY DEF Follows

\* A subentry for a device that no archived Asset owns.
LEMMA NoNewConflict ==
  ASSUME NEW st, Sound(st), NEW subs \in [Subentries -> Trackers], NEW subs2 \in [Subentries -> Trackers],
         Agrees(st, subs), Agrees(st, subs2),
         \A s \in Tracked(subs2) : \/ s \in Tracked(subs) /\ subs2[s].device = subs[s].device
                                   \/ \A a \in st.archived : st.device[a] # subs2[s].device
  PROVE  Conflicts(st, subs2) \subseteq Conflicts(st, subs)
  <1>1. /\ Conflicts(st, subs) =
              {s \in Tracked(subs) : \E a \in st.archived : st.device[a] = subs[s].device}
        /\ Conflicts(st, subs2) =
              {s \in Tracked(subs2) : \E a \in st.archived : st.device[a] = subs2[s].device}
    BY ConflictsAre
  <1> QED
    BY <1>1

-----------------------------------------------------------------------------
(* Calls                                                                     *)

LEMMA CallType ==
  ASSUME NEW x \in Calls
  PROVE  /\ x.op \in {"archive", "restore", "link", "unlink", "reserve", "reconcile", "retire"}
         /\ x.op \in {"archive", "restore", "link", "unlink", "reserve"} => x.asset \in Assets
         /\ x.op = "link" => x.device \in Devices
         /\ x.op = "reserve" => x.flow \in Flows
  BY DEF Calls

LEMMA StillAlone ==
  ASSUME NEW old \in Stores, NEW new \in Stores, NEW flows, NEW subs, NEW x \in Calls,
         Follows(old, new), Alone(old, flows, subs, x), Overtaken(old, new, flows, x)
  PROVE  Alone(new, flows, subs, x)
  <1>1. x.op \in {"archive", "restore"} => new.device[x.asset] # "missing"
    BY CallType DEF Alone, Follows
  <1>2. ASSUME x.op = "reserve", NEW b \in Assets, new.device[b] = flows[x.flow].device
        PROVE  b = x.asset
    <2>1. CASE new.device[b] = old.device[b]
      BY <1>2, <2>1 DEF Alone
    <2>2. CASE new.device[b] # old.device[b]
      BY <1>2, <2>2 DEF Overtaken
    <2> QED
      BY <2>1, <2>2
  <1> QED
    BY <1>1, <1>2 DEF Alone

LEMMA StillInOrder ==
  ASSUME NEW old \in Stores, NEW new \in Stores, NEW flows, NEW x \in Calls, NEW y \in Calls,
         InOrder(old, flows, x, y), Overtaken(old, new, flows, x), Overtaken(old, new, flows, y)
  PROVE  InOrder(new, flows, x, y)
  <1>1. ASSUME Changes(x), Changes(y), x.asset = y.asset, x.expected = new.device[x.asset]
        PROVE  y.expected = new.device[x.asset]
    <2>1. x.asset \in Assets
      BY <1>1, CallType DEF Changes
    <2>2. new.device[x.asset] = old.device[x.asset]
      BY <1>1, <2>1 DEF Overtaken
    <2> QED
      BY <1>1, <2>2 DEF InOrder
  <1>2. ASSUME Changes(x), y.op = "link", x.asset # y.asset, x.expected = y.device
        PROVE  new.device[x.asset] # y.device
    <2>1. x.asset \in Assets
      BY <1>2, CallType DEF Changes
    <2>2. CASE new.device[x.asset] = old.device[x.asset]
      BY <1>2, <2>2 DEF InOrder
    <2>3. CASE new.device[x.asset] # old.device[x.asset]
      <3>1. x.expected = old.device[x.asset]
        BY <1>2, <2>1, <2>3 DEF Overtaken
      <3> QED
        BY <1>2, <3>1 DEF InOrder
    <2> QED
      BY <2>2, <2>3
  <1>3. ASSUME x.op = "link", y.op = "reserve", x.device = flows[y.flow].device,
               new.device[y.asset] # x.device, x.asset # y.asset
        PROVE  FALSE
    <2>1. y.asset \in Assets
      BY <1>3, CallType
    <2>2. old.device[y.asset] = x.device
      BY <1>3 DEF InOrder
    <2> QED
      BY <1>3, <2>1, <2>2 DEF Overtaken
  <1> QED
    BY <1>1, <1>2, <1>3 DEF InOrder

\* A snapshot is published.
LEMMA StillWaits ==
  ASSUME NEW old \in Stores, NEW new \in Stores, NEW flows, NEW subs, NEW calls \in Seq(Calls),
         Follows(old, new), Waits(old, flows, subs, calls),
         \A i \in 1..Len(calls) : Overtaken(old, new, flows, calls[i])
  PROVE  Waits(new, flows, subs, calls)
  <1>1. \A i \in 1..Len(calls) : calls[i] \in Calls
    OBVIOUS
  <1>2. \A i \in 1..Len(calls) : Alone(new, flows, subs, calls[i])
    BY <1>1, StillAlone DEF Waits
  <1>3. \A i, j \in 1..Len(calls) : i < j => InOrder(new, flows, calls[i], calls[j])
    BY <1>1, StillInOrder DEF Waits
  <1> QED
    BY <1>2, <1>3 DEF Waits

\* The first call is done.
LEMMA WithoutFirst ==
  ASSUME NEW calls \in Seq(Calls), calls # <<>>
  PROVE  /\ Tail(calls) \in Seq(Calls) /\ Head(calls) = calls[1] /\ Len(calls) \in Nat \ {0}
         /\ 1 \in 1..Len(calls)
         /\ Len(Tail(calls)) = Len(calls) - 1
         /\ \A i \in 1..Len(Tail(calls)) :
               i + 1 \in 1..Len(calls) /\ i + 1 > 1 /\ Tail(calls)[i] = calls[i + 1]
  BY HeadTailProperties

LEMMA RestWaits ==
  ASSUME NEW st, NEW flows, NEW subs, NEW calls \in Seq(Calls), calls # <<>>,
         Waits(st, flows, subs, calls)
  PROVE  Waits(st, flows, subs, Tail(calls))
  <1>1. \A i \in 1..Len(Tail(calls)) : Alone(st, flows, subs, Tail(calls)[i])
    BY WithoutFirst DEF Waits
  <1>2. ASSUME NEW i \in 1..Len(Tail(calls)), NEW j \in 1..Len(Tail(calls)), i < j
        PROVE  InOrder(st, flows, Tail(calls)[i], Tail(calls)[j])
    <2>1. i + 1 \in 1..Len(calls) /\ j + 1 \in 1..Len(calls) /\ i + 1 < j + 1
      BY <1>2, WithoutFirst
    <2>2. InOrder(st, flows, calls[i + 1], calls[j + 1])
      BY <2>1 DEF Waits
    <2> QED
      BY <2>2, WithoutFirst
  <1> QED
    BY <1>1, <1>2 DEF Waits

\* One more call.
LEMMA OneMore ==
  ASSUME NEW calls \in Seq(Calls), NEW x \in Calls
  PROVE  /\ Append(calls, x) \in Seq(Calls) /\ Len(Append(calls, x)) = Len(calls) + 1
         /\ \A i \in 1..(Len(calls) + 1) :
               \/ i \in 1..Len(calls) /\ Append(calls, x)[i] = calls[i]
               \/ i = Len(calls) + 1 /\ Append(calls, x)[i] = x
  BY AppendProperties

LEMMA OneMoreWaits ==
  ASSUME NEW st, NEW flows, NEW subs, NEW calls \in Seq(Calls), NEW x \in Calls,
         Waits(st, flows, subs, calls), Alone(st, flows, subs, x),
         \A i \in 1..Len(calls) : InOrder(st, flows, calls[i], x)
  PROVE  Waits(st, flows, subs, Append(calls, x))
  <1> DEFINE more == Append(calls, x)
  <1>1. Len(calls) \in Nat /\ Len(more) = Len(calls) + 1
    BY OneMore
  <1>2. \A i \in 1..Len(more) : \/ i \in 1..Len(calls) /\ more[i] = calls[i]
                                \/ i = Len(calls) + 1 /\ more[i] = x
    BY <1>1, OneMore
  <1> HIDE DEF more
  <1>3. \A i \in 1..Len(more) : Alone(st, flows, subs, more[i])
    BY <1>2 DEF Waits
  <1>4. ASSUME NEW i \in 1..Len(more), NEW j \in 1..Len(more), i < j
        PROVE  InOrder(st, flows, more[i], more[j])
    <2>1. i \in 1..Len(calls) /\ more[i] = calls[i]
      BY <1>1, <1>2, <1>4
    <2>2. CASE j \in 1..Len(calls) /\ more[j] = calls[j]
      BY <1>4, <2>1, <2>2 DEF Waits
    <2>3. CASE more[j] = x
      BY <2>1, <2>3
    <2> QED
      BY <1>2, <2>2, <2>3
  <1> QED
    BY <1>3, <1>4 DEF Waits, more

\* Dialogs and subentries change under the calls.
LEMMA WaitsUnder ==
  ASSUME NEW st, NEW flows, NEW subs, NEW flows2, NEW subs2, NEW calls \in Seq(Calls),
         Waits(st, flows, subs, calls),
         \A i \in 1..Len(calls) : calls[i].op = "reserve" =>
            /\ flows2[calls[i].flow].device = flows[calls[i].flow].device
            /\ flows2[calls[i].flow].at \in {"waiting", "closed"},
         \A s \in Subentries : subs2[s].hint # NoAsset =>
            subs[s].hint # NoAsset /\ subs2[s].device = subs[s].device
  PROVE  Waits(st, flows2, subs2, calls)
  <1>1. ASSUME NEW i \in 1..Len(calls)
        PROVE  Alone(st, flows2, subs2, calls[i])
    <2>1. Alone(st, flows, subs, calls[i])
      BY DEF Waits
    <2> QED
      BY <2>1 DEF Alone
  <1>2. ASSUME NEW i \in 1..Len(calls), NEW j \in 1..Len(calls), i < j
        PROVE  InOrder(st, flows2, calls[i], calls[j])
    <2>1. InOrder(st, flows, calls[i], calls[j])
      BY <1>2 DEF Waits
    <2> QED
      BY <2>1 DEF InOrder
  <1> QED
    BY <1>1, <1>2 DEF Waits

LEMMA OvertakenUnder ==
  ASSUME NEW old, NEW new, NEW flows, NEW flows2, NEW x, Overtaken(old, new, flows, x),
         x.op = "reserve" => flows2[x.flow].device = flows[x.flow].device
  PROVE  Overtaken(old, new, flows2, x)
  BY DEF Overtaken

LEMMA NotOvertaken ==
  ASSUME NEW st, NEW flows, NEW x
  PROVE  Overtaken(st, st, flows, x)
  BY DEF Overtaken

-----------------------------------------------------------------------------
(* What the mutators save                                                    *)

\* A link or an unlink that still finds what its form showed.
LEMMA Rebound ==
  ASSUME NEW old, Sound(old), NEW subs \in [Subentries -> Trackers], Agrees(old, subs),
         NEW flows, NEW x \in Calls, Changes(x), Alone(old, flows, subs, x),
         x.asset \notin old.archived, old.device[x.asset] = x.expected,
         NEW d, \/ x.op = "unlink" /\ d = "none"
                \/ x.op = "link" /\ d = x.device /\ Owners(old, d) \subseteq {x.asset},
         NEW new, new = [old EXCEPT !.device[x.asset] = d], new # old, Valid(new)
  PROVE  Sound(new) /\ Agrees(new, subs) /\ Follows(old, new)
  <1>1. x.asset \in Assets /\ d \in Devices \union {"none"}
    BY CallType DEF Changes
  <1>2. /\ old \in Stores /\ old.device \in [Assets -> Links] /\ old.archived \in SUBSET Assets
        /\ old = [device |-> old.device, archived |-> old.archived]
    BY StoreType DEF Sound
  <1>3. /\ new = [device |-> [old.device EXCEPT ![x.asset] = d], archived |-> old.archived]
        /\ new.device = [old.device EXCEPT ![x.asset] = d] /\ new.archived = old.archived
    BY <1>2
  <1>4. new \in Stores
    BY <1>1, <1>2, <1>3 DEF Stores, Links
  <1>5. d # x.expected
    <2>1. ASSUME d = x.expected PROVE FALSE
      <3>1. [old.device EXCEPT ![x.asset] = d] = old.device
        BY <1>2, <2>1
      <3> QED
        BY <1>2, <1>3, <3>1
    <2> QED
      BY <2>1
  <1>6. /\ new.device[x.asset] = d
        /\ \A a \in Assets : a # x.asset => new.device[a] = old.device[a]
    BY <1>1, <1>2, <1>3
  <1>7. new.archived \subseteq Present(new)
    BY <1>1, <1>3, <1>6, Values DEF Sound, Present
  <1>8. Agrees(new, subs)
    <2> SUFFICES ASSUME NEW s \in Tracked(subs)
                 PROVE  subs[s].device \in Devices /\ Consistent(new, subs[s])
      BY DEF Agrees
    <2>1. s \in Subentries /\ subs[s].device \in Devices /\ Consistent(old, subs[s])
      BY DEF Agrees, Tracked
    <2>2. subs[s].hint # NoAsset => subs[s].hint \in Assets
      BY <2>1 DEF Trackers
    <2>3. subs[s].hint # NoAsset => subs[s].device # x.expected
      BY <1>5, <2>1 DEF Alone
    <2> QED
      BY <1>6, <2>1, <2>2, <2>3 DEF Consistent
  <1>9. Follows(old, new)
    <2>1. \A a \in old.archived \union new.archived : new.device[a] = old.device[a]
      BY <1>2, <1>3, <1>6
    <2>2. \A a \in Assets : old.device[a] # "missing" => new.device[a] # "missing"
      BY <1>1, <1>6, Values
    <2>3. ASSUME NEW a \in Assets, NEW b \in Assets, new.device[a] # old.device[a],
                 new.device[a] \in Devices, b # a
          PROVE  old.device[b] # new.device[a]
      <3>1. a = x.asset /\ new.device[a] = d
        BY <1>6, <2>3
      <3>2. x.op = "link"
        BY <2>3, <3>1, Values
      <3> QED
        BY <2>3, <3>1, <3>2 DEF Owners
    <2> QED
      BY <2>1, <2>2, <2>3 DEF Follows
  <1> QED
    BY <1>4, <1>7, <1>8, <1>9 DEF Sound

LEMMA ReboundOvertakes ==
  ASSUME NEW old \in Stores, NEW flows, NEW x \in Calls, Changes(x), NEW y \in Calls,
         old.device[x.asset] = x.expected,
         NEW d, \/ x.op = "unlink" /\ d = "none"
                \/ x.op = "link" /\ d = x.device /\ Owners(old, d) \subseteq {x.asset},
         NEW new, new = [old EXCEPT !.device[x.asset] = d],
         InOrder(old, flows, x, y), y.op = "reserve" => flows[y.flow].device \in Devices
  PROVE  Overtaken(old, new, flows, y)
  <1>1. /\ x.asset \in Assets
        /\ new.device[x.asset] = d
        /\ \A a \in Assets : a # x.asset => new.device[a] = old.device[a]
    BY StoreType, CallType DEF Changes
  <1> SUFFICES ASSUME NEW b \in Assets, new.device[b] # old.device[b]
               PROVE  /\ Changes(y) /\ y.asset = b => y.expected = old.device[b]
                      /\ y.op = "link" /\ y.asset # b => y.device # old.device[b]
                      /\ y.op = "reserve" /\ flows[y.flow].device = new.device[b]
                            => y.asset = b
    BY DEF Overtaken
  <1>2. b = x.asset /\ old.device[b] = x.expected
    BY <1>1
  <1>3. Changes(y) /\ y.asset = b => y.expected = old.device[b]
    BY <1>2 DEF InOrder
  <1>4. y.op = "link" /\ y.asset # b => y.device # old.device[b]
    BY <1>2 DEF InOrder
  <1>5. ASSUME y.op = "reserve", flows[y.flow].device = new.device[b]
        PROVE  y.asset = b
    <2>1. x.op = "link" /\ d = x.device /\ Owners(old, d) \subseteq {x.asset}
      BY <1>1, <1>2, <1>5, Values
    <2>2. y.asset \in Assets /\ d = flows[y.flow].device
      BY <1>1, <1>2, <1>5, CallType
    <2>3. CASE old.device[y.asset] = d
      BY <1>2, <2>1, <2>2, <2>3 DEF Owners
    <2>4. CASE old.device[y.asset] # d
      BY <1>2, <1>5, <2>1, <2>2, <2>4 DEF InOrder
    <2> QED
      BY <2>3, <2>4
  <1> QED
    BY <1>3, <1>4, <1>5

LEMMA SameDevices ==
  ASSUME NEW old, NEW new, new.device = old.device, NEW flows, NEW x
  PROVE  Overtaken(old, new, flows, x)
  BY DEF Overtaken

\* An Archive or a Restore.
LEMMA Rearchived ==
  ASSUME NEW old, Sound(old), NEW subs \in [Subentries -> Trackers], Agrees(old, subs),
         NEW S, S \subseteq Present(old), NEW new, new = [old EXCEPT !.archived = S]
  PROVE  /\ Sound(new) /\ Agrees(new, subs) /\ Follows(old, new)
         /\ new.device = old.device /\ new.archived = S
  <1>1. /\ old \in Stores /\ old.device \in [Assets -> Links] /\ old.archived \in SUBSET Assets
        /\ old = [device |-> old.device, archived |-> old.archived]
    BY StoreType DEF Sound
  <1>2. /\ new = [device |-> old.device, archived |-> S]
        /\ new.device = old.device /\ new.archived = S
    BY <1>1
  <1>3. new \in Stores /\ new.archived \subseteq Present(new)
    BY <1>1, <1>2 DEF Stores, Present
  <1>4. Valid(new)
    BY <1>2 DEF Sound, Valid, Owners
  <1>5. Agrees(new, subs)
    BY <1>2 DEF Agrees, Consistent
  <1> QED
    BY <1>2, <1>3, <1>4, <1>5 DEF Sound, Follows

\* A subentry is removed.
LEMMA Untracked ==
  ASSUME NEW subs \in [Subentries -> Trackers], NEW s \in Subentries
  PROVE  LET less == [subs EXCEPT ![s] = NoTracker]
         IN /\ less \in [Subentries -> Trackers]
            /\ Tracked(less) = Tracked(subs) \ {s}
            /\ \A t \in Tracked(less) : less[t] = subs[t]
            /\ \A t \in Subentries : less[t].hint # NoAsset => less[t] = subs[t]
            /\ \A st : Conflicts(st, less) = Conflicts(st, subs) \ {s}
            /\ \A st : Agrees(st, subs) => Agrees(st, less)
  <1> DEFINE less == [subs EXCEPT ![s] = NoTracker]
  <1>1. less \in [Subentries -> Trackers] /\ less[s] = NoTracker
        /\ \A t \in Subentries : t # s => less[t] = subs[t]
    BY DEF Trackers, NoTracker
  <1> HIDE DEF less
  <1>2. Tracked(less) = Tracked(subs) \ {s} /\ \A t \in Tracked(less) : less[t] = subs[t]
    BY <1>1 DEF Tracked
  <1>3. \A t \in Subentries : less[t].hint # NoAsset => less[t] = subs[t]
    BY <1>1 DEF NoTracker
  <1>4. ASSUME NEW st
        PROVE  Conflicts(st, less) = Conflicts(st, subs) \ {s}
    BY <1>2 DEF Conflicts
  <1>5. \A st : Agrees(st, subs) => Agrees(st, less)
    BY <1>2 DEF Agrees
  <1> QED
    BY <1>1, <1>2, <1>3, <1>4, <1>5 DEF less

\* A subentry is added: it has no hint, and nothing else changes.
LEMMA OneTracked ==
  ASSUME subentries \in [Subentries -> Trackers], NEW d \in Devices, AddSubentry(d)
  PROVE  /\ subentries' \in [Subentries -> Trackers]
         /\ \A s \in Tracked(subentries') : \/ s \in Tracked(subentries)
                                               /\ subentries'[s] = subentries[s]
                                            \/ subentries'[s].device = d
         /\ \A s \in Subentries : subentries'[s].hint # NoAsset => subentries'[s] = subentries[s]
         /\ \A st : Agrees(st, subentries) => Agrees(st, subentries')
  <1> DEFINE new == [device |-> d, hint |-> NoAsset]
             n == Least(Subentries \ Tracked(subentries))
  <1>1. n \in Subentries \ Tracked(subentries)
    <2>1. /\ Subentries \ Tracked(subentries) \in SUBSET Nat
          /\ Subentries \ Tracked(subentries) # {}
      BY Values DEF Tracked, AddSubentry
    <2> QED
      BY <2>1, LeastIs
  <1>2. new \in Trackers /\ new.device = d /\ new.hint = NoAsset
    BY DEF Trackers
  <1>3. /\ subentries' \in [Subentries -> Trackers] /\ subentries'[n] = new
        /\ \A s \in Subentries : s # n => subentries'[s] = subentries[s]
    <2>1. subentries' = [subentries EXCEPT ![n] = new]
      BY DEF AddSubentry
    <2> HIDE DEF n, new
    <2> QED
      BY <1>1, <1>2, <2>1
  <1> HIDE DEF n, new
  <1>4. \A s \in Tracked(subentries') :
          \/ s \in Tracked(subentries) /\ subentries'[s] = subentries[s]
          \/ subentries'[s] = new
    BY <1>3 DEF Tracked
  <1>5. \A s \in Subentries : subentries'[s].hint # NoAsset => subentries'[s] = subentries[s]
    BY <1>2, <1>3
  <1>6. ASSUME NEW st, Agrees(st, subentries)
        PROVE  Agrees(st, subentries')
    BY <1>2, <1>4, <1>6 DEF Agrees, Consistent
  <1> QED
    BY <1>2, <1>3, <1>4, <1>5, <1>6

\* The hints of a reconciliation are written.
LEMMA Hinted ==
  ASSUME NEW st, subentries \in [Subentries -> Trackers], subentries' \in [Subentries -> Trackers],
         Agrees(st, subentries), NEW hints \in [Subentries -> Assets \union {NoAsset}],
         \A s \in Tracked(subentries) :
            hints[s] # NoAsset => st.device[hints[s]] = subentries[s].device,
         \A s \in Subentries :
            \/ subentries'[s] = subentries[s]
            \/ /\ s \in Tracked(subentries) /\ hints[s] # NoAsset
               /\ subentries'[s] = [subentries[s] EXCEPT !.hint = hints[s]]
  PROVE  /\ Agrees(st, subentries')
         /\ \A s \in Tracked(subentries') :
               s \in Tracked(subentries) /\ subentries'[s].device = subentries[s].device
  <1>1. ASSUME NEW s \in Subentries
        PROVE  /\ subentries'[s].device = subentries[s].device
               /\ \/ subentries'[s].hint = subentries[s].hint
                  \/ s \in Tracked(subentries) /\ hints[s] # NoAsset
                     /\ subentries'[s].hint = hints[s]
               /\ s \notin Tracked(subentries) => subentries'[s] = subentries[s]
    <2>1. subentries[s] \in Trackers
      OBVIOUS
    <2>2. CASE /\ s \in Tracked(subentries) /\ hints[s] # NoAsset
               /\ subentries'[s] = [subentries[s] EXCEPT !.hint = hints[s]]
      <3>1. subentries'[s].device = subentries[s].device /\ subentries'[s].hint = hints[s]
        BY <2>1, <2>2 DEF Trackers
      <3> QED
        BY <2>2, <3>1
    <2> QED
      BY <2>2
  <1>2. \A s \in Tracked(subentries') : s \in Tracked(subentries)
    BY <1>1 DEF Tracked
  <1>3. ASSUME NEW s \in Tracked(subentries')
        PROVE  subentries'[s].device \in Devices /\ Consistent(st, subentries'[s])
    <2>1. s \in Tracked(subentries) /\ s \in Subentries
      BY <1>2 DEF Tracked
    <2>2. subentries[s].device \in Devices /\ Consistent(st, subentries[s])
      BY <2>1 DEF Agrees
    <2> QED
      BY <1>1, <2>1, <2>2 DEF Consistent
  <1> QED
    BY <1>1, <1>2, <1>3 DEF Agrees, Tracked

-----------------------------------------------------------------------------
(* Reconciliation                                                            *)

Unadopted == [store |-> data, hint |-> [s \in Subentries |-> NoAsset], exhausted |-> FALSE]

\* Adopted is the function its definition describes.
LEMMA AdoptedIs ==
  /\ Adopted[0] = Unadopted
  /\ \A n \in 1..MaxSubentries : Adopted[n] = Adopt(Adopted[n - 1], n)
  <1> DEFINE Step(f, n) == IF n = 0 THEN Unadopted ELSE Adopt(f[n - 1], n)
             S == {m \in Nat : \E f : f = [n \in 0..m |-> Step(f, n)]}
  <1>1. Adopted = CHOOSE f : f = [n \in 0..MaxSubentries |-> Step(f, n)]
    BY DEF Adopted, Unadopted
  <1>2. 0 \in S
    <2> DEFINE f == [n \in 0..0 |-> Unadopted]
    <2>1. f = [n \in 0..0 |-> Step(f, n)]
      OBVIOUS
    <2> QED
      BY <2>1
  <1>3. ASSUME NEW m \in Nat, m \in S
        PROVE  m + 1 \in S
    <2>1. PICK f : f = [n \in 0..m |-> Step(f, n)]
      BY <1>3
    <2> DEFINE g == [n \in 0..(m + 1) |-> IF n <= m THEN f[n] ELSE Adopt(f[m], m + 1)]
    <2>2. ASSUME NEW n \in 0..(m + 1)
          PROVE  g[n] = Step(g, n)
      <3>1. CASE n = 0
        BY <2>1, <3>1
      <3>2. CASE n \in 1..m
        <4>1. n - 1 \in 0..m /\ n \in 0..m /\ g[n - 1] = f[n - 1] /\ g[n] = f[n]
          BY <3>2
        <4>2. f[n] = Adopt(f[n - 1], n)
          BY <2>1, <3>2, <4>1
        <4> QED
          BY <3>2, <4>1, <4>2
      <3>3. CASE n = m + 1
        <4>1. n - 1 = m /\ g[m] = f[m] /\ g[n] = Adopt(f[m], m + 1) /\ n # 0
          BY <3>3
        <4> HIDE DEF g
        <4> QED
          BY <3>3, <4>1
      <3> QED
        BY <3>1, <3>2, <3>3
    <2>3. g = [n \in 0..(m + 1) |-> Step(g, n)]
      BY <2>2
    <2> HIDE DEF g
    <2>4. \E f1 : f1 = [n \in 0..(m + 1) |-> Step(f1, n)]
      BY <2>3
    <2> QED
      BY <2>4
  <1>4. Nat \subseteq S
    BY <1>2, <1>3, SetInduction
  <1>5. MaxSubentries \in Nat
    BY BoundsAssumption
  <1>6. Adopted = [n \in 0..MaxSubentries |-> Step(Adopted, n)]
    BY <1>1, <1>4, <1>5
  <1>7. Adopted[0] = Unadopted
    BY <1>5, <1>6
  <1>8. ASSUME NEW n \in 1..MaxSubentries
        PROVE  Adopted[n] = Adopt(Adopted[n - 1], n)
    <2>1. n \in 0..MaxSubentries /\ n # 0
      BY <1>5
    <2>2. Adopted[n] = Step(Adopted, n)
      BY <1>6, <2>1
    <2> QED
      BY <2>1, <2>2
  <1> QED
    BY <1>7, <1>8

\* What reconciliation makes of the published snapshot, after any number of
\* subentries: new Assets for devices that nobody owned, and no other change.
Reconciling(acc) ==
    /\ Sound(acc.store) /\ Agrees(acc.store, subentries)
    /\ acc.store.archived = data.archived
    /\ \A a \in Assets : data.device[a] # "missing" => acc.store.device[a] = data.device[a]
    /\ \A a \in Assets : acc.store.device[a] # data.device[a] =>
          \A b \in Assets : data.device[b] # acc.store.device[a]
    /\ acc.hint \in [Subentries -> Assets \union {NoAsset}]
    /\ \A s \in Subentries : acc.hint[s] # NoAsset =>
          s \in Tracked(subentries) /\ acc.store.device[acc.hint[s]] = subentries[s].device

LEMMA AdoptKeeps ==
  ASSUME NEW acc, Reconciling(acc), NEW s \in Subentries,
         subentries \in [Subentries -> Trackers]
  PROVE  Reconciling(Adopt(acc, s))
  <1> DEFINE st == acc.store
             d == subentries[s].device
             named == Resolve(st, subentries[s])
             free == Assets \ Present(st)
             a == IF named # NoAsset THEN named ELSE Least(free)
             st2 == [st EXCEPT !.device[a] = d]
             hint2 == [acc.hint EXCEPT ![s] = a]
  <1>1. CASE s \notin Tracked(subentries) \/ s \in quarantine
    BY <1>1 DEF Adopt
  <1>2. CASE ~(s \notin Tracked(subentries) \/ s \in quarantine) /\ named = NoAsset /\ free = {}
    <2>1. Adopt(acc, s) = [acc EXCEPT !.exhausted = TRUE]
      BY <1>2 DEF Adopt
    <2>2. Adopt(acc, s).store = acc.store /\ Adopt(acc, s).hint = acc.hint
      BY <2>1
    <2> QED
      BY <2>2 DEF Reconciling
  <1>3. CASE /\ s \in Tracked(subentries) /\ s \notin quarantine
             /\ named # NoAsset \/ free # {}
    <2>1. Adopt(acc, s) = [store |-> st2, hint |-> hint2, exhausted |-> acc.exhausted]
      BY <1>3 DEF Adopt
    <2>2. Adopt(acc, s).store = st2 /\ Adopt(acc, s).hint = hint2
      BY <2>1
    <2>3. /\ st \in Stores /\ st.device \in [Assets -> Links] /\ st.archived \in SUBSET Assets
          /\ st = [device |-> st.device, archived |-> st.archived]
          /\ Sound(st) /\ Agrees(st, subentries)
      BY StoreType DEF Reconciling, Sound
    <2>4. /\ subentries[s] \in Trackers /\ d \in Devices /\ Consistent(st, subentries[s])
      BY <1>3, <2>3 DEF Agrees
    <2>5. /\ named \in Assets \union {NoAsset}
          /\ \A b \in Assets : named = b <=> st.device[b] = d
      BY <2>3, <2>4, ResolveIs
    <2>6. /\ a \in Assets
          /\ \/ st.device[a] = d
             \/ st.device[a] = "missing" /\ \A b \in Assets : st.device[b] # d
      <3>1. CASE named # NoAsset
        BY <2>5, <3>1
      <3>2. CASE named = NoAsset
        <4>1. free # {} /\ free \in SUBSET Nat
          BY <1>3, <3>2, Values
        <4>2. Least(free) \in free
          BY <4>1, LeastIs
        <4>3. a \in Assets /\ st.device[a] = "missing"
          BY <3>2, <4>2 DEF Present
        <4>4. \A b \in Assets : st.device[b] # d
          BY <2>5, <3>2, Values
        <4> QED
          BY <4>3, <4>4
      <3> QED
        BY <3>1, <3>2
    <2> HIDE DEF a, named, free
    <2>7. /\ st2 = [device |-> [st.device EXCEPT ![a] = d], archived |-> st.archived]
          /\ st2.device = [st.device EXCEPT ![a] = d] /\ st2.archived = st.archived
      BY <2>3
    <2>8. /\ st2.device[a] = d
          /\ \A b \in Assets : b # a => st2.device[b] = st.device[b]
          /\ st2 \in Stores
      BY <2>3, <2>4, <2>6, <2>7 DEF Stores, Links
    <2> HIDE DEF st2
    <2>9. \A b \in Assets : st.device[b] # "missing" => st2.device[b] = st.device[b]
      BY <2>6, <2>8
    <2>10. Sound(st2)
      <3>1. \A x, y \in Assets : st.device[x] \in Devices /\ st.device[x] = st.device[y] => x = y
        BY <2>3, ValidIs DEF Sound
      <3>2. \A x, y \in Assets : st2.device[x] \in Devices /\ st2.device[x] = st2.device[y] => x = y
        BY <2>6, <2>8, <3>1
      <3>3. Valid(st2)
        BY <2>8, <3>2, ValidIs
      <3>4. st2.archived \subseteq Present(st2)
        BY <2>3, <2>7, <2>9 DEF Sound, Present
      <3> QED
        BY <2>8, <3>3, <3>4 DEF Sound
    <2>11. Agrees(st2, subentries)
      <3> SUFFICES ASSUME NEW t \in Tracked(subentries)
                   PROVE  subentries[t].device \in Devices /\ Consistent(st2, subentries[t])
        BY DEF Agrees
      <3>1. t \in Subentries /\ subentries[t].device \in Devices /\ Consistent(st, subentries[t])
        BY <2>3 DEF Agrees, Tracked
      <3>2. subentries[t].hint \in Assets \union {NoAsset}
        BY <3>1 DEF Trackers
      <3> QED
        BY <2>9, <3>1, <3>2, Values DEF Consistent
    <2>12. \A b \in Assets : data.device[b] # "missing" => st2.device[b] = data.device[b]
      BY <2>9 DEF Reconciling
    <2>13. ASSUME NEW b \in Assets, st2.device[b] # data.device[b], NEW c \in Assets
           PROVE  data.device[c] # st2.device[b]
      <3>1. CASE st2.device[b] = st.device[b]
        BY <2>13, <3>1 DEF Reconciling
      <3>2. CASE st2.device[b] # st.device[b]
        <4>1. st2.device[b] = d /\ \A x \in Assets : st.device[x] # d
          BY <2>6, <2>8, <3>2
        <4>2. d # "missing"
          BY <2>4, Values
        <4> QED
          BY <4>1, <4>2 DEF Reconciling
      <3> QED
        BY <3>1, <3>2
    <2>14. hint2 \in [Subentries -> Assets \union {NoAsset}]
      BY <2>6 DEF Reconciling
    <2>15. ASSUME NEW t \in Subentries, hint2[t] # NoAsset
           PROVE  t \in Tracked(subentries) /\ st2.device[hint2[t]] = subentries[t].device
      <3>1. acc.hint \in [Subentries -> Assets \union {NoAsset}]
        BY DEF Reconciling
      <3>2. CASE t = s
        BY <1>3, <2>8, <3>1, <3>2
      <3>3. CASE t # s
        <4>1. hint2[t] = acc.hint[t] /\ acc.hint[t] \in Assets
          BY <2>15, <3>1, <3>3
        <4>2. t \in Tracked(subentries) /\ st.device[acc.hint[t]] = subentries[t].device
          BY <2>15, <4>1 DEF Reconciling
        <4>3. subentries[t].device \in Devices
          BY <2>3, <4>2 DEF Agrees
        <4> QED
          BY <2>9, <4>1, <4>2, <4>3, Values
      <3> QED
        BY <3>2, <3>3
    <2>16. st2.archived = data.archived
      BY <2>7 DEF Reconciling
    <2> HIDE DEF hint2, st, d
    <2> QED
      BY <2>2, <2>10, <2>11, <2>12, <2>13, <2>14, <2>15, <2>16 DEF Reconciling
  <1> QED
    BY <1>1, <1>2, <1>3

LEMMA ReconciliationIs ==
  ASSUME Sound(data), Agrees(data, subentries), subentries \in [Subentries -> Trackers]
  PROVE  /\ Reconciling(Reconciliation)
         /\ Follows(data, Reconciliation.store)
         /\ Conflicts(Reconciliation.store, subentries) \subseteq Conflicts(data, subentries)
  <1> DEFINE S == {n \in Nat : n <= MaxSubentries => Reconciling(Adopted[n])}
  <1>1. 0 \in S
    <2>1. Reconciling(Unadopted)
      BY DEF Reconciling, Unadopted
    <2> QED
      BY <2>1, AdoptedIs
  <1>2. ASSUME NEW n \in Nat, n \in S
        PROVE  n + 1 \in S
    <2>1. SUFFICES ASSUME n + 1 <= MaxSubentries
                   PROVE  Reconciling(Adopted[n + 1])
      OBVIOUS
    <2>2. MaxSubentries \in Nat
      BY BoundsAssumption
    <2>3. n + 1 \in 1..MaxSubentries /\ n + 1 \in Subentries /\ (n + 1) - 1 = n
      BY <2>1, <2>2 DEF Subentries
    <2>4. Adopted[n + 1] = Adopt(Adopted[n], n + 1)
      BY <2>3, AdoptedIs
    <2>5. Reconciling(Adopted[n])
      BY <1>2, <2>1, <2>2
    <2> QED
      BY <2>3, <2>4, <2>5, AdoptKeeps
  <1>3. Nat \subseteq S
    BY <1>1, <1>2, SetInduction
  <1>4. MaxSubentries \in Nat
    BY BoundsAssumption
  <1>5. Reconciling(Adopted[MaxSubentries])
    BY <1>3, <1>4
  <1>6. Reconciling(Reconciliation)
    BY <1>5 DEF Reconciliation
  <1>7. Follows(data, Reconciliation.store)
    BY <1>6 DEF Reconciling, Follows, Sound, Present
  <1>8. Conflicts(Reconciliation.store, subentries) \subseteq Conflicts(data, subentries)
    BY <1>6, <1>7, ConflictsShrink DEF Reconciling
  <1> QED
    BY <1>6, <1>7, <1>8

-----------------------------------------------------------------------------
(* Types                                                                     *)

LEMMA HolderIs ==
  ASSUME queue \in Seq(Calls), queue # <<>>
  PROVE  /\ Holder \in Calls /\ Holder = queue[1] /\ 1 \in 1..Len(queue)
         /\ Tail(queue) \in Seq(Calls)
  BY WithoutFirst DEF Holder

LEMMA RefuseType ==
  ASSUME TypeOK, queue # <<>>, Refuse
  PROVE  /\ disk' \in Stores /\ data' \in Stores /\ candidate' \in Stores
         /\ uncertain' \in BOOLEAN /\ writing' \in BOOLEAN /\ queue' \in Seq(Calls)
  BY HolderIs DEF TypeOK, Refuse, Release, storeVars

LEMMA MutatedType ==
  ASSUME TypeOK, queue # <<>>, NEW st \in Stores, Mutated(st)
  PROVE  /\ disk' \in Stores /\ data' \in Stores /\ candidate' \in Stores
         /\ uncertain' \in BOOLEAN /\ writing' \in BOOLEAN /\ queue' \in Seq(Calls)
  <1>1. CASE Refuse
    BY <1>1, RefuseType
  <1>2. CASE writing' = TRUE /\ candidate' = st /\ UNCHANGED <<storeVars, queue>>
    BY <1>2 DEF TypeOK, storeVars
  <1> QED
    BY <1>1, <1>2 DEF Mutated

LEMMA SubmitType ==
  ASSUME TypeOK, NEW call \in Calls, Submit(call)
  PROVE  TypeOK'
  <1>1. queue' \in Seq(Calls)
    BY OneMore DEF TypeOK, Submit
  <1> QED
    BY <1>1 DEF TypeOK, Submit, storeVars, configVars, setupVars

LEMMA AnsweredType ==
  ASSUME TypeOK, NEW call \in Calls, Answered(call)
  PROVE  flow' \in [Flows -> [at: {"idle", "source", "waiting", "closed", "gone"},
                              device: Devices \union {"none"}]]
  <1> DEFINE F == [at: {"idle", "source", "waiting", "closed", "gone"},
                   device: Devices \union {"none"}]
  <1>1. flow \in [Flows -> F]
    BY DEF TypeOK
  <1>2. CASE call.op = "reserve"
    <2>1. call.flow \in Flows /\ flow[call.flow] \in F
      BY <1>1, <1>2, CallType
    <2> DEFINE f2 == IF flow[call.flow].at = "closed" THEN IdleFlow
                     ELSE [flow[call.flow] EXCEPT !.at = "source"]
    <2>2. f2 \in F
      BY <2>1 DEF IdleFlow
    <2>3. flow' = [flow EXCEPT ![call.flow] = f2]
      BY <1>2 DEF Answered
    <2> HIDE DEF f2, F
    <2>4. flow' \in [Flows -> F]
      BY <1>1, <2>1, <2>2, <2>3
    <2> QED
      BY <2>4 DEF F
  <1>3. CASE call.op # "reserve"
    BY <1>1, <1>3 DEF Answered
  <1> QED
    BY <1>2, <1>3

\* A subentry that Home Assistant adds.
LEMMA AddedType ==
  ASSUME TypeOK, NEW d \in Devices, AddSubentry(d)
  PROVE  subentries' \in [Subentries -> Trackers] /\ notified' \in BOOLEAN
  <1>3. subentries' \in [Subentries -> Trackers]
    BY OneTracked DEF TypeOK
  <1>4. notified' \in BOOLEAN
    BY DEF AddSubentry, SubentriesChanged, Listening
  <1> QED
    BY <1>3, <1>4

LEMMA TypeStep == IInv /\ Next => TypeOK'
  <1> SUFFICES ASSUME IInv, Next PROVE TypeOK'
    OBVIOUS
  <1> USE DEF storeVars, lockVars, configVars, setupVars
  <1>1. TypeOK
    BY DEF IInv
  <1>2. ASSUME NEW a \in Assets, RequestArchive(a) \/ RequestRestore(a) \/ RequestUnlink(a)
        PROVE  TypeOK'
    <2>1. data.device[a] \in Links
      BY <1>1, StoreType DEF TypeOK
    <2>2. /\ [op |-> "archive", asset |-> a] \in Calls /\ [op |-> "restore", asset |-> a] \in Calls
          /\ [op |-> "unlink", asset |-> a, expected |-> data.device[a]] \in Calls
      BY <2>1 DEF Calls
    <2> QED
      BY <1>1, <1>2, <2>2, SubmitType DEF RequestArchive, RequestRestore, RequestUnlink
  <1>3. ASSUME NEW a \in Assets, NEW d \in Devices, RequestLink(a, d)
        PROVE  TypeOK'
    <2>1. data.device[a] \in Links
      BY <1>1, StoreType DEF TypeOK
    <2>2. [op |-> "link", asset |-> a, device |-> d, expected |-> data.device[a]] \in Calls
      BY <2>1 DEF Calls
    <2> QED
      BY <1>1, <1>3, <2>2, SubmitType DEF RequestLink
  <1>4. CASE Recover
    BY <1>1, <1>4 DEF Recover, TypeOK
  <1>5. CASE RecoveryFails
    <2>1. Holder \in Calls
      BY <1>1, <1>5, HolderIs DEF RecoveryFails, TypeOK
    <2> QED
      BY <1>1, <1>5, <2>1, RefuseType, AnsweredType DEF RecoveryFails, TypeOK
  <1>6. CASE Archive \/ Restore \/ Link \/ Unlink
    <2>1. queue # <<>>
      BY <1>6 DEF Archive, Restore, Link, Unlink, Turn
    <2>2. data \in Stores /\ Holder \in Calls
      BY <1>1, <2>1, HolderIs DEF TypeOK
    <2>3. /\ data.device \in [Assets -> Links] /\ data.archived \in SUBSET Assets
          /\ data = [device |-> data.device, archived |-> data.archived]
      BY <2>2, StoreType
    <2>4. \A a \in Assets : /\ [data EXCEPT !.archived = @ \union {a}] \in Stores
                            /\ [data EXCEPT !.archived = @ \ {a}] \in Stores
      BY <2>3 DEF Stores
    <2>5. \A a \in Assets, d \in Links : [data EXCEPT !.device[a] = d] \in Stores
      BY <2>3 DEF Stores
    <2>6. Devices \subseteq Links /\ "none" \in Links
      BY DEF Links
    <2>7. /\ disk' \in Stores /\ data' \in Stores /\ candidate' \in Stores
          /\ uncertain' \in BOOLEAN /\ writing' \in BOOLEAN /\ queue' \in Seq(Calls)
      <3>1. CASE Archive
        <4>1. Holder.asset \in Assets
          BY <2>2, <3>1, CallType DEF Archive, Turn
        <4> QED
          BY <1>1, <2>1, <2>4, <3>1, <4>1, RefuseType, MutatedType DEF Archive
      <3>2. CASE Restore
        <4>1. Holder.asset \in Assets
          BY <2>2, <3>2, CallType DEF Restore, Turn
        <4> QED
          BY <1>1, <2>1, <2>4, <3>2, <4>1, MutatedType DEF Restore
      <3>3. CASE Link
        <4>1. Holder.asset \in Assets /\ Holder.device \in Links
          BY <2>2, <2>6, <3>3, CallType DEF Link, Turn
        <4> QED
          BY <1>1, <2>1, <2>5, <3>3, <4>1, RefuseType, MutatedType DEF Link
      <3>4. CASE Unlink
        <4>1. Holder.asset \in Assets
          BY <2>2, <3>4, CallType DEF Unlink, Turn
        <4> QED
          BY <1>1, <2>1, <2>5, <2>6, <3>4, <4>1, RefuseType, MutatedType DEF Unlink
      <3> QED
        BY <1>6, <3>1, <3>2, <3>3, <3>4
    <2> QED
      BY <1>1, <1>6, <2>7 DEF Archive, Restore, Link, Unlink, TypeOK
  <1>7. ASSUME NEW ok \in BOOLEAN, writing, Reconciled(ok)
        PROVE  /\ subentries' \in [Subentries -> Trackers]
               /\ updates' \in [Subentries -> Assets \union {NoAsset}]
               /\ entry' \in {"unloaded", "reconciling", "reconciled", "platforms", "loaded",
                              "prepared", "unloading", "failed"}
    <2>1. CASE Holder.op # "reconcile"
      BY <1>1, <1>7, <2>1 DEF Reconciled, TypeOK
    <2>2. CASE Holder.op = "reconcile"
      <3>1. /\ subentries \in [Subentries -> Trackers]
            /\ updates \in [Subentries -> Assets \union {NoAsset}]
        BY <1>1 DEF TypeOK
      <3>2. ASSUME NEW s \in Subentries, updates[s] # NoAsset
            PROVE  [subentries[s] EXCEPT !.hint = updates[s]] \in Trackers
        <4>1. subentries[s] \in Trackers /\ updates[s] \in Assets
          BY <3>1, <3>2
        <4> QED
          BY <4>1 DEF Trackers
      <3>3. subentries' \in [Subentries -> Trackers]
        BY <1>7, <2>2, <3>1, <3>2 DEF Reconciled
      <3> QED
        BY <1>7, <2>2, <3>3 DEF Reconciled
    <2> QED
      BY <2>1, <2>2
  <1>8. CASE writing /\ (SaveVerified \/ SaveFails \/ \E lands \in BOOLEAN : SaveAmbiguous(lands))
    <2>1. queue # <<>>
      BY <1>8 DEF IInv, Protocol, StageInv
    <2>2. /\ disk' \in Stores /\ data' \in Stores /\ candidate' \in Stores
          /\ uncertain' \in BOOLEAN /\ writing' \in BOOLEAN /\ queue' \in Seq(Calls)
      BY <1>1, <1>8, <2>1, HolderIs
         DEF SaveVerified, SaveFails, SaveAmbiguous, Refuse, Release, TypeOK
    <2>3. \E ok \in BOOLEAN : Reconciled(ok)
      BY <1>8 DEF SaveVerified, SaveFails, SaveAmbiguous
    <2>4. /\ subentries' \in [Subentries -> Trackers]
          /\ updates' \in [Subentries -> Assets \union {NoAsset}]
          /\ entry' \in {"unloaded", "reconciling", "reconciled", "platforms", "loaded",
                         "prepared", "unloading", "failed"}
      BY <1>7, <1>8, <2>3
    <2>5. UNCHANGED <<notified, quarantine, starting, writer, reserved, flow>>
      BY <1>8 DEF SaveVerified, SaveFails, SaveAmbiguous
    <2> QED
      BY <1>1, <2>2, <2>4, <2>5 DEF TypeOK
  <1>9. ASSUME NEW lands \in BOOLEAN, SaveResolved(lands)
        PROVE  TypeOK'
    <2>1. queue # <<>>
      BY <1>9 DEF IInv, Protocol, StageInv, SaveResolved
    <2>2. Tail(queue) \in Seq(Calls)
      BY <1>1, <2>1, HolderIs DEF TypeOK
    <2> QED
      BY <1>1, <1>9, <2>2 DEF SaveResolved, Release, TypeOK
  <1>10. ASSUME NEW f \in Flows, NEW d \in Devices, FlowChooses(f, d)
         PROVE  TypeOK'
    BY <1>1, <1>10 DEF FlowChooses, TypeOK
  <1>11. ASSUME NEW f \in Flows, FlowSubmits(f)
         PROVE  TypeOK'
    <2>1. flow[f].device \in Devices /\ flow[f] \in [at: {"idle", "source", "waiting", "closed", "gone"},
                                                      device: Devices \union {"none"}]
      BY <1>1, <1>11 DEF FlowSubmits, IInv, Protocol, FlowInv, TypeOK
    <2>2. /\ IdleFlow \in [at: {"idle", "source", "waiting", "closed", "gone"},
                           device: Devices \union {"none"}]
          /\ [flow[f] EXCEPT !.at = "waiting"] \in
                [at: {"idle", "source", "waiting", "closed", "gone"},
                 device: Devices \union {"none"}]
      BY <2>1 DEF IdleFlow
    <2>3. flow' \in [Flows -> [at: {"idle", "source", "waiting", "closed", "gone"},
                               device: Devices \union {"none"}]]
      BY <1>1, <1>11, <2>2 DEF FlowSubmits, TypeOK
    <2>4. CASE Target(flow[f].device) = NoAsset
      BY <1>1, <1>11, <2>1, <2>3, <2>4, AddedType DEF FlowSubmits, TypeOK
    <2>5. CASE Target(flow[f].device) # NoAsset
      <3>1. Target(flow[f].device) \in Assets
        <4>1. [device |-> flow[f].device, hint |-> NoAsset] \in Trackers
          BY <2>1 DEF Trackers
        <4>2. Consistent(data, [device |-> flow[f].device, hint |-> NoAsset])
          BY DEF Consistent
        <4>3. Sound(data)
          BY DEF IInv, Protocol, SnapshotInv
        <4> QED
          BY <2>1, <2>5, <4>1, <4>2, <4>3, ResolveIs DEF Target
      <3>2. [op |-> "reserve", asset |-> Target(flow[f].device), flow |-> f] \in Calls
        BY <3>1 DEF Calls
      <3>3. queue' \in Seq(Calls)
        BY <1>1, <1>11, <2>5, <3>2, OneMore DEF FlowSubmits, TypeOK
      <3> QED
        BY <1>1, <1>11, <2>3, <2>5, <3>3 DEF FlowSubmits, TypeOK
    <2> QED
      BY <2>4, <2>5
  <1>12. ASSUME NEW f \in Flows, FlowCloses(f)
         PROVE  TypeOK'
    <2>1. flow[f] \in [at: {"idle", "source", "waiting", "closed", "gone"},
                       device: Devices \union {"none"}]
      BY <1>1 DEF TypeOK
    <2>2. /\ IdleFlow \in [at: {"idle", "source", "waiting", "closed", "gone"},
                           device: Devices \union {"none"}]
          /\ [flow[f] EXCEPT !.at = "closed"] \in
                [at: {"idle", "source", "waiting", "closed", "gone"},
                 device: Devices \union {"none"}]
      BY <2>1 DEF IdleFlow
    <2>3. flow' \in [Flows -> [at: {"idle", "source", "waiting", "closed", "gone"},
                               device: Devices \union {"none"}]]
      BY <1>1, <1>12, <2>2 DEF FlowCloses, TypeOK
    <2> QED
      BY <1>1, <1>12, <2>3 DEF FlowCloses, TypeOK
  <1>13. CASE Reserve
    <2>1. queue # <<>> /\ Refuse /\ Holder.op = "reserve"
      BY <1>13 DEF Reserve, Turn
    <2>2. Holder \in Calls /\ Holder.asset \in Assets /\ Holder.flow \in Flows
      BY <1>1, <2>1, HolderIs, CallType DEF TypeOK
    <2>3. /\ disk' \in Stores /\ data' \in Stores /\ candidate' \in Stores
          /\ uncertain' \in BOOLEAN /\ writing' \in BOOLEAN /\ queue' \in Seq(Calls)
      BY <1>1, <2>1, RefuseType
    <2>4. CASE Answered(Holder) /\ UNCHANGED <<configVars, reserved>>
      BY <1>1, <1>13, <2>2, <2>3, <2>4, AnsweredType DEF Reserve, TypeOK
    <2>5. CASE /\ reserved' = reserved \union {Holder.asset}
               /\ flow' = [flow EXCEPT ![Holder.flow] = GoneFlow]
               /\ UNCHANGED configVars
      BY <1>1, <1>13, <2>2, <2>3, <2>5 DEF Reserve, TypeOK, GoneFlow
    <2>6. CASE /\ AddSubentry(flow[Holder.flow].device)
               /\ flow' = [flow EXCEPT ![Holder.flow] = IdleFlow]
               /\ UNCHANGED reserved
      <3>1. queue[1].op = "reserve" /\ queue[1] = Holder /\ 1 \in 1..Len(queue)
        BY <1>1, <2>1, HolderIs DEF TypeOK
      <3>2. flow[Holder.flow].at \in {"waiting", "closed"}
        BY <3>1 DEF IInv, Protocol, CallInv, Waits, Alone
      <3>3. flow[Holder.flow].device \in Devices
        BY <2>2, <3>2 DEF IInv, Protocol, FlowInv
      <3> QED
        BY <1>1, <1>13, <2>3, <2>6, <3>3, AddedType DEF Reserve, TypeOK, IdleFlow
    <2> QED
      BY <1>13, <2>4, <2>5, <2>6 DEF Reserve
  <1>14. ASSUME NEW s \in Subentries, RemoveSubentry(s)
         PROVE  TypeOK'
    BY <1>1, <1>14, Untracked DEF RemoveSubentry, SubentriesChanged, TypeOK
  <1>15. ASSUME NEW a \in Assets, RetireOrphan(a) \/ WriterCommits(a) \/ WriterRemoved(a) \/ RegisterWriter(a)
         PROVE  TypeOK'
    BY <1>1, <1>15 DEF RetireOrphan, WriterCommits, WriterRemoved, RegisterWriter, TypeOK
  <1>16. CASE ListenerDone \/ Prepare \/ SetupDone
    BY <1>1, <1>16 DEF ListenerDone, Prepare, SetupDone, TypeOK
  <1>17. CASE UnloadPlatforms
    <2>1. [op |-> "retire"] \in Calls
      BY DEF Calls
    <2>2. queue' \in Seq(Calls)
      BY <1>1, <1>17, <2>1, OneMore DEF UnloadPlatforms, TypeOK
    <2> QED
      BY <1>1, <1>17, <2>2 DEF UnloadPlatforms, TypeOK
  <1>18. CASE Retire
    <2>1. <<>> \in Seq(Calls)
      OBVIOUS
    <2> QED
      BY <1>1, <1>18, <2>1 DEF Retire, TypeOK, IdleFlow
  <1>19. CASE Setup
    <2>1. <<[op |-> "reconcile"]>> \in Seq(Calls)
      BY DEF Calls
    <2>2. Conflicts(disk, subentries) \subseteq Subentries
      BY DEF Conflicts, Tracked
    <2> QED
      BY <1>1, <1>19, <2>1, <2>2 DEF Setup, TypeOK
  <1>20. CASE Reconcile
    <2> DEFINE r == Reconciliation
    <2>1. Reconciling(r)
      BY ReconciliationIs DEF IInv, Protocol, SnapshotInv, TypeOK
    <2>2. queue # <<>> /\ r.store \in Stores /\ r.hint \in [Subentries -> Assets \union {NoAsset}]
      BY <1>20, <2>1 DEF Reconcile, Turn, Reconciling, Sound
    <2> HIDE DEF r
    <2>3. CASE Refuse /\ entry' = "unloaded" /\ UNCHANGED <<updates, subentries>>
      BY <1>1, <1>20, <2>2, <2>3, RefuseType DEF Reconcile, TypeOK
    <2>4. CASE /\ Refuse /\ entry' = "reconciled" /\ UNCHANGED updates
               /\ subentries' = [s \in Subentries |->
                     IF r.hint[s] = NoAsset THEN subentries[s]
                     ELSE [subentries[s] EXCEPT !.hint = r.hint[s]]]
      <3>1. ASSUME NEW s \in Subentries, r.hint[s] # NoAsset
            PROVE  [subentries[s] EXCEPT !.hint = r.hint[s]] \in Trackers
        <4>1. subentries[s] \in Trackers /\ r.hint[s] \in Assets
          BY <1>1, <2>2, <3>1 DEF TypeOK
        <4> QED
          BY <4>1 DEF Trackers
      <3>2. subentries' \in [Subentries -> Trackers]
        BY <1>1, <2>4, <3>1 DEF TypeOK
      <3> QED
        BY <1>1, <1>20, <2>2, <2>4, <3>2, RefuseType DEF Reconcile, TypeOK
    <2>5. CASE Mutated(r.store) /\ updates' = r.hint /\ UNCHANGED <<entry, subentries>>
      BY <1>1, <1>20, <2>2, <2>5, MutatedType DEF Reconcile, TypeOK
    <2> QED
      BY <1>20, <2>3, <2>4, <2>5 DEF Reconcile, r
  <1>21. CASE StartPlatforms
    <2>1. starting' \subseteq Assets
      BY <1>21 DEF StartPlatforms, Owners
    <2> QED
      BY <1>1, <1>21, <2>1 DEF StartPlatforms, TypeOK
  <1>22. CASE ProcessStops
    <2>1. <<>> \in Seq(Calls)
      OBVIOUS
    <2> QED
      BY <1>1, <1>22, <2>1 DEF ProcessStops, TypeOK, IdleFlow
  <1>23. SaveVerified \/ SaveFails \/ (\E lands \in BOOLEAN : SaveAmbiguous(lands)) => writing
    BY DEF SaveVerified, SaveFails, SaveAmbiguous
  <1> QED
    BY <1>2, <1>3, <1>4, <1>5, <1>6, <1>8, <1>9, <1>10, <1>11, <1>12, <1>13, <1>14, <1>15,
       <1>16, <1>17, <1>18, <1>19, <1>20, <1>21, <1>22, <1>23 DEF Next

-----------------------------------------------------------------------------
(* What several actions have in common                                       *)

LEMMA Parts ==
  ASSUME IInv
  PROVE  /\ TypeOK /\ SnapshotInv /\ StageInv /\ ChangeInv /\ FlowInv /\ CallInv /\ HintInv
         /\ disk \in Stores /\ data \in Stores /\ candidate \in Stores
         /\ queue \in Seq(Calls) /\ subentries \in [Subentries -> Trackers]
         /\ Sound(data) /\ Sound(disk) /\ Sound(candidate)
         /\ Agrees(data, subentries) /\ Agrees(disk, subentries) /\ Agrees(candidate, subentries)
  BY DEF IInv, Protocol, TypeOK, SnapshotInv

\* The Store, its calls, the dialogs and the subentries stay as they are.
LEMMA Framed ==
  ASSUME IInv,
         UNCHANGED <<disk, data, uncertain, queue, writing, candidate, subentries, updates, flow>>,
         entry' = "unloaded" => entry = "unloaded",
         entry' = "reconciling" <=> entry = "reconciling"
  PROVE  Protocol'
  <1>1. SnapshotInv' /\ ChangeInv' /\ FlowInv'
    BY Parts DEF SnapshotInv, ChangeInv, FlowInv
  <1>2. StageInv'
    BY Parts DEF StageInv
  <1>3. CallInv'
    BY Parts DEF CallInv
  <1>4. HintInv'
    BY Parts DEF HintInv, Holder
  <1> QED
    BY <1>1, <1>2, <1>3, <1>4 DEF Protocol

\* A reconciliation has the Store for itself.
LEMMA Exclusive ==
  ASSUME IInv, queue # <<>>, Holder.op = "reconcile"
  PROVE  entry = "reconciling" /\ Tail(queue) = <<>>
  <1>1. queue \in Seq(Calls)
    BY Parts
  <1>2. entry = "reconciling" /\ \A i \in 1..Len(queue) : i = 1
    BY <1>1, HolderIs, Parts DEF StageInv
  <1>3. Len(queue) \in Nat \ {0} /\ Tail(queue) \in Seq(Calls) /\ Len(Tail(queue)) = Len(queue) - 1
    BY <1>1, WithoutFirst
  <1>4. Len(Tail(queue)) = 0
    <2>1. Len(queue) \in 1..Len(queue)
      BY <1>3
    <2>2. Len(queue) = 1
      BY <1>2, <2>1, Zenon
    <2> QED
      BY <1>3, <2>2
  <1> QED
    BY <1>2, <1>3, <1>4, EmptySeq

LEMMA NoCalls ==
  ASSUME queue' = <<>>
  PROVE  CallInv'
  <1>1. 1..Len(<<>>) = {}
    BY EmptySeq
  <1>2. \A st, flows, subs : Waits(st, flows, subs, <<>>)
    BY <1>1 DEF Waits
  <1> QED
    BY <1>1, <1>2 DEF CallInv

\* The call at the head of the queue ends: what is published is what was, or what
\* was saved or found on the disk.
LEMMA Released ==
  ASSUME IInv, queue # <<>>, queue' = Tail(queue), writing' = FALSE, candidate' = data',
         data' \in {data, disk, candidate},
         disk' = data' \/ (data' = data /\ disk' \in {disk, candidate}),
         uncertain' \/ data' = disk',
         \A i \in 1..Len(queue) : i > 1 /\ queue[i].op = "reserve" =>
            /\ flow'[queue[i].flow].device = flow[queue[i].flow].device
            /\ flow'[queue[i].flow].at \in {"waiting", "closed"},
         FlowInv', Agrees(data', subentries'), Agrees(disk', subentries'),
         \/ /\ Holder.op # "reconcile" /\ entry' = entry
            /\ \A s \in Subentries : subentries'[s].hint # NoAsset =>
                  subentries[s].hint # NoAsset /\ subentries'[s].device = subentries[s].device
         \/ Holder.op = "reconcile" /\ entry' \in {"reconciled", "unloaded"}
  PROVE  Protocol'
  <1>1. /\ queue \in Seq(Calls) /\ Holder = queue[1] /\ 1 \in 1..Len(queue)
        /\ Tail(queue) \in Seq(Calls)
        /\ \A i \in 1..Len(Tail(queue)) :
              i + 1 \in 1..Len(queue) /\ i + 1 > 1 /\ Tail(queue)[i] = queue[i + 1]
    BY Parts, HolderIs, WithoutFirst
  <1>2. SnapshotInv'
    BY Parts DEF SnapshotInv
  <1>3. StageInv'
    <2>1. CASE Holder.op = "reconcile"
      <3>1. queue' = <<>> /\ 1..Len(<<>>) = {}
        BY <2>1, Exclusive, EmptySeq
      <3> QED
        BY <2>1, <3>1 DEF StageInv
    <2>2. CASE Holder.op # "reconcile"
      <3>1. entry' = entry /\ entry # "unloaded" /\ entry # "reconciling"
        BY <1>1, <2>2, Parts DEF StageInv
      <3>2. \A i \in 1..Len(queue') : queue'[i].op # "reconcile"
        BY <1>1, <3>1, Parts DEF StageInv
      <3> QED
        BY <3>1, <3>2 DEF StageInv
    <2> QED
      BY <2>1, <2>2
  <1>4. ChangeInv'
    <2>1. Follows(data', disk')
      BY FollowsItself, Parts DEF ChangeInv
    <2>2. Follows(data', candidate')
      BY FollowsItself
    <2>3. Conflicts(candidate', subentries') \subseteq Conflicts(data', subentries')
      OBVIOUS
    <2> QED
      BY <2>1, <2>2, <2>3 DEF ChangeInv
  <1>5. CallInv'
    <2>1. CASE Holder.op = "reconcile"
      BY <2>1, Exclusive, NoCalls
    <2>2. CASE Holder.op # "reconcile"
      <3> DEFINE rest == Tail(queue)
      <3>1. Waits(data, flow, subentries, rest)
        BY <1>1, RestWaits, Parts DEF CallInv
      <3>2. /\ data \in Stores /\ data' \in Stores /\ Follows(data, data')
        BY FollowsItself, Parts DEF ChangeInv
      <3>3. \A i \in 1..Len(rest) : /\ Overtaken(data, data, flow, rest[i])
                                    /\ Overtaken(data, disk, flow, rest[i])
                                    /\ Overtaken(data, candidate, flow, rest[i])
        BY <1>1, NotOvertaken, Parts DEF CallInv
      <3> HIDE DEF rest
      <3>4. rest \in Seq(Calls) /\ queue' = rest
        BY <1>1 DEF rest
      <3>5. \A i \in 1..Len(rest) : Overtaken(data, data', flow, rest[i])
        BY <3>3
      <3>6. Waits(data', flow, subentries, rest)
        BY <3>1, <3>2, <3>4, <3>5, StillWaits
      <3>7. \A i \in 1..Len(rest) : rest[i].op = "reserve" =>
               /\ flow'[rest[i].flow].device = flow[rest[i].flow].device
               /\ flow'[rest[i].flow].at \in {"waiting", "closed"}
        BY <1>1 DEF rest
      <3>8. Waits(data', flow', subentries', rest)
        BY <2>2, <3>4, <3>6, <3>7, WaitsUnder
      <3>9. \A i \in 1..Len(rest) : Overtaken(data', disk', flow, rest[i])
        BY <3>3, NotOvertaken
      <3>10. \A i \in 1..Len(rest) : /\ Overtaken(data', disk', flow', rest[i])
                                     /\ Overtaken(data', candidate', flow', rest[i])
        BY <3>7, <3>9, OvertakenUnder, NotOvertaken
      <3> QED
        BY <3>4, <3>8, <3>10 DEF CallInv
    <2> QED
      BY <2>1, <2>2
  <1>6. HintInv'
    BY DEF HintInv
  <1> QED
    BY <1>2, <1>3, <1>4, <1>5, <1>6 DEF Protocol

\* The call at the head of the queue is refused or changes nothing.
LEMMA Refusing ==
  ASSUME IInv, queue # <<>>, ~writing, Refuse, Holder.op # "reconcile",
         UNCHANGED <<subentries, entry, flow>>
  PROVE  Protocol'
  <1>1. /\ queue' = Tail(queue) /\ writing' = FALSE /\ candidate' = data' /\ data' = data
        /\ disk' = disk /\ uncertain' = uncertain
    BY DEF Refuse, Release, storeVars
  <1>2. uncertain' \/ data' = disk'
    BY <1>1, Parts DEF StageInv
  <1>3. \A i \in 1..Len(queue) : i > 1 /\ queue[i].op = "reserve" =>
            /\ flow'[queue[i].flow].device = flow[queue[i].flow].device
            /\ flow'[queue[i].flow].at \in {"waiting", "closed"}
    BY Parts DEF CallInv, Waits, Alone
  <1>4. FlowInv'
    BY Parts DEF FlowInv
  <1> QED
    BY <1>1, <1>2, <1>3, <1>4, Released, Parts

\* The call at the head of the queue has a candidate to save.
LEMMA Saving ==
  ASSUME IInv, queue # <<>>, ~writing, ~uncertain, NEW st, Sound(st),
         writing' = TRUE, candidate' = st,
         UNCHANGED <<disk, data, uncertain, queue, subentries, flow, entry>>,
         Agrees(st, subentries), Follows(data, st),
         Conflicts(st, subentries) \subseteq Conflicts(data, subentries),
         \A i \in 1..Len(queue) : i > 1 => Overtaken(data, st, flow, queue[i]),
         HintInv'
  PROVE  Protocol'
  <1>1. SnapshotInv' /\ FlowInv'
    BY Parts DEF SnapshotInv, FlowInv
  <1>2. StageInv'
    BY Parts DEF StageInv
  <1>3. ChangeInv'
    BY Parts DEF ChangeInv
  <1>4. CallInv'
    BY Parts DEF CallInv
  <1> QED
    BY <1>1, <1>2, <1>3, <1>4 DEF Protocol

\* A mutator's result is refused or saved.
LEMMA Mutating ==
  ASSUME IInv, queue # <<>>, ~writing, ~uncertain, Holder.op # "reconcile",
         NEW st, Mutated(st), UNCHANGED <<subentries, flow, entry>>,
         st # data /\ Valid(st) => /\ Sound(st) /\ Agrees(st, subentries) /\ Follows(data, st)
                                   /\ Conflicts(st, subentries) \subseteq Conflicts(data, subentries),
         \A i \in 1..Len(queue) : i > 1 => Overtaken(data, st, flow, queue[i])
  PROVE  Protocol'
  <1>1. CASE Refuse
    BY <1>1, Refusing
  <1>2. CASE /\ st # data /\ Valid(st)
             /\ writing' = TRUE /\ candidate' = st /\ UNCHANGED <<storeVars, queue>>
    <2>1. HintInv'
      BY <1>2 DEF HintInv, Holder
    <2>2. UNCHANGED <<disk, data, uncertain, queue, subentries, flow, entry>>
      BY <1>2 DEF storeVars
    <2> QED
      BY <1>2, <2>1, <2>2, Saving
  <1> QED
    BY <1>1, <1>2 DEF Mutated

\* A call joins the queue.
LEMMA Joining ==
  ASSUME IInv, NEW call \in Calls, queue' = Append(queue, call), call.op # "reconcile",
         entry # "unloaded" /\ entry # "reconciling" /\ entry' # "unloaded" /\ entry' # "reconciling",
         UNCHANGED <<disk, data, uncertain, writing, candidate, subentries>>,
         \A i \in 1..Len(queue) : queue[i].op = "reserve" =>
            /\ flow'[queue[i].flow].device = flow[queue[i].flow].device
            /\ flow'[queue[i].flow].at \in {"waiting", "closed"},
         FlowInv',
         Alone(data, flow', subentries, call),
         \A i \in 1..Len(queue) : InOrder(data, flow', queue[i], call),
         Overtaken(data, disk, flow', call), Overtaken(data, candidate, flow', call)
  PROVE  Protocol'
  <1>1. /\ queue' \in Seq(Calls) /\ Len(queue) \in Nat /\ Len(queue') = Len(queue) + 1
        /\ \A i \in 1..Len(queue') : \/ i \in 1..Len(queue) /\ queue'[i] = queue[i]
                                     \/ i = Len(queue) + 1 /\ queue'[i] = call
        /\ queue \in Seq(Calls)
    BY Parts, OneMore, LenProperties
  <1>2. SnapshotInv' /\ ChangeInv'
    BY Parts DEF SnapshotInv, ChangeInv
  <1>3. StageInv'
    <2>1. \A i \in 1..Len(queue') : queue'[i].op # "reconcile"
      BY <1>1, Parts DEF StageInv
    <2>2. queue' # <<>>
      BY <1>1, EmptySeq
    <2> QED
      BY <2>1, <2>2, Parts DEF StageInv
  <1>4. CallInv'
    <2>1. Waits(data, flow', subentries, queue)
      BY <1>1, WaitsUnder, Parts DEF CallInv
    <2>2. Waits(data, flow', subentries, queue')
      BY <1>1, <2>1, OneMoreWaits
    <2>3. \A i \in 1..Len(queue) : /\ Overtaken(data, disk, flow', queue[i])
                                   /\ i > 1 => Overtaken(data, candidate, flow', queue[i])
      BY OvertakenUnder, Parts DEF CallInv
    <2>4. \A i \in 1..Len(queue') : /\ Overtaken(data, disk, flow', queue'[i])
                                    /\ i > 1 => Overtaken(data, candidate, flow', queue'[i])
      BY <1>1, <2>3
    <2> QED
      BY <2>2, <2>4 DEF CallInv
  <1>5. HintInv'
    <2>1. writing => queue # <<>> /\ Holder = queue[1] /\ Holder.op # "reconcile"
      BY <1>1, HolderIs, Parts DEF StageInv
    <2>2. writing => Holder' = Holder
      <3>1. queue' # <<>>
        BY <1>1, EmptySeq
      <3>2. Head(queue') = queue'[1]
        BY <1>1, <3>1, WithoutFirst
      <3>3. queue # <<>> => 1 \in 1..Len(queue)
        BY <1>1, WithoutFirst
      <3>4. queue # <<>> => queue'[1] = queue[1]
        BY <1>1, <3>3
      <3> QED
        BY <2>1, <3>2, <3>4 DEF Holder
    <2> QED
      BY <2>1, <2>2 DEF HintInv
  <1> QED
    BY <1>2, <1>3, <1>4, <1>5 DEF Protocol

-----------------------------------------------------------------------------
(* The actions                                                               *)

LEMMA InitInv == Init => IInv
  <1> SUFFICES ASSUME Init PROVE IInv
    OBVIOUS
  <1> USE DEF Init
  <1>1. subentries \in [Subentries -> Trackers] /\ Agrees(disk, subentries)
    <2>1. \A s \in Subentries : subentries[s] \in StoredTrackers(disk)
      OBVIOUS
    <2>2. \A t \in StoredTrackers(disk) : /\ t \in Trackers
                                          /\ t # NoTracker => /\ t.device \in Devices
                                                              /\ Consistent(disk, t)
      BY DEF StoredTrackers, Trackers, NoTracker
    <2> QED
      BY <2>1, <2>2 DEF Agrees, Tracked
  <1>2. TypeOK
    <2>1. <<>> \in Seq(Calls)
      OBVIOUS
    <2> QED
      BY <1>1, <2>1 DEF TypeOK, IdleFlow
  <1>3. SnapshotInv
    BY <1>1 DEF SnapshotInv, Sound
  <1>4. StageInv
    <2>1. 1..Len(queue) = {}
      BY EmptySeq
    <2> QED
      BY <2>1 DEF StageInv
  <1>5. ChangeInv
    BY FollowsItself DEF ChangeInv
  <1>6. FlowInv
    BY DEF FlowInv, IdleFlow
  <1>7. CallInv
    <2>1. 1..Len(queue) = {}
      BY EmptySeq
    <2> QED
      BY <2>1 DEF CallInv, Waits
  <1>8. HintInv
    BY DEF HintInv
  <1> QED
    BY <1>2, <1>3, <1>4, <1>5, <1>6, <1>7, <1>8 DEF IInv, Protocol

\* Forms.
LEMMA SubmitStep ==
  ASSUME IInv, NEW call \in Calls, Submit(call), call.op # "reconcile",
         Alone(data, flow, subentries, call),
         \A i \in 1..Len(queue) : InOrder(data, flow, queue[i], call),
         Overtaken(data, disk, flow, call), Overtaken(data, candidate, flow, call)
  PROVE  Protocol'
  <1>1. /\ queue' = Append(queue, call) /\ flow' = flow /\ entry' = entry
        /\ entry # "unloaded" /\ entry # "reconciling"
        /\ UNCHANGED <<disk, data, uncertain, writing, candidate, subentries>>
    BY DEF Submit, storeVars, configVars, setupVars, Attached
  <1>2. FlowInv'
    BY <1>1, Parts DEF FlowInv
  <1>3. \A i \in 1..Len(queue) : queue[i].op = "reserve" =>
            /\ flow'[queue[i].flow].device = flow[queue[i].flow].device
            /\ flow'[queue[i].flow].at \in {"waiting", "closed"}
    BY <1>1, Parts DEF CallInv, Waits, Alone
  <1> QED
    BY <1>1, <1>2, <1>3, Joining

LEMMA RequestArchiveStep ==
  ASSUME IInv, NEW a \in Assets, RequestArchive(a) \/ RequestRestore(a)
  PROVE  Protocol'
  <1> PICK op \in {"archive", "restore"} : Submit([op |-> op, asset |-> a])
    BY DEF RequestArchive, RequestRestore
  <1> DEFINE call == [op |-> op, asset |-> a]
  <1>1. call \in Calls /\ call.op = op /\ call.asset = a
    BY DEF Calls
  <1>2. data.device[a] # "missing"
    BY DEF RequestArchive, RequestRestore, Present
  <1> HIDE DEF call
  <1>3. Alone(data, flow, subentries, call)
    BY <1>1, <1>2 DEF Alone
  <1>4. \A x : InOrder(data, flow, x, call)
    BY <1>1 DEF InOrder, Changes
  <1>5. \A old, new : Overtaken(old, new, flow, call)
    BY <1>1 DEF Overtaken, Changes
  <1>6. Submit(call)
    BY DEF call
  <1> QED
    BY <1>1, <1>3, <1>4, <1>5, <1>6, SubmitStep

LEMMA RequestUnlinkStep ==
  ASSUME IInv, NEW a \in Assets, RequestUnlink(a)
  PROVE  Protocol'
  <1> DEFINE call == [op |-> "unlink", asset |-> a, expected |-> data.device[a]]
  <1>1. /\ call \in Calls /\ call.op = "unlink" /\ call.asset = a
        /\ call.expected = data.device[a]
    BY DEF Calls, RequestUnlink, Links
  <1>2. Submit(call) /\ data.device[a] \in Devices /\ ~DeviceInUse(data.device[a])
    BY DEF RequestUnlink
  <1> HIDE DEF call
  <1>3. \A s \in Subentries : subentries[s].hint # NoAsset => subentries[s].device # data.device[a]
    BY <1>2 DEF DeviceInUse, Tracked, NoTracker
  <1>4. Alone(data, flow, subentries, call)
    BY <1>1, <1>3 DEF Alone
  <1>5. \A x : InOrder(data, flow, x, call)
    BY <1>1 DEF InOrder
  <1>6. \A new : Overtaken(data, new, flow, call)
    BY <1>1 DEF Overtaken
  <1> QED
    BY <1>1, <1>2, <1>4, <1>5, <1>6, SubmitStep

LEMMA RequestLinkStep ==
  ASSUME IInv, NEW a \in Assets, NEW d \in Devices, RequestLink(a, d)
  PROVE  Protocol'
  <1> DEFINE call == [op |-> "link", asset |-> a, device |-> d, expected |-> data.device[a]]
  <1>1. data.device[a] \in Links /\ data.device[a] # "missing"
    BY Parts, StoreType DEF RequestLink, Present
  <1>2. /\ call \in Calls /\ call.op = "link" /\ call.asset = a /\ call.device = d
        /\ call.expected = data.device[a]
    BY <1>1 DEF Calls
  <1>3. /\ Submit(call) /\ Owners(data, d) \subseteq {a}
        /\ data.device[a] \in Devices \ {d} => ~DeviceInUse(data.device[a])
    BY DEF RequestLink
  <1> HIDE DEF call
  <1>4. ASSUME data.device[a] # d, NEW s \in Subentries, subentries[s].hint # NoAsset
        PROVE  subentries[s].device # data.device[a]
    <2>1. s \in Tracked(subentries) /\ subentries[s].device \in Devices
      BY <1>4, Parts DEF Agrees, Tracked, NoTracker
    <2> QED
      BY <1>3, <1>4, <2>1 DEF DeviceInUse
  <1>5. Alone(data, flow, subentries, call)
    BY <1>2, <1>4 DEF Alone
  <1>6. \A b \in Assets : b # a => data.device[b] # d
    BY <1>3 DEF Owners
  <1>7. ASSUME NEW i \in 1..Len(queue)
        PROVE  InOrder(data, flow, queue[i], call)
    <2>1. queue[i] \in Calls
      BY Parts
    <2> QED
      BY <1>2, <1>6, <2>1, CallType DEF InOrder, Changes
  <1>8. \A new : Overtaken(data, new, flow, call)
    BY <1>2, <1>6 DEF Overtaken, Changes
  <1> QED
    BY <1>2, <1>3, <1>5, <1>7, <1>8, SubmitStep

\* Recovery.
LEMMA RecoverStep ==
  ASSUME IInv, Recover
  PROVE  Protocol'
  <1>1. /\ data' = disk /\ disk' = disk /\ uncertain' = FALSE /\ candidate' = disk
        /\ queue' = queue /\ writing' = writing /\ writing = FALSE /\ uncertain
        /\ UNCHANGED <<subentries, flow, entry, updates>>
    BY Parts DEF Recover, configVars, setupVars, TypeOK
  <1>2. SnapshotInv' /\ FlowInv'
    BY <1>1, Parts DEF SnapshotInv, FlowInv
  <1>3. StageInv'
    BY <1>1, Parts DEF StageInv
  <1>4. ChangeInv'
    BY <1>1, FollowsItself DEF ChangeInv
  <1>5. CallInv'
    <2>1. \A i \in 1..Len(queue) : Overtaken(data, disk, flow, queue[i])
      BY Parts DEF CallInv
    <2>2. Waits(disk, flow, subentries, queue)
      BY <2>1, StillWaits, Parts DEF CallInv, ChangeInv
    <2> QED
      BY <1>1, <2>2, NotOvertaken DEF CallInv
  <1>6. HintInv'
    BY <1>1 DEF HintInv
  <1> QED
    BY <1>2, <1>3, <1>4, <1>5, <1>6 DEF Protocol

\* A dialog is told, or finds itself closed: other dialogs' calls are not concerned.
LEMMA HeadsFlow ==
  ASSUME IInv, queue # <<>>, Holder.op = "reserve",
         NEW f2 \in [at: {"idle", "source", "waiting", "closed", "gone"},
                     device: Devices \union {"none"}],
         f2.at \in {"source", "waiting", "closed"} => f2.device \in Devices,
         flow' = [flow EXCEPT ![Holder.flow] = f2]
  PROVE  /\ FlowInv'
         /\ \A i \in 1..Len(queue) : i > 1 /\ queue[i].op = "reserve" =>
               /\ flow'[queue[i].flow].device = flow[queue[i].flow].device
               /\ flow'[queue[i].flow].at \in {"waiting", "closed"}
  <1>1. /\ Holder \in Calls /\ Holder = queue[1] /\ 1 \in 1..Len(queue) /\ Holder.flow \in Flows
    BY Parts, HolderIs, CallType
  <1>2. \A f \in Flows : flow'[f] = IF f = Holder.flow THEN f2 ELSE flow[f]
    BY <1>1, Parts DEF TypeOK
  <1>3. FlowInv'
    BY <1>2, Parts DEF FlowInv
  <1>4. ASSUME NEW i \in 1..Len(queue), i > 1, queue[i].op = "reserve"
        PROVE  /\ flow'[queue[i].flow].device = flow[queue[i].flow].device
               /\ flow'[queue[i].flow].at \in {"waiting", "closed"}
    <2>1. queue[i].flow \in Flows
      BY <1>4, Parts, CallType
    <2>2. InOrder(data, flow, queue[1], queue[i]) /\ Alone(data, flow, subentries, queue[i])
      BY <1>1, <1>4, Parts DEF CallInv, Waits
    <2>3. queue[i].flow # Holder.flow
      BY <1>1, <1>4, <2>2 DEF InOrder
    <2> QED
      BY <1>2, <1>4, <2>1, <2>2, <2>3 DEF Alone
  <1> QED
    BY <1>3, <1>4

LEMMA AnsweredIs ==
  ASSUME IInv, queue # <<>>, Answered(Holder)
  PROVE  /\ FlowInv'
         /\ \A i \in 1..Len(queue) : i > 1 /\ queue[i].op = "reserve" =>
               /\ flow'[queue[i].flow].device = flow[queue[i].flow].device
               /\ flow'[queue[i].flow].at \in {"waiting", "closed"}
  <1>1. CASE Holder.op = "reserve"
    <2> DEFINE f2 == IF flow[Holder.flow].at = "closed" THEN IdleFlow
                     ELSE [flow[Holder.flow] EXCEPT !.at = "source"]
    <2>1. /\ Holder \in Calls /\ Holder = queue[1] /\ 1 \in 1..Len(queue) /\ Holder.flow \in Flows
      BY <1>1, Parts, HolderIs, CallType
    <2>2. flow[Holder.flow].at \in {"waiting", "closed"}
      BY <1>1, <2>1, Parts DEF CallInv, Waits, Alone
    <2>3. flow[Holder.flow].device \in Devices
      BY <2>1, <2>2, Parts DEF FlowInv
    <2>4. flow[Holder.flow] \in [at: {"idle", "source", "waiting", "closed", "gone"},
                                 device: Devices \union {"none"}]
      BY <2>1, Parts DEF TypeOK
    <2>5. /\ f2 \in [at: {"idle", "source", "waiting", "closed", "gone"},
                     device: Devices \union {"none"}]
          /\ f2.at \in {"source", "waiting", "closed"} => f2.device \in Devices
      BY <2>3, <2>4 DEF IdleFlow
    <2>6. flow' = [flow EXCEPT ![Holder.flow] = f2]
      BY <1>1 DEF Answered
    <2> HIDE DEF f2
    <2> QED
      BY <1>1, <2>5, <2>6, HeadsFlow
  <1>2. CASE Holder.op # "reserve"
    <2>1. flow' = flow
      BY <1>2 DEF Answered
    <2> QED
      BY <2>1, Parts DEF FlowInv, CallInv, Waits, Alone
  <1> QED
    BY <1>1, <1>2

LEMMA RecoveryFailsStep ==
  ASSUME IInv, RecoveryFails
  PROVE  Protocol'
  <1>1. /\ queue # <<>> /\ queue' = Tail(queue) /\ writing' = FALSE /\ candidate' = data'
        /\ data' = data /\ disk' = disk /\ uncertain' = uncertain /\ uncertain
        /\ UNCHANGED <<subentries, entry>> /\ Answered(Holder)
    BY DEF RecoveryFails, Refuse, Release, storeVars, configVars, setupVars
  <1>2. Holder.op # "reconcile"
    BY <1>1, Exclusive, Parts DEF StageInv
  <1>3. /\ FlowInv'
        /\ \A i \in 1..Len(queue) : i > 1 /\ queue[i].op = "reserve" =>
               /\ flow'[queue[i].flow].device = flow[queue[i].flow].device
               /\ flow'[queue[i].flow].at \in {"waiting", "closed"}
    BY <1>1, AnsweredIs
  <1> QED
    BY <1>1, <1>2, <1>3, Released, Parts

\* Mutators.
LEMMA ArchiveStep ==
  ASSUME IInv, Archive
  PROVE  Protocol'
  <1> DEFINE a == Holder.asset
             st == [data EXCEPT !.archived = @ \union {a}]
  <1>1. /\ queue # <<>> /\ Holder.op = "archive" /\ ~writing /\ ~uncertain
        /\ UNCHANGED <<subentries, flow, entry>>
    BY DEF Archive, Turn, configVars, setupVars
  <1>2. /\ Holder \in Calls /\ Holder = queue[1] /\ 1 \in 1..Len(queue) /\ a \in Assets
    BY <1>1, Parts, HolderIs, CallType
  <1>3. data.device[a] # "missing"
    BY <1>1, <1>2, Parts DEF CallInv, Waits, Alone
  <1>4. CASE a \in data.archived \/ Blocked(a)
    BY <1>1, <1>4, Refusing DEF Archive
  <1>5. CASE ~(a \in data.archived \/ Blocked(a))
    <2> DEFINE S == data.archived \union {a}
    <2>1. S \subseteq Present(data)
      BY <1>2, <1>3, Parts DEF Sound, Present
    <2>2. st = [data EXCEPT !.archived = S]
      OBVIOUS
    <2> HIDE DEF st, S
    <2>3. /\ Sound(st) /\ Agrees(st, subentries) /\ Follows(data, st)
          /\ st.device = data.device /\ st.archived = S
      BY <2>1, <2>2, Rearchived, Parts
    <2>4. Conflicts(st, subentries) \subseteq Conflicts(data, subentries)
      <3>1. /\ Conflicts(data, subentries) =
                 {s \in Tracked(subentries) :
                     \E b \in data.archived : data.device[b] = subentries[s].device}
            /\ Conflicts(st, subentries) =
                 {s \in Tracked(subentries) :
                     \E b \in st.archived : st.device[b] = subentries[s].device}
        BY <2>3, ConflictsAre, Parts
      <3>2. ASSUME NEW s \in Tracked(subentries)
            PROVE  data.device[a] # subentries[s].device
        <4>1. s \in Subentries /\ subentries[s] \in Trackers
              /\ subentries[s].device \in Devices /\ Consistent(data, subentries[s])
          BY Parts DEF Agrees, Tracked
        <4>2. Resolve(data, subentries[s]) # a
          BY <1>5 DEF Blocked, ResolvingTo
        <4> QED
          BY <1>2, <4>1, <4>2, ResolveIs, Parts
      <3> QED
        BY <2>3, <3>1, <3>2 DEF S
    <2>5. \A x : Overtaken(data, st, flow, x)
      BY <2>3, SameDevices
    <2>6. Mutated(st)
      BY <1>5 DEF Archive, st
    <2> QED
      BY <1>1, <2>3, <2>4, <2>5, <2>6, Mutating
  <1> QED
    BY <1>4, <1>5

LEMMA RestoreStep ==
  ASSUME IInv, Restore
  PROVE  Protocol'
  <1> DEFINE S == data.archived \ {Holder.asset}
             st == [data EXCEPT !.archived = S]
  <1>1. /\ queue # <<>> /\ Holder.op = "restore" /\ ~writing /\ ~uncertain
        /\ Mutated(st) /\ UNCHANGED <<subentries, flow, entry>>
    BY DEF Restore, Turn, configVars, setupVars
  <1>2. S \subseteq Present(data) /\ S \subseteq data.archived
    BY Parts DEF Sound
  <1> HIDE DEF S
  <1>3. /\ Sound(st) /\ Agrees(st, subentries) /\ Follows(data, st)
        /\ st.device = data.device /\ st.archived = S
    BY <1>2, Rearchived, Parts
  <1> HIDE DEF st
  <1>4. Conflicts(st, subentries) \subseteq Conflicts(data, subentries)
    BY <1>2, <1>3, ConflictsShrink, Parts
  <1>5. \A x : Overtaken(data, st, flow, x)
    BY <1>3, SameDevices
  <1> QED
    BY <1>1, <1>3, <1>4, <1>5, Mutating

LEMMA ReboundStep ==
  ASSUME IInv, Link \/ Unlink
  PROVE  Protocol'
  <1> DEFINE d == IF Holder.op = "link" THEN Holder.device ELSE "none"
             st == [data EXCEPT !.device[Holder.asset] = d]
  <1>1. /\ queue # <<>> /\ Holder.op \in {"link", "unlink"} /\ ~writing /\ ~uncertain
        /\ UNCHANGED <<subentries, flow, entry>>
    BY DEF Link, Unlink, Turn, configVars, setupVars
  <1>2. /\ Holder \in Calls /\ Holder = queue[1] /\ 1 \in 1..Len(queue) /\ Changes(Holder)
    BY <1>1, Parts, HolderIs DEF Changes
  <1>3. CASE Refuse
    BY <1>1, <1>3, Refusing
  <1>4. CASE /\ AsShown(Holder) /\ Mutated(st)
             /\ Holder.op = "link" => Owners(data, d) \subseteq {Holder.asset}
    <2>1. /\ Holder.asset \notin data.archived /\ data.device[Holder.asset] = Holder.expected
      BY <1>4 DEF AsShown
    <2>2. \/ Holder.op = "unlink" /\ d = "none"
          \/ Holder.op = "link" /\ d = Holder.device /\ Owners(data, d) \subseteq {Holder.asset}
      BY <1>1, <1>4
    <2>3. Alone(data, flow, subentries, Holder)
      BY <1>2, Parts DEF CallInv, Waits
    <2> HIDE DEF d
    <2>4. ASSUME st # data, Valid(st)
          PROVE  /\ Sound(st) /\ Agrees(st, subentries) /\ Follows(data, st)
                 /\ Conflicts(st, subentries) \subseteq Conflicts(data, subentries)
      <3>1. Sound(st) /\ Agrees(st, subentries) /\ Follows(data, st)
        BY <1>2, <2>1, <2>2, <2>3, <2>4, Rebound, Parts
      <3>2. st.archived \subseteq data.archived
        <4>1. data = [device |-> data.device, archived |-> data.archived]
          BY StoreType, Parts
        <4> QED
          BY <4>1
      <3> HIDE DEF st
      <3> QED
        BY <3>1, <3>2, ConflictsShrink, Parts
    <2>5. ASSUME NEW i \in 1..Len(queue), i > 1
          PROVE  Overtaken(data, st, flow, queue[i])
      <3>1. queue[i] \in Calls /\ InOrder(data, flow, Holder, queue[i])
        BY <1>2, <2>5, Parts DEF CallInv, Waits
      <3>2. queue[i].op = "reserve" => flow[queue[i].flow].device \in Devices
        <4>1. Alone(data, flow, subentries, queue[i])
          BY Parts DEF CallInv, Waits
        <4>2. queue[i].op = "reserve" => queue[i].flow \in Flows
          BY <3>1, CallType
        <4> QED
          BY <4>1, <4>2, Parts DEF Alone, FlowInv
      <3> QED
        BY <1>2, <2>1, <2>2, <3>1, <3>2, ReboundOvertakes, Parts
    <2> HIDE DEF st
    <2> QED
      BY <1>1, <1>4, <2>4, <2>5, Mutating
  <1> QED
    BY <1>1, <1>3, <1>4 DEF Link, Unlink, Turn

\* Saves.
LEMMA ReconciledIs ==
  ASSUME IInv, TypeOK', writing, NEW ok \in BOOLEAN, Reconciled(ok)
  PROVE  /\ \/ /\ Holder.op # "reconcile" /\ entry' = entry /\ subentries' = subentries
            \/ Holder.op = "reconcile" /\ entry' \in {"reconciled", "unloaded"}
         /\ ok => Agrees(candidate, subentries')
         /\ ~ok => Agrees(candidate, subentries') /\ Agrees(data, subentries')
         /\ \A s \in Tracked(subentries') :
               s \in Tracked(subentries) /\ subentries'[s].device = subentries[s].device
  <1>1. CASE Holder.op # "reconcile"
    BY <1>1, Parts DEF Reconciled
  <1>2. CASE Holder.op = "reconcile" /\ ~ok
    <2>1. \A s \in Subentries : subentries'[s] = subentries[s]
      BY <1>2 DEF Reconciled
    <2>2. subentries' = subentries
      BY <2>1, Parts DEF TypeOK
    <2> QED
      BY <1>2, <2>2, Parts DEF Reconciled
  <1>3. CASE Holder.op = "reconcile" /\ ok
    <2>1. \A s \in Subentries :
             \/ subentries'[s] = subentries[s]
             \/ /\ s \in Tracked(subentries) /\ updates[s] # NoAsset
                /\ subentries'[s] = [subentries[s] EXCEPT !.hint = updates[s]]
      BY <1>3 DEF Reconciled
    <2>2. \A s \in Tracked(subentries) :
             updates[s] # NoAsset => candidate.device[updates[s]] = subentries[s].device
      BY <1>3, Parts DEF HintInv
    <2>3. /\ updates \in [Subentries -> Assets \union {NoAsset}]
          /\ subentries' \in [Subentries -> Trackers]
      BY Parts DEF TypeOK
    <2>4. /\ Agrees(candidate, subentries')
          /\ \A s \in Tracked(subentries') :
                s \in Tracked(subentries) /\ subentries'[s].device = subentries[s].device
      BY <2>1, <2>2, <2>3, Hinted, Parts
    <2> QED
      BY <1>3, <2>4 DEF Reconciled
  <1> QED
    BY <1>1, <1>2, <1>3

LEMMA SavedStep ==
  ASSUME IInv, TypeOK', SaveVerified \/ SaveFails \/ \E lands \in BOOLEAN : SaveAmbiguous(lands)
  PROVE  Protocol'
  <1>1. /\ writing /\ queue # <<>> /\ ~uncertain /\ data = disk
    BY Parts DEF SaveVerified, SaveFails, SaveAmbiguous, StageInv
  <1>2. /\ queue' = Tail(queue) /\ writing' = FALSE /\ candidate' = data' /\ flow' = flow
    BY DEF SaveVerified, SaveFails, SaveAmbiguous, Refuse, Release
  <1>3. FlowInv'
    BY <1>2, Parts DEF FlowInv
  <1>4. \A i \in 1..Len(queue) : i > 1 /\ queue[i].op = "reserve" =>
           /\ flow'[queue[i].flow].device = flow[queue[i].flow].device
           /\ flow'[queue[i].flow].at \in {"waiting", "closed"}
    BY <1>2, Parts DEF CallInv, Waits, Alone
  <1>5. \/ /\ disk' = candidate /\ data' = candidate /\ uncertain' = uncertain
           /\ Reconciled(TRUE)
        \/ /\ disk' = data /\ data' = data /\ uncertain' = uncertain /\ Reconciled(FALSE)
        \/ /\ disk' \in {disk, candidate} /\ data' = data /\ uncertain' = TRUE
           /\ Reconciled(FALSE)
    BY <1>1 DEF SaveVerified, SaveFails, SaveAmbiguous, Refuse, storeVars
  <1>6. \/ /\ Holder.op # "reconcile" /\ entry' = entry /\ subentries' = subentries
        \/ Holder.op = "reconcile" /\ entry' \in {"reconciled", "unloaded"}
    BY <1>1, <1>5, ReconciledIs
  <1>7. Agrees(data', subentries') /\ Agrees(disk', subentries')
    BY <1>1, <1>5, ReconciledIs
  <1> QED
    BY <1>1, <1>2, <1>3, <1>4, <1>5, <1>6, <1>7, Released

LEMMA SaveResolvedStep ==
  ASSUME IInv, NEW lands \in BOOLEAN, SaveResolved(lands)
  PROVE  Protocol'
  <1>1. /\ writing /\ queue # <<>> /\ ~uncertain /\ data = disk
    BY Parts DEF SaveResolved, StageInv
  <1>2. /\ queue' = Tail(queue) /\ writing' = FALSE /\ candidate' = data' /\ flow' = flow
        /\ disk' \in {disk, candidate} /\ data' = disk' /\ uncertain' = uncertain
        /\ Holder.op # "reconcile" /\ entry' = entry /\ subentries' = subentries
    BY DEF SaveResolved, Release, configVars, setupVars
  <1>3. FlowInv'
    BY <1>2, Parts DEF FlowInv
  <1>4. \A i \in 1..Len(queue) : i > 1 /\ queue[i].op = "reserve" =>
           /\ flow'[queue[i].flow].device = flow[queue[i].flow].device
           /\ flow'[queue[i].flow].at \in {"waiting", "closed"}
    BY <1>2, Parts DEF CallInv, Waits, Alone
  <1> QED
    BY <1>1, <1>2, <1>3, <1>4, Released, Parts

\* Dialogs.
LEMMA UnreservedFlow ==
  ASSUME IInv, NEW f \in Flows, flow[f].at \notin {"waiting", "closed"}
  PROVE  \A i \in 1..Len(queue) : queue[i].op = "reserve" =>
            queue[i].flow # f /\ queue[i].flow \in Flows
                              /\ flow[queue[i].flow].at \in {"waiting", "closed"}
  <1> SUFFICES ASSUME NEW i \in 1..Len(queue), queue[i].op = "reserve"
               PROVE  queue[i].flow # f /\ queue[i].flow \in Flows
                                        /\ flow[queue[i].flow].at \in {"waiting", "closed"}
    OBVIOUS
  <1>1. queue[i] \in Calls /\ Alone(data, flow, subentries, queue[i])
    BY Parts DEF CallInv, Waits
  <1> QED
    BY <1>1, CallType DEF Alone

\* A dialog that has no call waiting changes.
LEMMA FlowStep ==
  ASSUME IInv, NEW f \in Flows,
         NEW f2 \in [at: {"idle", "source", "waiting", "closed", "gone"},
                     device: Devices \union {"none"}],
         f2.at \in {"source", "waiting", "closed"} => f2.device \in Devices,
         flow' = [flow EXCEPT ![f] = f2],
         \/ flow[f].at \notin {"waiting", "closed"}
         \/ f2.at \in {"waiting", "closed"} /\ f2.device = flow[f].device,
         UNCHANGED <<disk, data, uncertain, queue, writing, candidate, subentries, updates, entry>>
  PROVE  Protocol'
  <1>1. \A g \in Flows : flow'[g] = IF g = f THEN f2 ELSE flow[g]
    BY Parts DEF TypeOK
  <1>2. ASSUME NEW i \in 1..Len(queue), queue[i].op = "reserve"
        PROVE  /\ flow'[queue[i].flow].device = flow[queue[i].flow].device
               /\ flow'[queue[i].flow].at \in {"waiting", "closed"}
    <2>1. /\ queue[i].flow \in Flows /\ flow[queue[i].flow].at \in {"waiting", "closed"}
      <3>1. queue[i] \in Calls /\ Alone(data, flow, subentries, queue[i])
        BY Parts DEF CallInv, Waits
      <3> QED
        BY <1>2, <3>1, CallType DEF Alone
    <2> QED
      BY <1>1, <2>1
  <1>3. SnapshotInv' /\ ChangeInv' /\ StageInv'
    BY Parts DEF SnapshotInv, ChangeInv, StageInv
  <1>4. FlowInv'
    BY <1>1, Parts DEF FlowInv
  <1>5. CallInv'
    <2>1. Waits(data, flow', subentries, queue)
      BY <1>2, WaitsUnder, Parts DEF CallInv
    <2>2. \A i \in 1..Len(queue) : /\ Overtaken(data, disk, flow', queue[i])
                                   /\ i > 1 => Overtaken(data, candidate, flow', queue[i])
      BY <1>2, OvertakenUnder, Parts DEF CallInv
    <2> QED
      BY <2>1, <2>2 DEF CallInv
  <1>6. HintInv'
    BY Parts DEF HintInv, Holder
  <1> QED
    BY <1>3, <1>4, <1>5, <1>6 DEF Protocol

LEMMA FlowChoosesStep ==
  ASSUME IInv, NEW f \in Flows, NEW d \in Devices, FlowChooses(f, d)
  PROVE  Protocol'
  <1> DEFINE f2 == [at |-> "source", device |-> d]
  <1>1. /\ f2 \in [at: {"idle", "source", "waiting", "closed", "gone"},
                   device: Devices \union {"none"}]
        /\ f2.device = d
    OBVIOUS
  <1>2. /\ flow' = [flow EXCEPT ![f] = f2] /\ flow[f].at = "idle"
        /\ UNCHANGED <<disk, data, uncertain, queue, writing, candidate, subentries, updates,
                       entry>>
    BY DEF FlowChooses, storeVars, lockVars, configVars, setupVars
  <1> HIDE DEF f2
  <1> QED
    BY <1>1, <1>2, FlowStep

LEMMA FlowClosesStep ==
  ASSUME IInv, NEW f \in Flows, FlowCloses(f)
  PROVE  Protocol'
  <1> DEFINE f2 == IF flow[f].at = "waiting" THEN [flow[f] EXCEPT !.at = "closed"] ELSE IdleFlow
  <1>1. flow[f] \in [at: {"idle", "source", "waiting", "closed", "gone"},
                     device: Devices \union {"none"}]
    BY Parts DEF TypeOK
  <1>2. /\ f2 \in [at: {"idle", "source", "waiting", "closed", "gone"},
                   device: Devices \union {"none"}]
        /\ \/ flow[f].at \notin {"waiting", "closed"} /\ f2.at = "idle"
           \/ /\ flow[f].at = "waiting" /\ f2.at = "closed" /\ f2.device = flow[f].device
    BY <1>1 DEF IdleFlow, FlowCloses
  <1>3. f2.at \in {"source", "waiting", "closed"} => f2.device \in Devices
    BY <1>2, Parts DEF FlowInv
  <1>4. /\ flow' = [flow EXCEPT ![f] = f2]
        /\ UNCHANGED <<disk, data, uncertain, queue, writing, candidate, subentries, updates,
                       entry>>
    BY DEF FlowCloses, storeVars, lockVars, configVars, setupVars
  <1> HIDE DEF f2
  <1> QED
    BY <1>2, <1>3, <1>4, FlowStep

\* A device that nobody owns as far as the published snapshot goes, and that an active
\* Asset owns at most, is tracked.
LEMMA AddedConflicts ==
  ASSUME IInv, NEW d \in Devices, AddSubentry(d),
         NEW st, Sound(st), Agrees(st, subentries),
         \A a \in st.archived : st.device[a] # d
  PROVE  /\ Agrees(st, subentries')
         /\ Conflicts(st, subentries') \subseteq Conflicts(st, subentries)
         /\ \A s \in Tracked(subentries') :
               \/ s \in Tracked(subentries) /\ subentries'[s].device = subentries[s].device
               \/ \A a \in st.archived : st.device[a] # subentries'[s].device
  <1>1. /\ subentries \in [Subentries -> Trackers] /\ subentries' \in [Subentries -> Trackers]
        /\ Agrees(st, subentries')
        /\ \A s \in Tracked(subentries') : \/ s \in Tracked(subentries)
                                              /\ subentries'[s] = subentries[s]
                                           \/ subentries'[s].device = d
    BY OneTracked, Parts
  <1>2. \A s \in Tracked(subentries') :
           \/ s \in Tracked(subentries) /\ subentries'[s].device = subentries[s].device
           \/ \A a \in st.archived : st.device[a] # subentries'[s].device
    BY <1>1
  <1> QED
    BY <1>1, <1>2, NoNewConflict

\* The device of a dialog that goes on without a reservation.
LEMMA Unowned ==
  ASSUME IInv, NEW d \in Devices
  PROVE  /\ Target(d) \in Assets \union {NoAsset}
         /\ \A a \in Assets : Target(d) = a <=> data.device[a] = d
         /\ Target(d) = NoAsset =>
               /\ \A a \in Assets : data.device[a] # d
               /\ \A st \in {disk, candidate, data} : \A a \in st.archived : st.device[a] # d
  <1> DEFINE sub == [device |-> d, hint |-> NoAsset]
  <1>1. sub \in Trackers /\ sub.device = d /\ Consistent(data, sub)
    BY DEF Trackers, Consistent
  <1>2. /\ Target(d) \in Assets \union {NoAsset}
        /\ \A a \in Assets : Target(d) = a <=> data.device[a] = d
    BY <1>1, ResolveIs, Parts DEF Target
  <1>3. ASSUME Target(d) = NoAsset
        PROVE  \A a \in Assets : data.device[a] # d
    BY <1>2, <1>3, Values
  <1>4. ASSUME Target(d) = NoAsset, NEW st \in {disk, candidate, data}, NEW a \in st.archived
        PROVE  st.device[a] # d
    <2>1. Follows(data, st) /\ a \in Assets
      BY FollowsItself, StoreType, Parts DEF ChangeInv
    <2>2. st.device[a] = data.device[a]
      BY <1>4, <2>1 DEF Follows
    <2> QED
      BY <1>3, <1>4, <2>1, <2>2
  <1> QED
    BY <1>2, <1>3, <1>4

LEMMA FlowSubmitsStep ==
  ASSUME IInv, TypeOK', NEW f \in Flows, FlowSubmits(f)
  PROVE  Protocol'
  <1> DEFINE d == flow[f].device
             a == Target(d)
  <1>1. /\ entry = "loaded" /\ flow[f].at = "source" /\ d \in Devices
        /\ UNCHANGED <<disk, data, uncertain, writing, candidate, entry, updates>>
    BY Parts DEF FlowSubmits, FlowInv, storeVars, setupVars
  <1>2. flow[f] \in [at: {"idle", "source", "waiting", "closed", "gone"},
                     device: Devices \union {"none"}]
    BY Parts DEF TypeOK
  <1>3. \A i \in 1..Len(queue) : queue[i].op = "reserve" =>
            queue[i].flow # f /\ queue[i].flow \in Flows
                              /\ flow[queue[i].flow].at \in {"waiting", "closed"}
    BY <1>1, UnreservedFlow
  <1>4. CASE a = NoAsset
    <2>1. AddSubentry(d) /\ flow' = [flow EXCEPT ![f] = IdleFlow] /\ UNCHANGED queue
      BY <1>4 DEF FlowSubmits
    <2>2. \A g \in Flows : flow'[g] = IF g = f THEN IdleFlow ELSE flow[g]
      BY <2>1, Parts DEF TypeOK
    <2>3. \A st \in {disk, candidate, data} : \A b \in st.archived : st.device[b] # d
      BY <1>1, <1>4, Unowned
    <2>4. /\ subentries' \in [Subentries -> Trackers]
          /\ \A s \in Subentries : subentries'[s].hint # NoAsset => subentries'[s] = subentries[s]
      BY <1>1, <2>1, OneTracked, Parts
    <2> HIDE DEF a, d
    <2>5. \A st \in {disk, candidate, data} :
             Agrees(st, subentries') /\ Conflicts(st, subentries') \subseteq Conflicts(st, subentries)
      BY <1>1, <2>1, <2>3, AddedConflicts, Parts
    <2>6. SnapshotInv'
      BY <1>1, <2>5, Parts DEF SnapshotInv
    <2>7. FlowInv'
      BY <2>2, Parts DEF FlowInv, IdleFlow
    <2>8. StageInv'
      BY <1>1, <2>1, Parts DEF StageInv
    <2>9. ChangeInv'
      <3>1. /\ Conflicts(data, subentries') =
                 {s \in Tracked(subentries') :
                     \E b \in data.archived : data.device[b] = subentries'[s].device}
            /\ Conflicts(data, subentries) =
                 {s \in Tracked(subentries) :
                     \E b \in data.archived : data.device[b] = subentries[s].device}
        BY <2>4, <2>5, ConflictsAre, Parts
      <3>2. \A s \in Tracked(subentries') : \/ s \in Tracked(subentries)
                                               /\ subentries'[s] = subentries[s]
                                            \/ subentries'[s].device = d
        BY <1>1, <2>1, OneTracked, Parts
      <3>3. /\ Conflicts(candidate, subentries') =
                 {s \in Tracked(subentries') :
                     \E b \in candidate.archived : candidate.device[b] = subentries'[s].device}
            /\ Conflicts(candidate, subentries) =
                 {s \in Tracked(subentries) :
                     \E b \in candidate.archived : candidate.device[b] = subentries[s].device}
        BY <2>4, <2>5, ConflictsAre, Parts
      <3>4. Conflicts(candidate, subentries) \subseteq Conflicts(data, subentries)
        BY Parts DEF ChangeInv
      <3>5. ASSUME NEW s \in Conflicts(candidate, subentries')
            PROVE  s \in Conflicts(data, subentries')
        <4>1. s \in Tracked(subentries') /\ subentries'[s].device # d
          BY <2>3, <3>3, <3>5
        <4>2. s \in Tracked(subentries) /\ subentries'[s] = subentries[s]
          BY <3>2, <4>1
        <4>3. s \in Conflicts(data, subentries)
          BY <2>5, <3>4, <3>5
        <4> QED
          BY <3>1, <4>1, <4>2, <4>3
      <3>6. Conflicts(candidate, subentries') \subseteq Conflicts(data, subentries')
        BY <3>5
      <3> QED
        BY <1>1, <3>6, Parts DEF ChangeInv
    <2>10. CallInv'
      <3>1. \A i \in 1..Len(queue) : queue[i].op = "reserve" =>
               /\ flow'[queue[i].flow].device = flow[queue[i].flow].device
               /\ flow'[queue[i].flow].at \in {"waiting", "closed"}
        BY <1>3, <2>2
      <3>2. \A s \in Subentries : subentries'[s].hint # NoAsset =>
               subentries[s].hint # NoAsset /\ subentries'[s].device = subentries[s].device
        BY <2>4
      <3>3. Waits(data, flow', subentries', queue)
        BY <3>1, <3>2, WaitsUnder, Parts DEF CallInv
      <3>4. \A i \in 1..Len(queue) : /\ Overtaken(data, disk, flow', queue[i])
                                     /\ i > 1 => Overtaken(data, candidate, flow', queue[i])
        BY <3>1, OvertakenUnder, Parts DEF CallInv
      <3> QED
        BY <1>1, <2>1, <3>3, <3>4 DEF CallInv
    <2>11. HintInv'
      <3>1. writing => Holder.op # "reconcile"
        BY <1>1, Exclusive, Parts DEF StageInv
      <3> QED
        BY <1>1, <2>1, <3>1 DEF HintInv, Holder
    <2> QED
      BY <2>6, <2>7, <2>8, <2>9, <2>10, <2>11 DEF Protocol
  <1>5. CASE a # NoAsset
    <2> DEFINE call == [op |-> "reserve", asset |-> a, flow |-> f]
    <2>1. /\ queue' = Append(queue, call) /\ flow' = [flow EXCEPT ![f].at = "waiting"]
          /\ subentries' = subentries
      BY <1>5 DEF FlowSubmits, configVars
    <2>2. /\ a \in Assets /\ data.device[a] = d
          /\ \A b \in Assets : data.device[b] = d => b = a
      BY <1>1, <1>5, Unowned
    <2>3. call \in Calls /\ call.op = "reserve" /\ call.asset = a /\ call.flow = f
      BY <2>2 DEF Calls
    <2> HIDE DEF call, a
    <2>4. /\ flow'[f].at = "waiting" /\ flow'[f].device = d
          /\ \A g \in Flows : g # f => flow'[g] = flow[g]
      BY <1>2, <2>1, Parts DEF TypeOK
    <2> HIDE DEF d
    <2>5. FlowInv'
      BY <1>1, <2>4, Parts DEF FlowInv
    <2>6. \A i \in 1..Len(queue) : queue[i].op = "reserve" =>
            /\ flow'[queue[i].flow].device = flow[queue[i].flow].device
            /\ flow'[queue[i].flow].at \in {"waiting", "closed"}
      BY <1>3, <2>4
    <2>7. Alone(data, flow', subentries, call)
      BY <2>2, <2>3, <2>4 DEF Alone
    <2>8. \A i \in 1..Len(queue) : InOrder(data, flow', queue[i], call)
      BY <1>3, <2>2, <2>3, <2>4 DEF InOrder, Changes
    <2>9. ASSUME NEW st \in {disk, candidate}
          PROVE  Overtaken(data, st, flow', call)
      <3>1. Follows(data, st)
        BY Parts DEF ChangeInv
      <3>2. ASSUME NEW b \in Assets, st.device[b] # data.device[b],
                   flow'[call.flow].device = st.device[b]
            PROVE  call.asset = b
        BY <1>1, <2>2, <2>3, <2>4, <3>1, <3>2 DEF Follows
      <3> QED
        BY <2>3, <3>2 DEF Overtaken, Changes
    <2> QED
      BY <1>1, <2>1, <2>3, <2>5, <2>6, <2>7, <2>8, <2>9, Joining
  <1> QED
    BY <1>4, <1>5

LEMMA ReserveStep ==
  ASSUME IInv, TypeOK', Reserve
  PROVE  Protocol'
  <1> DEFINE f == Holder.flow
             d == flow[f].device
  <1>1. /\ queue # <<>> /\ Holder.op = "reserve" /\ ~writing /\ ~uncertain /\ data = disk
        /\ queue' = Tail(queue) /\ writing' = FALSE /\ candidate' = data'
        /\ data' = data /\ disk' = disk /\ uncertain' = uncertain /\ entry' = entry
    BY Parts DEF Reserve, Turn, Refuse, Release, StageInv, storeVars, setupVars
  <1>2. /\ Holder \in Calls /\ Holder = queue[1] /\ 1 \in 1..Len(queue)
        /\ f \in Flows /\ Holder.asset \in Assets
    BY <1>1, Parts, HolderIs, CallType
  <1>3. Alone(data, flow, subentries, Holder)
    BY <1>2, Parts DEF CallInv, Waits
  <1>4. d \in Devices /\ \A b \in Assets : data.device[b] = d => b = Holder.asset
    BY <1>1, <1>2, <1>3, Parts DEF Alone, FlowInv
  <1>5. CASE Answered(Holder) /\ UNCHANGED <<configVars, reserved>>
    <2>1. subentries' = subentries
      BY <1>5 DEF configVars
    <2>2. /\ FlowInv'
          /\ \A i \in 1..Len(queue) : i > 1 /\ queue[i].op = "reserve" =>
                 /\ flow'[queue[i].flow].device = flow[queue[i].flow].device
                 /\ flow'[queue[i].flow].at \in {"waiting", "closed"}
      BY <1>1, <1>5, AnsweredIs
    <2> QED
      BY <1>1, <2>1, <2>2, Released, Parts
  <1>6. /\ IdleFlow \in [at: {"idle", "source", "waiting", "closed", "gone"},
                         device: Devices \union {"none"}]
        /\ GoneFlow \in [at: {"idle", "source", "waiting", "closed", "gone"},
                         device: Devices \union {"none"}]
        /\ IdleFlow.at = "idle" /\ GoneFlow.at = "gone"
    BY DEF IdleFlow, GoneFlow
  <1>7. CASE flow' = [flow EXCEPT ![f] = GoneFlow] /\ UNCHANGED configVars
    <2>1. subentries' = subentries
      BY <1>7 DEF configVars
    <2>2. /\ FlowInv'
          /\ \A i \in 1..Len(queue) : i > 1 /\ queue[i].op = "reserve" =>
                 /\ flow'[queue[i].flow].device = flow[queue[i].flow].device
                 /\ flow'[queue[i].flow].at \in {"waiting", "closed"}
      BY <1>1, <1>6, <1>7, HeadsFlow
    <2> QED
      BY <1>1, <2>1, <2>2, Released, Parts
  <1>8. CASE /\ ~Refused(Holder.asset)
             /\ AddSubentry(d) /\ flow' = [flow EXCEPT ![f] = IdleFlow]
    <2>1. /\ FlowInv'
          /\ \A i \in 1..Len(queue) : i > 1 /\ queue[i].op = "reserve" =>
                 /\ flow'[queue[i].flow].device = flow[queue[i].flow].device
                 /\ flow'[queue[i].flow].at \in {"waiting", "closed"}
      BY <1>1, <1>6, <1>8, HeadsFlow
    <2> HIDE DEF f, d
    <2>2. /\ \A s \in Subentries : subentries'[s].hint # NoAsset => subentries'[s] = subentries[s]
          /\ Agrees(data, subentries')
      BY <1>4, <1>8, OneTracked, Parts
    <2>3. \A s \in Subentries : subentries'[s].hint # NoAsset =>
             subentries[s].hint # NoAsset /\ subentries'[s].device = subentries[s].device
      BY <2>2
    <2> QED
      BY <1>1, <2>1, <2>2, <2>3, Released
  <1> QED
    BY <1>5, <1>7, <1>8 DEF Reserve

LEMMA RemoveSubentryStep ==
  ASSUME IInv, NEW s \in Subentries, RemoveSubentry(s)
  PROVE  Protocol'
  <1> DEFINE less == [subentries EXCEPT ![s] = NoTracker]
  <1>1. /\ less \in [Subentries -> Trackers]
        /\ Tracked(less) = Tracked(subentries) \ {s}
        /\ \A t \in Tracked(less) : less[t] = subentries[t]
        /\ \A t \in Subentries : less[t].hint # NoAsset => less[t] = subentries[t]
        /\ \A st : Conflicts(st, less) = Conflicts(st, subentries) \ {s}
        /\ \A st : Agrees(st, subentries) => Agrees(st, less)
    BY Untracked, Parts
  <1>2. /\ subentries' = less
        /\ UNCHANGED <<disk, data, uncertain, queue, writing, candidate, updates, flow, entry>>
    BY DEF RemoveSubentry, storeVars, lockVars, setupVars
  <1> HIDE DEF less
  <1>3. SnapshotInv' /\ StageInv' /\ FlowInv'
    BY <1>1, <1>2, Parts DEF SnapshotInv, StageInv, FlowInv
  <1>4. ChangeInv'
    BY <1>1, <1>2, Parts DEF ChangeInv
  <1>5. CallInv'
    <2>1. \A i \in 1..Len(queue) : queue[i].op = "reserve" =>
             flow[queue[i].flow].at \in {"waiting", "closed"}
      BY Parts DEF CallInv, Waits, Alone
    <2>2. Waits(data, flow, less, queue)
      BY <1>1, <2>1, WaitsUnder, Parts DEF CallInv
    <2> QED
      BY <1>2, <2>2, Parts DEF CallInv
  <1>6. HintInv'
    BY <1>1, <1>2, Parts DEF HintInv, Holder
  <1> QED
    BY <1>3, <1>4, <1>5, <1>6 DEF Protocol

\* Writers, and what a reload does outside the lock.
LEMMA FramedStep ==
  ASSUME IInv,
         \/ \E a \in Assets : \/ RetireOrphan(a) \/ WriterCommits(a) \/ WriterRemoved(a)
                              \/ RegisterWriter(a)
         \/ ListenerDone \/ Prepare \/ StartPlatforms \/ SetupDone
  PROVE  Protocol'
  <1>1. UNCHANGED <<disk, data, uncertain, queue, writing, candidate, subentries, updates, flow>>
    BY DEF RetireOrphan, WriterCommits, WriterRemoved, RegisterWriter, ListenerDone, Prepare,
           StartPlatforms, SetupDone, storeVars, lockVars, configVars, setupVars
  <1>2. \/ entry' = entry
        \/ entry \in {"loaded", "reconciled", "platforms"}
           /\ entry' \in {"prepared", "failed", "platforms", "loaded"}
    BY DEF RetireOrphan, WriterCommits, WriterRemoved, RegisterWriter, ListenerDone, Prepare,
           StartPlatforms, SetupDone, setupVars
  <1> QED
    BY <1>1, <1>2, Framed

LEMMA UnloadPlatformsStep ==
  ASSUME IInv, UnloadPlatforms
  PROVE  Protocol'
  <1>1. /\ entry = "prepared" /\ entry' \in {"unloading", "failed"}
        /\ UNCHANGED <<disk, data, uncertain, writing, candidate, subentries, updates, flow>>
    BY DEF UnloadPlatforms, storeVars, configVars
  <1>2. CASE UNCHANGED queue
    BY <1>1, <1>2, Framed
  <1>3. CASE queue' = Append(queue, [op |-> "retire"])
    <2> DEFINE call == [op |-> "retire"]
    <2>1. call \in Calls /\ call.op = "retire"
      BY DEF Calls
    <2> HIDE DEF call
    <2>2. /\ Alone(data, flow', subentries, call)
          /\ \A i \in 1..Len(queue) : InOrder(data, flow', queue[i], call)
          /\ Overtaken(data, disk, flow', call) /\ Overtaken(data, candidate, flow', call)
      BY <2>1 DEF Alone, InOrder, Overtaken, Changes
    <2>3. FlowInv'
      BY <1>1, Parts DEF FlowInv
    <2>4. \A i \in 1..Len(queue) : queue[i].op = "reserve" =>
            /\ flow'[queue[i].flow].device = flow[queue[i].flow].device
            /\ flow'[queue[i].flow].at \in {"waiting", "closed"}
      BY <1>1, Parts DEF CallInv, Waits, Alone
    <2>5. queue' = Append(queue, call)
      BY <1>3 DEF call
    <2> QED
      BY <1>1, <2>1, <2>2, <2>3, <2>4, <2>5, Joining
  <1> QED
    BY <1>2, <1>3 DEF UnloadPlatforms

LEMMA RetireStep ==
  ASSUME IInv, Retire
  PROVE  Protocol'
  <1>1. /\ queue' = <<>> /\ entry' = "unloaded" /\ writing' = writing /\ ~writing
        /\ UNCHANGED <<disk, data, uncertain, candidate, subentries>>
        /\ flow' = [g \in Flows |-> IF flow[g].at \in {"waiting", "closed"}
                                    THEN IdleFlow ELSE flow[g]]
    BY DEF Retire, storeVars, configVars
  <1>2. SnapshotInv' /\ ChangeInv'
    BY <1>1, Parts DEF SnapshotInv, ChangeInv
  <1>3. FlowInv'
    BY <1>1, Parts DEF FlowInv, IdleFlow
  <1>4. StageInv'
    <2>1. 1..Len(<<>>) = {}
      BY EmptySeq
    <2> QED
      BY <1>1, <2>1, Parts DEF StageInv
  <1>5. CallInv'
    BY <1>1, NoCalls
  <1>6. HintInv'
    BY <1>1 DEF HintInv
  <1> QED
    BY <1>2, <1>3, <1>4, <1>5, <1>6 DEF Protocol

LEMMA ProcessStopsStep ==
  ASSUME IInv, ProcessStops
  PROVE  Protocol'
  <1>1. /\ queue' = <<>> /\ entry' = "unloaded" /\ writing' = FALSE /\ uncertain' = FALSE
        /\ data' = disk /\ candidate' = disk /\ disk' = disk /\ subentries' = subentries
        /\ flow' = [g \in Flows |-> IdleFlow]
    BY DEF ProcessStops
  <1>2. SnapshotInv' /\ ChangeInv'
    BY <1>1, FollowsItself, Parts DEF SnapshotInv, ChangeInv
  <1>3. FlowInv'
    BY <1>1 DEF FlowInv, IdleFlow
  <1>4. StageInv'
    <2>1. 1..Len(<<>>) = {}
      BY EmptySeq
    <2> QED
      BY <1>1, <2>1 DEF StageInv
  <1>5. CallInv'
    BY <1>1, NoCalls
  <1>6. HintInv'
    BY <1>1 DEF HintInv
  <1> QED
    BY <1>2, <1>3, <1>4, <1>5, <1>6 DEF Protocol

LEMMA SetupStep ==
  ASSUME IInv, Setup
  PROVE  Protocol'
  <1> DEFINE call == [op |-> "reconcile"]
  <1>1. /\ queue' = <<call>> /\ entry' = "reconciling" /\ uncertain' = FALSE
        /\ data' = disk /\ candidate' = disk /\ disk' = disk /\ subentries' = subentries
        /\ writing' = writing /\ flow' = flow /\ entry = "unloaded" /\ call.op = "reconcile"
    BY DEF Setup, configVars
  <1> HIDE DEF call
  <1>2. writing = FALSE
    BY <1>1, Parts DEF StageInv, TypeOK
  <1>3. Len(queue') = 1 /\ queue'[1] = call
    BY <1>1
  <1>4. \A i \in 1..Len(queue') : i = 1 /\ queue'[i] = call
    BY <1>3
  <1>5. SnapshotInv' /\ ChangeInv'
    BY <1>1, FollowsItself, Parts DEF SnapshotInv, ChangeInv
  <1>6. FlowInv'
    BY <1>1, Parts DEF FlowInv
  <1>7. StageInv'
    BY <1>1, <1>2, <1>4 DEF StageInv
  <1>8. CallInv'
    <2>1. \A st, flows, subs : Alone(st, flows, subs, call)
      BY <1>1 DEF Alone
    <2>2. Waits(data', flow', subentries', queue')
      BY <1>4, <2>1 DEF Waits
    <2>3. \A flows, x : Overtaken(disk, disk, flows, x)
      BY NotOvertaken
    <2> QED
      BY <1>1, <2>2, <2>3 DEF CallInv
  <1>9. HintInv'
    BY <1>1, <1>2 DEF HintInv
  <1> QED
    BY <1>5, <1>6, <1>7, <1>8, <1>9 DEF Protocol

LEMMA ReconcileStep ==
  ASSUME IInv, TypeOK', Reconcile
  PROVE  Protocol'
  <1> DEFINE r == Reconciliation
  <1>1. /\ queue # <<>> /\ Holder.op = "reconcile" /\ ~writing /\ ~uncertain /\ data = disk
        /\ flow' = flow /\ Tail(queue) = <<>>
    BY Exclusive, Parts DEF Reconcile, Turn, StageInv
  <1>2. /\ Reconciling(r) /\ Follows(data, r.store)
        /\ Conflicts(r.store, subentries) \subseteq Conflicts(data, subentries)
    BY ReconciliationIs, Parts
  <1>3. /\ Sound(r.store) /\ Agrees(r.store, subentries)
        /\ r.hint \in [Subentries -> Assets \union {NoAsset}]
        /\ \A s \in Subentries : r.hint[s] # NoAsset =>
              s \in Tracked(subentries) /\ r.store.device[r.hint[s]] = subentries[s].device
    BY <1>2 DEF Reconciling
  <1>4. FlowInv'
    BY <1>1, Parts DEF FlowInv
  <1>5. \A i \in 1..Len(queue) : i > 1 /\ queue[i].op = "reserve" =>
           /\ flow'[queue[i].flow].device = flow[queue[i].flow].device
           /\ flow'[queue[i].flow].at \in {"waiting", "closed"}
    BY <1>1, Parts DEF CallInv, Waits, Alone
  <1>6. Refuse => /\ queue' = Tail(queue) /\ writing' = FALSE /\ candidate' = data'
                  /\ data' = data /\ disk' = disk /\ uncertain' = uncertain
    BY DEF Refuse, Release, storeVars
  <1> HIDE DEF r
  <1>7. CASE Refuse /\ entry' = "unloaded" /\ UNCHANGED <<updates, subentries>>
    BY <1>1, <1>4, <1>5, <1>6, <1>7, Released, Parts
  <1>8. CASE /\ r.store = data /\ Refuse /\ entry' = "reconciled"
             /\ subentries' = [s \in Subentries |->
                   IF r.hint[s] = NoAsset THEN subentries[s]
                   ELSE [subentries[s] EXCEPT !.hint = r.hint[s]]]
    <2>1. \A s \in Subentries :
             \/ subentries'[s] = subentries[s]
             \/ /\ s \in Tracked(subentries) /\ r.hint[s] # NoAsset
                /\ subentries'[s] = [subentries[s] EXCEPT !.hint = r.hint[s]]
      BY <1>3, <1>8
    <2>2. \A s \in Tracked(subentries) :
             r.hint[s] # NoAsset => data.device[r.hint[s]] = subentries[s].device
      BY <1>3, <1>8 DEF Tracked
    <2>3. subentries' \in [Subentries -> Trackers]
      BY DEF TypeOK
    <2>4. Agrees(data, subentries')
      BY <1>3, <2>1, <2>2, <2>3, Hinted, Parts
    <2> QED
      BY <1>1, <1>4, <1>5, <1>6, <1>8, <2>4, Released
  <1>9. CASE /\ r.store # data /\ Valid(r.store)
             /\ Mutated(r.store) /\ updates' = r.hint /\ UNCHANGED <<entry, subentries>>
    <2>1. /\ writing' = TRUE /\ candidate' = r.store
          /\ UNCHANGED <<disk, data, uncertain, queue>>
      BY <1>9 DEF Mutated, storeVars
    <2>2. \A i \in 1..Len(queue) : ~(i > 1)
      BY <1>1, HolderIs, Parts DEF StageInv
    <2>3. HintInv'
      BY <1>3, <1>9, <2>1 DEF HintInv, Tracked
    <2> QED
      BY <1>1, <1>2, <1>3, <1>9, <2>1, <2>2, <2>3, Saving
  <1> QED
    BY <1>7, <1>8, <1>9 DEF Reconcile, r

-----------------------------------------------------------------------------
(* Theorems                                                                  *)

LEMMA ProtocolStep == IInv /\ TypeOK' /\ Next => Protocol'
  <1> SUFFICES ASSUME IInv, TypeOK', Next PROVE Protocol'
    OBVIOUS
  <1>1. ASSUME NEW a \in Assets, RequestArchive(a) \/ RequestRestore(a)
        PROVE  Protocol'
    BY <1>1, RequestArchiveStep
  <1>2. ASSUME NEW a \in Assets, RequestUnlink(a)
        PROVE  Protocol'
    BY <1>2, RequestUnlinkStep
  <1>3. ASSUME NEW a \in Assets, NEW d \in Devices, RequestLink(a, d)
        PROVE  Protocol'
    BY <1>3, RequestLinkStep
  <1>4. CASE Recover \/ RecoveryFails
    BY <1>4, RecoverStep, RecoveryFailsStep
  <1>5. CASE Archive \/ Restore \/ Link \/ Unlink
    BY <1>5, ArchiveStep, RestoreStep, ReboundStep
  <1>6. CASE SaveVerified \/ SaveFails \/ \E lands \in BOOLEAN : SaveAmbiguous(lands)
    BY <1>6, SavedStep
  <1>7. ASSUME NEW lands \in BOOLEAN, SaveResolved(lands)
        PROVE  Protocol'
    BY <1>7, SaveResolvedStep
  <1>8. ASSUME NEW f \in Flows, NEW d \in Devices, FlowChooses(f, d)
        PROVE  Protocol'
    BY <1>8, FlowChoosesStep
  <1>9. ASSUME NEW f \in Flows, FlowSubmits(f) \/ FlowCloses(f)
        PROVE  Protocol'
    BY <1>9, FlowSubmitsStep, FlowClosesStep
  <1>10. CASE Reserve
    BY <1>10, ReserveStep
  <1>11. ASSUME NEW s \in Subentries, RemoveSubentry(s)
         PROVE  Protocol'
    BY <1>11, RemoveSubentryStep
  <1>12. ASSUME \/ \E a \in Assets : \/ RetireOrphan(a) \/ WriterCommits(a) \/ WriterRemoved(a)
                                     \/ RegisterWriter(a)
                \/ ListenerDone \/ Prepare \/ StartPlatforms \/ SetupDone
         PROVE  Protocol'
    BY <1>12, FramedStep
  <1>13. CASE UnloadPlatforms \/ Retire \/ Setup \/ Reconcile \/ ProcessStops
    BY <1>13, UnloadPlatformsStep, RetireStep, SetupStep, ReconcileStep, ProcessStopsStep
  <1> QED
    BY <1>1, <1>2, <1>3, <1>4, <1>5, <1>6, <1>7, <1>8, <1>9, <1>10, <1>11, <1>12, <1>13 DEF Next

LEMMA Inductive == IInv /\ [Next]_vars => IInv'
  <1> SUFFICES ASSUME IInv, [Next]_vars PROVE IInv'
    OBVIOUS
  <1>1. CASE Next
    BY <1>1, TypeStep, ProtocolStep DEF IInv
  <1>2. CASE UNCHANGED vars
    <2>1. TypeOK'
      BY <1>2 DEF IInv, TypeOK, vars
    <2>2. Protocol'
      BY <1>2, Framed DEF vars
    <2> QED
      BY <2>1, <2>2 DEF IInv
  <1> QED
    BY <1>1, <1>2

\* The snapshots, hints and waiting calls always fit together.
THEOREM Invariant == Spec => []IInv
  BY InitInv, Inductive, PTL DEF Spec

\* The interlock is type correct: no number, device or call leaves its set.
THEOREM TypeCorrect == Spec => []TypeOK
  <1>1. IInv => TypeOK
    BY DEF IInv
  <1> QED
    BY <1>1, Invariant, PTL

\* Every setup can reconcile its subentries into a valid Store.
THEOREM SetupIsPossibleHolds == Spec => []SetupIsPossible
  <1>1. IInv => SetupIsPossible
    BY ReconciliationIs, Parts DEF SetupIsPossible, Reconciling, Sound
  <1> QED
    BY <1>1, Invariant, PTL

\* What a step does to the file and to the tracked devices.
LEMMA Steps ==
  ASSUME IInv, TypeOK', [Next]_vars
  PROVE  /\ disk' = disk \/ (disk = data /\ disk' = candidate)
         /\ \A s \in Tracked(subentries') :
               \/ s \in Tracked(subentries) /\ subentries'[s].device = subentries[s].device
               \/ disk' = disk /\ \A a \in disk.archived : disk.device[a] # subentries'[s].device
  <1> DEFINE Kept == \A s \in Tracked(subentries') :
                        s \in Tracked(subentries) /\ subentries'[s].device = subentries[s].device
  <1>1. subentries' = subentries => Kept
    OBVIOUS
  <1>2. CASE UNCHANGED vars
    BY <1>1, <1>2 DEF vars
  <1>3. CASE SaveVerified \/ SaveFails \/ \E lands \in BOOLEAN : SaveAmbiguous(lands)
    <2>1. writing /\ disk = data /\ disk' \in {disk, candidate}
      BY <1>3, Parts DEF SaveVerified, SaveFails, SaveAmbiguous, StageInv, Refuse, storeVars
    <2>2. PICK ok \in BOOLEAN : Reconciled(ok)
      BY <1>3 DEF SaveVerified, SaveFails, SaveAmbiguous
    <2>3. Kept
      BY <2>1, <2>2, ReconciledIs
    <2> QED
      BY <2>1, <2>3
  <1>4. ASSUME NEW lands \in BOOLEAN, SaveResolved(lands)
        PROVE  disk = data /\ disk' \in {disk, candidate} /\ Kept
    BY <1>1, <1>4, Parts DEF SaveResolved, StageInv, configVars
  <1>5. ASSUME NEW f \in Flows, FlowSubmits(f)
        PROVE  /\ disk' = disk
               /\ \A s \in Tracked(subentries') :
                     \/ s \in Tracked(subentries) /\ subentries'[s].device = subentries[s].device
                     \/ \A a \in disk.archived : disk.device[a] # subentries'[s].device
    <2> DEFINE d == flow[f].device
    <2>1. disk' = disk /\ d \in Devices
      BY <1>5, Parts DEF FlowSubmits, FlowInv, storeVars
    <2>2. CASE Target(d) = NoAsset
      <3>1. AddSubentry(d) /\ \A a \in disk.archived : disk.device[a] # d
        BY <1>5, <2>1, <2>2, Unowned DEF FlowSubmits
      <3> HIDE DEF d
      <3> QED
        BY <2>1, <3>1, AddedConflicts, Parts
    <2>3. CASE Target(d) # NoAsset
      BY <1>1, <1>5, <2>1, <2>3 DEF FlowSubmits, configVars
    <2> QED
      BY <2>2, <2>3
  <1>6. CASE Reserve
    <2> DEFINE d == flow[Holder.flow].device
    <2>1. /\ queue # <<>> /\ Holder.op = "reserve" /\ data = disk /\ disk' = disk
      BY <1>6, Parts DEF Reserve, Turn, Refuse, StageInv, storeVars
    <2>2. /\ Holder = queue[1] /\ 1 \in 1..Len(queue) /\ Holder.flow \in Flows
      BY <2>1, Parts, HolderIs, CallType
    <2>3. Alone(data, flow, subentries, Holder)
      BY <2>2, Parts DEF CallInv, Waits
    <2>4. d \in Devices /\ \A b \in Assets : data.device[b] = d => b = Holder.asset
      BY <2>1, <2>2, <2>3, Parts DEF Alone, FlowInv
    <2>5. CASE UNCHANGED configVars
      BY <1>1, <2>1, <2>5 DEF configVars
    <2>6. CASE ~Refused(Holder.asset) /\ AddSubentry(d)
      <3>1. \A a \in disk.archived : disk.device[a] # d
        BY <2>1, <2>4, <2>6, StoreType, Parts DEF Refused
      <3> HIDE DEF d
      <3> QED
        BY <2>1, <2>4, <2>6, <3>1, AddedConflicts, Parts
    <2> QED
      BY <1>6, <2>5, <2>6 DEF Reserve
  <1>7. ASSUME NEW s \in Subentries, RemoveSubentry(s)
        PROVE  disk' = disk /\ Kept
    <2> DEFINE less == [subentries EXCEPT ![s] = NoTracker]
    <2>1. /\ Tracked(less) = Tracked(subentries) \ {s}
          /\ \A t \in Tracked(less) : less[t] = subentries[t]
      BY Untracked, Parts
    <2>2. disk' = disk /\ subentries' = less
      BY <1>7 DEF RemoveSubentry, storeVars
    <2> HIDE DEF less
    <2> QED
      BY <2>1, <2>2
  <1>8. CASE Reconcile
    <2>1. disk' = disk
      BY <1>8 DEF Reconcile, Refuse, Mutated, storeVars
    <2>2. CASE subentries' = subentries
      BY <1>1, <2>1, <2>2
    <2>3. CASE subentries' = [s \in Subentries |->
                   IF Reconciliation.hint[s] = NoAsset THEN subentries[s]
                   ELSE [subentries[s] EXCEPT !.hint = Reconciliation.hint[s]]]
      <3> DEFINE r == Reconciliation
      <3>1. /\ Agrees(r.store, subentries)
            /\ r.hint \in [Subentries -> Assets \union {NoAsset}]
            /\ \A s \in Subentries : r.hint[s] # NoAsset =>
                  s \in Tracked(subentries) /\ r.store.device[r.hint[s]] = subentries[s].device
        BY ReconciliationIs, Parts DEF Reconciling
      <3> HIDE DEF r
      <3>2. \A s \in Subentries :
               \/ subentries'[s] = subentries[s]
               \/ /\ s \in Tracked(subentries) /\ r.hint[s] # NoAsset
                  /\ subentries'[s] = [subentries[s] EXCEPT !.hint = r.hint[s]]
        BY <2>3, <3>1 DEF r
      <3>3. \A s \in Tracked(subentries) :
               r.hint[s] # NoAsset => r.store.device[r.hint[s]] = subentries[s].device
        BY <3>1 DEF Tracked
      <3>4. subentries' \in [Subentries -> Trackers]
        BY DEF TypeOK
      <3>5. Kept
        BY <3>1, <3>2, <3>3, <3>4, Hinted, Parts
      <3> QED
        BY <2>1, <3>5
    <2> QED
      BY <1>8, <2>2, <2>3 DEF Reconcile
  <1>9. CASE /\ Next
             /\ ~(SaveVerified \/ SaveFails \/ \E lands \in BOOLEAN : SaveAmbiguous(lands))
             /\ ~\E lands \in BOOLEAN : SaveResolved(lands)
             /\ ~\E f \in Flows : FlowSubmits(f)
             /\ ~Reserve /\ ~(\E s \in Subentries : RemoveSubentry(s)) /\ ~Reconcile
    <2>1. disk' = disk /\ subentries' = subentries
      BY <1>9 DEF Next, RequestArchive, RequestRestore, RequestUnlink, RequestLink, Submit,
                  Recover, RecoveryFails, Archive, Restore, Link, Unlink, Refuse, Mutated,
                  FlowChooses, FlowCloses, RetireOrphan, ListenerDone, WriterCommits,
                  WriterRemoved, Prepare, UnloadPlatforms, Retire, Setup, StartPlatforms,
                  RegisterWriter, SetupDone, ProcessStops,
                  storeVars, lockVars, configVars, setupVars
    <2> QED
      BY <1>1, <2>1
  <1> QED
    BY <1>2, <1>3, <1>4, <1>5, <1>6, <1>7, <1>8, <1>9

\* No step creates a Runtime subentry that resolves to an archived Asset, neither by
\* archiving the Asset, nor by tracking its device, nor by giving it the device.
THEOREM NoArchivedBindingHolds == Spec => NoArchivedBinding
  <1> DEFINE Binding == Conflicts(disk', subentries') \subseteq Conflicts(disk, subentries)
  <1>1. ASSUME IInv, IInv', [Next]_vars
        PROVE  [Binding]_vars
    <2>1. /\ subentries \in [Subentries -> Trackers] /\ subentries' \in [Subentries -> Trackers]
          /\ Sound(disk') /\ Agrees(disk', subentries') /\ TypeOK'
      BY <1>1 DEF IInv, Protocol, SnapshotInv, TypeOK
    <2>2. /\ disk' = disk \/ (disk = data /\ disk' = candidate)
          /\ \A s \in Tracked(subentries') :
               \/ s \in Tracked(subentries) /\ subentries'[s].device = subentries[s].device
               \/ disk' = disk /\ \A a \in disk.archived : disk.device[a] # subentries'[s].device
      BY <1>1, <2>1, Steps
    <2>3. \A s \in Tracked(subentries') :
               \/ s \in Tracked(subentries) /\ subentries'[s].device = subentries[s].device
               \/ \A a \in disk'.archived : disk'.device[a] # subentries'[s].device
      BY <2>2
    <2>4. Agrees(disk', subentries)
      BY <1>1, <2>2, Parts
    <2>5. Conflicts(disk', subentries') \subseteq Conflicts(disk', subentries)
      BY <2>1, <2>3, <2>4, NoNewConflict
    <2>6. Conflicts(disk', subentries) \subseteq Conflicts(disk, subentries)
      BY <1>1, <2>2, Parts DEF ChangeInv
    <2> QED
      BY <2>5, <2>6
  <1>2. IInv /\ IInv' /\ [Next]_vars => [Binding]_vars
    BY <1>1
  <1> QED
    BY <1>2, Invariant, PTL DEF Spec, NoArchivedBinding

\* An archived Asset's device changes only when the Asset is restored, whatever calls
\* and subentries were waiting for it.
THEOREM ArchivedKeepsReferencesHolds == Spec => ArchivedKeepsReferences
  <1> DEFINE Kept == \A a \in disk.archived \intersect disk'.archived :
                        disk'.device[a] = disk.device[a]
  <1>1. ASSUME IInv, IInv', [Next]_vars
        PROVE  [Kept]_vars
    <2>1. disk' = disk \/ (disk = data /\ disk' = candidate)
      BY <1>1, Steps DEF IInv
    <2> QED
      BY <1>1, <2>1, Parts DEF ChangeInv, Follows
  <1>2. IInv /\ IInv' /\ [Next]_vars => [Kept]_vars
    BY <1>1
  <1> QED
    BY <1>2, Invariant, PTL DEF Spec, ArchivedKeepsReferences
=============================================================================
