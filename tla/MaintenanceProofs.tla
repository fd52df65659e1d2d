--------------------------- MODULE MaintenanceProofs ---------------------------
(***************************************************************************)
(* Proofs about Maintenance for any Assets, schedules, events and values.  *)
(***************************************************************************)
EXTENDS Maintenance, FiniteSetTheorems, TLAPS

AnySchedules == (UNION {ScheduleRecords(s) : s \in Schedules}) \union {NoSchedule}
AnyEvents == EventRecords \union {NoEvent}
Stores == [schedules: [Schedules -> AnySchedules], events: [Events -> AnyEvents],
           archived: SUBSET Assets]

\* A snapshot that loads.
Loads(st) ==
    /\ st \in Stores
    /\ \A s \in Kept(st) : st.schedules[s] \in ScheduleRecords(s)
    /\ ValidStore(st)

IInv == Loads(store)

-----------------------------------------------------------------------------
(* Records                                                                   *)

LEMMA Absent ==
  /\ \A s \in Schedules : \A r \in ScheduleRecords(s) : r # NoSchedule /\ r.asset = AssetOf[s]
  /\ \A e \in EventRecords : e # NoEvent
  /\ None \notin Assets /\ None \notin Events
  <1>1. None \notin Assets /\ None \notin Events /\ AssetOf \in [Schedules -> Assets]
    BY MaintenanceAssumption DEF None
  <1>2. ASSUME NEW s \in Schedules, NEW r \in ScheduleRecords(s)
        PROVE  r # NoSchedule /\ r.asset = AssetOf[s]
    <2>1. r.asset = AssetOf[s]
      BY DEF ScheduleRecords
    <2>2. AssetOf[s] # None
      BY <1>1
    <2> QED
      BY <2>1, <2>2 DEF NoSchedule
  <1>3. ASSUME NEW e \in EventRecords
        PROVE  e # NoEvent
    <2>1. e.asset \in Assets
      BY DEF EventRecords
    <2> QED
      BY <1>1, <2>1 DEF NoEvent
  <1> QED
    BY <1>1, <1>2, <1>3

\* What a schedule record holds.
LEMMA ScheduleParts ==
  ASSUME NEW s \in Schedules, NEW r \in ScheduleRecords(s)
  PROVE  /\ r \in AnySchedules /\ r.asset = AssetOf[s] /\ r.enabled \in BOOLEAN
         /\ r.reminder \in BOOLEAN /\ r.interval \in [Dimensions -> Values \union {None}]
         /\ r.baseline \in BaselineRecords
         /\ Configured(r) # {} /\ Fits(r.baseline, Configured(r))
         /\ r.reminder => "calendar" \in Configured(r)
         /\ r = [asset |-> r.asset, enabled |-> r.enabled, reminder |-> r.reminder,
                 interval |-> r.interval, baseline |-> r.baseline]
  BY DEF ScheduleRecords, AnySchedules

\* What makes one.
LEMMA ScheduleMade ==
  ASSUME NEW s \in Schedules, NEW enabled \in BOOLEAN, NEW reminder \in BOOLEAN,
         NEW interval \in [Dimensions -> Values \union {None}], NEW baseline \in BaselineRecords,
         LET dimensions == {d \in Dimensions : interval[d] # None} IN
         dimensions # {} /\ Fits(baseline, dimensions) /\ (reminder => "calendar" \in dimensions)
  PROVE  [asset |-> AssetOf[s], enabled |-> enabled, reminder |-> reminder,
          interval |-> interval, baseline |-> baseline] \in ScheduleRecords(s)
  BY DEF ScheduleRecords, Configured

LEMMA EventParts ==
  ASSUME NEW e \in EventRecords
  PROVE  /\ e.asset \in Assets /\ e.links \in SUBSET Schedules /\ e.entry \in Entries
         /\ e.state \in {"active"} \union Reasons /\ e.corrects \in Events \union {None}
  BY DEF EventRecords

\* The members of a snapshot.
LEMMA StoreParts ==
  ASSUME NEW st \in Stores
  PROVE  /\ st.schedules \in [Schedules -> AnySchedules] /\ st.events \in [Events -> AnyEvents]
         /\ st.archived \in SUBSET Assets
         /\ st = [schedules |-> st.schedules, events |-> st.events, archived |-> st.archived]
         /\ \A e \in Recorded(st) : e \in Events /\ st.events[e] \in EventRecords
         /\ \A s \in Kept(st) : s \in Schedules
  BY DEF Stores, Recorded, Kept, AnyEvents

\* Requests by what they ask for.
LEMMA RequestParts ==
  ASSUME NEW r \in Requests
  PROVE  /\ r.op \in {"create", "edit", "set_anchor", "add", "remove", "enable", "delete"}
               => r.schedule \in Schedules
         /\ r.op = "create" => r.record \in ScheduleRecords(r.schedule)
         /\ r.op = "edit" => /\ r.enabled \in BOOLEAN /\ r.reminder \in BOOLEAN
                             /\ r.interval \in [Dimensions -> Values \union {None}]
         /\ r.op = "set_anchor" => r.baseline \in BaselineRecords
         /\ r.op = "add" => /\ r.dimension \in Dimensions /\ r.value \in Values
                            /\ r.component \in Components(r.dimension)
         /\ r.op = "remove" => r.dimension \in Dimensions
         /\ r.op = "enable" => r.enabled \in BOOLEAN
         /\ r.op \in {"record", "correct"} =>
               /\ r.event \in Events /\ r.links \in Links /\ r.entry \in Entries
         /\ r.op = "record" => r.asset \in Assets
         /\ r.op \in {"void", "correct"} => r.reason \in Reasons
         /\ r.op = "void" => r.event \in Events
         /\ r.op = "correct" => r.target \in Events
         /\ r.op \in {"create", "edit", "set_anchor", "add", "remove", "enable", "delete",
                      "record", "void", "correct"}
  <1> DEFINE Creates == UNION {[op: {"create"}, schedule: {s}, record: ScheduleRecords(s)] :
                                  s \in Schedules}
             Edits == [op: {"edit"}, schedule: Schedules, enabled: BOOLEAN, reminder: BOOLEAN,
                       interval: [Dimensions -> Values \union {None}]]
             Anchors == [op: {"set_anchor"}, schedule: Schedules, baseline: BaselineRecords]
             Adds == UNION {[op: {"add"}, schedule: Schedules, dimension: {d},
                             component: Components(d), value: Values] : d \in Dimensions}
             Removes == [op: {"remove"}, schedule: Schedules, dimension: Dimensions,
                         confirmed: BOOLEAN]
             Enables == [op: {"enable"}, schedule: Schedules, enabled: BOOLEAN]
             Deletes == [op: {"delete"}, schedule: Schedules]
             Records == [op: {"record"}, event: Events, asset: Assets, links: Links,
                         entry: Entries]
             Voids == [op: {"void"}, event: Events, reason: Reasons]
             Corrects == [op: {"correct"}, event: Events, target: Events, links: Links,
                          entry: Entries, reason: Reasons]
  <1>1. Requests = Creates \union Edits \union Anchors \union Adds \union Removes \union Enables
                   \union Deletes \union Records \union Voids \union Corrects
    BY DEF Requests
  <1>2. ASSUME r \in Creates
        PROVE  r.op = "create" /\ r.schedule \in Schedules
               /\ r.record \in ScheduleRecords(r.schedule)
    <2>1. PICK s \in Schedules : r \in [op: {"create"}, schedule: {s}, record: ScheduleRecords(s)]
      BY <1>2, Zenon
    <2> QED
      BY <2>1
  <1>3. ASSUME r \in Adds
        PROVE  /\ r.op = "add" /\ r.schedule \in Schedules /\ r.dimension \in Dimensions
               /\ r.value \in Values /\ r.component \in Components(r.dimension)
    <2>1. PICK d \in Dimensions : r \in [op: {"add"}, schedule: Schedules, dimension: {d},
                                         component: Components(d), value: Values]
      BY <1>3, Zenon
    <2> QED
      BY <2>1
  <1> HIDE DEF Creates, Adds
  <1>4. /\ r \in Edits => /\ r.op = "edit" /\ r.schedule \in Schedules
                           /\ r.enabled \in BOOLEAN /\ r.reminder \in BOOLEAN
                           /\ r.interval \in [Dimensions -> Values \union {None}]
        /\ r \in Anchors => /\ r.op = "set_anchor" /\ r.schedule \in Schedules
                             /\ r.baseline \in BaselineRecords
        /\ r \in Removes => /\ r.op = "remove" /\ r.schedule \in Schedules
                             /\ r.dimension \in Dimensions
        /\ r \in Enables => /\ r.op = "enable" /\ r.schedule \in Schedules
                             /\ r.enabled \in BOOLEAN
        /\ r \in Deletes => r.op = "delete" /\ r.schedule \in Schedules
    OBVIOUS
  <1>5. /\ r \in Records => /\ r.op = "record" /\ r.event \in Events /\ r.links \in Links
                             /\ r.entry \in Entries /\ r.asset \in Assets
        /\ r \in Voids => r.op = "void" /\ r.event \in Events /\ r.reason \in Reasons
        /\ r \in Corrects => /\ r.op = "correct" /\ r.event \in Events /\ r.links \in Links
                              /\ r.entry \in Entries /\ r.target \in Events /\ r.reason \in Reasons
    OBVIOUS
  <1> HIDE DEF Edits, Anchors, Removes, Enables, Deletes, Records, Voids, Corrects
  <1>6. \/ r \in Creates \/ r \in Edits \/ r \in Anchors \/ r \in Adds \/ r \in Removes
        \/ r \in Enables \/ r \in Deletes \/ r \in Records \/ r \in Voids \/ r \in Corrects
    BY <1>1
  <1> QED
    BY <1>2, <1>3, <1>4, <1>5, <1>6

\* The dispatch.
LEMMA MutateParts ==
  ASSUME NEW st, NEW ctx, NEW r
  PROVE  /\ r.op = "create" => Mutate(st, ctx, r) = Create(st, ctx, r)
         /\ r.op = "edit" => Mutate(st, ctx, r) = Edit(st, ctx, r)
         /\ r.op = "set_anchor" => Mutate(st, ctx, r) = SetAnchor(st, ctx, r)
         /\ r.op = "add" => Mutate(st, ctx, r) = AddInterval(st, ctx, r)
         /\ r.op = "remove" => Mutate(st, ctx, r) = RemoveInterval(st, ctx, r)
         /\ r.op = "enable" => Mutate(st, ctx, r) = SetEnabled(st, ctx, r)
         /\ r.op = "delete" => Mutate(st, ctx, r) = Delete(st, ctx, r)
         /\ r.op = "record" => Mutate(st, ctx, r) = RecordEvent(st, ctx, r)
         /\ r.op = "void" => Mutate(st, ctx, r) = VoidEvent(st, ctx, r)
         /\ r.op = "correct" => Mutate(st, ctx, r) = CorrectEvent(st, ctx, r)
  BY DEF Mutate

\* One schedule written.
Write(st, s, record) == [st EXCEPT !.schedules[s] = record]

LEMMA WriteParts ==
  ASSUME NEW st \in Stores, NEW s \in Schedules, NEW record \in AnySchedules
  PROVE  /\ Write(st, s, record) \in Stores
         /\ Write(st, s, record).events = st.events
         /\ Write(st, s, record).archived = st.archived
         /\ Write(st, s, record).schedules = [st.schedules EXCEPT ![s] = record]
  <1> DEFINE map == [st.schedules EXCEPT ![s] = record]
  <1>1. Write(st, s, record) = [st EXCEPT !.schedules = map]
    BY DEF Write
  <1>2. map \in [Schedules -> AnySchedules]
    BY StoreParts
  <1> HIDE DEF map
  <1>3. /\ Write(st, s, record) \in Stores
        /\ Write(st, s, record).events = st.events
        /\ Write(st, s, record).archived = st.archived
        /\ Write(st, s, record).schedules = map
    BY <1>1, <1>2 DEF Stores
  <1> QED
    BY <1>3 DEF map

\* What an answer says.
LEMMA Outcomes ==
  /\ \A st, o : Unchanged(st, o).outcome = o /\ Unchanged(st, o).st = st
  /\ \A st : Refused(st).outcome = "refused" /\ Refused(st).st = st
  /\ \A st : Changed(st).outcome = "changed" /\ Changed(st).st = st
  /\ \A st, s, record : /\ WithSchedule(st, s, record).outcome = "changed"
                        /\ WithSchedule(st, s, record).st = Write(st, s, record)
  /\ \A st, s, record : NoOpOr(st, s, record).outcome = "changed" =>
        /\ record # st.schedules[s]
        /\ NoOpOr(st, s, record) = WithSchedule(st, s, record)
  /\ \A st, s, record : record = st.schedules[s] => NoOpOr(st, s, record).outcome = "no_op"
  <1>1. \A st, s, record : WithSchedule(st, s, record) = Changed(Write(st, s, record))
    BY DEF WithSchedule, Write
  <1>2. \A st, s, record : /\ WithSchedule(st, s, record).outcome = "changed"
                           /\ WithSchedule(st, s, record).st = Write(st, s, record)
    BY <1>1 DEF Changed
  <1>3. /\ \A st, o : Unchanged(st, o).outcome = o /\ Unchanged(st, o).st = st
        /\ \A st : Refused(st).outcome = "refused" /\ Refused(st).st = st
        /\ \A st : Changed(st).outcome = "changed" /\ Changed(st).st = st
    BY DEF Unchanged, Refused, Changed
  <1>4. \A st, s, record :
           /\ NoOpOr(st, s, record).outcome = "changed" =>
                 /\ record # st.schedules[s]
                 /\ NoOpOr(st, s, record) = WithSchedule(st, s, record)
           /\ record = st.schedules[s] => NoOpOr(st, s, record).outcome = "no_op"
    BY <1>3 DEF NoOpOr
  <1> QED
    BY <1>2, <1>3, <1>4
-----------------------------------------------------------------------------
(* Starting points                                                           *)

\* A component is written without the other.
LEMMA WithComponentParts ==
  ASSUME NEW b \in BaselineRecords, NEW d \in Dimensions, NEW v \in Components(d)
  PROVE  /\ WithComponent(b, d, v) \in BaselineRecords
         /\ Component(WithComponent(b, d, v), d) = v
         /\ \A e \in Dimensions \ {d} :
               Component(WithComponent(b, d, v), e) = Component(b, e)
  BY DEF WithComponent, Component, BaselineRecords, Dimensions

\* A starting point fits when what it says is configured.
LEMMA FitsParts ==
  ASSUME NEW b, NEW dimensions
  PROVE  Fits(b, dimensions) <=>
            \A d \in Dimensions : Component(b, d) # NoComponent(d) => d \in dimensions
  BY DEF Fits, Component, NoComponent, Dimensions

LEMMA NoComponentParts ==
  \A d \in Dimensions : NoComponent(d) \in Components(d)
  BY DEF Components

-----------------------------------------------------------------------------
(* What each request about a schedule does when it changes something         *)

\* The records that an edit, an added and a removed interval write.
Edited(old, r) ==
    [old EXCEPT !.interval = r.interval, !.enabled = r.enabled, !.reminder = r.reminder]
WithInterval(old, d, value, component) ==
    [old EXCEPT !.interval[d] = value, !.baseline = WithComponent(@, d, component)]
WithoutInterval(old, d) ==
    [old EXCEPT !.interval[d] = None, !.baseline = WithComponent(@, d, NoComponent(d)),
                !.reminder = @ /\ d # "calendar"]

LEMMA WrittenParts ==
  ASSUME NEW s \in Schedules, NEW old \in ScheduleRecords(s), NEW d, NEW v, NEW c
  PROVE  /\ WithInterval(old, d, v, c) = [asset |-> AssetOf[s], enabled |-> old.enabled,
               reminder |-> old.reminder, interval |-> [old.interval EXCEPT ![d] = v],
               baseline |-> WithComponent(old.baseline, d, c)]
         /\ \E remind \in BOOLEAN :
               /\ remind => old.reminder /\ d # "calendar"
               /\ WithoutInterval(old, d) = [asset |-> AssetOf[s], enabled |-> old.enabled,
                     reminder |-> remind, interval |-> [old.interval EXCEPT ![d] = None],
                     baseline |-> WithComponent(old.baseline, d, NoComponent(d))]
  <1> DEFINE map == [old.interval EXCEPT ![d] = v]
             gone == [old.interval EXCEPT ![d] = None]
             base == WithComponent(old.baseline, d, c)
             bare == WithComponent(old.baseline, d, NoComponent(d))
             remind == old.reminder /\ d # "calendar"
  <1>1. /\ WithInterval(old, d, v, c) = [old EXCEPT !.interval = map, !.baseline = base]
        /\ WithoutInterval(old, d) = [old EXCEPT !.interval = gone, !.baseline = bare,
                                               !.reminder = remind]
    BY DEF WithInterval, WithoutInterval
  <1>2. remind \in BOOLEAN /\ (remind => old.reminder /\ d # "calendar")
    OBVIOUS
  <1> HIDE DEF map, gone, base, bare, remind
  <1>3. /\ WithInterval(old, d, v, c) = [asset |-> AssetOf[s], enabled |-> old.enabled,
               reminder |-> old.reminder, interval |-> map, baseline |-> base]
        /\ WithoutInterval(old, d) = [asset |-> AssetOf[s], enabled |-> old.enabled,
               reminder |-> remind, interval |-> gone, baseline |-> bare]
    BY <1>1 DEF ScheduleRecords
  <1>4. \E other \in BOOLEAN :
           /\ other => old.reminder /\ d # "calendar"
           /\ WithoutInterval(old, d) = [asset |-> AssetOf[s], enabled |-> old.enabled,
                 reminder |-> other, interval |-> gone, baseline |-> bare]
    BY <1>2, <1>3
  <1> QED
    BY <1>3, <1>4 DEF map, gone, base, bare

LEMMA EditedParts ==
  ASSUME NEW s \in Schedules, NEW old \in ScheduleRecords(s), NEW r,
         r.enabled \in BOOLEAN, r.reminder \in BOOLEAN
  PROVE  Edited(old, r) = [asset |-> AssetOf[s], enabled |-> r.enabled,
            reminder |-> r.reminder, interval |-> r.interval, baseline |-> old.baseline]
  <1>1. PICK enabled \in BOOLEAN : enabled = r.enabled
    OBVIOUS
  <1>2. PICK reminder \in BOOLEAN : reminder = r.reminder
    OBVIOUS
  <1>3. Edited(old, r) =
           [old EXCEPT !.interval = r.interval, !.enabled = enabled, !.reminder = reminder]
    BY <1>1, <1>2 DEF Edited
  <1>4. Edited(old, r) = [asset |-> AssetOf[s], enabled |-> enabled,
            reminder |-> reminder, interval |-> r.interval, baseline |-> old.baseline]
    BY <1>3 DEF ScheduleRecords
  <1> QED
    BY <1>1, <1>2, <1>4

LEMMA CreateChanges ==
  ASSUME NEW st, NEW ctx, NEW r, Create(st, ctx, r).outcome = "changed"
  PROVE  /\ r.schedule \notin Kept(st) /\ r.record.asset \notin st.archived
         /\ Create(st, ctx, r).st = Write(st, r.schedule, r.record)
  BY Outcomes DEF Create

LEMMA EditChanges ==
  ASSUME NEW st, NEW ctx, NEW r, Edit(st, ctx, r).outcome = "changed"
  PROVE  LET old == st.schedules[r.schedule] IN
         /\ Manageable(st, r.schedule) /\ Configured(r) = Configured(old)
         /\ r.reminder => "calendar" \in Configured(r)
         /\ Edit(st, ctx, r).st = Write(st, r.schedule, Edited(old, r))
  <1> DEFINE old == st.schedules[r.schedule]
             new == Edited(old, r)
  <1>1. Edit(st, ctx, r) =
           IF \/ ~Manageable(st, r.schedule) \/ Configured(r) # Configured(old)
              \/ (r.reminder /\ "calendar" \notin Configured(r))
           THEN Refused(st) ELSE NoOpOr(st, r.schedule, new)
    BY DEF Edit, Edited
  <1> HIDE DEF new
  <1>2. /\ Manageable(st, r.schedule) /\ Configured(r) = Configured(old)
        /\ ~(r.reminder /\ "calendar" \notin Configured(r))
        /\ Edit(st, ctx, r) = NoOpOr(st, r.schedule, new)
    BY <1>1, Outcomes
  <1>3. NoOpOr(st, r.schedule, new).st = Write(st, r.schedule, new)
    BY <1>2, Outcomes
  <1> QED
    BY <1>2, <1>3 DEF new

LEMMA SetAnchorChanges ==
  ASSUME NEW st, NEW ctx, NEW r, SetAnchor(st, ctx, r).outcome = "changed"
  PROVE  LET old == st.schedules[r.schedule] IN
         /\ Manageable(st, r.schedule) /\ Fits(r.baseline, Configured(old))
         /\ ~Locked(st, r.schedule)
         /\ SetAnchor(st, ctx, r).st =
               Write(st, r.schedule, [old EXCEPT !.baseline = r.baseline])
  <1> DEFINE old == st.schedules[r.schedule]
             new == [old EXCEPT !.baseline = r.baseline]
  <1>1. SetAnchor(st, ctx, r) =
           IF ~Manageable(st, r.schedule) \/ ~Fits(r.baseline, Configured(old))
           THEN Refused(st)
           ELSE IF r.baseline = old.baseline THEN Unchanged(st, "no_op")
           ELSE IF Locked(st, r.schedule) \/ ~Plausible(ctx, r.baseline) THEN Refused(st)
           ELSE WithSchedule(st, r.schedule, new)
    BY DEF SetAnchor
  <1> HIDE DEF new
  <1>2. /\ Manageable(st, r.schedule) /\ Fits(r.baseline, Configured(old))
        /\ ~Locked(st, r.schedule)
        /\ SetAnchor(st, ctx, r) = WithSchedule(st, r.schedule, new)
    BY <1>1, Outcomes
  <1> QED
    BY <1>2, Outcomes DEF new
LEMMA AddChanges ==
  ASSUME NEW st, NEW ctx, NEW r, AddInterval(st, ctx, r).outcome = "changed"
  PROVE  LET old == st.schedules[r.schedule] IN
         /\ Manageable(st, r.schedule) /\ r.dimension \notin Configured(old)
         /\ r.component # NoComponent(r.dimension) => ~Locked(st, r.schedule)
         /\ AddInterval(st, ctx, r).st =
               Write(st, r.schedule, WithInterval(old, r.dimension, r.value, r.component))
  <1> DEFINE old == st.schedules[r.schedule]
             given == r.component # NoComponent(r.dimension)
             new == WithInterval(old, r.dimension, r.value, r.component)
  <1>1. AddInterval(st, ctx, r) =
           IF ~Manageable(st, r.schedule) THEN Refused(st)
           ELSE IF r.dimension \in Configured(old)
           THEN IF /\ r.value = old.interval[r.dimension]
                   /\ given => r.component = Component(old.baseline, r.dimension)
                THEN Unchanged(st, "no_op") ELSE Refused(st)
           ELSE IF /\ given
                   /\ \/ Locked(st, r.schedule)
                      \/ ~PlausibleComponent(ctx, r.dimension, r.component)
           THEN Refused(st)
           ELSE WithSchedule(st, r.schedule, new)
    BY DEF AddInterval, WithInterval
  <1> HIDE DEF new
  <1>2. /\ Manageable(st, r.schedule) /\ r.dimension \notin Configured(old)
        /\ given => ~Locked(st, r.schedule)
        /\ AddInterval(st, ctx, r) = WithSchedule(st, r.schedule, new)
    BY <1>1, Outcomes
  <1> QED
    BY <1>2, Outcomes DEF new

LEMMA RemoveChanges ==
  ASSUME NEW st, NEW ctx, NEW r, RemoveInterval(st, ctx, r).outcome = "changed"
  PROVE  LET old == st.schedules[r.schedule] IN
         /\ Manageable(st, r.schedule) /\ r.dimension \in Configured(old)
         /\ Configured(old) # {r.dimension}
         /\ RemoveInterval(st, ctx, r).st =
               Write(st, r.schedule, WithoutInterval(old, r.dimension))
  <1> DEFINE old == st.schedules[r.schedule]
             destroys == Component(old.baseline, r.dimension) # NoComponent(r.dimension)
             new == WithoutInterval(old, r.dimension)
  <1>1. RemoveInterval(st, ctx, r) =
           IF ~Manageable(st, r.schedule) THEN Refused(st)
           ELSE IF r.dimension \notin Configured(old) THEN Unchanged(st, "no_op")
           ELSE IF \/ Configured(old) = {r.dimension}
                   \/ destroys /\ Locked(st, r.schedule) /\ ~r.confirmed
           THEN Refused(st)
           ELSE WithSchedule(st, r.schedule, new)
    BY DEF RemoveInterval, WithoutInterval
  <1> HIDE DEF new
  <1>2. /\ Manageable(st, r.schedule) /\ r.dimension \in Configured(old)
        /\ Configured(old) # {r.dimension}
        /\ RemoveInterval(st, ctx, r) = WithSchedule(st, r.schedule, new)
    BY <1>1, Outcomes
  <1> QED
    BY <1>2, Outcomes DEF new

LEMMA EnableChanges ==
  ASSUME NEW st, NEW ctx, NEW r, SetEnabled(st, ctx, r).outcome = "changed"
  PROVE  /\ Manageable(st, r.schedule)
         /\ SetEnabled(st, ctx, r).st =
               Write(st, r.schedule, [st.schedules[r.schedule] EXCEPT !.enabled = r.enabled])
  <1> DEFINE new == [st.schedules[r.schedule] EXCEPT !.enabled = r.enabled]
  <1>1. SetEnabled(st, ctx, r) =
           IF ~Manageable(st, r.schedule) THEN Refused(st) ELSE NoOpOr(st, r.schedule, new)
    BY DEF SetEnabled
  <1> HIDE DEF new
  <1>2. Manageable(st, r.schedule) /\ SetEnabled(st, ctx, r) = NoOpOr(st, r.schedule, new)
    BY <1>1, Outcomes
  <1>3. NoOpOr(st, r.schedule, new).st = Write(st, r.schedule, new)
    BY <1>2, Outcomes
  <1> QED
    BY <1>2, <1>3 DEF new

LEMMA DeleteChanges ==
  ASSUME NEW st, NEW ctx, NEW r, Delete(st, ctx, r).outcome = "changed"
  PROVE  /\ Manageable(st, r.schedule) /\ ~Locked(st, r.schedule)
         /\ Delete(st, ctx, r).st = Write(st, r.schedule, NoSchedule)
  BY Outcomes DEF Delete

\* A kept schedule that may be managed belongs to an Asset that is not archived.
LEMMA ManageableParts ==
  ASSUME NEW st, Loads(st), NEW s \in Schedules, Manageable(st, s)
  PROVE  /\ s \in Kept(st) /\ st.schedules[s] \in ScheduleRecords(s)
         /\ AssetOf[s] \notin st.archived
  BY ScheduleParts DEF Manageable, Loads

\* Everything a request about a schedule may do: write this one schedule, with a record
\* of its shape or, while no event refers to it, none; and leave a locked starting point.
ScheduleChange(st, s, record) ==
    /\ s \in Schedules /\ AssetOf[s] \notin st.archived
    /\ \/ record \in ScheduleRecords(s)
       \/ record = NoSchedule /\ s \notin Referenced(st)
    /\ s \in Referenced(st) => \A d \in Dimensions :
          LET before == Component(st.schedules[s].baseline, d)
              after == Component(record.baseline, d)
          IN after # before => after = NoComponent(d) /\ d \notin Configured(record)

LEMMA ScheduleRequest ==
  ASSUME NEW st, Loads(st), NEW ctx, NEW r \in Requests,
         r.op \in {"create", "edit", "set_anchor", "add", "remove", "enable", "delete"},
         Mutate(st, ctx, r).outcome = "changed"
  PROVE  \E record \in AnySchedules :
            /\ Mutate(st, ctx, r).st = Write(st, r.schedule, record)
            /\ ScheduleChange(st, r.schedule, record)
            /\ r.schedule \in Kept(st) \/ r.schedule \notin Referenced(st)
            /\ r.op # "delete" => record \in ScheduleRecords(r.schedule)
  <1> DEFINE s == r.schedule
             old == st.schedules[s]
  <1>1. s \in Schedules
    BY RequestParts
  <1>2. s \in Referenced(st) => s \in Kept(st)
    BY DEF Loads, ValidStore, Referenced
  <1>3. ASSUME s \in Kept(st), AssetOf[s] \notin st.archived,
               NEW new \in ScheduleRecords(s), new.baseline = old.baseline,
               Mutate(st, ctx, r).st = Write(st, s, new)
        PROVE  \E record \in AnySchedules :
                  /\ Mutate(st, ctx, r).st = Write(st, s, record)
                  /\ ScheduleChange(st, s, record)
                  /\ s \in Kept(st) \/ s \notin Referenced(st)
                  /\ r.op # "delete" => record \in ScheduleRecords(s)
    BY <1>1, <1>3, ScheduleParts DEF ScheduleChange
  <1>4. CASE r.op = "create"
    <2>1. /\ s \notin Kept(st) /\ r.record.asset \notin st.archived
          /\ Mutate(st, ctx, r).st = Write(st, s, r.record)
      BY <1>4, MutateParts, CreateChanges
    <2>2. r.record \in ScheduleRecords(s) /\ r.record \in AnySchedules
          /\ AssetOf[s] = r.record.asset
      BY <1>1, <1>4, RequestParts, ScheduleParts
    <2> QED
      BY <1>1, <1>2, <2>1, <2>2 DEF ScheduleChange
  <1>5. CASE r.op = "edit"
    <2> DEFINE new == Edited(old, r)
    <2>1. /\ Manageable(st, s) /\ Configured(r) = Configured(old)
          /\ r.reminder => "calendar" \in Configured(r)
          /\ Mutate(st, ctx, r).st = Write(st, s, new)
      BY <1>5, MutateParts, EditChanges
    <2>2. /\ s \in Kept(st) /\ old \in ScheduleRecords(s) /\ AssetOf[s] \notin st.archived
      BY <1>1, <2>1, ManageableParts
    <2>3. /\ r.enabled \in BOOLEAN /\ r.reminder \in BOOLEAN
          /\ r.interval \in [Dimensions -> Values \union {None}]
          /\ Configured(r) = {d \in Dimensions : r.interval[d] # None}
      BY <1>5, RequestParts DEF Configured
    <2>4. new = [asset |-> AssetOf[s], enabled |-> r.enabled, reminder |-> r.reminder,
                 interval |-> r.interval, baseline |-> old.baseline]
      BY <1>1, <2>2, <2>3, EditedParts
    <2> HIDE DEF new
    <2>5. /\ Fits(old.baseline, Configured(r)) /\ Configured(r) # {}
          /\ old.baseline \in BaselineRecords
      BY <1>1, <2>1, <2>2, ScheduleParts
    <2> HIDE DEF old
    <2>6. new \in ScheduleRecords(s)
      BY <1>1, <2>1, <2>3, <2>4, <2>5, ScheduleMade
    <2> QED
      BY <1>3, <2>1, <2>2, <2>4, <2>6 DEF old
  <1>6. CASE r.op = "enable"
    <2> DEFINE new == [old EXCEPT !.enabled = r.enabled]
    <2>1. Manageable(st, s) /\ Mutate(st, ctx, r).st = Write(st, s, new)
      BY <1>6, MutateParts, EnableChanges
    <2>2. /\ s \in Kept(st) /\ old \in ScheduleRecords(s) /\ AssetOf[s] \notin st.archived
      BY <1>1, <2>1, ManageableParts
    <2>3. r.enabled \in BOOLEAN
      BY <1>6, RequestParts
    <2>4. new \in ScheduleRecords(s) /\ new.baseline = old.baseline
      BY <2>2, <2>3 DEF ScheduleRecords, Configured
    <2> HIDE DEF new
    <2> QED
      BY <1>3, <2>1, <2>2, <2>4
  <1>7. CASE r.op = "set_anchor"
    <2> DEFINE new == [old EXCEPT !.baseline = r.baseline]
    <2>1. /\ Manageable(st, s) /\ Fits(r.baseline, Configured(old)) /\ s \notin Referenced(st)
          /\ Mutate(st, ctx, r).st = Write(st, s, new)
      BY <1>7, MutateParts, SetAnchorChanges DEF Locked
    <2>2. /\ s \in Kept(st) /\ old \in ScheduleRecords(s) /\ AssetOf[s] \notin st.archived
      BY <1>1, <2>1, ManageableParts
    <2>3. r.baseline \in BaselineRecords
      BY <1>7, RequestParts
    <2>4. new \in ScheduleRecords(s)
      BY <2>1, <2>2, <2>3 DEF ScheduleRecords, Configured
    <2>5. new \in AnySchedules
      BY <1>1, <2>4, ScheduleParts
    <2> HIDE DEF new
    <2> QED
      BY <1>1, <2>1, <2>2, <2>4, <2>5 DEF ScheduleChange
  <1>8. CASE r.op = "delete"
    <2>1. /\ Manageable(st, s) /\ s \notin Referenced(st)
          /\ Mutate(st, ctx, r).st = Write(st, s, NoSchedule)
      BY <1>8, MutateParts, DeleteChanges DEF Locked
    <2>2. AssetOf[s] \notin st.archived
      BY <1>1, <2>1, ManageableParts
    <2>3. NoSchedule \in AnySchedules
      BY DEF AnySchedules
    <2> QED
      BY <1>1, <1>8, <2>1, <2>2, <2>3 DEF ScheduleChange
  <1>9. CASE r.op = "add"
    <2> DEFINE d == r.dimension
               map == [old.interval EXCEPT ![d] = r.value]
               base == WithComponent(old.baseline, d, r.component)
               new == WithInterval(old, d, r.value, r.component)
    <2>1. /\ Manageable(st, s) /\ d \notin Configured(old)
          /\ r.component # NoComponent(d) => s \notin Referenced(st)
          /\ Mutate(st, ctx, r).st = Write(st, s, new)
      BY <1>9, MutateParts, AddChanges DEF Locked
    <2>2. /\ s \in Kept(st) /\ old \in ScheduleRecords(s) /\ AssetOf[s] \notin st.archived
      BY <1>1, <2>1, ManageableParts
    <2>3. d \in Dimensions /\ r.value \in Values /\ r.component \in Components(d)
          /\ r.value # None
      BY <1>9, RequestParts, MaintenanceAssumption DEF None
    <2>4. /\ old.interval \in [Dimensions -> Values \union {None}]
          /\ old.baseline \in BaselineRecords /\ Fits(old.baseline, Configured(old))
          /\ Configured(old) \subseteq Dimensions
          /\ old.reminder => "calendar" \in Configured(old)
          /\ old.reminder \in BOOLEAN /\ old.enabled \in BOOLEAN /\ old.asset = AssetOf[s]
      BY <1>1, <2>2, ScheduleParts DEF Configured
    <2>5. /\ map \in [Dimensions -> Values \union {None}]
          /\ {e \in Dimensions : map[e] # None} = Configured(old) \union {d}
      BY <2>3, <2>4 DEF Configured
    <2>6. /\ base \in BaselineRecords /\ Component(base, d) = r.component
          /\ \A e \in Dimensions \ {d} : Component(base, e) = Component(old.baseline, e)
      BY <2>3, <2>4, WithComponentParts
    <2>7. new = [asset |-> AssetOf[s], enabled |-> old.enabled, reminder |-> old.reminder,
                 interval |-> map, baseline |-> base]
      BY <1>1, <2>2, WrittenParts
    <2> HIDE DEF new, map, base
    <2>8. Fits(base, Configured(old) \union {d})
      BY <2>4, <2>6, FitsParts
    <2>9. new \in ScheduleRecords(s)
      BY <1>1, <2>4, <2>5, <2>6, <2>7, <2>8, ScheduleMade
    <2>10. Component(old.baseline, d) = NoComponent(d)
      BY <2>1, <2>3, <2>4, FitsParts
    <2>11. s \in Referenced(st) =>
              \A e \in Dimensions : Component(new.baseline, e) = Component(old.baseline, e)
      BY <2>1, <2>6, <2>7, <2>10
    <2> QED
      BY <1>1, <2>1, <2>2, <2>9, <2>11, ScheduleParts DEF ScheduleChange
  <1>10. CASE r.op = "remove"
    <2> DEFINE d == r.dimension
               map == [old.interval EXCEPT ![d] = None]
               base == WithComponent(old.baseline, d, NoComponent(d))
               new == WithoutInterval(old, d)
    <2>1. /\ Manageable(st, s) /\ d \in Configured(old) /\ Configured(old) # {d}
          /\ Mutate(st, ctx, r).st = Write(st, s, new)
      BY <1>10, MutateParts, RemoveChanges
    <2>2. /\ s \in Kept(st) /\ old \in ScheduleRecords(s) /\ AssetOf[s] \notin st.archived
      BY <1>1, <2>1, ManageableParts
    <2>3. d \in Dimensions /\ NoComponent(d) \in Components(d)
      BY <1>10, RequestParts, NoComponentParts
    <2>4. /\ old.interval \in [Dimensions -> Values \union {None}]
          /\ old.baseline \in BaselineRecords /\ Fits(old.baseline, Configured(old))
          /\ Configured(old) \subseteq Dimensions
          /\ old.reminder => "calendar" \in Configured(old)
          /\ old.reminder \in BOOLEAN /\ old.enabled \in BOOLEAN /\ old.asset = AssetOf[s]
      BY <1>1, <2>2, ScheduleParts DEF Configured
    <2>5. /\ map \in [Dimensions -> Values \union {None}]
          /\ {e \in Dimensions : map[e] # None} = Configured(old) \ {d}
      BY <2>3, <2>4 DEF Configured
    <2>6. /\ base \in BaselineRecords /\ Component(base, d) = NoComponent(d)
          /\ \A e \in Dimensions \ {d} : Component(base, e) = Component(old.baseline, e)
      BY <2>3, <2>4, WithComponentParts
    <2>7. PICK remind \in BOOLEAN :
             /\ remind => old.reminder /\ d # "calendar"
             /\ new = [asset |-> AssetOf[s], enabled |-> old.enabled, reminder |-> remind,
                       interval |-> map, baseline |-> base]
      BY <1>1, <2>2, WrittenParts
    <2>8. remind => "calendar" \in Configured(old) \ {d}
      BY <2>4, <2>7
    <2> HIDE DEF new, map, base
    <2>9. Fits(base, Configured(old) \ {d}) /\ Configured(old) \ {d} # {}
      BY <2>1, <2>4, <2>6, FitsParts
    <2>10. new \in ScheduleRecords(s)
      BY <1>1, <2>4, <2>5, <2>6, <2>7, <2>8, <2>9, ScheduleMade
    <2>11. \A e \in Dimensions : Component(new.baseline, e) # Component(old.baseline, e) =>
              Component(new.baseline, e) = NoComponent(e) /\ e \notin Configured(new)
      BY <2>5, <2>6, <2>7 DEF Configured
    <2> QED
      BY <1>1, <2>1, <2>2, <2>10, <2>11, ScheduleParts DEF ScheduleChange
  <1> QED
    BY <1>4, <1>5, <1>6, <1>7, <1>8, <1>9, <1>10
-----------------------------------------------------------------------------
(* What each request about an event does when it changes something           *)

WithEvent(st, e, x) == [st EXCEPT !.events[e] = x]
AsVoid(x, reason) == [x EXCEPT !.state = reason]
Voided(st, e, reason) == [st EXCEPT !.events[e].state = reason]

LEMMA WithEventParts ==
  ASSUME NEW st \in Stores, NEW e \in Events, NEW x \in EventRecords
  PROVE  LET st2 == WithEvent(st, e, x) IN
         /\ st2 \in Stores /\ st2.schedules = st.schedules /\ st2.archived = st.archived
         /\ st2.events[e] = x
         /\ \A o \in Events \ {e} : st2.events[o] = st.events[o]
         /\ Recorded(st2) = Recorded(st) \union {e} /\ Kept(st2) = Kept(st)
  <1> DEFINE map == [st.events EXCEPT ![e] = x]
             st2 == WithEvent(st, e, x)
  <1>1. st2 = [st EXCEPT !.events = map]
    BY DEF WithEvent
  <1>2. /\ map \in [Events -> AnyEvents] /\ map[e] = x
        /\ \A o \in Events \ {e} : map[o] = st.events[o]
    BY StoreParts DEF AnyEvents
  <1> HIDE DEF map, st2
  <1>3. /\ st2 \in Stores /\ st2.schedules = st.schedules /\ st2.archived = st.archived
        /\ st2.events = map
    BY <1>1, <1>2 DEF Stores
  <1>4. Recorded(st2) = Recorded(st) \union {e} /\ Kept(st2) = Kept(st)
    BY <1>2, <1>3, Absent DEF Recorded, Kept
  <1> QED
    BY <1>2, <1>3, <1>4 DEF st2

LEMMA VoidedParts ==
  ASSUME NEW st \in Stores, NEW e \in Recorded(st), NEW reason \in Reasons
  PROVE  LET st2 == Voided(st, e, reason) IN
         /\ st2 \in Stores /\ st2.schedules = st.schedules /\ st2.archived = st.archived
         /\ st2.events[e] = AsVoid(st.events[e], reason)
         /\ st2.events[e].state = reason
         /\ \A o \in Events \ {e} : st2.events[o] = st.events[o]
         /\ \A o \in Recorded(st) : /\ st2.events[o].asset = st.events[o].asset
                                    /\ st2.events[o].links = st.events[o].links
                                    /\ st2.events[o].entry = st.events[o].entry
                                    /\ st2.events[o].corrects = st.events[o].corrects
         /\ Recorded(st2) = Recorded(st) /\ Kept(st2) = Kept(st)
         /\ \A o : Correctors(st2, o) = Correctors(st, o)
  <1> DEFINE x == AsVoid(st.events[e], reason)
             st2 == Voided(st, e, reason)
  <1>1. st2 = WithEvent(st, e, x)
    BY DEF Voided, WithEvent, AsVoid
  <1>2. /\ x \in EventRecords /\ x.state = reason /\ x.asset = st.events[e].asset
        /\ x.links = st.events[e].links /\ x.entry = st.events[e].entry
        /\ x.corrects = st.events[e].corrects /\ e \in Events
    BY StoreParts DEF EventRecords, AsVoid
  <1> HIDE DEF st2
  <1>3. /\ st2 \in Stores /\ st2.schedules = st.schedules /\ st2.archived = st.archived
        /\ st2.events[e] = x
        /\ \A o \in Events \ {e} : st2.events[o] = st.events[o]
        /\ Recorded(st2) = Recorded(st) /\ Kept(st2) = Kept(st)
    <2> HIDE DEF x
    <2>1. x \in EventRecords /\ e \in Events
      BY <1>2
    <2>2. /\ st2 \in Stores /\ st2.schedules = st.schedules /\ st2.archived = st.archived
          /\ st2.events[e] = x
          /\ \A o \in Events \ {e} : st2.events[o] = st.events[o]
          /\ Recorded(st2) = Recorded(st) \union {e} /\ Kept(st2) = Kept(st)
      BY <1>1, <2>1, WithEventParts
    <2> QED
      BY <2>2
  <1>4. \A o \in Recorded(st) : /\ st2.events[o].asset = st.events[o].asset
                               /\ st2.events[o].links = st.events[o].links
                               /\ st2.events[o].entry = st.events[o].entry
                               /\ st2.events[o].corrects = st.events[o].corrects
    <2> TAKE o \in Recorded(st)
    <2> HIDE DEF x
    <2>1. CASE o = e
      BY <1>2, <1>3, <2>1
    <2>2. CASE o # e
      <3>1. o \in Events
        BY StoreParts
      <3> QED
        BY <1>3, <2>2, <3>1
    <2> QED
      BY <2>1, <2>2
  <1>5. \A o : Correctors(st2, o) = Correctors(st, o)
    BY <1>3, <1>4 DEF Correctors
  <1> QED
    BY <1>2, <1>3, <1>4, <1>5 DEF st2

LEMMA RecordChanges ==
  ASSUME NEW st, NEW ctx, NEW r, RecordEvent(st, ctx, r).outcome = "changed"
  PROVE  /\ r.event \notin Recorded(st) /\ r.asset \notin st.archived
         /\ LinksExist(st, r.asset, r.links.all)
         /\ NewlyLocked(st, r.links.all) \subseteq r.links.confirmed
         /\ RecordEvent(st, ctx, r).st = WithEvent(st, r.event, Described(r, r.asset, None))
  <1> DEFINE described == Described(r, r.asset, None)
             st2 == WithEvent(st, r.event, described)
  <1>1. RecordEvent(st, ctx, r) =
           IF r.event \in Recorded(st)
           THEN IF SameAndActive(st, r.event, described)
                THEN Unchanged(st, "replay") ELSE Refused(st)
           ELSE IF \/ r.asset \in st.archived \/ ~LinksExist(st, r.asset, r.links.all)
                   \/ ~Plausible(ctx, r.entry)
                   \/ ~(NewlyLocked(st, r.links.all) \subseteq r.links.confirmed)
           THEN Refused(st)
           ELSE Changed(st2)
    BY DEF RecordEvent, WithEvent
  <1> HIDE DEF described, st2
  <1> QED
    BY <1>1, Outcomes DEF described, st2

LEMMA VoidChanges ==
  ASSUME NEW st, NEW ctx, NEW r, VoidEvent(st, ctx, r).outcome = "changed"
  PROVE  /\ r.event \in Recorded(st) /\ st.events[r.event].state = "active"
         /\ VoidEvent(st, ctx, r).st = Voided(st, r.event, r.reason)
  <1> DEFINE st2 == Voided(st, r.event, r.reason)
  <1>1. VoidEvent(st, ctx, r) =
           IF r.event \notin Recorded(st) THEN Refused(st)
           ELSE IF st.events[r.event].state # "active"
           THEN IF Correctors(st, r.event) = {} /\ st.events[r.event].state = r.reason
                THEN Unchanged(st, "replay") ELSE Refused(st)
           ELSE Changed(st2)
    BY DEF VoidEvent, Voided
  <1> HIDE DEF st2
  <1> QED
    BY <1>1, Outcomes DEF st2

LEMMA CorrectChanges ==
  ASSUME NEW st, NEW ctx, NEW r, CorrectEvent(st, ctx, r).outcome = "changed"
  PROVE  LET target == st.events[r.target] IN
         /\ r.event \notin Recorded(st) /\ r.target \in Recorded(st)
         /\ target.state = "active" /\ LinksExist(st, target.asset, r.links.all)
         /\ NewlyLocked(st, r.links.all) \subseteq r.links.confirmed
         /\ CorrectEvent(st, ctx, r).st =
               WithEvent(Voided(st, r.target, r.reason), r.event,
                         Described(r, target.asset, r.target))
  <1> DEFINE target == st.events[r.target]
             described == Described(r, target.asset, r.target)
             st2 == WithEvent(Voided(st, r.target, r.reason), r.event, described)
  <1>1. CorrectEvent(st, ctx, r) =
           IF r.event \in Recorded(st)
           THEN IF /\ r.target \in Recorded(st)
                   /\ SameAndActive(st, r.event, described)
                   /\ target.state = r.reason
                THEN Unchanged(st, "replay") ELSE Refused(st)
           ELSE IF \/ r.target \notin Recorded(st) \/ target.state # "active"
                   \/ ~LinksExist(st, target.asset, r.links.all)
                   \/ ~PlausibleDate(ctx, r.entry.date)
                   \/ /\ r.entry.meter # target.entry.meter
                      /\ ~PlausibleMeter(ctx, r.entry.meter)
                   \/ ~(NewlyLocked(st, r.links.all) \subseteq r.links.confirmed)
           THEN Refused(st)
           ELSE Changed(st2)
    BY DEF CorrectEvent, WithEvent, Voided
  <1> HIDE DEF described, st2, target
  <1> QED
    BY <1>1, Outcomes DEF described, st2, target
-----------------------------------------------------------------------------
(* Every change leaves a snapshot that loads                                 *)

\* The parts of a snapshot that loads.
LEMMA LoadsParts ==
  ASSUME NEW st, Loads(st)
  PROVE  /\ st \in Stores
         /\ \A s \in Kept(st) : s \in Schedules /\ st.schedules[s] \in ScheduleRecords(s)
                              /\ st.schedules[s].asset = AssetOf[s]
         /\ \A e \in Recorded(st) : e \in Events /\ st.events[e] \in EventRecords
         /\ \A e \in Recorded(st) : \A s \in st.events[e].links :
               s \in Kept(st) /\ st.schedules[s].asset = st.events[e].asset
         /\ \A e \in Recorded(st) : st.events[e].corrects # None =>
               LET target == st.events[e].corrects IN
               /\ target \in Recorded(st) /\ st.events[target].asset = st.events[e].asset
               /\ st.events[target].state # "active"
               /\ Cardinality(Correctors(st, target)) = 1
         /\ \A cycle \in (SUBSET Recorded(st)) \ {{}} :
               \E e \in cycle : st.events[e].corrects \notin cycle
         /\ \A s \in Referenced(st) : s \in Kept(st)
         /\ \A e : st.events[e].corrects = None \/ e \notin Recorded(st)
                  \/ st.events[e].corrects \in Recorded(st)
  <1>1. /\ st \in Stores /\ ValidStore(st)
        /\ \A s \in Kept(st) : st.schedules[s] \in ScheduleRecords(s)
    BY DEF Loads
  <1>2. \A s \in Kept(st) : s \in Schedules /\ st.schedules[s].asset = AssetOf[s]
    BY <1>1, ScheduleParts, StoreParts
  <1>3. \A s \in Referenced(st) : s \in Kept(st)
    BY <1>1 DEF ValidStore, Referenced
  <1> QED
    BY <1>1, <1>2, <1>3, StoreParts DEF ValidStore

\* Nobody has corrected an event that is active or not recorded.
LEMMA NoCorrectors ==
  ASSUME NEW st, Loads(st), NEW e \in Events,
         e \notin Recorded(st) \/ st.events[e].state = "active"
  PROVE  Correctors(st, e) = {}
  <1>1. e # None
    BY Absent
  <1>2. \A c \in Recorded(st) : st.events[c].corrects # e
    BY <1>1, LoadsParts
  <1> QED
    BY <1>2 DEF Correctors

LEMMA ScheduleLoads ==
  ASSUME NEW st, Loads(st), NEW s, NEW record \in AnySchedules, ScheduleChange(st, s, record),
         s \in Kept(st) \/ s \notin Referenced(st)
  PROVE  Loads(Write(st, s, record))
  <1> DEFINE st2 == Write(st, s, record)
  <1>1. s \in Schedules /\ st \in Stores
    BY LoadsParts DEF ScheduleChange
  <1>2. /\ st2 \in Stores /\ st2.events = st.events
        /\ st2.schedules = [st.schedules EXCEPT ![s] = record]
    BY <1>1, WriteParts
  <1> HIDE DEF st2
  <1>3. /\ st2.schedules[s] = record
        /\ \A o \in Schedules \ {s} : st2.schedules[o] = st.schedules[o]
    BY <1>1, <1>2, StoreParts
  <1>4. ASSUME NEW o \in Kept(st2)
        PROVE  st2.schedules[o] \in ScheduleRecords(o)
    <2>1. o \in Schedules /\ st2.schedules[o] # NoSchedule
      BY <1>4 DEF Kept
    <2>2. CASE o = s
      BY <1>3, <2>1, <2>2 DEF ScheduleChange
    <2>3. CASE o # s
      BY <1>3, <2>1, <2>3, LoadsParts DEF Kept
    <2> QED
      BY <2>2, <2>3
  <1>5. ASSUME NEW o \in Referenced(st)
        PROVE  o \in Kept(st2) /\ st2.schedules[o].asset = st.schedules[o].asset
    <2>1. o \in Kept(st) /\ o \in Schedules /\ st.schedules[o].asset = AssetOf[o]
      BY <1>5, LoadsParts
    <2>2. CASE o = s
      <3>1. record \in ScheduleRecords(s)
        BY <1>5, <2>2 DEF ScheduleChange
      <3>2. record # NoSchedule /\ record.asset = AssetOf[s]
        BY <1>1, <3>1, Absent
      <3> QED
        BY <1>1, <1>3, <2>1, <2>2, <3>2 DEF Kept
    <2>3. CASE o # s
      BY <1>3, <2>1, <2>3 DEF Kept
    <2> QED
      BY <2>2, <2>3
  <1>6. Recorded(st2) = Recorded(st) /\ \A e : Correctors(st2, e) = Correctors(st, e)
    BY <1>2 DEF Recorded, Correctors
  <1>7. \A e \in Recorded(st2) : \A o \in st2.events[e].links :
           o \in Kept(st2) /\ st2.schedules[o].asset = st2.events[e].asset
    BY <1>2, <1>5, <1>6, LoadsParts DEF Referenced
  <1>8. \A e \in Recorded(st2) : st2.events[e].corrects # None =>
           LET target == st2.events[e].corrects IN
           /\ target \in Recorded(st2) /\ st2.events[target].asset = st2.events[e].asset
           /\ st2.events[target].state # "active"
           /\ Cardinality(Correctors(st2, target)) = 1
    BY <1>2, <1>6, LoadsParts
  <1>9. \A cycle \in (SUBSET Recorded(st2)) \ {{}} :
           \E e \in cycle : st2.events[e].corrects \notin cycle
    BY <1>2, <1>6, LoadsParts
  <1>10. ValidStore(st2)
    BY <1>7, <1>8, <1>9 DEF ValidStore
  <1> QED
    BY <1>2, <1>4, <1>10 DEF Loads, st2

LEMMA VoidLoads ==
  ASSUME NEW st, Loads(st), NEW e \in Recorded(st), NEW reason \in Reasons
  PROVE  Loads(Voided(st, e, reason))
  <1> DEFINE st2 == Voided(st, e, reason)
  <1>1. st \in Stores /\ reason # "active"
    BY LoadsParts, MaintenanceAssumption
  <1>2. /\ st2 \in Stores /\ st2.schedules = st.schedules
        /\ st2.events[e].state = reason
        /\ \A o \in Events \ {e} : st2.events[o] = st.events[o]
        /\ \A o \in Recorded(st) : /\ st2.events[o].asset = st.events[o].asset
                                   /\ st2.events[o].links = st.events[o].links
                                   /\ st2.events[o].corrects = st.events[o].corrects
        /\ Recorded(st2) = Recorded(st) /\ Kept(st2) = Kept(st)
        /\ \A o : Correctors(st2, o) = Correctors(st, o)
    BY <1>1, VoidedParts
  <1> HIDE DEF st2
  <1>3. \A o \in Recorded(st) : st.events[o].state # "active" => st2.events[o].state # "active"
    BY <1>1, <1>2, LoadsParts
  <1>4. \A o \in Recorded(st2) : \A s \in st2.events[o].links :
           s \in Kept(st2) /\ st2.schedules[s].asset = st2.events[o].asset
    BY <1>2, LoadsParts
  <1>5. \A o \in Recorded(st2) : st2.events[o].corrects # None =>
           LET target == st2.events[o].corrects IN
           /\ target \in Recorded(st2) /\ st2.events[target].asset = st2.events[o].asset
           /\ st2.events[target].state # "active"
           /\ Cardinality(Correctors(st2, target)) = 1
    BY <1>2, <1>3, LoadsParts
  <1>6. \A cycle \in (SUBSET Recorded(st2)) \ {{}} :
           \E o \in cycle : st2.events[o].corrects \notin cycle
    BY <1>2, LoadsParts
  <1>7. ValidStore(st2)
    BY <1>4, <1>5, <1>6 DEF ValidStore
  <1>8. \A s \in Kept(st2) : st2.schedules[s] \in ScheduleRecords(s)
    BY <1>2, LoadsParts
  <1> QED
    BY <1>2, <1>7, <1>8 DEF Loads, st2

\* A new event, alone or in the place of one that is void and not corrected yet.
LEMMA EventLoads ==
  ASSUME NEW st, Loads(st), NEW n \in Events \ Recorded(st), NEW x \in EventRecords,
         LinksExist(st, x.asset, x.links),
         \/ x.corrects = None
         \/ /\ x.corrects \in Recorded(st) /\ st.events[x.corrects].asset = x.asset
            /\ st.events[x.corrects].state # "active" /\ Correctors(st, x.corrects) = {}
  PROVE  Loads(WithEvent(st, n, x))
  <1> DEFINE st2 == WithEvent(st, n, x)
  <1>1. st \in Stores /\ None \notin Events
    BY LoadsParts, Absent
  <1>2. /\ st2 \in Stores /\ st2.schedules = st.schedules
        /\ st2.events[n] = x
        /\ \A o \in Recorded(st) : st2.events[o] = st.events[o] /\ o # n
        /\ Recorded(st2) = Recorded(st) \union {n} /\ Kept(st2) = Kept(st)
    BY <1>1, WithEventParts, LoadsParts
  <1> HIDE DEF st2
  <1>3. \A o \in Recorded(st) : st.events[o].corrects # n
    BY <1>1, LoadsParts
  <1>4. \A o \in Recorded(st2) : \A s \in st2.events[o].links :
           s \in Kept(st2) /\ st2.schedules[s].asset = st2.events[o].asset
    BY <1>2, LoadsParts DEF LinksExist
  <1>5. ASSUME NEW o \in Recorded(st2), st2.events[o].corrects # None
        PROVE  LET target == st2.events[o].corrects IN
               /\ target \in Recorded(st2) /\ st2.events[target].asset = st2.events[o].asset
               /\ st2.events[target].state # "active"
               /\ Cardinality(Correctors(st2, target)) = 1
    <2> DEFINE target == st2.events[o].corrects
    <2>1. CASE o = n
      <3>1. /\ target = x.corrects /\ target \in Recorded(st) /\ Correctors(st, target) = {}
            /\ st.events[target].asset = x.asset /\ st.events[target].state # "active"
        BY <1>2, <1>5, <2>1
      <3>2. Correctors(st2, target) = {n}
        BY <1>2, <2>1, <3>1 DEF Correctors
      <3>3. Cardinality({n}) = 1
        BY FS_Singleton
      <3> QED
        BY <1>2, <2>1, <3>1, <3>2, <3>3
    <2>2. CASE o # n
      <3>1. /\ o \in Recorded(st) /\ target = st.events[o].corrects
            /\ target \in Recorded(st) /\ st.events[target].asset = st.events[o].asset
            /\ st.events[target].state # "active"
            /\ Cardinality(Correctors(st, target)) = 1
        BY <1>2, <1>5, <2>2, LoadsParts
      <3>2. x.corrects # target
        <4>1. o \in Correctors(st, target)
          BY <3>1 DEF Correctors
        <4> QED
          BY <1>1, <3>1, <4>1, LoadsParts
      <3>3. Correctors(st2, target) = Correctors(st, target)
        BY <1>2, <3>2 DEF Correctors
      <3> QED
        BY <1>2, <2>2, <3>1, <3>3
    <2> QED
      BY <2>1, <2>2
  <1>6. ASSUME NEW cycle \in (SUBSET Recorded(st2)) \ {{}}
        PROVE  \E o \in cycle : st2.events[o].corrects \notin cycle
    <2>1. CASE n \notin cycle
      BY <1>2, <1>6, <2>1, LoadsParts
    <2>2. CASE cycle = {n}
      BY <1>1, <1>2, <2>2
    <2>3. CASE n \in cycle /\ cycle # {n}
      <3>1. cycle \ {n} \in (SUBSET Recorded(st)) \ {{}}
        BY <1>2, <2>3
      <3>2. PICK o \in cycle \ {n} : st.events[o].corrects \notin cycle \ {n}
        BY <3>1, LoadsParts
      <3>3. st2.events[o].corrects = st.events[o].corrects /\ st.events[o].corrects # n
        BY <1>2, <1>3, <3>1, <3>2
      <3> QED
        BY <3>2, <3>3
    <2> QED
      BY <2>1, <2>2, <2>3
  <1>7. ValidStore(st2)
    BY <1>4, <1>5, <1>6 DEF ValidStore
  <1>8. \A s \in Kept(st2) : st2.schedules[s] \in ScheduleRecords(s)
    BY <1>2, LoadsParts
  <1> QED
    BY <1>2, <1>7, <1>8 DEF Loads, st2

\* The event that a request describes.
LEMMA DescribedParts ==
  ASSUME NEW r, r.links \in Links, r.entry \in Entries, NEW a \in Assets,
         NEW c \in Events \union {None}
  PROVE  /\ Described(r, a, c) \in EventRecords
         /\ Described(r, a, c).asset = a /\ Described(r, a, c).links = r.links.all
         /\ Described(r, a, c).state = "active" /\ Described(r, a, c).corrects = c
  BY DEF Described, EventRecords, Links

LEMMA RecordRequest ==
  ASSUME NEW st, Loads(st), NEW ctx, NEW r \in Requests, r.op = "record",
         Mutate(st, ctx, r).outcome = "changed"
  PROVE  /\ r.event \in Events \ Recorded(st) /\ r.asset \in Assets \ st.archived
         /\ r.links \in Links /\ r.entry \in Entries
         /\ LinksExist(st, r.asset, r.links.all)
         /\ NewlyLocked(st, r.links.all) \subseteq r.links.confirmed
         /\ Mutate(st, ctx, r).st = WithEvent(st, r.event, Described(r, r.asset, None))
         /\ Loads(Mutate(st, ctx, r).st)
  <1>1. /\ r.event \in Events /\ r.asset \in Assets /\ r.links \in Links /\ r.entry \in Entries
    BY RequestParts
  <1>2. Mutate(st, ctx, r) = RecordEvent(st, ctx, r)
    BY MutateParts
  <1>3. /\ r.event \notin Recorded(st) /\ r.asset \notin st.archived
        /\ LinksExist(st, r.asset, r.links.all)
        /\ NewlyLocked(st, r.links.all) \subseteq r.links.confirmed
        /\ Mutate(st, ctx, r).st = WithEvent(st, r.event, Described(r, r.asset, None))
    BY <1>2, RecordChanges
  <1>4. PICK x : x = Described(r, r.asset, None)
    OBVIOUS
  <1>5. x \in EventRecords /\ x.asset = r.asset /\ x.links = r.links.all /\ x.corrects = None
    BY <1>1, <1>4, DescribedParts
  <1>6. Loads(WithEvent(st, r.event, x))
    BY <1>1, <1>3, <1>5, EventLoads
  <1> QED
    BY <1>1, <1>3, <1>4, <1>6

LEMMA VoidRequest ==
  ASSUME NEW st, Loads(st), NEW ctx, NEW r \in Requests, r.op = "void",
         Mutate(st, ctx, r).outcome = "changed"
  PROVE  /\ r.event \in Recorded(st) /\ st.events[r.event].state = "active"
         /\ r.reason \in Reasons
         /\ Mutate(st, ctx, r).st = Voided(st, r.event, r.reason)
         /\ Loads(Mutate(st, ctx, r).st)
  <1>1. r.reason \in Reasons
    BY RequestParts
  <1>2. Mutate(st, ctx, r) = VoidEvent(st, ctx, r)
    BY MutateParts
  <1>3. /\ r.event \in Recorded(st) /\ st.events[r.event].state = "active"
        /\ Mutate(st, ctx, r).st = Voided(st, r.event, r.reason)
    BY <1>2, VoidChanges
  <1> QED
    BY <1>1, <1>3, VoidLoads

LEMMA CorrectRequest ==
  ASSUME NEW st, Loads(st), NEW ctx, NEW r \in Requests, r.op = "correct",
         Mutate(st, ctx, r).outcome = "changed"
  PROVE  /\ r.event \in Events \ Recorded(st) /\ r.target \in Recorded(st)
         /\ r.reason \in Reasons /\ st.events[r.target].state = "active"
         /\ st.events[r.target].asset \in Assets
         /\ r.links \in Links /\ r.entry \in Entries
         /\ LinksExist(st, st.events[r.target].asset, r.links.all)
         /\ NewlyLocked(st, r.links.all) \subseteq r.links.confirmed
         /\ Mutate(st, ctx, r).st =
               WithEvent(Voided(st, r.target, r.reason), r.event,
                         Described(r, st.events[r.target].asset, r.target))
         /\ Loads(Voided(st, r.target, r.reason))
         /\ Loads(Mutate(st, ctx, r).st)
  <1> DEFINE a == st.events[r.target].asset
             st1 == Voided(st, r.target, r.reason)
  <1>1. /\ r.event \in Events /\ r.target \in Events /\ r.links \in Links
        /\ r.entry \in Entries /\ r.reason \in Reasons
    BY RequestParts
  <1>2. Mutate(st, ctx, r) = CorrectEvent(st, ctx, r)
    BY MutateParts
  <1>3. /\ r.event \notin Recorded(st) /\ r.target \in Recorded(st)
        /\ st.events[r.target].state = "active" /\ LinksExist(st, a, r.links.all)
        /\ NewlyLocked(st, r.links.all) \subseteq r.links.confirmed
        /\ Mutate(st, ctx, r).st = WithEvent(st1, r.event, Described(r, a, r.target))
    BY <1>2, CorrectChanges
  <1>4. a \in Assets
    BY <1>3, LoadsParts, EventParts
  <1>5. Loads(st1)
    BY <1>1, <1>3, VoidLoads
  <1> HIDE DEF st1
  <1>6. /\ st1.schedules = st.schedules /\ st1.events[r.target].state = r.reason
        /\ st1.events[r.target].asset = a
        /\ Recorded(st1) = Recorded(st) /\ Kept(st1) = Kept(st)
        /\ Correctors(st1, r.target) = Correctors(st, r.target)
    BY <1>1, <1>3, LoadsParts, VoidedParts DEF st1
  <1>7. Correctors(st1, r.target) = {}
    BY <1>1, <1>3, <1>6, NoCorrectors
  <1>8. PICK x : x = Described(r, a, r.target)
    OBVIOUS
  <1>9. x \in EventRecords /\ x.asset = a /\ x.links = r.links.all /\ x.corrects = r.target
    BY <1>1, <1>4, <1>8, DescribedParts
  <1>10. LinksExist(st1, x.asset, x.links)
    BY <1>3, <1>6, <1>9 DEF LinksExist
  <1>11. r.reason # "active"
    BY <1>1, MaintenanceAssumption
  <1>12. Loads(WithEvent(st1, r.event, x))
    BY <1>1, <1>3, <1>5, <1>6, <1>7, <1>9, <1>10, <1>11, EventLoads
  <1> QED
    BY <1>1, <1>3, <1>4, <1>5, <1>8, <1>12 DEF st1

\* Whatever a request changes, what it leaves loads again, and no request archives.
LEMMA MutateLoads ==
  ASSUME NEW st, Loads(st), NEW ctx, NEW r \in Requests, Mutate(st, ctx, r).outcome = "changed"
  PROVE  /\ Loads(Mutate(st, ctx, r).st)
         /\ Mutate(st, ctx, r).st.archived = st.archived
  <1>0. st \in Stores
    BY LoadsParts
  <1>1. CASE r.op \in {"create", "edit", "set_anchor", "add", "remove", "enable", "delete"}
    <2>1. PICK record \in AnySchedules :
             /\ Mutate(st, ctx, r).st = Write(st, r.schedule, record)
             /\ ScheduleChange(st, r.schedule, record)
             /\ r.schedule \in Kept(st) \/ r.schedule \notin Referenced(st)
      BY <1>1, ScheduleRequest
    <2>2. Loads(Write(st, r.schedule, record))
      BY <2>1, ScheduleLoads
    <2>3. Write(st, r.schedule, record).archived = st.archived
      BY <1>0, <2>1, WriteParts DEF ScheduleChange
    <2> QED
      BY <2>1, <2>2, <2>3
  <1>2. CASE r.op = "record"
    <2>1. /\ r.event \in Events /\ Loads(Mutate(st, ctx, r).st)
          /\ Described(r, r.asset, None) \in EventRecords
          /\ Mutate(st, ctx, r).st = WithEvent(st, r.event, Described(r, r.asset, None))
      BY <1>2, RecordRequest, DescribedParts
    <2> QED
      BY <1>0, <2>1, WithEventParts
  <1>3. CASE r.op = "void"
    <2>1. /\ r.event \in Recorded(st) /\ r.reason \in Reasons
          /\ Loads(Mutate(st, ctx, r).st)
          /\ Mutate(st, ctx, r).st = Voided(st, r.event, r.reason)
      BY <1>3, VoidRequest
    <2> QED
      BY <1>0, <2>1, VoidedParts
  <1>4. CASE r.op = "correct"
    <2>1. PICK st1, x :
            /\ st1 = Voided(st, r.target, r.reason)
            /\ x = Described(r, st.events[r.target].asset, r.target)
      OBVIOUS
    <2>2. /\ r.event \in Events /\ r.target \in Recorded(st) /\ r.reason \in Reasons
          /\ Loads(Mutate(st, ctx, r).st) /\ Loads(st1)
          /\ Mutate(st, ctx, r).st = WithEvent(st1, r.event, x)
      BY <1>4, <2>1, CorrectRequest
    <2>3. x \in EventRecords
      <3>1. /\ st.events[r.target].asset \in Assets /\ r.links \in Links /\ r.entry \in Entries
        BY <1>4, CorrectRequest
      <3>2. r.target \in Events
        BY <2>2, LoadsParts
      <3> QED
        BY <2>1, <3>1, <3>2, DescribedParts
    <2>4. st1.archived = st.archived
      BY <1>0, <2>1, <2>2, VoidedParts
    <2>5. WithEvent(st1, r.event, x).archived = st1.archived
      BY <2>2, <2>3, LoadsParts, WithEventParts
    <2> QED
      BY <2>2, <2>4, <2>5
  <1> QED
    BY <1>1, <1>2, <1>3, <1>4, RequestParts

-----------------------------------------------------------------------------
(* The invariant                                                             *)

\* A step writes what its request left, or archives or restores one Asset.
LEMMA StepParts ==
  ASSUME [Next]_vars
  PROVE  \/ \E r \in Requests, ctx \in Contexts :
              /\ Mutate(store, ctx, r).outcome = "changed"
              /\ schedules' = Mutate(store, ctx, r).st.schedules
              /\ events' = Mutate(store, ctx, r).st.events
              /\ archived' = archived
         \/ /\ schedules' = schedules /\ events' = events
            /\ archived' = archived \/ \E a \in Assets : archived' =
                  IF a \in archived THEN archived \ {a} ELSE archived \union {a}
  <1>1. CASE SetArchived
    BY <1>1 DEF SetArchived
  <1>2. CASE UNCHANGED vars
    BY <1>2 DEF vars
  <1>3. CASE \E r \in Requests, ctx \in Contexts : Submit(r, ctx)
    BY <1>3 DEF Submit
  <1> QED
    BY <1>1, <1>2, <1>3 DEF Next

\* The snapshot after a request that changed something.
LEMMA Saved ==
  ASSUME IInv, NEW r \in Requests, NEW ctx \in Contexts,
         Mutate(store, ctx, r).outcome = "changed",
         schedules' = Mutate(store, ctx, r).st.schedules,
         events' = Mutate(store, ctx, r).st.events,
         archived' = archived
  PROVE  store' = Mutate(store, ctx, r).st /\ Loads(store')
  <1>1. PICK st2 : st2 = Mutate(store, ctx, r).st
    OBVIOUS
  <1>2. Loads(st2) /\ st2.archived = store.archived
    BY <1>1, MutateLoads DEF IInv
  <1>3. st2 \in Stores
    BY <1>2, LoadsParts
  <1>4. st2 = [schedules |-> st2.schedules, events |-> st2.events, archived |-> st2.archived]
    BY <1>3, StoreParts
  <1>5. store.archived = archived
    BY DEF store
  <1>6. store' = [schedules |-> schedules', events |-> events', archived |-> archived']
    BY DEF store
  <1> QED
    BY <1>1, <1>2, <1>4, <1>5, <1>6

LEMMA InitInv ==
  ASSUME Init
  PROVE  IInv
  <1>1. store.schedules = schedules /\ store.events = events /\ store.archived = archived
    BY DEF store
  <1>2. Kept(store) = {} /\ Recorded(store) = {}
    BY <1>1 DEF Init, Kept, Recorded
  <1>3. store \in Stores
    BY DEF Init, store, Stores, AnySchedules, AnyEvents
  <1>4. ValidStore(store)
    <2>1. \A cycle \in SUBSET Recorded(store) : cycle = {}
      BY <1>2
    <2>2. \A e \in Recorded(store) : \A s \in store.events[e].links :
             s \in Kept(store) /\ store.schedules[s].asset = store.events[e].asset
      BY <1>2
    <2>3. \A e \in Recorded(store) : store.events[e].corrects # None =>
             LET target == store.events[e].corrects IN
             /\ target \in Recorded(store)
             /\ store.events[target].asset = store.events[e].asset
             /\ store.events[target].state # "active"
             /\ Cardinality(Correctors(store, target)) = 1
      <3> TAKE e \in Recorded(store)
      <3>1. FALSE
        BY <1>2
      <3> QED
        BY <3>1
    <2>4. \A cycle \in (SUBSET Recorded(store)) \ {{}} :
             \E e \in cycle : store.events[e].corrects \notin cycle
      BY <2>1
    <2> QED
      BY <2>2, <2>3, <2>4 DEF ValidStore
  <1> QED
    BY <1>2, <1>3, <1>4 DEF IInv, Loads

\* Whether an Asset is archived is no part of what makes a snapshot load.
LEMMA ArchivedLoads ==
  ASSUME NEW st, Loads(st), NEW set \in SUBSET Assets, NEW st2,
         st2 = [schedules |-> st.schedules, events |-> st.events, archived |-> set]
  PROVE  Loads(st2)
  <1>1. /\ st2.schedules = st.schedules /\ st2.events = st.events /\ st2 \in Stores
    BY LoadsParts, StoreParts DEF Stores
  <1>2. /\ Kept(st2) = Kept(st) /\ Recorded(st2) = Recorded(st)
        /\ \A e : Correctors(st2, e) = Correctors(st, e)
    BY <1>1 DEF Kept, Recorded, Correctors
  <1>3. ValidStore(st2)
    <2>1. \A e \in Recorded(st2) : \A s \in st2.events[e].links :
             s \in Kept(st2) /\ st2.schedules[s].asset = st2.events[e].asset
      BY <1>1, <1>2, LoadsParts
    <2>2. \A e \in Recorded(st2) : st2.events[e].corrects # None =>
             LET target == st2.events[e].corrects IN
             /\ target \in Recorded(st2) /\ st2.events[target].asset = st2.events[e].asset
             /\ st2.events[target].state # "active"
             /\ Cardinality(Correctors(st2, target)) = 1
      BY <1>1, <1>2, LoadsParts
    <2>3. \A cycle \in (SUBSET Recorded(st2)) \ {{}} :
             \E e \in cycle : st2.events[e].corrects \notin cycle
      BY <1>1, <1>2, LoadsParts
    <2> QED
      BY <2>1, <2>2, <2>3 DEF ValidStore
  <1> QED
    BY <1>1, <1>2, <1>3, LoadsParts DEF Loads

LEMMA StepInv ==
  ASSUME IInv, [Next]_vars
  PROVE  IInv'
  <1>1. CASE \E r \in Requests, ctx \in Contexts :
              /\ Mutate(store, ctx, r).outcome = "changed"
              /\ schedules' = Mutate(store, ctx, r).st.schedules
              /\ events' = Mutate(store, ctx, r).st.events
              /\ archived' = archived
    <2>1. Loads(store')
      BY <1>1, Saved
    <2> QED
      BY <2>1 DEF IInv
  <1>2. CASE /\ schedules' = schedules /\ events' = events
             /\ archived' = archived \/ \E a \in Assets : archived' =
                   IF a \in archived THEN archived \ {a} ELSE archived \union {a}
    <2>1. store.schedules = schedules /\ store.events = events /\ store.archived = archived
      BY DEF store
    <2>2. archived \in SUBSET Assets
      BY <2>1, LoadsParts, StoreParts DEF IInv
    <2>3. archived' \in SUBSET Assets
      BY <1>2, <2>2
    <2>4. store' = [schedules |-> store.schedules, events |-> store.events,
                    archived |-> archived']
      BY <1>2, <2>1 DEF store
    <2>5. Loads(store')
      BY <2>3, <2>4, ArchivedLoads DEF IInv
    <2> QED
      BY <2>5 DEF IInv
  <1> QED
    BY <1>1, <1>2, StepParts

\* Every snapshot that the Store writes loads.
THEOREM Invariant == Spec => []IInv
  <1>1. Init => IInv
    BY InitInv
  <1>2. IInv /\ [Next]_vars => IInv'
    BY StepInv
  <1> QED
    BY <1>1, <1>2, PTL DEF Spec

\* Every snapshot the requests can lead to loads again, whatever the numbers of Assets,
\* schedules and events (validate_maintenance_collections).
THEOREM StoreIsValidHolds == Spec => []StoreIsValid
  <1>1. ASSUME IInv
        PROVE  StoreIsValid
    <2>1. store.schedules = schedules /\ store.events = events /\ store.archived = archived
      BY DEF store
    <2>2. TypeOK
      BY <1>1, <2>1, LoadsParts, StoreParts DEF IInv, TypeOK
    <2> QED
      BY <1>1, <2>2 DEF IInv, Loads, StoreIsValid
  <1> QED
    BY <1>1, Invariant, PTL

-----------------------------------------------------------------------------
(* What a step never does                                                    *)

\* The three things a change may do to a snapshot, seen from one schedule, from one
\* event that was there, and from one that was not.
ScheduleMayBecome(st, s, record) == record = st.schedules[s] \/ ScheduleChange(st, s, record)

EventMayBecome(st, e, x) ==
    \/ x = st.events[e]
    \/ /\ st.events[e].state = "active"
       /\ \E reason \in Reasons : x = AsVoid(st.events[e], reason)

MayBeNew(st, x) ==
    \/ x = NoEvent
    \/ x.asset \notin st.archived
    \/ x.corrects \in Recorded(st) /\ st.events[x.corrects].state = "active"

LEMMA ChangeParts ==
  ASSUME NEW st, Loads(st), NEW ctx, NEW r \in Requests,
         Mutate(st, ctx, r).outcome = "changed", NEW st2, st2 = Mutate(st, ctx, r).st
  PROVE  /\ \A s \in Schedules : ScheduleMayBecome(st, s, st2.schedules[s])
         /\ \A e \in Recorded(st) : EventMayBecome(st, e, st2.events[e])
         /\ \A e \in Events \ Recorded(st) : MayBeNew(st, st2.events[e])
  <1>0. st \in Stores /\ \A e \in Recorded(st) : e \in Events
    BY LoadsParts
  <1>1. \A e \in Events \ Recorded(st) : st.events[e] = NoEvent
    BY DEF Recorded
  <1>2. CASE r.op \in {"create", "edit", "set_anchor", "add", "remove", "enable", "delete"}
    <2>1. PICK record \in AnySchedules :
             st2 = Write(st, r.schedule, record) /\ ScheduleChange(st, r.schedule, record)
      BY <1>2, ScheduleRequest
    <2>2. r.schedule \in Schedules
      BY <2>1 DEF ScheduleChange
    <2>3. st2.events = st.events /\ st2.schedules = [st.schedules EXCEPT ![r.schedule] = record]
      BY <1>0, <2>1, <2>2, WriteParts
    <2>4. /\ st2.schedules[r.schedule] = record
          /\ \A s \in Schedules \ {r.schedule} : st2.schedules[s] = st.schedules[s]
      BY <1>0, <2>2, <2>3, StoreParts
    <2>5. \A s \in Schedules : ScheduleMayBecome(st, s, st2.schedules[s])
      BY <2>1, <2>4 DEF ScheduleMayBecome
    <2> QED
      BY <1>0, <1>1, <2>3, <2>5 DEF EventMayBecome, MayBeNew
  <1>3. CASE r.op = "record"
    <2>1. PICK x : x = Described(r, r.asset, None)
      OBVIOUS
    <2>2. /\ r.event \in Events \ Recorded(st) /\ x \in EventRecords
          /\ x.asset \notin st.archived /\ st2 = WithEvent(st, r.event, x)
      BY <1>3, <2>1, RecordRequest, DescribedParts
    <2>3. /\ st2.schedules = st.schedules /\ st2.events[r.event] = x
          /\ \A e \in Events \ {r.event} : st2.events[e] = st.events[e]
      BY <1>0, <2>2, WithEventParts
    <2> QED
      BY <1>0, <1>1, <2>2, <2>3 DEF ScheduleMayBecome, EventMayBecome, MayBeNew
  <1>4. CASE r.op = "void"
    <2>1. /\ r.event \in Recorded(st) /\ st.events[r.event].state = "active"
          /\ r.reason \in Reasons /\ st2 = Voided(st, r.event, r.reason)
      BY <1>4, VoidRequest
    <2>2. /\ st2.schedules = st.schedules
          /\ st2.events[r.event] = AsVoid(st.events[r.event], r.reason)
          /\ \A e \in Events \ {r.event} : st2.events[e] = st.events[e]
      BY <1>0, <2>1, VoidedParts
    <2> QED
      BY <1>0, <1>1, <2>1, <2>2 DEF ScheduleMayBecome, EventMayBecome, MayBeNew
  <1>5. CASE r.op = "correct"
    <2>1. PICK st1, x :
            /\ st1 = Voided(st, r.target, r.reason)
            /\ x = Described(r, st.events[r.target].asset, r.target)
      OBVIOUS
    <2>2. /\ r.event \in Events \ Recorded(st) /\ r.target \in Recorded(st)
          /\ r.reason \in Reasons /\ st.events[r.target].state = "active"
          /\ Loads(st1) /\ st2 = WithEvent(st1, r.event, x)
      BY <1>5, <2>1, CorrectRequest
    <2>3. /\ st.events[r.target].asset \in Assets /\ r.links \in Links /\ r.entry \in Entries
      BY <1>5, CorrectRequest
    <2>4. x \in EventRecords /\ x.corrects = r.target
      BY <1>0, <2>1, <2>2, <2>3, DescribedParts
    <2>5. /\ st1.schedules = st.schedules
          /\ st1.events[r.target] = AsVoid(st.events[r.target], r.reason)
          /\ \A e \in Events \ {r.target} : st1.events[e] = st.events[e]
      BY <1>0, <2>1, <2>2, VoidedParts
    <2>6. /\ st2.schedules = st1.schedules /\ st2.events[r.event] = x
          /\ \A e \in Events \ {r.event} : st2.events[e] = st1.events[e]
      BY <2>2, <2>4, LoadsParts, WithEventParts
    <2> QED
      BY <1>0, <1>1, <2>2, <2>4, <2>5, <2>6
         DEF ScheduleMayBecome, EventMayBecome, MayBeNew
  <1> QED
    BY <1>2, <1>3, <1>4, <1>5, RequestParts

\* The same for a step of the specification.
LEMMA NextParts ==
  ASSUME IInv, [Next]_vars
  PROVE  /\ \A s \in Schedules : ScheduleMayBecome(store, s, schedules'[s])
         /\ \A e \in Recorded(store) : EventMayBecome(store, e, events'[e])
         /\ \A e \in Events \ Recorded(store) : MayBeNew(store, events'[e])
  <1>0. store.schedules = schedules /\ store.events = events /\ store.archived = archived
    BY DEF store
  <1>1. ASSUME NEW r \in Requests, NEW ctx \in Contexts,
               Mutate(store, ctx, r).outcome = "changed",
               schedules' = Mutate(store, ctx, r).st.schedules,
               events' = Mutate(store, ctx, r).st.events
        PROVE  /\ \A s \in Schedules : ScheduleMayBecome(store, s, schedules'[s])
               /\ \A e \in Recorded(store) : EventMayBecome(store, e, events'[e])
               /\ \A e \in Events \ Recorded(store) : MayBeNew(store, events'[e])
    BY <1>1, ChangeParts DEF IInv
  <1>2. ASSUME schedules' = schedules, events' = events
        PROVE  /\ \A s \in Schedules : ScheduleMayBecome(store, s, schedules'[s])
               /\ \A e \in Recorded(store) : EventMayBecome(store, e, events'[e])
               /\ \A e \in Events \ Recorded(store) : MayBeNew(store, events'[e])
    BY <1>0, <1>2 DEF ScheduleMayBecome, EventMayBecome, MayBeNew, Recorded
  <1> QED
    BY <1>1, <1>2, StepParts

\* An event that was recorded keeps what it says for ever, and once void its reason.
THEOREM HistoryIsPermanentHolds == Spec => HistoryIsPermanent
  <1>1. ASSUME IInv, [Next]_vars, NEW e \in Recorded(store)
        PROVE  /\ events'[e] \in {[events[e] EXCEPT !.state = s] : s \in {"active"} \union Reasons}
               /\ events[e].state # "active" => events'[e] = events[e]
    <2>1. store.events = events
      BY DEF store
    <2>2. events[e] \in EventRecords
      BY <1>1, <2>1, LoadsParts DEF IInv
    <2>3. /\ events[e].state \in {"active"} \union Reasons
          /\ events[e] = AsVoid(events[e], events[e].state)
      BY <2>2 DEF EventRecords, AsVoid
    <2>4. EventMayBecome(store, e, events'[e])
      BY <1>1, NextParts
    <2>5. \E s \in {"active"} \union Reasons : events'[e] = AsVoid(events[e], s)
      BY <2>1, <2>3, <2>4 DEF EventMayBecome
    <2>6. events[e].state # "active" => events'[e] = events[e]
      BY <2>1, <2>4 DEF EventMayBecome
    <2> QED
      BY <2>5, <2>6, Zenon DEF AsVoid
  <1>2. IInv /\ [Next]_vars =>
           [\A e \in Recorded(store) :
              /\ events'[e] \in {[events[e] EXCEPT !.state = s] : s \in {"active"} \union Reasons}
              /\ events[e].state # "active" => events'[e] = events[e]]_vars
    BY <1>1
  <1> QED
    BY <1>2, Invariant, PTL DEF Spec, HistoryIsPermanent

\* A starting point that an event has locked loses a component only with its interval.
THEOREM LockedBaselineIsFinalHolds == Spec => LockedBaselineIsFinal
  <1>1. ASSUME IInv, [Next]_vars, NEW s \in Referenced(store), NEW d \in Dimensions
        PROVE  LET before == Component(schedules[s].baseline, d)
                   after == Component(schedules'[s].baseline, d)
               IN after # before =>
                     after = NoComponent(d) /\ d \notin Configured(schedules'[s])
    <2>1. store.schedules = schedules
      BY DEF store
    <2>2. s \in Schedules
      BY <1>1, LoadsParts DEF IInv
    <2>3. ScheduleMayBecome(store, s, schedules'[s])
      BY <1>1, <2>2, NextParts
    <2> QED
      BY <1>1, <2>1, <2>3 DEF ScheduleMayBecome, ScheduleChange
  <1>2. IInv /\ [Next]_vars =>
           [\A s \in Referenced(store) : \A d \in Dimensions :
              LET before == Component(schedules[s].baseline, d)
                  after == Component(schedules'[s].baseline, d)
              IN after # before =>
                    after = NoComponent(d) /\ d \notin Configured(schedules'[s])]_vars
    BY <1>1
  <1> QED
    BY <1>2, Invariant, PTL DEF Spec, LockedBaselineIsFinal

\* Nothing but voiding, with or without a correction, happens to an archived Asset.
THEOREM ArchivedIsFrozenHolds == Spec => ArchivedIsFrozen
  <1>0. store.schedules = schedules /\ store.events = events /\ store.archived = archived
    BY DEF store
  <1>1. ASSUME IInv, [Next]_vars, NEW a \in archived \intersect archived',
               NEW s \in Schedules, AssetOf[s] = a
        PROVE  schedules'[s] = schedules[s]
    <2>1. ScheduleMayBecome(store, s, schedules'[s])
      BY <1>1, NextParts
    <2> QED
      BY <1>0, <1>1, <2>1 DEF ScheduleMayBecome, ScheduleChange
  <1>2. ASSUME IInv, [Next]_vars, NEW a \in archived \intersect archived',
               NEW e \in Events \ Recorded(store), events'[e] # NoEvent, events'[e].asset = a
        PROVE  LET target == events'[e].corrects
               IN target \in Recorded(store) /\ events[target].state = "active"
    <2>1. MayBeNew(store, events'[e])
      BY <1>2, NextParts
    <2> QED
      BY <1>0, <1>2, <2>1 DEF MayBeNew
  <1>3. IInv /\ [Next]_vars =>
           [\A a \in archived \intersect archived' :
              /\ \A s \in Schedules : AssetOf[s] = a => schedules'[s] = schedules[s]
              /\ \A e \in Events \ Recorded(store) :
                    events'[e] # NoEvent /\ events'[e].asset = a =>
                    LET target == events'[e].corrects
                    IN target \in Recorded(store) /\ events[target].state = "active"]_vars
    BY <1>1, <1>2
  <1> QED
    BY <1>3, Invariant, PTL DEF Spec, ArchivedIsFrozen

-----------------------------------------------------------------------------
(* What a request says when it is sent again                                 *)

\* Events are added to what refers to schedules; voiding takes nothing away.
LEMMA ReferencedParts ==
  ASSUME NEW st \in Stores
  PROVE  /\ \A n \in Events \ Recorded(st), x \in EventRecords :
               Referenced(WithEvent(st, n, x)) = Referenced(st) \union x.links
         /\ \A e \in Recorded(st), reason \in Reasons :
               Referenced(Voided(st, e, reason)) = Referenced(st)
  <1>1. ASSUME NEW n \in Events \ Recorded(st), NEW x \in EventRecords
        PROVE  Referenced(WithEvent(st, n, x)) = Referenced(st) \union x.links
    <2>1. PICK st2 : st2 = WithEvent(st, n, x)
      OBVIOUS
    <2>2. /\ Recorded(st2) = Recorded(st) \union {n} /\ st2.events[n] = x
          /\ \A o \in Recorded(st) : st2.events[o] = st.events[o]
      <3>1. /\ Recorded(st2) = Recorded(st) \union {n} /\ st2.events[n] = x
            /\ \A o \in Events \ {n} : st2.events[o] = st.events[o]
        BY <1>1, <2>1, WithEventParts
      <3>2. \A o \in Recorded(st) : o \in Events \ {n}
        BY <1>1, StoreParts
      <3> QED
        BY <3>1, <3>2
    <2>3. Referenced(st2) = Referenced(st) \union x.links
      BY <2>2 DEF Referenced
    <2> QED
      BY <2>1, <2>3
  <1>2. ASSUME NEW e \in Recorded(st), NEW reason \in Reasons
        PROVE  Referenced(Voided(st, e, reason)) = Referenced(st)
    <2>1. PICK st2 : st2 = Voided(st, e, reason)
      OBVIOUS
    <2>2. /\ Recorded(st2) = Recorded(st)
          /\ \A o \in Recorded(st) : st2.events[o].links = st.events[o].links
      BY <1>2, <2>1, VoidedParts
    <2>3. Referenced(st2) = Referenced(st)
      BY <2>2 DEF Referenced
    <2> QED
      BY <2>1, <2>3
  <1> QED
    BY <1>1, <1>2

\* An event request that changes nothing leaves the snapshot as it is.
LEMMA EventUnchanged ==
  ASSUME NEW st, NEW ctx, NEW r
  PROVE  /\ RecordEvent(st, ctx, r).outcome = "changed" \/ RecordEvent(st, ctx, r).st = st
         /\ CorrectEvent(st, ctx, r).outcome = "changed" \/ CorrectEvent(st, ctx, r).st = st
  <1>1. PICK described, st2 :
           /\ described = Described(r, r.asset, None) /\ st2 = WithEvent(st, r.event, described)
    OBVIOUS
  <1>2. RecordEvent(st, ctx, r) =
           IF r.event \in Recorded(st)
           THEN IF SameAndActive(st, r.event, described)
                THEN Unchanged(st, "replay") ELSE Refused(st)
           ELSE IF \/ r.asset \in st.archived \/ ~LinksExist(st, r.asset, r.links.all)
                   \/ ~Plausible(ctx, r.entry)
                   \/ ~(NewlyLocked(st, r.links.all) \subseteq r.links.confirmed)
           THEN Refused(st)
           ELSE Changed(st2)
    BY <1>1 DEF RecordEvent, WithEvent
  <1>3. RecordEvent(st, ctx, r).outcome = "changed" \/ RecordEvent(st, ctx, r).st = st
    BY <1>2, Outcomes
  <1>4. PICK target, new, st3 :
           /\ target = st.events[r.target] /\ new = Described(r, target.asset, r.target)
           /\ st3 = WithEvent(Voided(st, r.target, r.reason), r.event, new)
    OBVIOUS
  <1>5. CorrectEvent(st, ctx, r) =
           IF r.event \in Recorded(st)
           THEN IF /\ r.target \in Recorded(st)
                   /\ SameAndActive(st, r.event, new)
                   /\ target.state = r.reason
                THEN Unchanged(st, "replay") ELSE Refused(st)
           ELSE IF \/ r.target \notin Recorded(st) \/ target.state # "active"
                   \/ ~LinksExist(st, target.asset, r.links.all)
                   \/ ~PlausibleDate(ctx, r.entry.date)
                   \/ /\ r.entry.meter # target.entry.meter
                      /\ ~PlausibleMeter(ctx, r.entry.meter)
                   \/ ~(NewlyLocked(st, r.links.all) \subseteq r.links.confirmed)
           THEN Refused(st)
           ELSE Changed(st3)
    BY <1>4 DEF CorrectEvent, WithEvent, Voided
  <1>6. CorrectEvent(st, ctx, r).outcome = "changed" \/ CorrectEvent(st, ctx, r).st = st
    BY <1>5, Outcomes
  <1> QED
    BY <1>3, <1>6

\* A starting point is locked only by an event whose form has named it.
THEOREM LocksAreConfirmedHolds == Spec => []LocksAreConfirmed
  <1>1. ASSUME IInv, NEW r \in Requests, r.op \in {"record", "correct"}, NEW ctx \in Contexts,
               NEW s \in Referenced(Mutate(store, ctx, r).st) \ Referenced(store),
               schedules[s].baseline # NoBaseline
        PROVE  s \in r.links.confirmed
    <2>0. store.schedules = schedules /\ Loads(store) /\ store \in Stores
      BY <1>1, LoadsParts DEF store, IInv
    <2>1. /\ r.op = "record" => Mutate(store, ctx, r) = RecordEvent(store, ctx, r)
          /\ r.op = "correct" => Mutate(store, ctx, r) = CorrectEvent(store, ctx, r)
      BY MutateParts
    <2>2. Mutate(store, ctx, r).outcome = "changed"
      BY <1>1, <2>1, EventUnchanged
    <2>3. s \in r.links.all => s \in NewlyLocked(store, r.links.all)
      BY <1>1, <2>0 DEF NewlyLocked
    <2>4. CASE r.op = "record"
      <3>1. PICK x : x = Described(r, r.asset, None)
        OBVIOUS
      <3>2. /\ r.event \in Events \ Recorded(store) /\ x \in EventRecords
            /\ x.links = r.links.all
            /\ NewlyLocked(store, r.links.all) \subseteq r.links.confirmed
            /\ Mutate(store, ctx, r).st = WithEvent(store, r.event, x)
        BY <2>0, <2>2, <2>4, <3>1, RecordRequest, DescribedParts
      <3>3. Referenced(Mutate(store, ctx, r).st) = Referenced(store) \union r.links.all
        BY <2>0, <3>2, ReferencedParts
      <3> QED
        BY <1>1, <2>3, <3>2, <3>3
    <2>5. CASE r.op = "correct"
      <3>1. PICK st1, x :
              /\ st1 = Voided(store, r.target, r.reason)
              /\ x = Described(r, store.events[r.target].asset, r.target)
        OBVIOUS
      <3>2. /\ r.event \in Events \ Recorded(store) /\ r.target \in Recorded(store)
            /\ r.reason \in Reasons /\ Loads(st1)
            /\ NewlyLocked(store, r.links.all) \subseteq r.links.confirmed
            /\ Mutate(store, ctx, r).st = WithEvent(st1, r.event, x)
        BY <2>0, <2>2, <2>5, <3>1, CorrectRequest
      <3>3. /\ store.events[r.target].asset \in Assets /\ r.links \in Links
            /\ r.entry \in Entries /\ r.target \in Events
        BY <2>0, <2>2, <2>5, <3>2, CorrectRequest, LoadsParts
      <3>4. x \in EventRecords /\ x.links = r.links.all
        BY <3>1, <3>3, DescribedParts
      <3>5. Recorded(st1) = Recorded(store) /\ Referenced(st1) = Referenced(store)
        BY <2>0, <3>1, <3>2, VoidedParts, ReferencedParts
      <3>6. Referenced(Mutate(store, ctx, r).st) = Referenced(store) \union r.links.all
        BY <3>2, <3>4, <3>5, LoadsParts, ReferencedParts
      <3> QED
        BY <1>1, <2>3, <3>2, <3>6
    <2> QED
      BY <1>1, <2>4, <2>5
  <1>2. IInv => LocksAreConfirmed
    BY <1>1 DEF LocksAreConfirmed
  <1> QED
    BY <1>2, Invariant, PTL

\* A schedule after a request that wrote it: it is there and may still be managed.
LEMMA ScheduleAfter ==
  ASSUME NEW st, Loads(st), NEW ctx, NEW r \in Requests,
         r.op \in {"create", "edit", "set_anchor", "add", "remove", "enable"},
         Mutate(st, ctx, r).outcome = "changed",
         NEW new, Mutate(st, ctx, r).st = Write(st, r.schedule, new)
  PROVE  LET s == r.schedule
             st2 == Mutate(st, ctx, r).st
         IN /\ s \in Schedules /\ s \in Kept(st2) /\ Manageable(st2, s)
            /\ st2.schedules[s] = new /\ new \in ScheduleRecords(s)
  <1>0. PICK s, st2 : s = r.schedule /\ st2 = Mutate(st, ctx, r).st
    OBVIOUS
  <1>1. PICK record \in AnySchedules :
           /\ st2 = Write(st, s, record) /\ ScheduleChange(st, s, record)
           /\ record \in ScheduleRecords(s)
    BY <1>0, ScheduleRequest
  <1>2. s \in Schedules /\ st \in Stores /\ AssetOf[s] \notin st.archived
    BY <1>1, LoadsParts DEF ScheduleChange
  <1>3. st2.schedules[s] = record /\ st2.archived = st.archived
    <2>1. /\ st2.schedules = [st.schedules EXCEPT ![s] = record]
          /\ st2.archived = st.archived
      BY <1>1, <1>2, WriteParts
    <2> QED
      BY <1>2, <2>1, StoreParts
  <1>4. st2.schedules[s] = new
    <2>1. PICK map : map = [st.schedules EXCEPT ![s] = new]
      OBVIOUS
    <2>2. st2 = [st EXCEPT !.schedules = map]
      BY <1>0, <2>1 DEF Write
    <2>3. map[s] = new
      BY <1>2, <2>1, StoreParts
    <2>4. st2.schedules = map
      BY <1>2, <2>2 DEF Stores
    <2> QED
      BY <2>3, <2>4
  <1>5. record # NoSchedule /\ record.asset = AssetOf[s]
    BY <1>1, <1>2, Absent
  <1> QED
    BY <1>0, <1>1, <1>2, <1>3, <1>4, <1>5 DEF Kept, Manageable

\* The answers that say that nothing is left to do, from what they look at.
LEMMA CreateReplay ==
  ASSUME NEW st, NEW ctx, NEW r, r.schedule \in Kept(st), st.schedules[r.schedule] = r.record
  PROVE  Create(st, ctx, r).outcome = "replay"
  BY Outcomes DEF Create

LEMMA EditNoOp ==
  ASSUME NEW st, NEW ctx, NEW r, Manageable(st, r.schedule),
         Configured(r) = Configured(st.schedules[r.schedule]),
         r.reminder => "calendar" \in Configured(r),
         Edited(st.schedules[r.schedule], r) = st.schedules[r.schedule]
  PROVE  Edit(st, ctx, r).outcome = "no_op"
  <1> DEFINE old == st.schedules[r.schedule]
             new == Edited(old, r)
  <1>1. Edit(st, ctx, r) =
           IF \/ ~Manageable(st, r.schedule) \/ Configured(r) # Configured(old)
              \/ (r.reminder /\ "calendar" \notin Configured(r))
           THEN Refused(st) ELSE NoOpOr(st, r.schedule, new)
    BY DEF Edit, Edited
  <1> HIDE DEF new
  <1>2. Edit(st, ctx, r) = NoOpOr(st, r.schedule, new)
    BY <1>1
  <1>3. new = st.schedules[r.schedule]
    BY DEF new
  <1> QED
    BY <1>2, <1>3, Outcomes

LEMMA SetAnchorNoOp ==
  ASSUME NEW st, NEW ctx, NEW r, Manageable(st, r.schedule),
         Fits(r.baseline, Configured(st.schedules[r.schedule])),
         r.baseline = st.schedules[r.schedule].baseline
  PROVE  SetAnchor(st, ctx, r).outcome = "no_op"
  <1> DEFINE old == st.schedules[r.schedule]
             new == [old EXCEPT !.baseline = r.baseline]
  <1>1. SetAnchor(st, ctx, r) =
           IF ~Manageable(st, r.schedule) \/ ~Fits(r.baseline, Configured(old))
           THEN Refused(st)
           ELSE IF r.baseline = old.baseline THEN Unchanged(st, "no_op")
           ELSE IF Locked(st, r.schedule) \/ ~Plausible(ctx, r.baseline) THEN Refused(st)
           ELSE WithSchedule(st, r.schedule, new)
    BY DEF SetAnchor
  <1> HIDE DEF new
  <1> QED
    BY <1>1, Outcomes

LEMMA AddNoOp ==
  ASSUME NEW st, NEW ctx, NEW r, Manageable(st, r.schedule),
         r.dimension \in Configured(st.schedules[r.schedule]),
         r.value = st.schedules[r.schedule].interval[r.dimension],
         r.component = Component(st.schedules[r.schedule].baseline, r.dimension)
  PROVE  AddInterval(st, ctx, r).outcome = "no_op"
  <1> DEFINE old == st.schedules[r.schedule]
             given == r.component # NoComponent(r.dimension)
             new == WithInterval(old, r.dimension, r.value, r.component)
  <1>1. AddInterval(st, ctx, r) =
           IF ~Manageable(st, r.schedule) THEN Refused(st)
           ELSE IF r.dimension \in Configured(old)
           THEN IF /\ r.value = old.interval[r.dimension]
                   /\ given => r.component = Component(old.baseline, r.dimension)
                THEN Unchanged(st, "no_op") ELSE Refused(st)
           ELSE IF /\ given
                   /\ \/ Locked(st, r.schedule)
                      \/ ~PlausibleComponent(ctx, r.dimension, r.component)
           THEN Refused(st)
           ELSE WithSchedule(st, r.schedule, new)
    BY DEF AddInterval, WithInterval
  <1> HIDE DEF new
  <1> QED
    BY <1>1, Outcomes

LEMMA RemoveNoOp ==
  ASSUME NEW st, NEW ctx, NEW r, Manageable(st, r.schedule),
         r.dimension \notin Configured(st.schedules[r.schedule])
  PROVE  RemoveInterval(st, ctx, r).outcome = "no_op"
  <1> DEFINE old == st.schedules[r.schedule]
             destroys == Component(old.baseline, r.dimension) # NoComponent(r.dimension)
             new == WithoutInterval(old, r.dimension)
  <1>1. RemoveInterval(st, ctx, r) =
           IF ~Manageable(st, r.schedule) THEN Refused(st)
           ELSE IF r.dimension \notin Configured(old) THEN Unchanged(st, "no_op")
           ELSE IF \/ Configured(old) = {r.dimension}
                   \/ destroys /\ Locked(st, r.schedule) /\ ~r.confirmed
           THEN Refused(st)
           ELSE WithSchedule(st, r.schedule, new)
    BY DEF RemoveInterval, WithoutInterval
  <1> HIDE DEF new
  <1> QED
    BY <1>1, Outcomes

LEMMA EnableNoOp ==
  ASSUME NEW st, NEW ctx, NEW r, Manageable(st, r.schedule),
         [st.schedules[r.schedule] EXCEPT !.enabled = r.enabled] = st.schedules[r.schedule]
  PROVE  SetEnabled(st, ctx, r).outcome = "no_op"
  <1> DEFINE new == [st.schedules[r.schedule] EXCEPT !.enabled = r.enabled]
  <1>1. SetEnabled(st, ctx, r) =
           IF ~Manageable(st, r.schedule) THEN Refused(st) ELSE NoOpOr(st, r.schedule, new)
    BY DEF SetEnabled
  <1>2. new = st.schedules[r.schedule]
    OBVIOUS
  <1> HIDE DEF new
  <1>3. SetEnabled(st, ctx, r) = NoOpOr(st, r.schedule, new)
    BY <1>1
  <1> QED
    BY <1>2, <1>3, Outcomes

LEMMA RecordReplay ==
  ASSUME NEW st, NEW ctx, NEW r, r.event \in Recorded(st),
         st.events[r.event] = Described(r, r.asset, None), Correctors(st, r.event) = {}
  PROVE  RecordEvent(st, ctx, r).outcome = "replay"
  <1> DEFINE described == Described(r, r.asset, None)
             st2 == WithEvent(st, r.event, described)
  <1>1. RecordEvent(st, ctx, r) =
           IF r.event \in Recorded(st)
           THEN IF SameAndActive(st, r.event, described)
                THEN Unchanged(st, "replay") ELSE Refused(st)
           ELSE IF \/ r.asset \in st.archived \/ ~LinksExist(st, r.asset, r.links.all)
                   \/ ~Plausible(ctx, r.entry)
                   \/ ~(NewlyLocked(st, r.links.all) \subseteq r.links.confirmed)
           THEN Refused(st)
           ELSE Changed(st2)
    BY DEF RecordEvent, WithEvent
  <1>2. SameAndActive(st, r.event, described)
    BY DEF SameAndActive
  <1> HIDE DEF described, st2
  <1> QED
    BY <1>1, <1>2, Outcomes

LEMMA VoidReplay ==
  ASSUME NEW st, NEW ctx, NEW r, r.event \in Recorded(st),
         st.events[r.event].state = r.reason, r.reason # "active",
         Correctors(st, r.event) = {}
  PROVE  VoidEvent(st, ctx, r).outcome = "replay"
  <1> DEFINE st2 == Voided(st, r.event, r.reason)
  <1>1. VoidEvent(st, ctx, r) =
           IF r.event \notin Recorded(st) THEN Refused(st)
           ELSE IF st.events[r.event].state # "active"
           THEN IF Correctors(st, r.event) = {} /\ st.events[r.event].state = r.reason
                THEN Unchanged(st, "replay") ELSE Refused(st)
           ELSE Changed(st2)
    BY DEF VoidEvent, Voided
  <1> HIDE DEF st2
  <1> QED
    BY <1>1, Outcomes

LEMMA CorrectReplay ==
  ASSUME NEW st, NEW ctx, NEW r, r.event \in Recorded(st), r.target \in Recorded(st),
         st.events[r.event] = Described(r, st.events[r.target].asset, r.target),
         Correctors(st, r.event) = {}, st.events[r.target].state = r.reason
  PROVE  CorrectEvent(st, ctx, r).outcome = "replay"
  <1> DEFINE target == st.events[r.target]
             described == Described(r, target.asset, r.target)
             st2 == WithEvent(Voided(st, r.target, r.reason), r.event, described)
  <1>1. CorrectEvent(st, ctx, r) =
           IF r.event \in Recorded(st)
           THEN IF /\ r.target \in Recorded(st)
                   /\ SameAndActive(st, r.event, described)
                   /\ target.state = r.reason
                THEN Unchanged(st, "replay") ELSE Refused(st)
           ELSE IF \/ r.target \notin Recorded(st) \/ target.state # "active"
                   \/ ~LinksExist(st, target.asset, r.links.all)
                   \/ ~PlausibleDate(ctx, r.entry.date)
                   \/ /\ r.entry.meter # target.entry.meter
                      /\ ~PlausibleMeter(ctx, r.entry.meter)
                   \/ ~(NewlyLocked(st, r.links.all) \subseteq r.links.confirmed)
           THEN Refused(st)
           ELSE Changed(st2)
    BY DEF CorrectEvent, WithEvent, Voided
  <1>2. SameAndActive(st, r.event, described)
    BY DEF SameAndActive
  <1> HIDE DEF described, st2
  <1> QED
    BY <1>1, <1>2, Outcomes

\* A request about a schedule that has landed has nothing left to do.
LEMMA ScheduleRetry ==
  ASSUME NEW st, Loads(st), NEW ctx, NEW r \in Requests,
         r.op \in {"create", "edit", "set_anchor", "add", "remove", "enable"},
         Mutate(st, ctx, r).outcome = "changed", NEW st2, st2 = Mutate(st, ctx, r).st
  PROVE  /\ Mutate(st2, ctx, r).outcome \in {"replay", "no_op"}
         /\ r.op = "create" =>
               /\ r.schedule \in Kept(st2) /\ st2.schedules[r.schedule] = r.record
  <1> DEFINE s == r.schedule
             old == st.schedules[s]
  <1>0. ASSUME NEW new, st2 = Write(st, s, new)
        PROVE  /\ s \in Kept(st2) /\ Manageable(st2, s)
               /\ st2.schedules[s] = new /\ new \in ScheduleRecords(s)
    <2>1. Mutate(st, ctx, r).st = Write(st, r.schedule, new)
      BY <1>0
    <2>2. /\ r.schedule \in Kept(Mutate(st, ctx, r).st)
          /\ Manageable(Mutate(st, ctx, r).st, r.schedule)
          /\ Mutate(st, ctx, r).st.schedules[r.schedule] = new
          /\ new \in ScheduleRecords(r.schedule)
      BY <2>1, ScheduleAfter
    <2> QED
      BY <2>2
  <1>1. s \in Schedules
    BY RequestParts
  <1>2. CASE r.op = "create"
    <2>1. st2 = Write(st, s, r.record)
      BY <1>2, MutateParts, CreateChanges
    <2>2. s \in Kept(st2) /\ st2.schedules[s] = r.record
      BY <1>0, <2>1
    <2> QED
      BY <1>2, <2>2, CreateReplay, MutateParts
  <1>3. CASE r.op = "edit"
    <2>1. PICK new : new = Edited(old, r)
      OBVIOUS
    <2>2. st2 = Write(st, s, new) /\ Manageable(st, s)
          /\ (r.reminder => "calendar" \in Configured(r))
      BY <1>3, <2>1, MutateParts, EditChanges
    <2>3. Manageable(st2, s) /\ st2.schedules[s] = new /\ new \in ScheduleRecords(s)
      BY <1>0, <2>2
    <2>4. r.enabled \in BOOLEAN /\ r.reminder \in BOOLEAN
      BY <1>3, RequestParts
    <2>5. old \in ScheduleRecords(s)
      BY <1>1, <2>2, ManageableParts
    <2>6. new = [asset |-> AssetOf[s], enabled |-> r.enabled, reminder |-> r.reminder,
                 interval |-> r.interval, baseline |-> old.baseline]
      BY <1>1, <2>1, <2>4, <2>5, EditedParts
    <2>7. Edited(new, r) = [asset |-> AssetOf[s], enabled |-> r.enabled,
                 reminder |-> r.reminder, interval |-> r.interval, baseline |-> new.baseline]
      BY <1>1, <2>3, <2>4, EditedParts
    <2>8. Edited(new, r) = new /\ new.interval = r.interval
      BY <2>6, <2>7
    <2>9. Configured(r) = Configured(new)
      BY <2>8 DEF Configured
    <2> QED
      BY <1>3, <2>2, <2>3, <2>8, <2>9, EditNoOp, MutateParts
  <1>4. CASE r.op = "set_anchor"
    <2>1. PICK new : new = [old EXCEPT !.baseline = r.baseline]
      OBVIOUS
    <2>2. st2 = Write(st, s, new) /\ Manageable(st, s)
      BY <1>4, <2>1, MutateParts, SetAnchorChanges
    <2>3. Manageable(st2, s) /\ st2.schedules[s] = new /\ new \in ScheduleRecords(s)
      BY <1>0, <2>2
    <2>4. new.baseline = r.baseline
      <3>1. old \in ScheduleRecords(s)
        BY <1>1, <2>2, ManageableParts
      <3> QED
        BY <2>1, <3>1 DEF ScheduleRecords
    <2>5. Fits(r.baseline, Configured(new))
      BY <1>1, <2>3, <2>4, ScheduleParts
    <2> QED
      BY <1>4, <2>3, <2>4, <2>5, SetAnchorNoOp, MutateParts
  <1>5. CASE r.op = "add"
    <2>1. PICK new : new = WithInterval(old, r.dimension, r.value, r.component)
      OBVIOUS
    <2>2. st2 = Write(st, s, new) /\ Manageable(st, s)
      BY <1>5, <2>1, MutateParts, AddChanges
    <2>3. Manageable(st2, s) /\ st2.schedules[s] = new
      BY <1>0, <2>2
    <2>4. old \in ScheduleRecords(s) /\ old.interval \in [Dimensions -> Values \union {None}]
          /\ old.baseline \in BaselineRecords
      BY <1>1, <2>2, ManageableParts, ScheduleParts
    <2>5. r.dimension \in Dimensions /\ r.value # None /\ r.component \in Components(r.dimension)
      BY <1>5, RequestParts, MaintenanceAssumption DEF None
    <2>6. /\ new.interval = [old.interval EXCEPT ![r.dimension] = r.value]
          /\ new.baseline = WithComponent(old.baseline, r.dimension, r.component)
      BY <1>1, <2>1, <2>4, WrittenParts
    <2>7. r.dimension \in Configured(new) /\ new.interval[r.dimension] = r.value
      BY <2>4, <2>5, <2>6 DEF Configured
    <2>8. Component(new.baseline, r.dimension) = r.component
      BY <2>4, <2>5, <2>6, WithComponentParts
    <2> QED
      BY <1>5, <2>3, <2>7, <2>8, AddNoOp, MutateParts
  <1>6. CASE r.op = "remove"
    <2>1. PICK new : new = WithoutInterval(old, r.dimension)
      OBVIOUS
    <2>2. st2 = Write(st, s, new) /\ Manageable(st, s)
      BY <1>6, <2>1, MutateParts, RemoveChanges
    <2>3. Manageable(st2, s) /\ st2.schedules[s] = new
      BY <1>0, <2>2
    <2>4. old \in ScheduleRecords(s) /\ old.interval \in [Dimensions -> Values \union {None}]
      BY <1>1, <2>2, ManageableParts, ScheduleParts
    <2>5. r.dimension \in Dimensions
      BY <1>6, RequestParts
    <2>6. new.interval = [old.interval EXCEPT ![r.dimension] = None]
      <3>1. PICK remind \in BOOLEAN :
               new = [asset |-> AssetOf[s], enabled |-> old.enabled, reminder |-> remind,
                      interval |-> [old.interval EXCEPT ![r.dimension] = None],
                      baseline |-> WithComponent(old.baseline, r.dimension,
                                                 NoComponent(r.dimension))]
        BY <1>1, <2>1, <2>4, WrittenParts
      <3> QED
        BY <3>1
    <2>7. r.dimension \notin Configured(new)
      BY <2>4, <2>5, <2>6 DEF Configured
    <2> QED
      BY <1>6, <2>3, <2>7, RemoveNoOp, MutateParts
  <1>7. CASE r.op = "enable"
    <2>1. PICK new : new = [old EXCEPT !.enabled = r.enabled]
      OBVIOUS
    <2>2. st2 = Write(st, s, new) /\ Manageable(st, s)
      BY <1>7, <2>1, MutateParts, EnableChanges
    <2>3. Manageable(st2, s) /\ st2.schedules[s] = new
      BY <1>0, <2>2
    <2>4. old \in ScheduleRecords(s) /\ r.enabled \in BOOLEAN
      BY <1>1, <1>7, <2>2, ManageableParts, RequestParts
    <2>5. [new EXCEPT !.enabled = r.enabled] = new
      BY <2>1, <2>4 DEF ScheduleRecords
    <2> QED
      BY <1>7, <2>3, <2>5, EnableNoOp, MutateParts
  <1> QED
    BY <1>2, <1>3, <1>4, <1>5, <1>6, <1>7

\* What a recorded, voided or corrected event looks like where the request has landed.
Landed(st, r) ==
    /\ r.op = "create" =>
          r.schedule \in Kept(st) /\ st.schedules[r.schedule] = r.record
    /\ r.op \in {"record", "void", "correct"} =>
          r.event \in Recorded(st) /\ Correctors(st, r.event) = {}
    /\ r.op = "record" => st.events[r.event] = Described(r, r.asset, None)
    /\ r.op = "void" => st.events[r.event].state = r.reason
    /\ r.op = "correct" =>
          /\ r.target \in Recorded(st) /\ st.events[r.target].state = r.reason
          /\ st.events[r.event] = Described(r, st.events[r.target].asset, r.target)

LEMMA EventLanded ==
  ASSUME NEW st, Loads(st), NEW ctx, NEW r \in Requests,
         r.op \in {"record", "void", "correct"},
         Mutate(st, ctx, r).outcome = "changed", NEW st2, st2 = Mutate(st, ctx, r).st
  PROVE  Landed(st2, r)
  <1>0. st \in Stores /\ Loads(st2) /\ st2 \in Stores
    BY MutateLoads, LoadsParts
  <1>1. CASE r.op = "record"
    <2>1. PICK x : x = Described(r, r.asset, None)
      OBVIOUS
    <2>2. /\ r.event \in Events \ Recorded(st) /\ x \in EventRecords /\ x.state = "active"
          /\ st2 = WithEvent(st, r.event, x)
      BY <1>1, <2>1, RecordRequest, DescribedParts
    <2>3. st2.events[r.event] = x /\ r.event \in Recorded(st2)
      BY <1>0, <2>2, WithEventParts
    <2>4. Correctors(st2, r.event) = {}
      BY <1>0, <2>2, <2>3, NoCorrectors
    <2> QED
      BY <1>1, <2>1, <2>3, <2>4 DEF Landed
  <1>2. CASE r.op = "void"
    <2>1. /\ r.event \in Recorded(st) /\ st.events[r.event].state = "active"
          /\ r.reason \in Reasons /\ st2 = Voided(st, r.event, r.reason)
      BY <1>2, VoidRequest
    <2>2. /\ st2.events[r.event].state = r.reason /\ r.event \in Recorded(st2)
          /\ Correctors(st2, r.event) = Correctors(st, r.event)
      BY <1>0, <2>1, VoidedParts
    <2>3. Correctors(st, r.event) = {}
      BY <2>1, NoCorrectors, LoadsParts
    <2> QED
      BY <1>2, <2>2, <2>3 DEF Landed
  <1>3. CASE r.op = "correct"
    <2>1. PICK a, st1, x :
            /\ a = st.events[r.target].asset
            /\ st1 = Voided(st, r.target, r.reason)
            /\ x = Described(r, a, r.target)
      OBVIOUS
    <2>2. /\ r.event \in Events \ Recorded(st) /\ r.target \in Recorded(st)
          /\ r.reason \in Reasons /\ Loads(st1) /\ st2 = WithEvent(st1, r.event, x)
          /\ a \in Assets /\ r.links \in Links /\ r.entry \in Entries
      BY <1>3, <2>1, CorrectRequest
    <2>3. r.target \in Events /\ st1 \in Stores
      BY <2>2, LoadsParts
    <2>4. x \in EventRecords /\ x.state = "active"
      BY <2>1, <2>2, <2>3, DescribedParts
    <2>5. /\ st1.events[r.target].state = r.reason /\ st1.events[r.target].asset = a
          /\ Recorded(st1) = Recorded(st)
      BY <1>0, <2>1, <2>2, VoidedParts
    <2>6. /\ st2.events[r.event] = x /\ st2.events[r.target] = st1.events[r.target]
          /\ r.event \in Recorded(st2) /\ r.target \in Recorded(st2)
      BY <2>2, <2>3, <2>4, <2>5, WithEventParts
    <2>7. Correctors(st2, r.event) = {}
      BY <1>0, <2>2, <2>4, <2>6, NoCorrectors
    <2> QED
      BY <1>3, <2>1, <2>5, <2>6, <2>7 DEF Landed
  <1> QED
    BY <1>1, <1>2, <1>3

\* Where it has landed it is recognised, whatever the moment.
LEMMA LandedReplay ==
  ASSUME NEW st, NEW ctx, NEW r \in Requests, r.op \in {"create", "record", "correct", "void"},
         Landed(st, r)
  PROVE  Mutate(st, ctx, r).outcome = "replay"
  <1>1. CASE r.op = "create"
    BY <1>1, CreateReplay, MutateParts DEF Landed
  <1>2. CASE r.op = "record"
    BY <1>2, RecordReplay, MutateParts DEF Landed
  <1>3. CASE r.op = "void"
    <2>1. r.reason # "active"
      BY <1>3, RequestParts, MaintenanceAssumption
    <2> QED
      BY <1>3, <2>1, VoidReplay, MutateParts DEF Landed
  <1>4. CASE r.op = "correct"
    BY <1>4, CorrectReplay, MutateParts DEF Landed
  <1> QED
    BY <1>1, <1>2, <1>3, <1>4

LEMMA LandedWhenArchived ==
  ASSUME NEW st \in Stores, NEW r, Landed(st, r), NEW st2, st2 = [st EXCEPT !.archived = Assets]
  PROVE  Landed(st2, r)
  <1>1. st2.schedules = st.schedules /\ st2.events = st.events
    BY DEF Stores
  <1>2. /\ Kept(st2) = Kept(st) /\ Recorded(st2) = Recorded(st)
        /\ \A e : Correctors(st2, e) = Correctors(st, e)
    BY <1>1 DEF Kept, Recorded, Correctors
  <1> QED
    BY <1>1, <1>2 DEF Landed

\* Nothing that has landed is reported as a failure or done twice, except a deletion.
THEOREM RetryIsRecognisedHolds == Spec => []RetryIsRecognised
  <1>1. ASSUME IInv, NEW r \in Requests, r.op # "delete", NEW ctx \in Contexts,
               NEW result, result = Mutate(store, ctx, r), result.outcome = "changed"
        PROVE  /\ Told(result.st, ctx, r) = "done"
               /\ r.op \in {"create", "record", "correct", "void"} =>
                  \A later \in Contexts :
                     Mutate([result.st EXCEPT !.archived = Assets], later, r).outcome = "replay"
    <2>1. PICK st2, st3 : st2 = result.st /\ st3 = [st2 EXCEPT !.archived = Assets]
      OBVIOUS
    <2>2. Loads(store) /\ st2 = Mutate(store, ctx, r).st /\ st2 \in Stores
      BY <1>1, <2>1, MutateLoads, LoadsParts DEF IInv
    <2>3. /\ r.op \in {"create", "record", "correct", "void"} => Landed(st2, r)
          /\ Mutate(st2, ctx, r).outcome \in {"replay", "no_op"}
      <3>1. CASE r.op \in {"create", "edit", "set_anchor", "add", "remove", "enable"}
        BY <1>1, <2>2, <3>1, ScheduleRetry DEF Landed
      <3>2. CASE r.op \in {"record", "void", "correct"}
        BY <1>1, <2>2, <3>2, EventLanded, LandedReplay
      <3> QED
        BY <1>1, <3>1, <3>2, RequestParts
    <2>4. Told(st2, ctx, r) = "done"
      BY <2>3 DEF Told
    <2>5. ASSUME r.op \in {"create", "record", "correct", "void"}, NEW later \in Contexts
          PROVE  Mutate(st3, later, r).outcome = "replay"
      BY <2>1, <2>2, <2>3, <2>5, LandedWhenArchived, LandedReplay
    <2> QED
      BY <2>1, <2>4, <2>5
  <1>2. IInv => RetryIsRecognised
    BY <1>1 DEF RetryIsRecognised
  <1> QED
    BY <1>2, Invariant, PTL
=============================================================================
