----------------------------- MODULE Maintenance -----------------------------
(***************************************************************************)
(* Maintenance schedules and events of the Asset Store, and the requests   *)
(* that change them.  A request is a pure function of one snapshot and its *)
(* context (today, the current Runtime); the Store runs it under its lock  *)
(* and saves a changed result.  When the save is ambiguous the same        *)
(* request is run once more on what is durable: a replay proves that it    *)
(* landed.  Forms keep one UUID per draft and send it again after an       *)
(* unknown answer, so any request may come back at any later time, after   *)
(* other forms, an Archive, or a clock set back.                           *)
(*                                                                         *)
(* A name goes with the interval values, an event's title and notes with   *)
(* its date.  The Store's protocol itself is module AssetStore.            *)
(***************************************************************************)
EXTENDS Integers, FiniteSets

CONSTANTS
    Assets,
    Schedules,   \* schedule UUIDs
    Events,      \* event UUIDs
    AssetOf,     \* the Asset each draft of a schedule is for
    Reasons,     \* void reasons
    Values,      \* interval values
    Entries,     \* [date, meter] an event may say: performed_date, runtime_seconds
    Baselines,   \* [date, meter] a starting point may say
    Contexts     \* [today, meter] of the moments a request may run at

ASSUME MaintenanceAssumption ==
    /\ AssetOf \in [Schedules -> Assets]
    /\ 0 \notin Assets \union Events      \* stands for what is absent
    /\ "active" \notin Reasons
    /\ Values \subseteq Nat \ {0}
    /\ \A x \in Entries \union Baselines : x.date \in Nat \ {0} /\ x.meter \in Nat \union {-1}
    /\ \A c \in Contexts : c.today \in Nat \ {0} /\ c.meter \in Nat \union {-1}

VARIABLES
    schedules,  \* maintenance_schedules
    events,     \* maintenance_events
    archived    \* Assets with archived_at

vars == <<schedules, events, archived>>
store == [schedules |-> schedules, events |-> events, archived |-> archived]

-----------------------------------------------------------------------------
(* Records                                                                   *)

None == 0
Unknown == -1
NoBaseline == [date |-> None, meter |-> Unknown]
NoSchedule == [asset |-> None]
NoEvent == [asset |-> None]

Dimensions == {"calendar", "runtime"}

\* Values of one component of a starting point, the empty one among them.
NoComponent(d) == IF d = "calendar" THEN None ELSE Unknown
Components(d) ==
    {NoComponent(d)} \union {IF d = "calendar" THEN b.date ELSE b.meter : b \in Baselines}

BaselineRecords == [date: Components("calendar"), meter: Components("runtime")]

Configured(record) == {d \in Dimensions : record.interval[d] # None}

\* _require_anchor_dimensions: no component without its interval.
Fits(baseline, dimensions) ==
    /\ baseline.date # None => "calendar" \in dimensions
    /\ baseline.meter # Unknown => "runtime" \in dimensions

\* validate_maintenance_schedule: an interval, and neither a baseline component
\* nor a reminder without its interval.
ScheduleRecords(s) ==
    {r \in [asset: {AssetOf[s]}, enabled: BOOLEAN, reminder: BOOLEAN,
            interval: [Dimensions -> Values \union {None}],
            baseline: BaselineRecords] :
        /\ Configured(r) # {}
        /\ "calendar" \notin Configured(r) => ~r.reminder
        /\ Fits(r.baseline, Configured(r))}

\* "active" has voided_at None; the others are void reasons, None among them.
EventRecords ==
    [asset: Assets, links: SUBSET Schedules, entry: Entries,
     state: {"active"} \union Reasons, corrects: Events \union {None}]

Kept(st) == {s \in Schedules : st.schedules[s] # NoSchedule}
Recorded(st) == {e \in Events : st.events[e] # NoEvent}

TypeOK ==
    /\ \A s \in Kept(store) : schedules[s] \in ScheduleRecords(s)
    /\ \A e \in Recorded(store) : events[e] \in EventRecords
    /\ archived \subseteq Assets

\* is_baseline_locked, can_hard_delete_schedule: voided events count.
Referenced(st) == UNION {st.events[e].links : e \in Recorded(st)}

Correctors(st, e) == {c \in Recorded(st) : st.events[c].corrects = e}

\* validate_maintenance_event and validate_correction_graph.
ValidStore(st) ==
    /\ \A e \in Recorded(st) : \A s \in st.events[e].links :
        s \in Kept(st) /\ st.schedules[s].asset = st.events[e].asset
    /\ \A e \in Recorded(st) : st.events[e].corrects # None =>
        LET target == st.events[e].corrects
        IN /\ target \in Recorded(st)
           /\ st.events[target].asset = st.events[e].asset
           /\ st.events[target].state # "active"
           /\ Cardinality(Correctors(st, target)) = 1
    /\ \A cycle \in (SUBSET Recorded(st)) \ {{}} :
        \E e \in cycle : st.events[e].corrects \notin cycle

-----------------------------------------------------------------------------
(* Requests                                                                  *)

\* Links of an event with the starting points its form has named.
Links == {l \in [all: SUBSET Schedules, confirmed: SUBSET Schedules] : l.confirmed \subseteq l.all}

Requests ==
    (UNION {[op: {"create"}, schedule: {s}, record: ScheduleRecords(s)] : s \in Schedules})
    \union [op: {"edit"}, schedule: Schedules, enabled: BOOLEAN, reminder: BOOLEAN,
            interval: [Dimensions -> Values \union {None}]]
    \union [op: {"set_anchor"}, schedule: Schedules,
            baseline: BaselineRecords]
    \union (UNION {[op: {"add"}, schedule: Schedules, dimension: {d},
                    component: Components(d), value: Values] : d \in Dimensions})
    \union [op: {"remove"}, schedule: Schedules, dimension: Dimensions, confirmed: BOOLEAN]
    \union [op: {"enable"}, schedule: Schedules, enabled: BOOLEAN]
    \union [op: {"delete"}, schedule: Schedules]
    \union [op: {"record"}, event: Events, asset: Assets, links: Links, entry: Entries]
    \union [op: {"void"}, event: Events, reason: Reasons]
    \union [op: {"correct"}, event: Events, target: Events, links: Links, entry: Entries,
            reason: Reasons]

\* MutationOutcome with the snapshot that goes with it; a raise is "refused".
Unchanged(st, outcome) == [outcome |-> outcome, st |-> st]
Refused(st) == Unchanged(st, "refused")
Changed(st) == [outcome |-> "changed", st |-> st]
WithSchedule(st, s, record) == Changed([st EXCEPT !.schedules[s] = record])

NoOpOr(st, s, record) ==
    IF record = st.schedules[s] THEN Unchanged(st, "no_op") ELSE WithSchedule(st, s, record)

Locked(st, s) == s \in Referenced(st)

\* _require_schedule and _reject_archived.
Manageable(st, s) == s \in Kept(st) /\ st.schedules[s].asset \notin st.archived

\* M-8, M-9 and the rule against dates in the future; unknown compares with nothing.
PlausibleDate(ctx, date) == date <= ctx.today
PlausibleMeter(ctx, meter) == ctx.meter = Unknown \/ meter <= ctx.meter
Plausible(ctx, x) == PlausibleDate(ctx, x.date) /\ PlausibleMeter(ctx, x.meter)

Create(st, ctx, r) ==
    IF r.schedule \in Kept(st)
    THEN IF st.schedules[r.schedule] = r.record THEN Unchanged(st, "replay") ELSE Refused(st)
    ELSE IF r.record.asset \in st.archived \/ ~Plausible(ctx, r.record.baseline)
    THEN Refused(st) ELSE WithSchedule(st, r.schedule, r.record)

Edit(st, ctx, r) ==
    LET old == st.schedules[r.schedule]
    IN IF \/ ~Manageable(st, r.schedule)
          \/ Configured(r) # Configured(old)
          \/ r.reminder /\ "calendar" \notin Configured(r)
       THEN Refused(st)
       ELSE NoOpOr(st, r.schedule, [old EXCEPT !.interval = r.interval, !.enabled = r.enabled,
                                               !.reminder = r.reminder])

SetAnchor(st, ctx, r) ==
    LET old == st.schedules[r.schedule]
    IN IF ~Manageable(st, r.schedule) \/ ~Fits(r.baseline, Configured(old)) THEN Refused(st)
       ELSE IF r.baseline = old.baseline THEN Unchanged(st, "no_op")
       ELSE IF Locked(st, r.schedule) \/ ~Plausible(ctx, r.baseline) THEN Refused(st)
       ELSE WithSchedule(st, r.schedule, [old EXCEPT !.baseline = r.baseline])

Component(baseline, d) == IF d = "calendar" THEN baseline.date ELSE baseline.meter
WithComponent(baseline, d, value) ==
    IF d = "calendar" THEN [baseline EXCEPT !.date = value] ELSE [baseline EXCEPT !.meter = value]
PlausibleComponent(ctx, d, value) ==
    IF d = "calendar" THEN PlausibleDate(ctx, value) ELSE PlausibleMeter(ctx, value)

\* Mutant: an interval added again brings a new starting point to a locked schedule.
AddIntervalUnlocked(st, ctx, r) ==
    LET old == st.schedules[r.schedule]
    IN IF \/ ~Manageable(st, r.schedule) \/ r.dimension \in Configured(old)
          \/ /\ r.component # NoComponent(r.dimension)
             /\ ~PlausibleComponent(ctx, r.dimension, r.component)
       THEN Refused(st)
       ELSE WithSchedule(st, r.schedule,
                [old EXCEPT !.interval[r.dimension] = r.value,
                            !.baseline = WithComponent(@, r.dimension, r.component)])

AddInterval(st, ctx, r) ==
    LET old == st.schedules[r.schedule]
        given == r.component # NoComponent(r.dimension)
    IN IF ~Manageable(st, r.schedule) THEN Refused(st)
       ELSE IF r.dimension \in Configured(old)
       THEN IF /\ r.value = old.interval[r.dimension]
               /\ given => r.component = Component(old.baseline, r.dimension)
            THEN Unchanged(st, "no_op") ELSE Refused(st)
       ELSE IF /\ given
               /\ \/ Locked(st, r.schedule)
                  \/ ~PlausibleComponent(ctx, r.dimension, r.component)
       THEN Refused(st)
       ELSE WithSchedule(st, r.schedule,
                [old EXCEPT !.interval[r.dimension] = r.value,
                            !.baseline = WithComponent(@, r.dimension, r.component)])

RemoveInterval(st, ctx, r) ==
    LET old == st.schedules[r.schedule]
        destroys == Component(old.baseline, r.dimension) # NoComponent(r.dimension)
    IN IF ~Manageable(st, r.schedule) THEN Refused(st)
       ELSE IF r.dimension \notin Configured(old) THEN Unchanged(st, "no_op")
       ELSE IF \/ Configured(old) = {r.dimension}
               \/ destroys /\ Locked(st, r.schedule) /\ ~r.confirmed
       THEN Refused(st)
       ELSE WithSchedule(st, r.schedule,
                [old EXCEPT !.interval[r.dimension] = None,
                            !.baseline = WithComponent(@, r.dimension, NoComponent(r.dimension)),
                            !.reminder = @ /\ r.dimension # "calendar"])

\* Mutant: enabling does not look at the Archive state.
SetEnabledArchived(st, ctx, r) ==
    IF r.schedule \notin Kept(st) THEN Refused(st)
    ELSE NoOpOr(st, r.schedule, [st.schedules[r.schedule] EXCEPT !.enabled = r.enabled])

SetEnabled(st, ctx, r) ==
    IF ~Manageable(st, r.schedule) THEN Refused(st)
    ELSE NoOpOr(st, r.schedule, [st.schedules[r.schedule] EXCEPT !.enabled = r.enabled])

\* Mutant: only events that count keep a schedule.
DeleteUnused(st, ctx, r) ==
    IF \/ ~Manageable(st, r.schedule)
       \/ \E e \in Recorded(st) : st.events[e].state = "active" /\ r.schedule \in st.events[e].links
    THEN Refused(st) ELSE WithSchedule(st, r.schedule, NoSchedule)

Delete(st, ctx, r) ==
    IF ~Manageable(st, r.schedule) \/ Locked(st, r.schedule)
    THEN Refused(st) ELSE WithSchedule(st, r.schedule, NoSchedule)

-----------------------------------------------------------------------------
(* Events                                                                    *)

\* The event a request describes; the key of replay equality.
Described(r, asset, corrects) ==
    [asset |-> asset, links |-> r.links.all, entry |-> r.entry,
     state |-> "active", corrects |-> corrects]

\* event_business_key and _is_active_uncorrected.
SameAndActive(st, e, described) == st.events[e] = described /\ Correctors(st, e) = {}

\* _require_links: schedules of the event's own Asset, disabled ones too.
LinksExist(st, asset, links) ==
    \A s \in links : s \in Kept(st) /\ st.schedules[s].asset = asset

NewlyLocked(st, links) ==
    {s \in links \ Referenced(st) : st.schedules[s].baseline # NoBaseline}

\* Mutant: an archived Asset refuses before the replay is recognised.
RecordArchivedFirst(st, ctx, r) ==
    LET described == Described(r, r.asset, None)
    IN IF r.asset \in st.archived THEN Refused(st)
       ELSE IF r.event \in Recorded(st)
       THEN IF SameAndActive(st, r.event, described)
            THEN Unchanged(st, "replay") ELSE Refused(st)
       ELSE IF \/ ~LinksExist(st, r.asset, r.links.all) \/ ~Plausible(ctx, r.entry)
               \/ ~(NewlyLocked(st, r.links.all) \subseteq r.links.confirmed)
       THEN Refused(st)
       ELSE Changed([st EXCEPT !.events[r.event] = described])

\* Mutant: a draft sent again is written again.
RecordAgain(st, ctx, r) ==
    IF \/ r.asset \in st.archived \/ ~LinksExist(st, r.asset, r.links.all)
       \/ ~Plausible(ctx, r.entry) \/ ~(NewlyLocked(st, r.links.all) \subseteq r.links.confirmed)
    THEN Refused(st)
    ELSE Changed([st EXCEPT !.events[r.event] = Described(r, r.asset, None)])

RecordEvent(st, ctx, r) ==
    LET described == Described(r, r.asset, None)
    IN IF r.event \in Recorded(st)
       THEN IF SameAndActive(st, r.event, described)
            THEN Unchanged(st, "replay") ELSE Refused(st)
       ELSE IF \/ r.asset \in st.archived \/ ~LinksExist(st, r.asset, r.links.all)
               \/ ~Plausible(ctx, r.entry)
               \/ ~(NewlyLocked(st, r.links.all) \subseteq r.links.confirmed)
       THEN Refused(st)
       ELSE Changed([st EXCEPT !.events[r.event] = described])

\* A void by a correction is never the replay of a void by hand.
VoidEvent(st, ctx, r) ==
    IF r.event \notin Recorded(st) THEN Refused(st)
    ELSE IF st.events[r.event].state # "active"
    THEN IF Correctors(st, r.event) = {} /\ st.events[r.event].state = r.reason
         THEN Unchanged(st, "replay") ELSE Refused(st)
    ELSE Changed([st EXCEPT !.events[r.event].state = r.reason])

\* Mutant: a correction does not confirm what its new links lock.
CorrectUnconfirmed(st, ctx, r) ==
    IF \/ r.event \in Recorded(st) \/ r.target \notin Recorded(st)
       \/ st.events[r.target].state # "active"
       \/ ~LinksExist(st, st.events[r.target].asset, r.links.all) \/ ~Plausible(ctx, r.entry)
    THEN Refused(st)
    ELSE Changed([st EXCEPT !.events[r.target].state = r.reason,
                            !.events[r.event] = Described(r, st.events[r.target].asset, r.target)])

\* correct_event, allowed for archived Assets; an unchanged Runtime is not
\* compared with the current one.
CorrectEvent(st, ctx, r) ==
    LET target == st.events[r.target]
        described == Described(r, target.asset, r.target)
    IN IF r.event \in Recorded(st)
       THEN IF /\ r.target \in Recorded(st)
               /\ SameAndActive(st, r.event, described)
               /\ target.state = r.reason
            THEN Unchanged(st, "replay") ELSE Refused(st)
       ELSE IF \/ r.target \notin Recorded(st) \/ target.state # "active"
               \/ ~LinksExist(st, target.asset, r.links.all)
               \/ ~PlausibleDate(ctx, r.entry.date)
               \/ /\ r.entry.meter # target.entry.meter
                  /\ ~PlausibleMeter(ctx, r.entry.meter)
               \/ ~(NewlyLocked(st, r.links.all) \subseteq r.links.confirmed)
       THEN Refused(st)
       ELSE Changed([st EXCEPT !.events[r.target].state = r.reason,
                               !.events[r.event] = described])

\* mutate_maintenance.
Mutate(st, ctx, r) ==
    CASE r.op = "create" -> Create(st, ctx, r)
      [] r.op = "edit" -> Edit(st, ctx, r)
      [] r.op = "set_anchor" -> SetAnchor(st, ctx, r)
      [] r.op = "add" -> AddInterval(st, ctx, r)
      [] r.op = "remove" -> RemoveInterval(st, ctx, r)
      [] r.op = "enable" -> SetEnabled(st, ctx, r)
      [] r.op = "delete" -> Delete(st, ctx, r)
      [] r.op = "record" -> RecordEvent(st, ctx, r)
      [] r.op = "void" -> VoidEvent(st, ctx, r)
      [] r.op = "correct" -> CorrectEvent(st, ctx, r)

-----------------------------------------------------------------------------
(* Actions                                                                   *)

Init ==
    /\ schedules = [s \in Schedules |-> NoSchedule]
    /\ events = [e \in Events |-> NoEvent]
    /\ archived = {}

\* What the caller is told after the save of a changed result is ambiguous: the
\* resolver of async_mutate_maintenance runs the request on the durable snapshot.
Told(durable, ctx, r) ==
    IF Mutate(durable, ctx, r).outcome \in {"replay", "no_op"} THEN "done" ELSE "failed"

\* A request that changes something; its save lands, or is ambiguous and landed,
\* or did not.  Refused, unchanged and repeated requests leave everything as it is.
\* Days pass, a clock is set back, and Runtime grows between any two requests.
Submit(r, ctx) ==
    LET result == Mutate(store, ctx, r)
    IN /\ result.outcome = "changed"
       /\ schedules' = result.st.schedules /\ events' = result.st.events
       /\ UNCHANGED archived

\* apply_archive_request.
SetArchived ==
    /\ \E a \in Assets : archived' = IF a \in archived THEN archived \ {a} ELSE archived \union {a}
    /\ UNCHANGED <<schedules, events>>

Next ==
    \/ \E r \in Requests, ctx \in Contexts : Submit(r, ctx)
    \/ SetArchived

Spec == Init /\ [][Next]_vars

-----------------------------------------------------------------------------
(* Properties                                                                *)

\* Every snapshot the requests can lead to loads again: records have their shape (a
\* reminder only with a calendar interval, a starting point for what is configured),
\* references resolve inside
\* one Asset, each event has at most one corrector and is then void, and the
\* corrections have no cycle (validate_maintenance_collections).
StoreIsValid == TypeOK /\ ValidStore(store)

\* Events are never deleted or edited: whatever is sent again, an event keeps what
\* was recorded, and once void it stays void for the same reason
\* (docs/maintenance-store-v4-schema.md: "Events are never deleted in 0.8.x").
HistoryIsPermanent ==
    [][\A e \in Recorded(store) :
        /\ events'[e] \in {[events[e] EXCEPT !.state = s] : s \in {"active"} \union Reasons}
        /\ events[e].state # "active" => events'[e] = events[e]]_vars

\* The starting point of a schedule that any event has referenced, void or not,
\* never changes to another value, and an interval that is removed and added again
\* does not bring a new one; what can happen is that a component goes with its
\* interval (is_baseline_locked, remove_interval).
LockedBaselineIsFinal ==
    [][\A s \in Referenced(store) : \A d \in Dimensions :
        LET before == Component(schedules[s].baseline, d)
            after == Component(schedules'[s].baseline, d)
        IN after # before => after = NoComponent(d) /\ d \notin Configured(schedules'[s])]_vars

\* While an Asset is archived its schedules do not change, and its history changes
\* only by voiding an event, with or without a correction in its place.
ArchivedIsFrozen ==
    [][\A a \in archived \intersect archived' :
        /\ \A s \in Schedules : AssetOf[s] = a => schedules'[s] = schedules[s]
        /\ \A e \in Events \ Recorded(store) : events'[e] # NoEvent /\ events'[e].asset = a =>
            LET target == events'[e].corrects
            IN target \in Recorded(store) /\ events[target].state = "active"]_vars

\* No event locks a starting point that its form has not named to the person, even
\* if another form changed the schedule since (_require_baseline_confirmation).
LocksAreConfirmed ==
    \A r \in {q \in Requests : q.op \in {"record", "correct"}}, ctx \in Contexts :
        LET result == Mutate(store, ctx, r)
        IN \A s \in Referenced(result.st) \ Referenced(store) :
            schedules[s].baseline # NoBaseline => s \in r.links.confirmed

\* A request that has landed is done when it is sent again, so that an ambiguous
\* save is never reported as a failure and nothing is done twice.  Deleting is the
\* exception: its repetition is not found, so a delete that landed in an ambiguous
\* save is reported as a definite failure (async_mutate_maintenance).  Requests with
\* an identity of their own (create, record, correct) and voids are recognised even
\* when the Asset has been archived, the clock set back, or the Runtime total changed.
RetryIsRecognised ==
    \A r \in {q \in Requests : q.op # "delete"}, ctx \in Contexts :
        LET result == Mutate(store, ctx, r)
        IN result.outcome = "changed" =>
            /\ Told(result.st, ctx, r) = "done"
            /\ r.op \in {"create", "record", "correct", "void"} =>
                \A later \in Contexts :
                    Mutate([result.st EXCEPT !.archived = Assets], later, r).outcome = "replay"
=============================================================================
