------------------------ MODULE MaintenanceProjection ------------------------
(***************************************************************************)
(* The live projection of one Maintenance Schedule: what its binary        *)
(* sensors show while it is enabled and its Asset active.  It is never     *)
(* stored; each publish and each midnight derives it again from the        *)
(* schedule, the Asset's events, the civil date, and the Asset's Runtime   *)
(* total.  The projection is a pure function; the state machine is the     *)
(* world it is asked about: days pass, a clock is set back, Runtime is     *)
(* measured, events are recorded with old dates and voided.                *)
(***************************************************************************)
EXTENDS CivilCalendar, FiniteSets, FiniteSetsExt

CONSTANTS
    Days,        \* the dates the clock shows; a gap is a time without Home Assistant
    EventDays,   \* the dates events are recorded for
    Events,      \* identities of events that may be recorded
    Intervals,   \* calendar intervals, [value, unit]
    Leads,       \* lead_days of preparation reminders
    BaselineDays, BaselineRuntimes,  \* components of initial anchors
    MaxRuntime,  \* bound on the Runtime total
    RuntimeInterval

ASSUME ProjectionAssumption ==
    /\ \A d \in Days : IsDate(d)
    /\ EventDays \subseteq Days /\ BaselineDays \subseteq Days
    /\ BaselineRuntimes \subseteq 0..MaxRuntime
    /\ \A i \in Intervals : i.value \in Nat \ {0} /\ i.unit \in {"days", "months", "years"}
    /\ Leads \subseteq Nat \ {0}
    /\ MaxRuntime \in Nat /\ RuntimeInterval \in Nat \ {0}

VARIABLES
    schedule,  \* the schedule's record
    events,    \* the Asset's events that reference it
    today,     \* Home Assistant's local civil date
    runtime    \* canonical Runtime of the Asset

vars == <<schedule, events, today, runtime>>

-----------------------------------------------------------------------------
(* Records                                                                   *)

Unknown == -1       \* runtime_seconds None
NoInterval == [value |-> 0, unit |-> "none"]
NoRuntime == 0      \* runtime_interval_seconds None
NoLead == 0         \* preparation_reminder None
NoEvent == [date |-> NoDate, runtime |-> Unknown, voided |-> FALSE]
NoBaseline == [date |-> NoDate, runtime |-> Unknown]

Runtimes == {Unknown} \union 0..MaxRuntime

\* validate_maintenance_schedule: an interval, and no baseline component and no
\* reminder without its interval.
Schedules ==
    {s \in [calendar: Intervals \union {NoInterval},
            runtime: {NoRuntime, RuntimeInterval},
            lead: Leads \union {NoLead},
            baseline: [date: BaselineDays \union {NoDate},
                       runtime: BaselineRuntimes \union {Unknown}]] :
        /\ s.calendar # NoInterval \/ s.runtime # NoRuntime
        /\ s.calendar = NoInterval => s.lead = NoLead /\ s.baseline.date = NoDate
        /\ s.runtime = NoRuntime => s.baseline.runtime = Unknown}

Recorded == {e \in Events : events[e] # NoEvent}

TypeOK ==
    /\ schedule \in Schedules
    /\ events \in [Events -> [date: EventDays \union {NoDate}, runtime: Runtimes, voided: BOOLEAN]]
    /\ \A e \in Events : events[e].voided => events[e].date # NoDate
    /\ today \in Days
    /\ runtime \in Runtimes

-----------------------------------------------------------------------------
(* The effective anchor                                                      *)

\* relevant_events: voided ones no longer count.
Relevant == {e \in Recorded : ~events[e].voided}

LatestDate == Max({events[e].date : e \in Relevant})

\* latest_event_group: every event of the latest date, without a tie-breaker.
LatestGroup == {e \in Relevant : events[e].date = LatestDate}

InitialAnchor == [source |-> "initial_anchor", calendar |-> schedule.baseline.date,
                  runtime |-> schedule.baseline.runtime]
UnknownAnchor == [source |-> "unknown", calendar |-> NoDate, runtime |-> Unknown]

\* Mutant: a missing Runtime is filled from the baseline.
FilledGroupAnchor ==
    [source |-> "event_group", calendar |-> LatestDate,
     runtime |-> LET single == CHOOSE e \in LatestGroup : TRUE
                 IN IF Cardinality(LatestGroup) = 1 /\ events[single].runtime # Unknown
                    THEN events[single].runtime
                    ELSE schedule.baseline.runtime]

\* _event_group_anchor: Runtime only from a single event.
EventGroupAnchor ==
    [source |-> "event_group", calendar |-> LatestDate,
     runtime |-> IF Cardinality(LatestGroup) = 1
                 THEN events[CHOOSE e \in LatestGroup : TRUE].runtime
                 ELSE Unknown]

\* A date-less baseline is ordered against the group by Runtime evidence alone.
GroupAfterBaseline ==
    \A e \in LatestGroup : events[e].runtime >= schedule.baseline.runtime
GroupBeforeBaseline ==
    \A e \in LatestGroup : events[e].runtime \in 0..(schedule.baseline.runtime - 1)

\* Mutant: a baseline is superseded by any event, as if no event were backdated.
LastEventAnchor ==
    CASE Relevant # {} -> EventGroupAnchor
      [] schedule.baseline = NoBaseline -> UnknownAnchor
      [] OTHER -> InitialAnchor

EffectiveAnchor ==
    IF Relevant = {}
    THEN IF schedule.baseline = NoBaseline THEN UnknownAnchor ELSE InitialAnchor
    ELSE IF schedule.baseline = NoBaseline THEN EventGroupAnchor
    ELSE IF schedule.baseline.date # NoDate
    THEN IF LatestDate >= schedule.baseline.date THEN EventGroupAnchor ELSE InitialAnchor
    ELSE IF GroupAfterBaseline THEN EventGroupAnchor
    ELSE IF GroupBeforeBaseline THEN InitialAnchor
    ELSE UnknownAnchor

\* Rules B and B': an event not later than the anchor has measured more.
Contradicted(anchor) ==
    \E e \in Relevant :
        /\ anchor.calendar # NoDate => events[e].date <= anchor.calendar
        /\ events[e].runtime > anchor.runtime

\* apply_runtime_safety; rule A compares with the present total.
SafeAnchor ==
    LET anchor == EffectiveAnchor
        doubtful == Contradicted(anchor) \/ (runtime # Unknown /\ anchor.runtime > runtime)
    IN IF anchor.runtime # Unknown /\ doubtful THEN [anchor EXCEPT !.runtime = Unknown]
       ELSE anchor

-----------------------------------------------------------------------------
(* Conditions                                                                *)

Compare(current, due) ==
    CASE current < due -> "ok" [] current = due -> "due" [] OTHER -> "overdue"

\* Mutant: a missed cycle is skipped and the next one counted.
RollingCalendarCondition ==
    LET once == AddInterval(SafeAnchor.calendar, schedule.calendar)
        due == IF once # NoDate /\ once < today
               THEN AddInterval(once, schedule.calendar) ELSE once
    IN IF SafeAnchor.calendar = NoDate \/ SafeAnchor.calendar > today \/ due = NoDate
       THEN [due |-> NoDate, state |-> "unknown"]
       ELSE [due |-> due, state |-> Compare(today, due)]

\* calendar_condition: an anchor of the future is not trusted.
CalendarCondition ==
    LET anchor == SafeAnchor.calendar
        due == IF anchor = NoDate \/ anchor > today THEN NoDate
               ELSE AddInterval(anchor, schedule.calendar)
    IN [due |-> due, state |-> IF due = NoDate THEN "unknown" ELSE Compare(today, due)]

RuntimeCondition ==
    LET anchor == SafeAnchor.runtime
    IN IF anchor = Unknown THEN [due |-> Unknown, state |-> "unknown"]
       ELSE [due |-> anchor + schedule.runtime,
             state |-> IF runtime < anchor THEN "unknown"
                       ELSE Compare(runtime, anchor + schedule.runtime)]

\* The conditions that have an interval.
States ==
    {c \in {"calendar"} : schedule.calendar # NoInterval}
    \union {c \in {"runtime"} : schedule.runtime # NoRuntime}

Condition(c) == IF c = "calendar" THEN CalendarCondition ELSE RuntimeCondition

\* combine_states: ok < unknown < due < overdue.
Combined ==
    LET states == {Condition(c).state : c \in States}
    IN IF "overdue" \in states THEN "overdue"
       ELSE IF "due" \in states THEN "due"
       ELSE IF "unknown" \in states THEN "unknown"
       ELSE "ok"

Pressing == {"due", "overdue"}

\* Mutant: the window of the reminder opens a day late.
LatePreparation ==
    LET due == CalendarCondition.due
    IN IF due = NoDate THEN "unknown"
       ELSE IF Combined \in Pressing THEN "inactive"
       ELSE IF SubtractDays(due, schedule.lead) < today THEN "active" ELSE "inactive"

\* preparation_state.  NoDate, a window before the first date, is below today.
Preparation ==
    LET due == CalendarCondition.due
    IN IF due = NoDate THEN "unknown"
       ELSE IF Combined \in Pressing THEN "inactive"
       ELSE IF SubtractDays(due, schedule.lead) <= today THEN "active" ELSE "inactive"

-----------------------------------------------------------------------------
(* The world                                                                 *)

Init ==
    /\ schedule \in Schedules
    /\ events = [e \in Events |-> NoEvent]
    /\ today \in Days /\ schedule.baseline.date <= today
    /\ runtime \in {Unknown, schedule.baseline.runtime}

\* Midnight, or a start after some days without Home Assistant.
DaysPass ==
    /\ \E d \in Days : d > today
    /\ today' = Min({d \in Days : d > today})
    /\ UNCHANGED <<schedule, events, runtime>>

\* The clock was wrongly ahead.
ClockSetBack ==
    /\ \E d \in Days : d < today
    /\ today' = Max({d \in Days : d < today})
    /\ UNCHANGED <<schedule, events, runtime>>

\* Runtime commits; tracking may start later.
RuntimeGrows ==
    /\ runtime < MaxRuntime
    /\ runtime' = runtime + 1
    /\ UNCHANGED <<schedule, events, today>>

\* record_event and correct_event: neither date nor Runtime lies in the future.
RecordEvent ==
    /\ \E e \in Events \ Recorded, d \in EventDays, r \in Runtimes :
        /\ \A f \in Events \ Recorded : e <= f
        /\ d <= today /\ r <= runtime
        /\ events' = [events EXCEPT ![e] = [date |-> d, runtime |-> r, voided |-> FALSE]]
    /\ UNCHANGED <<schedule, today, runtime>>

\* Mutant: voiding erases what was recorded.
VoidErasing ==
    /\ \E e \in Relevant : events' = [events EXCEPT ![e] = [NoEvent EXCEPT !.voided = TRUE]]
    /\ UNCHANGED <<schedule, today, runtime>>

VoidEvent ==
    /\ \E e \in Relevant : events' = [events EXCEPT ![e].voided = TRUE]
    /\ UNCHANGED <<schedule, today, runtime>>

Next ==
    \/ DaysPass \/ ClockSetBack \/ RuntimeGrows
    \/ RecordEvent \/ VoidEvent

Spec == Init /\ [][Next]_vars

-----------------------------------------------------------------------------
(* Properties                                                                *)

\* What is known of past maintenance: the baseline and each event that counts.
Evidence == {schedule.baseline} \union {[date |-> events[e].date, runtime |-> events[e].runtime] : e \in Relevant}

\* A schedule shows ok only if one single piece of evidence proves it for every
\* interval: maintenance that was done, since when neither the calendar nor the
\* Runtime interval has run out.  Never a date of one event with the Runtime of
\* another, nor an unknown taken as zero (maintenance_projection.py 175-345).
OkIsProven ==
    Combined = "ok" =>
        \E proof \in Evidence :
            /\ schedule.calendar # NoInterval =>
                /\ proof.date # NoDate
                /\ today \in proof.date..(AddInterval(proof.date, schedule.calendar) - 1)
            /\ schedule.runtime # NoRuntime =>
                /\ proof.runtime # Unknown
                /\ runtime \in proof.runtime..(proof.runtime + schedule.runtime - 1)

\* Months and years are counted from the anchor itself.  The due date is in the
\* month so many months later, on the anchor's day or, where the month has none,
\* on its last day; 31 January is followed by the end of February and then by
\* 31 March; past year 9999 there is no due date (add_calendar_interval).
DueInTheRightMonth ==
    LET anchor == SafeAnchor.calendar
        due == CalendarCondition.due
        months == IF schedule.calendar.unit = "years" THEN 12 * schedule.calendar.value
                  ELSE schedule.calendar.value
        elapsed == (Year(due) - Year(anchor)) * 12 + Month(due) - Month(anchor)
    IN schedule.calendar.unit \in {"months", "years"} /\ due # NoDate =>
        /\ IsDate(due) /\ elapsed = months
        /\ Day(due) < Day(anchor) => Month(NextDay(due)) # Month(due)
        /\ Day(due) <= Day(anchor)

\* Only a person's action ends an alarm: days that pass, with or without Home
\* Assistant, and Runtime that grows never turn due or overdue back into ok or
\* unknown, whichever interval raised it.
AlarmIsSticky ==
    [][/\ today' >= today /\ runtime' >= runtime
       /\ UNCHANGED <<schedule, events>> /\ Combined \in Pressing
       => Combined' \in Pressing]_vars

\* From one midnight to the next a calendar due date is never passed over: the
\* schedule shows due for a day before it shows overdue, and a reminder, if one is
\* configured, was active the day before (calendar_condition, preparation_state).
DueIsAnnounced ==
    [][NextDay(today) = today' /\ schedule.calendar # NoInterval =>
        /\ CalendarCondition'.state = "overdue" => CalendarCondition.state \in Pressing
        /\ (/\ CalendarCondition'.state = "due" /\ schedule.lead # NoLead
            /\ Combined \notin Pressing)
           => Preparation = "active"]_vars

\* Recording an event, whatever its date and Runtime, never moves the calendar
\* anchor to an earlier day; it may become unknown only when the baseline has no
\* date (effective_anchor: "a backdated Event never moves the anchor backward").
RecordingNeverRegresses ==
    [][Recorded # Recorded' =>
        \/ SafeAnchor'.calendar >= SafeAnchor.calendar
        \/ /\ SafeAnchor'.calendar = NoDate
           /\ schedule.baseline # NoBaseline /\ schedule.baseline.date = NoDate]_vars
=============================================================================
