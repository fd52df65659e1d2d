---------------------------- MODULE AssetHistory ----------------------------
(***************************************************************************)
(* Lifecycle transitions, replacements and Quick Create in the Asset       *)
(* Store.  A mutator makes a candidate from one snapshot; the candidate is *)
(* validated as a whole and saved, or refused.  Forms are filled in from   *)
(* an earlier snapshot and sent later, once or several times, after other  *)
(* forms, an Archive, or a clock that was set back.                        *)
(*                                                                         *)
(* Event and replacement UUIDs are fresh: an index into the history stands *)
(* for one.  Notes and reasons go with the date.  One clock gives the UTC  *)
(* time of a record and the local day.  Purchases and warranty are left    *)
(* out; the Store's protocol itself is module AssetStore.                  *)
(***************************************************************************)
EXTENDS Integers, Sequences, FiniteSets

CONSTANTS
    Manual,     \* UUIDs the Store gives to Assets made by hand
    Drafts,     \* UUIDs of Quick Create drafts
    Statuses,   \* LIFECYCLE_STATUSES
    Places,     \* [deployment, area]
    MaxClock,   \* bound: days
    MaxRecords  \* bound: Assets, events, replacements and marks together

ASSUME HistoryAssumption ==
    /\ Manual \intersect Drafts = {}
    /\ {"unknown", "active", "retired"} \subseteq Statuses
    \* What stands for something absent is none of the things.
    /\ "none" \notin Statuses /\ "no_one" \notin Manual \union Drafts
    /\ [deployment |-> "not_deployed", area |-> "none"] \in Places
    /\ MaxClock \in Nat \ {0} /\ MaxRecords \in Nat

VARIABLES
    assets,        \* assets: lifecycle, deployment, archived_at
    events,        \* lifecycle_events
    replacements   \* replacement_records

store == [assets |-> assets, events |-> events, replacements |-> replacements]
vars == <<assets, events, replacements>>

-----------------------------------------------------------------------------
(* Records                                                                   *)

Assets == Manual \union Drafts
None == 0
NoAsset == [status |-> "none"]
NotDeployed == [deployment |-> "not_deployed", area |-> "none"]
Clock == 1..MaxClock
Dates == {None} \union Clock

Born(st) == {a \in Assets : st.assets[a] # NoAsset}
ActiveAssets(st) == {a \in Born(st) : ~st.assets[a].archived}
EventsOf(st, a) == {e \in DOMAIN st.events : st.events[e].asset = a}

\* Archived or deployed Assets; they count for the bound.
Marked(st) == {a \in Born(st) : st.assets[a].archived \/ st.assets[a].place # NotDeployed}
Size(st) ==
    Cardinality(Born(st)) + Cardinality(Marked(st)) + Len(st.events) + Len(st.replacements)

ActiveRecords(st) == {r \in DOMAIN st.replacements : st.replacements[r].voided = None}

TypeOK ==
    /\ \A a \in Born(store) :
        assets[a] \in [status: Statuses, current: 0..Len(events), place: Places, archived: BOOLEAN]
    /\ events \in Seq([asset: Assets, previous: 0..MaxRecords, from: Statuses, to: Statuses,
                       date: Dates, at: Clock])
    /\ replacements \in Seq([predecessor: Assets, successor: Assets, date: Dates,
                             at: Clock, voided: Dates])

\* A date that is not known is before and after everything.
InOrder(first, second) == first = None \/ second = None \/ first <= second

\* _validate_lifecycle_graph.  Its refusal of events that no way from the current one
\* reaches is left out: events that are complete by these rules and not reached would
\* follow one another in a circle, and every mutator records an event after the one
\* it follows.
ValidChain(st, a) ==
    LET own == EventsOf(st, a)
        asset == st.assets[a]
        Event(e) == st.events[e]
    IN IF own = {} THEN asset.current = None /\ asset.status = "unknown"
       ELSE /\ asset.current \in own /\ Event(asset.current).to = asset.status
            /\ \A e \in own : Event(e).from # Event(e).to
            /\ Cardinality({e \in own : Event(e).previous = None}) = 1
            /\ \A e \in own : Event(e).previous = None => Event(e).from = "unknown"
            /\ \A e \in own : Event(e).previous # None =>
                LET before == Event(Event(e).previous)
                IN /\ before.asset = a /\ before.to = Event(e).from
                   /\ InOrder(before.date, Event(e).date) /\ before.at <= Event(e).at
            /\ \A e \in own \ {asset.current} : Cardinality({n \in own : Event(n).previous = e}) = 1

\* _validate_replacement_graph: active records are one to one, without a cycle,
\* and dated in order from one to the next.
Replaces(st, r, a, b) == st.replacements[r].successor = a /\ st.replacements[r].predecessor = b

OneToOne(st, records) ==
    \A r, q \in records : r # q =>
        /\ st.replacements[r].predecessor # st.replacements[q].predecessor
        /\ st.replacements[r].successor # st.replacements[q].successor

\* Mutant: a voided record still takes its Assets.
ValidReplacementsVoidedToo(st) ==
    /\ OneToOne(st, DOMAIN st.replacements)
    /\ \A cycle \in (SUBSET Born(st)) \ {{}} :
        \E a \in cycle : \A b \in cycle, r \in ActiveRecords(st) : ~Replaces(st, r, b, a)

\* Mutant: two Assets may have replaced each other.
ValidReplacementsOneToOne(st) == OneToOne(st, ActiveRecords(st))

ValidReplacements(st) ==
    LET active == ActiveRecords(st)
        Record(r) == st.replacements[r]
    IN /\ \A r \in DOMAIN st.replacements :
            /\ Record(r).predecessor # Record(r).successor
            /\ {Record(r).predecessor, Record(r).successor} \subseteq Born(st)
            /\ Record(r).voided # None => Record(r).at <= Record(r).voided
       /\ OneToOne(st, active)
       /\ \A r, q \in active :
            Record(r).successor = Record(q).predecessor => InOrder(Record(r).date, Record(q).date)
       /\ \A cycle \in (SUBSET Born(st)) \ {{}} :
            \E a \in cycle : \A b \in cycle, r \in active : ~Replaces(st, r, b, a)

\* _validate_store_data, with archive.py: an archived Asset is not deployed.
Valid(st) ==
    /\ \A a \in Born(st) : ValidChain(st, a)
    /\ ValidReplacements(st)
    /\ \A a \in Born(st) : st.assets[a].archived => st.assets[a].place.deployment # "deployed"

-----------------------------------------------------------------------------
(* Requests                                                                  *)

\* What a Quick Create form has captured of the Asset to be replaced.
Snapshot(st, a) ==
    [status |-> st.assets[a].status, current |-> st.assets[a].current, place |-> st.assets[a].place]

\* The commands of one draft; no_one is the absent predecessor.
QuickRequests(a, snapshots) ==
    LET new == [asset: {a}, status: Statuses, date: Dates, place: Places]
        With(r, p, e, retire, undeploy, d) ==
            [new |-> r, predecessor |-> p, expected |-> e, retire |-> retire,
             undeploy |-> undeploy, date |-> d]
    IN {With(r, "no_one", NoAsset, FALSE, FALSE, None) : r \in new}
       \union {With(r, s.asset, s.snapshot, retire, undeploy, d) :
               r \in new, s \in snapshots, retire, undeploy \in BOOLEAN, d \in Dates}

Requests(st) ==
    [op: {"lifecycle"}, asset: Assets, to: Statuses, date: Dates]
    \union [op: {"place"}, asset: Assets, place: Places]
    \union [op: {"archive"}, asset: Assets, archived: BOOLEAN]
    \union [op: {"replace"}, predecessor: Assets, successor: Assets, date: Dates]
    \union [op: {"void"}, record: DOMAIN st.replacements]
    \union [op: {"correct"}, record: DOMAIN st.replacements,
            predecessor: Assets, successor: Assets, date: Dates]

-----------------------------------------------------------------------------
(* Mutators                                                                  *)

Unchanged(st, outcome) == [outcome |-> outcome, st |-> st]
Refused(st) == Unchanged(st, "refused")

\* A raise anywhere leaves the published snapshot; so does an equal candidate.
Validated(st, candidate) ==
    IF candidate = st THEN Unchanged(st, "no_op")
    ELSE IF Valid(candidate) THEN [outcome |-> "changed", st |-> candidate]
    ELSE Refused(st)

\* _append_lifecycle_transition.
Transition(st, a, to, date, at) ==
    LET event == [asset |-> a, previous |-> st.assets[a].current, from |-> st.assets[a].status,
                  to |-> to, date |-> date, at |-> at]
    IN [st EXCEPT !.events = Append(@, event),
                  !.assets[a] = [@ EXCEPT !.status = to, !.current = Len(st.events) + 1]]

\* Asking for the state that already holds is no mistake, whatever its date.
SetLifecycle(st, now, r) ==
    IF r.asset \notin ActiveAssets(st) THEN Refused(st)
    ELSE IF r.to = st.assets[r.asset].status THEN Unchanged(st, "no_op")
    ELSE IF r.date > now THEN Refused(st)
    ELSE Validated(st, Transition(st, r.asset, r.to, r.date, now))

SetDeployment(st, now, r) ==
    IF r.asset \notin ActiveAssets(st) THEN Refused(st)
    ELSE Validated(st, [st EXCEPT !.assets[r.asset].place = r.place])

\* apply_archive_request; who else can refuse is module ArchiveInterlock.
SetArchived(st, now, r) ==
    IF r.asset \notin Born(st) THEN Refused(st)
    ELSE Validated(st, [st EXCEPT !.assets[r.asset].archived = r.archived])

\* _create_replacement_record
Replacement(p, s, date, at) ==
    [predecessor |-> p, successor |-> s, date |-> date, at |-> at, voided |-> None]

Replaceable(st, now, p, s, date) ==
    p \in ActiveAssets(st) /\ s \in ActiveAssets(st) /\ p # s /\ date <= now

WithReplacement(st, p, s, date, at) ==
    [st EXCEPT !.replacements = Append(@, Replacement(p, s, date, at))]

Replace(st, now, r) ==
    IF ~Replaceable(st, now, r.predecessor, r.successor, r.date) THEN Refused(st)
    ELSE Validated(st, WithReplacement(st, r.predecessor, r.successor, r.date, now))

\* Mutant: what is void is voided again.
VoidAgain(st, now, r) ==
    Validated(st, [st EXCEPT !.replacements[r.record].voided = now])

\* Voiding is history, and stays allowed for archived Assets.
Void(st, now, r) ==
    IF r.record \notin ActiveRecords(st) THEN Refused(st)
    ELSE Validated(st, [st EXCEPT !.replacements[r.record].voided = now])

\* Mutant: the record itself is corrected.
CorrectInPlace(st, now, r) ==
    IF \/ r.record \notin ActiveRecords(st)
       \/ ~Replaceable(st, now, r.predecessor, r.successor, r.date)
    THEN Refused(st)
    ELSE Validated(st, [st EXCEPT !.replacements[r.record] =
                            Replacement(r.predecessor, r.successor, r.date, now)])

Correct(st, now, r) ==
    IF \/ r.record \notin ActiveRecords(st)
       \/ ~Replaceable(st, now, r.predecessor, r.successor, r.date)
    THEN Refused(st)
    ELSE Validated(st, WithReplacement([st EXCEPT !.replacements[r.record].voided = now],
                                       r.predecessor, r.successor, r.date, now))

\* _create_asset_in_snapshot, _initialize_asset_lifecycle.
WithAsset(st, a, status, date, place, at) ==
    LET born == [st EXCEPT !.assets[a] = [status |-> "unknown", current |-> None,
                                         place |-> place, archived |-> FALSE]]
    IN IF status = "unknown" THEN born ELSE Transition(born, a, status, date, at)

CreateManual(st, now, a, status) ==
    Validated(st, WithAsset(st, a, status, None, NotDeployed, now))

-----------------------------------------------------------------------------
(* Quick Create                                                              *)

\* _validate_quick_create_request.
QuickValid(now, r) ==
    /\ r.new.status = "unknown" => r.new.date = None
    /\ r.new.date <= now /\ r.date <= now

Retires(r) == r.retire /\ r.expected.status \in {"active", "unknown"}
Undeploys(r) == r.undeploy /\ r.expected.place.deployment \in {"deployed", "unknown"}

\* Mutant: the predecessor is not compared.
ReplayMatchesAsset(st, r) ==
    LET asset == st.assets[r.new.asset]
        own == EventsOf(st, r.new.asset)
        related == {q \in DOMAIN st.replacements : st.replacements[q].successor = r.new.asset}
    IN /\ asset.place = r.new.place /\ asset.status = r.new.status
       /\ \A e \in own : asset.current = e /\ st.events[e].date = r.new.date
       /\ (related = {}) = (r.predecessor = "no_one")
       /\ \A q \in related : st.replacements[q].predecessor = r.predecessor

\* _quick_replay_result: everything the command made is still as it was made.
ReplayMatches(st, r) ==
    LET asset == st.assets[r.new.asset]
        own == EventsOf(st, r.new.asset)
        related == {q \in DOMAIN st.replacements :
            r.new.asset \in {st.replacements[q].predecessor, st.replacements[q].successor}}
        Initial(e) ==
            /\ asset.current = e /\ st.events[e].previous = None
            /\ st.events[e].to = r.new.status /\ st.events[e].date = r.new.date
        Retirement(e) ==
            /\ st.events[e].previous = r.expected.current
            /\ st.events[e].from = r.expected.status
            /\ st.events[e].to = "retired" /\ st.events[e].date = r.date
        Record(q) ==
            LET predecessor == st.assets[r.predecessor]
                current == predecessor.current
                at == st.replacements[q].at
            IN /\ st.replacements[q] = Replacement(r.predecessor, r.new.asset, r.date, at)
               /\ predecessor.status = IF Retires(r) THEN "retired" ELSE r.expected.status
               /\ IF Retires(r) THEN Retirement(current) /\ st.events[current].at = at
                  ELSE current = r.expected.current
               /\ predecessor.place = IF Undeploys(r) THEN NotDeployed ELSE r.expected.place
               /\ \A e \in own : st.events[e].at = at
    IN /\ asset.place = r.new.place /\ asset.status = r.new.status
       /\ Cardinality(own) = IF r.new.status = "unknown" THEN 0 ELSE 1
       /\ \A e \in own : Initial(e)
       /\ Cardinality(related) = IF r.predecessor = "no_one" THEN 0 ELSE 1
       /\ \A q \in related : Record(q)

\* What is done to the predecessor, then the record of the replacement.
Replaced(st, now, r) ==
    LET p == r.predecessor
        retired == IF Retires(r) THEN Transition(st, p, "retired", r.date, now) ELSE st
        undeployed == IF Undeploys(r) THEN [retired EXCEPT !.assets[p].place = NotDeployed] ELSE retired
    IN WithReplacement(undeployed, p, r.new.asset, r.date, now)

\* Mutant: the predecessor of a reviewed command may be archived by now.
QuickCreateArchived(st, now, r) ==
    LET new == WithAsset(st, r.new.asset, r.new.status, r.new.date, r.new.place, now)
    IN IF ~QuickValid(now, r) THEN Refused(st)
       ELSE IF r.new.asset \in Born(st)
       THEN IF ReplayMatches(st, r) THEN Unchanged(st, "replay") ELSE Refused(st)
       ELSE IF r.predecessor = "no_one" THEN Validated(st, new)
       ELSE IF r.predecessor \in Born(st) /\ r.expected = Snapshot(st, r.predecessor)
       THEN Validated(st, Replaced(new, now, r))
       ELSE Refused(st)

\* async_quick_create_asset, _quick_create_in_snapshot.
QuickCreate(st, now, r) ==
    LET new == WithAsset(st, r.new.asset, r.new.status, r.new.date, r.new.place, now)
    IN IF ~QuickValid(now, r) THEN Refused(st)
       ELSE IF r.new.asset \in Born(st)
       THEN IF ReplayMatches(st, r) THEN Unchanged(st, "replay") ELSE Refused(st)
       ELSE IF r.predecessor = "no_one" THEN Validated(st, new)
       ELSE IF r.predecessor \in ActiveAssets(st) /\ r.expected = Snapshot(st, r.predecessor)
       THEN Validated(st, Replaced(new, now, r))
       ELSE Refused(st)

-----------------------------------------------------------------------------
(* Actions                                                                   *)

Mutate(st, now, r) ==
    CASE r.op = "lifecycle" -> SetLifecycle(st, now, r)
      [] r.op = "place" -> SetDeployment(st, now, r)
      [] r.op = "archive" -> SetArchived(st, now, r)
      [] r.op = "replace" -> Replace(st, now, r)
      [] r.op = "void" -> Void(st, now, r)
      [] r.op = "correct" -> Correct(st, now, r)

Init ==
    /\ assets = [a \in Assets |-> NoAsset]
    /\ events = <<>> /\ replacements = <<>>

\* The save of a changed candidate; refused and repeated requests change nothing.
Save(result) ==
    /\ result.outcome = "changed"
    /\ Size(result.st) <= MaxRecords
    /\ assets' = result.st.assets
    /\ events' = result.st.events
    /\ replacements' = result.st.replacements

\* Days pass and the clock may be set back between any two requests.
Submit == \E r \in Requests(store), now \in Clock : Save(Mutate(store, now, r))

\* There is room for another Asset within the bound.
Room == Size(store) < MaxRecords

\* async_create_manual_asset; stands for Assets that reconciliation makes, too.
SubmitManual ==
    Room /\ \E a \in Manual \ Born(store), s \in Statuses, now \in Clock :
        Save(CreateManual(store, now, a, s))

\* Predecessors with what a form shows of them.
Shown(st) == {[asset |-> a, snapshot |-> Snapshot(st, a)] : a \in Born(st)}

SubmitQuickCreate ==
    Room /\ \E a \in Drafts \ Born(store) :
        \E r \in QuickRequests(a, Shown(store)), now \in Clock : Save(QuickCreate(store, now, r))

Next == Submit \/ SubmitManual \/ SubmitQuickCreate

Spec == Init /\ [][Next]_vars

-----------------------------------------------------------------------------
(* Properties                                                                *)

\* An Asset's lifecycle is one chain in the order it was recorded, from unknown to
\* its status, and never goes back in recorded time.  An Asset is replaced by at most
\* one and replaces at most one, and nobody is his own ancestor: in every set of
\* Assets one has no active predecessor in it.  Dates along a chain may decrease, but
\* only over an undated step (_validate_lifecycle_graph, _validate_replacement_graph).
LineagesAreSound ==
    /\ TypeOK
    /\ \A a \in Born(store) :
        LET own == EventsOf(store, a)
            Last(es) == CHOOSE e \in es \union {None} : \A x \in es : x <= e
            Status(e) == IF e = None THEN "unknown" ELSE events[e].to
        IN /\ assets[a].current = Last(own) /\ assets[a].status = Status(Last(own))
           /\ \A e \in own :
                LET before == {x \in own : x < e}
                IN /\ events[e].previous = Last(before) /\ events[e].from = Status(Last(before))
                   /\ \A x \in before : events[x].at <= events[e].at
    /\ \A family \in (SUBSET Born(store)) \ {{}} :
        \E a \in family : \A r \in ActiveRecords(store) :
            replacements[r].successor = a => replacements[r].predecessor \notin family
    /\ \A a \in Born(store) :
        /\ Cardinality({r \in ActiveRecords(store) : replacements[r].predecessor = a}) <= 1
        /\ Cardinality({r \in ActiveRecords(store) : replacements[r].successor = a}) <= 1

\* Nothing that was recorded goes or changes: a transition keeps its place, dates
\* and statuses, and a replacement can only be voided, once, and at a time not
\* before it was recorded (models.py: "Immutable lifecycle transition").
HistoryIsPermanent ==
    [][/\ \A e \in DOMAIN events : e \in DOMAIN events' /\ events'[e] = events[e]
       /\ \A r \in DOMAIN replacements :
            /\ r \in DOMAIN replacements'
            /\ replacements'[r] \in {[replacements[r] EXCEPT !.voided = t] : t \in {None} \union replacements[r].at..MaxClock}
            /\ replacements[r].voided # None => replacements'[r] = replacements[r]]_vars

\* While an Asset is archived, nothing appends to its lifecycle, moves it, or makes
\* it part of a new replacement, also not the second half of a command about
\* another Asset: Quick Create's predecessor, the new end of a correction
\* (_require_active_asset).
ArchivedIsFrozen ==
    [][\A a \in Born(store) : assets[a].archived =>
        /\ assets'[a] = [assets[a] EXCEPT !.archived = assets'[a].archived]
        /\ \A r \in ActiveRecords(store') :
            a \in {replacements'[r].predecessor, replacements'[r].successor} =>
                r \in ActiveRecords(store)]_vars

\* Quick Create's retry is exact: after a draft has landed, precisely those commands
\* for it are answered as done that would have had this very effect.  Another
\* command with the same UUID is a conflict, and the own one never is, whatever the
\* predecessor's status, deployment and history (_quick_replay_result).
ReplayIsExact ==
    [][\A a \in Drafts : a \notin Born(store) /\ a \in Born(store') =>
        \A r \in QuickRequests(a, Shown(store)) :
            QuickCreate(store', MaxClock, r).outcome = "replay"
                <=> \E now \in Clock : QuickCreate(store, now, r).st = store']_vars

\* A form sent again after an unknown answer, before any other, never does its work
\* twice, at any later clock: the same transition appends no second event, the same pair gets no second
\* record, and a correction does not void its own result (none of these requests
\* has an identity of its own).
NothingTwice ==
    \A r \in Requests(store) :
        LET first == Mutate(store, MaxClock, r)
        IN first.outcome = "changed" =>
            \A later \in Clock : Mutate(first.st, later, r).outcome # "changed"

\* Validation of the whole store never stands in the way.  Unless the clock is behind
\* what was recorded, an active Asset can go to any other status, an active record
\* can be voided, and two Assets can be connected again if neither is taken and no
\* circle arises, whatever was voided, corrected or left undated before.
RefusalsAreJustified ==
    LET Accepted(r) == Mutate(store, MaxClock, r).outcome = "changed"
        Taken(a, b) == \E r \in ActiveRecords(store) :
            replacements[r].predecessor = a \/ replacements[r].successor = b
        Before(a, b) == \A later \in SUBSET Born(store) :
            /\ a \in later
            /\ \A r \in ActiveRecords(store) :
                replacements[r].predecessor \in later => replacements[r].successor \in later
            => b \in later
    IN /\ \A a \in ActiveAssets(store), s \in Statuses :
            s # assets[a].status => Accepted([op |-> "lifecycle", asset |-> a, to |-> s, date |-> None])
       /\ \A r \in ActiveRecords(store) : Accepted([op |-> "void", record |-> r])
       /\ \A a, b \in ActiveAssets(store) :
            a # b /\ ~Taken(a, b) /\ ~Before(b, a) =>
                Accepted([op |-> "replace", predecessor |-> a, successor |-> b, date |-> None])
=============================================================================
