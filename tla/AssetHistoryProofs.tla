-------------------------- MODULE AssetHistoryProofs --------------------------
(***************************************************************************)
(* Proofs about AssetHistory for any Assets, statuses, places and bounds.  *)
(***************************************************************************)
EXTENDS AssetHistory, FiniteSetTheorems, TLAPS

AssetRecords == [status: Statuses, current: Nat, place: Places, archived: BOOLEAN]
EventRecords == [asset: Assets, previous: Nat, from: Statuses, to: Statuses,
                 date: Dates, at: Clock]
Records == [predecessor: Assets, successor: Assets, date: Dates, at: Clock, voided: Dates]
Stores == [assets: [Assets -> AssetRecords \union {NoAsset}], events: Seq(EventRecords),
           replacements: Seq(Records)]

\* The last of a set of events, None when there is none.
IsLast(n, es) == n \in es \union {None} /\ \A x \in es : x <= n

StatusAt(st, n) == IF n = None THEN "unknown" ELSE st.events[n].to

\* An Asset's transitions are one chain in the order they were recorded.
Chained(st, a) ==
    LET own == EventsOf(st, a)
    IN /\ IsLast(st.assets[a].current, own)
       /\ st.assets[a].status = StatusAt(st, st.assets[a].current)
       /\ \A e \in own :
            LET before == {x \in own : x < e}
            IN /\ IsLast(st.events[e].previous, before)
               /\ st.events[e].from = StatusAt(st, st.events[e].previous)
               /\ \A x \in before : st.events[x].at <= st.events[e].at

\* A snapshot as its parts are made; validation comes on top.
Sound(st) ==
    /\ st \in Stores
    /\ IsFiniteSet(Born(st))
    /\ \A e \in DOMAIN st.events : st.events[e].asset \in Born(st)
    /\ \A a \in Born(st) : Chained(st, a)

IInv ==
    /\ Sound(store)
    /\ Valid(store)
    /\ Size(store) <= MaxRecords

-----------------------------------------------------------------------------
(* Sequences and records                                                     *)

LEMMA Appended ==
  ASSUME NEW S, NEW seq \in Seq(S), NEW x \in S
  PROVE  /\ Append(seq, x) \in Seq(S)
         /\ Len(seq) \in Nat /\ Len(Append(seq, x)) = Len(seq) + 1
         /\ DOMAIN seq = 1..Len(seq) /\ DOMAIN Append(seq, x) = 1..(Len(seq) + 1)
         /\ Append(seq, x)[Len(seq) + 1] = x
         /\ \A i \in 1..Len(seq) : Append(seq, x)[i] = seq[i] /\ seq[i] \in S
  OBVIOUS

LEMMA Replaced1 ==
  ASSUME NEW S, NEW seq \in Seq(S), NEW i \in DOMAIN seq, NEW x \in S
  PROVE  /\ [seq EXCEPT ![i] = x] \in Seq(S)
         /\ DOMAIN [seq EXCEPT ![i] = x] = DOMAIN seq
         /\ Len([seq EXCEPT ![i] = x]) = Len(seq)
         /\ [seq EXCEPT ![i] = x][i] = x
         /\ \A j \in DOMAIN seq \ {i} : [seq EXCEPT ![i] = x][j] = seq[j]
  OBVIOUS

LEMMA Facts ==
  /\ \A r \in AssetRecords : r # NoAsset
  /\ NotDeployed \in Places /\ None \in Dates
  /\ {"unknown", "active", "retired"} \subseteq Statuses
  /\ MaxClock \in Nat /\ MaxRecords \in Nat /\ MaxClock \in Clock
  /\ \A t \in Clock : t \in Nat /\ t # None /\ t \in Dates
  <1>1. ASSUME NEW r \in AssetRecords
        PROVE  r # NoAsset
    <2>1. r.status \in Statuses /\ "none" \notin Statuses
      BY HistoryAssumption DEF AssetRecords
    <2> QED
      BY <2>1 DEF NoAsset
  <1>2. NotDeployed \in Places /\ {"unknown", "active", "retired"} \subseteq Statuses
    BY HistoryAssumption DEF NotDeployed
  <1>3. /\ MaxClock \in Nat /\ MaxRecords \in Nat /\ MaxClock \in Clock
        /\ \A t \in Clock : t \in Nat /\ t # None /\ t \in Dates
    BY HistoryAssumption DEF Clock, Dates, None
  <1> QED
    BY <1>1, <1>2, <1>3 DEF Dates

LEMMA StoreParts ==
  ASSUME NEW st \in Stores
  PROVE  /\ st.assets \in [Assets -> AssetRecords \union {NoAsset}]
         /\ st.events \in Seq(EventRecords) /\ st.replacements \in Seq(Records)
         /\ st = [assets |-> st.assets, events |-> st.events, replacements |-> st.replacements]
         /\ Len(st.events) \in Nat /\ DOMAIN st.events = 1..Len(st.events)
         /\ Len(st.replacements) \in Nat /\ DOMAIN st.replacements = 1..Len(st.replacements)
         /\ \A e \in DOMAIN st.events : st.events[e] \in EventRecords
         /\ \A r \in DOMAIN st.replacements : st.replacements[r] \in Records
         /\ \A a \in Born(st) : a \in Assets /\ st.assets[a] \in AssetRecords
  BY DEF Stores, Born

LEMMA RecordParts ==
  /\ \A r \in AssetRecords :
        /\ r.status \in Statuses /\ r.current \in Nat /\ r.place \in Places
        /\ r.archived \in BOOLEAN
  /\ \A e \in EventRecords :
        /\ e.asset \in Assets /\ e.previous \in Nat /\ e.from \in Statuses
        /\ e.to \in Statuses /\ e.date \in Dates /\ e.at \in Clock
  /\ \A r \in Records :
        /\ r.predecessor \in Assets /\ r.successor \in Assets /\ r.date \in Dates
        /\ r.at \in Clock /\ r.voided \in Dates
  BY DEF AssetRecords, EventRecords, Records

-----------------------------------------------------------------------------
(* The parts that mutators put together                                      *)

\* One Asset written.
Write(st, a, record) == [st EXCEPT !.assets[a] = record]

LEMMA WriteParts ==
  ASSUME NEW st \in Stores, NEW a \in Assets, NEW record \in AssetRecords
  PROVE  LET st2 == Write(st, a, record) IN
         /\ st2 \in Stores /\ st2.events = st.events /\ st2.replacements = st.replacements
         /\ st2.assets[a] = record
         /\ \A b \in Assets \ {a} : st2.assets[b] = st.assets[b]
         /\ Born(st2) = Born(st) \union {a}
  <1> DEFINE map == [st.assets EXCEPT ![a] = record]
  <1>0. PICK st2 : st2 = Write(st, a, record)
    OBVIOUS
  <1>1. st2 = [st EXCEPT !.assets = map]
    BY <1>0 DEF Write
  <1>2. /\ map \in [Assets -> AssetRecords \union {NoAsset}] /\ map[a] = record
        /\ \A b \in Assets \ {a} : map[b] = st.assets[b]
    BY StoreParts
  <1> HIDE DEF map
  <1>3. /\ st2 \in Stores /\ st2.events = st.events /\ st2.replacements = st.replacements
        /\ st2.assets = map
    BY <1>1, <1>2 DEF Stores
  <1>4. Born(st2) = Born(st) \union {a}
    BY <1>2, <1>3, Facts DEF Born
  <1> QED
    BY <1>0, <1>2, <1>3, <1>4

\* One event appended.
WithEvent(st, event) == [st EXCEPT !.events = Append(@, event)]

LEMMA WithEventParts ==
  ASSUME NEW st \in Stores, NEW event \in EventRecords
  PROVE  LET st2 == WithEvent(st, event)
             n == Len(st.events) + 1
         IN /\ st2 \in Stores /\ st2.assets = st.assets /\ st2.replacements = st.replacements
            /\ Len(st2.events) = n /\ st2.events[n] = event
            /\ DOMAIN st2.events = DOMAIN st.events \union {n} /\ n \notin DOMAIN st.events
            /\ \A e \in DOMAIN st.events : st2.events[e] = st.events[e]
  <1> DEFINE seq == Append(st.events, event)
  <1>0. PICK st2 : st2 = WithEvent(st, event)
    OBVIOUS
  <1>1. st2 = [st EXCEPT !.events = seq]
    BY <1>0 DEF WithEvent
  <1>2. PICK m \in Nat : m = Len(st.events) /\ DOMAIN st.events = 1..m
    BY StoreParts
  <1>3. /\ seq \in Seq(EventRecords) /\ Len(seq) = m + 1 /\ seq[m + 1] = event
        /\ DOMAIN seq = 1..(m + 1)
        /\ \A e \in 1..m : seq[e] = st.events[e]
    BY <1>2, StoreParts, Appended
  <1> HIDE DEF seq
  <1>4. /\ st2 \in Stores /\ st2.assets = st.assets /\ st2.replacements = st.replacements
        /\ st2.events = seq
    BY <1>1, <1>3 DEF Stores
  <1>5. 1..(m + 1) = (1..m) \union {m + 1} /\ m + 1 \notin 1..m
    OBVIOUS
  <1> QED
    BY <1>0, <1>2, <1>3, <1>4, <1>5

\* The event that a transition appends, and the record it leaves.
Event(st, a, to, date, at) ==
    [asset |-> a, previous |-> st.assets[a].current, from |-> st.assets[a].status,
     to |-> to, date |-> date, at |-> at]
Moved(st, a, to) ==
    [status |-> to, current |-> Len(st.events) + 1, place |-> st.assets[a].place,
     archived |-> st.assets[a].archived]

LEMMA TransitionParts ==
  ASSUME NEW st \in Stores, NEW a \in Born(st), NEW to \in Statuses, NEW date \in Dates,
         NEW at \in Clock
  PROVE  LET st2 == Transition(st, a, to, date, at)
             n == Len(st.events) + 1
         IN /\ st2 \in Stores /\ st2.replacements = st.replacements
            /\ st2.assets[a] = Moved(st, a, to)
            /\ \A b \in Assets \ {a} : st2.assets[b] = st.assets[b]
            /\ Len(st2.events) = n /\ st2.events[n] = Event(st, a, to, date, at)
            /\ DOMAIN st2.events = DOMAIN st.events \union {n} /\ n \notin DOMAIN st.events
            /\ \A e \in DOMAIN st.events : st2.events[e] = st.events[e]
            /\ Born(st2) = Born(st)
  <1> DEFINE record == [st.assets[a] EXCEPT !.status = to, !.current = Len(st.events) + 1]
             event == Event(st, a, to, date, at)
             st1 == Write(st, a, record)
             st2 == Transition(st, a, to, date, at)
  <1>1. a \in Assets /\ st.assets[a] \in AssetRecords /\ Len(st.events) \in Nat
    BY StoreParts
  <1>2. record = Moved(st, a, to) /\ record \in AssetRecords
    <2>1. PICK x \in AssetRecords, n \in Nat : x = st.assets[a] /\ n = Len(st.events) + 1
      BY <1>1
    <2>2. [x EXCEPT !.status = to, !.current = n] =
             [status |-> to, current |-> n, place |-> x.place, archived |-> x.archived]
      <3>1. PICK y : y = [x EXCEPT !.status = to]
        OBVIOUS
      <3>2. y = [status |-> to, current |-> x.current, place |-> x.place,
                 archived |-> x.archived]
        BY <3>1 DEF AssetRecords
      <3>3. [y EXCEPT !.current = n] = [status |-> to, current |-> n, place |-> x.place,
                                        archived |-> x.archived]
        BY <3>2
      <3> QED
        BY <3>1, <3>3
    <2>3. record = Moved(st, a, to)
      BY <2>1, <2>2 DEF Moved
    <2>4. Moved(st, a, to) \in AssetRecords
      BY <2>1 DEF AssetRecords, Moved
    <2> QED
      BY <2>3, <2>4
  <1>3. event \in EventRecords
    BY <1>1, RecordParts DEF EventRecords, Event
  <1>4. st2 = WithEvent(st1, event)
    <2>1. st2 = [st EXCEPT !.events = Append(@, event), !.assets[a] = record]
      BY DEF Transition, Event
    <2> HIDE DEF event, record
    <2> QED
      BY <2>1 DEF Stores, WithEvent, Write
  <1> HIDE DEF record, event, st1, st2
  <1>5. /\ st1 \in Stores /\ st1.events = st.events /\ st1.replacements = st.replacements
        /\ st1.assets[a] = record
        /\ \A b \in Assets \ {a} : st1.assets[b] = st.assets[b]
        /\ Born(st1) = Born(st)
    <2>1. record \in AssetRecords
      BY <1>2
    <2>2. /\ st1 \in Stores /\ st1.events = st.events /\ st1.replacements = st.replacements
          /\ st1.assets[a] = record
          /\ \A b \in Assets \ {a} : st1.assets[b] = st.assets[b]
          /\ Born(st1) = Born(st) \union {a}
      BY <1>1, <2>1, WriteParts DEF st1
    <2> QED
      BY <2>2
  <1>6. /\ st2 \in Stores /\ st2.assets = st1.assets /\ st2.replacements = st.replacements
        /\ Len(st2.events) = Len(st.events) + 1 /\ st2.events[Len(st.events) + 1] = event
        /\ DOMAIN st2.events = DOMAIN st.events \union {Len(st.events) + 1}
        /\ Len(st.events) + 1 \notin DOMAIN st.events
        /\ \A e \in DOMAIN st.events : st2.events[e] = st.events[e]
    BY <1>3, <1>4, <1>5, WithEventParts
  <1>7. Born(st2) = Born(st1)
    BY <1>6 DEF Born
  <1> QED
    BY <1>2, <1>5, <1>6, <1>7 DEF st2, event

\* A replacement recorded, and one voided.
AsVoided(record, t) == [record EXCEPT !.voided = t]
Voided(st, r, t) == [st EXCEPT !.replacements[r].voided = t]

LEMMA WithReplacementParts ==
  ASSUME NEW st \in Stores, NEW p \in Assets, NEW s \in Assets, NEW date \in Dates,
         NEW at \in Clock
  PROVE  LET st2 == WithReplacement(st, p, s, date, at)
             n == Len(st.replacements) + 1
         IN /\ st2 \in Stores /\ st2.assets = st.assets /\ st2.events = st.events
            /\ Len(st2.replacements) = n
            /\ st2.replacements[n] = Replacement(p, s, date, at)
            /\ DOMAIN st2.replacements = DOMAIN st.replacements \union {n}
            /\ n \notin DOMAIN st.replacements
            /\ \A r \in DOMAIN st.replacements : st2.replacements[r] = st.replacements[r]
  <1> DEFINE record == Replacement(p, s, date, at)
             seq == Append(st.replacements, record)
  <1>0. PICK st2 : st2 = WithReplacement(st, p, s, date, at)
    OBVIOUS
  <1>1. st2 = [st EXCEPT !.replacements = seq]
    BY <1>0 DEF WithReplacement
  <1>2. record \in Records
    BY Facts DEF Records, Replacement
  <1> HIDE DEF record
  <1>3. PICK m \in Nat : m = Len(st.replacements) /\ DOMAIN st.replacements = 1..m
    BY StoreParts
  <1>4. /\ seq \in Seq(Records) /\ Len(seq) = m + 1 /\ seq[m + 1] = record
        /\ DOMAIN seq = 1..(m + 1)
        /\ \A e \in 1..m : seq[e] = st.replacements[e]
    BY <1>2, <1>3, StoreParts, Appended
  <1> HIDE DEF seq
  <1>5. /\ st2 \in Stores /\ st2.assets = st.assets /\ st2.events = st.events
        /\ st2.replacements = seq
    BY <1>1, <1>4 DEF Stores
  <1>6. 1..(m + 1) = (1..m) \union {m + 1} /\ m + 1 \notin 1..m
    OBVIOUS
  <1> QED
    BY <1>0, <1>3, <1>4, <1>5, <1>6 DEF record

LEMMA VoidedParts ==
  ASSUME NEW st \in Stores, NEW r \in DOMAIN st.replacements, NEW t \in Clock
  PROVE  LET st2 == Voided(st, r, t)
         IN /\ st2 \in Stores /\ st2.assets = st.assets /\ st2.events = st.events
            /\ DOMAIN st2.replacements = DOMAIN st.replacements
            /\ Len(st2.replacements) = Len(st.replacements)
            /\ st2.replacements[r] = AsVoided(st.replacements[r], t)
            /\ st2.replacements[r].voided = t
            /\ \A q \in DOMAIN st.replacements \ {r} : st2.replacements[q] = st.replacements[q]
  <1> DEFINE record == AsVoided(st.replacements[r], t)
             seq == [st.replacements EXCEPT ![r] = record]
  <1>0. PICK st2 : st2 = Voided(st, r, t)
    OBVIOUS
  <1>1. st2 = [st EXCEPT !.replacements = seq]
    BY <1>0 DEF Voided, AsVoided
  <1>2. record \in Records /\ record.voided = t
    <2>1. PICK x \in Records : x = st.replacements[r]
      BY StoreParts
    <2>2. t \in Dates
      BY Facts
    <2> QED
      BY <2>1, <2>2 DEF Records, AsVoided
  <1> HIDE DEF record
  <1>3. /\ seq \in Seq(Records) /\ Len(seq) = Len(st.replacements)
        /\ DOMAIN seq = DOMAIN st.replacements /\ seq[r] = record
        /\ \A q \in DOMAIN st.replacements \ {r} : seq[q] = st.replacements[q]
    BY <1>2, StoreParts, Replaced1
  <1> HIDE DEF seq
  <1>4. /\ st2 \in Stores /\ st2.assets = st.assets /\ st2.events = st.events
        /\ st2.replacements = seq
    BY <1>1, <1>3 DEF Stores
  <1> QED
    BY <1>0, <1>2, <1>3, <1>4 DEF record

-----------------------------------------------------------------------------
(* Every part keeps a snapshot sound                                         *)

\* A chain depends on nothing but the Asset's own events, status and current.
LEMMA ChainKept ==
  ASSUME NEW st \in Stores, NEW st2, NEW a, Chained(st, a),
         st2.assets[a].current = st.assets[a].current,
         st2.assets[a].status = st.assets[a].status,
         EventsOf(st2, a) = EventsOf(st, a),
         \A e \in DOMAIN st.events : st2.events[e] = st.events[e]
  PROVE  Chained(st2, a)
  <1> DEFINE own == EventsOf(st, a)
  <1>1. own \subseteq DOMAIN st.events
    BY DEF EventsOf
  <1>2. \A n \in own \union {None} : StatusAt(st2, n) = StatusAt(st, n)
    BY <1>1 DEF StatusAt
  <1>3. /\ IsLast(st.assets[a].current, own)
        /\ st.assets[a].status = StatusAt(st, st.assets[a].current)
        /\ \A e \in own :
             /\ IsLast(st.events[e].previous, {x \in own : x < e})
             /\ st.events[e].from = StatusAt(st, st.events[e].previous)
             /\ \A x \in {x \in own : x < e} : st.events[x].at <= st.events[e].at
    BY DEF Chained
  <1> HIDE DEF own
  <1>4. ASSUME NEW e \in own
        PROVE  /\ IsLast(st2.events[e].previous, {x \in own : x < e})
               /\ st2.events[e].from = StatusAt(st2, st2.events[e].previous)
               /\ \A x \in {x \in own : x < e} : st2.events[x].at <= st2.events[e].at
    <2>1. st.events[e].previous \in own \union {None}
      BY <1>3, <1>4 DEF IsLast
    <2>2. st2.events[e] = st.events[e] /\ \A x \in own : st2.events[x] = st.events[x]
      BY <1>1, <1>4
    <2> QED
      BY <1>2, <1>3, <1>4, <2>1, <2>2
  <1>5. st.assets[a].current \in own \union {None}
    BY <1>3 DEF IsLast
  <1> QED
    BY <1>2, <1>3, <1>4, <1>5 DEF Chained, own

\* The next transition goes to the end of the chain, if its time is not before.
LEMMA TransitionChain ==
  ASSUME NEW st \in Stores, NEW a \in Born(st), Chained(st, a),
         NEW to \in Statuses, NEW date \in Dates, NEW at \in Clock,
         st.assets[a].current # None => st.events[st.assets[a].current].at <= at
  PROVE  Chained(Transition(st, a, to, date, at), a)
  <1>a. PICK m \in Nat : m = Len(st.events)
    BY StoreParts
  <1>b. PICK st2 : st2 = Transition(st, a, to, date, at)
    OBVIOUS
  <1>0. st2 = Transition(st, a, to, date, at) /\ m = Len(st.events)
    BY <1>a, <1>b
  <1> DEFINE own == EventsOf(st, a)
             n == m + 1
             current == st.assets[a].current
  <1>1. /\ st2.assets[a].current = n /\ st2.assets[a].status = to
        /\ st2.events[n].asset = a /\ st2.events[n].previous = current
        /\ st2.events[n].from = st.assets[a].status /\ st2.events[n].to = to
        /\ st2.events[n].at = at
        /\ DOMAIN st2.events = DOMAIN st.events \union {n}
        /\ \A e \in DOMAIN st.events : st2.events[e] = st.events[e]
    <2>1. /\ st2.assets[a] = Moved(st, a, to)
          /\ st2.events[n] = Event(st, a, to, date, at)
          /\ DOMAIN st2.events = DOMAIN st.events \union {n}
          /\ \A e \in DOMAIN st.events : st2.events[e] = st.events[e]
      BY <1>0, TransitionParts
    <2>2. st2.assets[a].current = n /\ st2.assets[a].status = to
      BY <1>0, <2>1 DEF Moved
    <2>3. /\ st2.events[n].asset = a /\ st2.events[n].previous = current
          /\ st2.events[n].from = st.assets[a].status /\ st2.events[n].to = to
          /\ st2.events[n].at = at
      BY <2>1 DEF Event
    <2> QED
      BY <2>1, <2>2, <2>3
  <1>2. DOMAIN st.events = 1..m /\ own \subseteq 1..m
    BY <1>0, StoreParts DEF EventsOf
  <1>3. EventsOf(st2, a) = own \union {n}
    BY <1>1, <1>2 DEF EventsOf
  <1>4. /\ IsLast(current, own)
        /\ st.assets[a].status = StatusAt(st, current)
        /\ \A e \in own :
             /\ IsLast(st.events[e].previous, {x \in own : x < e})
             /\ st.events[e].from = StatusAt(st, st.events[e].previous)
             /\ \A x \in {x \in own : x < e} : st.events[x].at <= st.events[e].at
    BY DEF Chained
  <1>5. \A x \in own : st.events[x].at \in Nat /\ st.events[x].at <= at
    <2> TAKE x \in own
    <2>1. current \in own /\ x <= current /\ current \in Nat /\ x \in Nat /\ current # None
      BY <1>2, <1>4 DEF IsLast, None
    <2>2. st.events[x].at \in Nat /\ st.events[current].at \in Nat /\ at \in Nat
      BY <1>2, <2>1, StoreParts, RecordParts, Facts
    <2>3. st.events[x].at <= st.events[current].at
      <3>1. CASE x = current
        BY <2>2, <3>1
      <3>2. CASE x # current
        <4>1. x < current
          BY <2>1, <3>2
        <4> QED
          BY <1>4, <2>1, <4>1
      <3> QED
        BY <3>1, <3>2
    <2> QED
      BY <2>1, <2>2, <2>3
  <1>6. \A e \in own \union {None} : StatusAt(st2, e) = StatusAt(st, e)
    BY <1>1, <1>2 DEF StatusAt
  <1>7. \A e \in own : {x \in own \union {n} : x < e} = {x \in own : x < e}
    BY <1>2
  <1>8. {x \in own \union {n} : x < n} = own
    BY <1>2
  <1> HIDE DEF own, current
  <1>9. IsLast(n, own \union {n})
    BY <1>2 DEF IsLast
  <1>10. StatusAt(st2, n) = to
    BY <1>1 DEF StatusAt, None
  <1>11. ASSUME NEW e \in own
         PROVE  /\ IsLast(st2.events[e].previous, {x \in own \union {n} : x < e})
                /\ st2.events[e].from = StatusAt(st2, st2.events[e].previous)
                /\ \A x \in {x \in own \union {n} : x < e} :
                      st2.events[x].at <= st2.events[e].at
    <2>1. st2.events[e] = st.events[e] /\ \A x \in own : st2.events[x] = st.events[x]
      BY <1>1, <1>2, <1>11
    <2>2. st.events[e].previous \in own \union {None}
      BY <1>4, <1>11 DEF IsLast
    <2> QED
      BY <1>4, <1>6, <1>7, <1>11, <2>1, <2>2
  <1>12. /\ IsLast(st2.events[n].previous, {x \in own \union {n} : x < n})
         /\ st2.events[n].from = StatusAt(st2, st2.events[n].previous)
         /\ \A x \in {x \in own \union {n} : x < n} : st2.events[x].at <= st2.events[n].at
    <2>1. \A x \in own : st2.events[x] = st.events[x]
      BY <1>1, <1>2
    <2>2. current \in own \union {None}
      BY <1>4 DEF IsLast
    <2> QED
      BY <1>1, <1>4, <1>5, <1>6, <1>8, <2>1, <2>2
  <1> QED
    BY <1>0, <1>1, <1>3, <1>9, <1>10, <1>11, <1>12 DEF Chained

LEMMA TransitionSound ==
  ASSUME NEW st, Sound(st), NEW a \in Born(st), NEW to \in Statuses, NEW date \in Dates,
         NEW at \in Clock,
         st.assets[a].current # None => st.events[st.assets[a].current].at <= at
  PROVE  Sound(Transition(st, a, to, date, at))
  <1>1. PICK st2 : st2 = Transition(st, a, to, date, at)
    OBVIOUS
  <1>2. st \in Stores /\ IsFiniteSet(Born(st)) /\ \A b \in Born(st) : Chained(st, b)
    BY DEF Sound
  <1>3. PICK n : n = Len(st.events) + 1
    OBVIOUS
  <1>4. /\ st2 \in Stores
        /\ \A b \in Assets \ {a} : st2.assets[b] = st.assets[b]
        /\ st2.events[n] = Event(st, a, to, date, at)
        /\ DOMAIN st2.events = DOMAIN st.events \union {n}
        /\ \A e \in DOMAIN st.events : st2.events[e] = st.events[e]
        /\ Born(st2) = Born(st)
    BY <1>1, <1>2, <1>3, TransitionParts
  <1>5. st2.events[n].asset = a
    BY <1>4 DEF Event
  <1>6. Chained(st2, a)
    BY <1>1, <1>2, TransitionChain
  <1>7. ASSUME NEW b \in Born(st), b # a
        PROVE  Chained(st2, b)
    <2>1. b \in Assets /\ st2.assets[b] = st.assets[b]
      BY <1>2, <1>4, <1>7, StoreParts
    <2>2. EventsOf(st2, b) = EventsOf(st, b)
      BY <1>4, <1>5, <1>7 DEF EventsOf
    <2> QED
      BY <1>2, <1>4, <1>7, <2>1, <2>2, ChainKept
  <1>8. \A e \in DOMAIN st2.events : st2.events[e].asset \in Born(st2)
    BY <1>4, <1>5 DEF Sound
  <1> QED
    BY <1>1, <1>2, <1>4, <1>6, <1>7, <1>8 DEF Sound

\* An edit that leaves an Asset's status and last transition alone.
LEMMA EditSound ==
  ASSUME NEW st, Sound(st), NEW a \in Born(st), NEW record \in AssetRecords,
         record.status = st.assets[a].status, record.current = st.assets[a].current
  PROVE  Sound(Write(st, a, record)) /\ Born(Write(st, a, record)) = Born(st)
  <1>1. PICK st2 : st2 = Write(st, a, record)
    OBVIOUS
  <1>2. /\ st \in Stores /\ a \in Assets /\ IsFiniteSet(Born(st))
        /\ \A b \in Born(st) : Chained(st, b) /\ b \in Assets
    BY StoreParts DEF Sound
  <1>3. /\ st2 \in Stores /\ st2.events = st.events /\ st2.assets[a] = record
        /\ \A b \in Assets \ {a} : st2.assets[b] = st.assets[b]
        /\ Born(st2) = Born(st) \union {a}
    BY <1>1, <1>2, WriteParts
  <1>4. Born(st2) = Born(st)
    BY <1>3
  <1>5. ASSUME NEW b \in Born(st)
        PROVE  Chained(st2, b)
    <2>1. st2.assets[b].status = st.assets[b].status /\ st2.assets[b].current = st.assets[b].current
      BY <1>2, <1>3, <1>5
    <2>2. EventsOf(st2, b) = EventsOf(st, b)
      BY <1>3 DEF EventsOf
    <2> QED
      BY <1>2, <1>3, <1>5, <2>1, <2>2, ChainKept
  <1> QED
    BY <1>1, <1>2, <1>3, <1>4, <1>5 DEF Sound

\* An Asset is born with nothing recorded about it.
Fresh(place) == [status |-> "unknown", current |-> None, place |-> place, archived |-> FALSE]

LEMMA FreshParts ==
  ASSUME NEW place \in Places
  PROVE  /\ Fresh(place) \in AssetRecords
         /\ Fresh(place).status = "unknown" /\ Fresh(place).current = None
         /\ Fresh(place).place = place /\ ~Fresh(place).archived
  BY Facts DEF AssetRecords, Fresh, None

LEMMA BirthSound ==
  ASSUME NEW st, Sound(st), NEW a \in Assets \ Born(st), NEW place \in Places
  PROVE  /\ Sound(Write(st, a, Fresh(place)))
         /\ Born(Write(st, a, Fresh(place))) = Born(st) \union {a}
  <1>1. PICK st2 : st2 = Write(st, a, Fresh(place))
    OBVIOUS
  <1>2. /\ st \in Stores /\ IsFiniteSet(Born(st))
        /\ \A b \in Born(st) : Chained(st, b) /\ b \in Assets
        /\ \A e \in DOMAIN st.events : st.events[e].asset \in Born(st)
    BY StoreParts DEF Sound
  <1>3. /\ st2 \in Stores /\ st2.events = st.events /\ st2.assets[a] = Fresh(place)
        /\ \A b \in Assets \ {a} : st2.assets[b] = st.assets[b]
        /\ Born(st2) = Born(st) \union {a}
    BY <1>1, <1>2, FreshParts, WriteParts
  <1>4. IsFiniteSet(Born(st2))
    BY <1>2, <1>3, FS_AddElement
  <1>5. ASSUME NEW b \in Born(st)
        PROVE  Chained(st2, b)
    <2>1. st2.assets[b] = st.assets[b]
      BY <1>2, <1>3, <1>5
    <2>2. EventsOf(st2, b) = EventsOf(st, b)
      BY <1>3 DEF EventsOf
    <2> QED
      BY <1>2, <1>3, <1>5, <2>1, <2>2, ChainKept
  <1>6. Chained(st2, a)
    <2>1. EventsOf(st2, a) = {}
      BY <1>2, <1>3 DEF EventsOf
    <2>2. st2.assets[a].status = "unknown" /\ st2.assets[a].current = None
      BY <1>3, FreshParts
    <2> QED
      BY <2>1, <2>2 DEF Chained, IsLast, StatusAt
  <1> QED
    BY <1>1, <1>2, <1>3, <1>4, <1>5, <1>6 DEF Sound

\* Replacements are no part of a lifecycle.
LEMMA SameLifecycles ==
  ASSUME NEW st, Sound(st), NEW st2 \in Stores, st2.assets = st.assets, st2.events = st.events
  PROVE  Sound(st2) /\ Born(st2) = Born(st)
  <1>1. Born(st2) = Born(st) /\ \A a \in Born(st) : EventsOf(st2, a) = EventsOf(st, a)
    BY DEF Born, EventsOf
  <1>2. \A a \in Born(st) : Chained(st2, a)
    BY <1>1, ChainKept DEF Sound
  <1> QED
    BY <1>1, <1>2 DEF Sound

\* A valid snapshot's transitions are not before their predecessors.
LEMMA InTime ==
  ASSUME NEW st, Valid(st), NEW e \in DOMAIN st.events, st.events[e].asset \in Born(st),
         st.events[e].previous # None
  PROVE  st.events[st.events[e].previous].at <= st.events[e].at
  <1>1. e \in EventsOf(st, st.events[e].asset)
    BY DEF EventsOf
  <1> QED
    BY <1>1 DEF Valid, ValidChain

-----------------------------------------------------------------------------
(* What a step may do to the past                                            *)

AsArchived(record, yes) == [record EXCEPT !.archived = yes]

Kept(st, st2) ==
    /\ \A e \in DOMAIN st.events : e \in DOMAIN st2.events /\ st2.events[e] = st.events[e]
    /\ \A r \in DOMAIN st.replacements :
        /\ r \in DOMAIN st2.replacements
        /\ st2.replacements[r] \in
             {AsVoided(st.replacements[r], t) : t \in {None} \union (st.replacements[r].at..MaxClock)}
        /\ st.replacements[r].voided # None => st2.replacements[r] = st.replacements[r]

FrozenAsset(st, st2, a) ==
    /\ st2.assets[a] = AsArchived(st.assets[a], st2.assets[a].archived)
    /\ \A r \in ActiveRecords(st2) :
        a \in {st2.replacements[r].predecessor, st2.replacements[r].successor} =>
            r \in ActiveRecords(st)

Frozen(st, st2) == \A a \in Born(st) : st.assets[a].archived => FrozenAsset(st, st2, a)

\* Only an unvoided record is changed, and only voided.
MayVoid(st, st2) ==
    \A r \in DOMAIN st.replacements :
        /\ r \in DOMAIN st2.replacements
        /\ \/ st2.replacements[r] = st.replacements[r]
           \/ st.replacements[r].voided = None
              /\ \E t \in Clock : st2.replacements[r] = AsVoided(st.replacements[r], t)

\* A record that is new connects Assets that are not archived.
NewAreActive(st, st2) ==
    \A r \in DOMAIN st2.replacements \ DOMAIN st.replacements, a \in Born(st) :
        a \in {st2.replacements[r].predecessor, st2.replacements[r].successor} =>
            ~st.assets[a].archived

ArchivedAlone(st, st2) ==
    \A a \in Born(st) : st.assets[a].archived =>
        st2.assets[a] = AsArchived(st.assets[a], st2.assets[a].archived)

LEMMA VoidedRecord ==
  ASSUME NEW x \in Records, NEW t \in Dates
  PROVE  /\ AsVoided(x, t) \in Records /\ AsVoided(x, t).voided = t
         /\ AsVoided(x, t).at = x.at /\ AsVoided(x, t).predecessor = x.predecessor
         /\ AsVoided(x, t).successor = x.successor /\ AsVoided(x, t).date = x.date
         /\ AsVoided(x, x.voided) = x
  BY DEF AsVoided, Records

LEMMA ArchivedRecord ==
  ASSUME NEW x \in AssetRecords, NEW b \in BOOLEAN
  PROVE  /\ AsArchived(x, b) \in AssetRecords /\ AsArchived(x, b).archived = b
         /\ AsArchived(x, b).status = x.status /\ AsArchived(x, b).current = x.current
         /\ AsArchived(x, b).place = x.place
         /\ AsArchived(x, x.archived) = x
  <1>1. PICK c \in BOOLEAN : c = x.archived
    BY DEF AssetRecords
  <1>2. AsArchived(x, b) = [status |-> x.status, current |-> x.current, place |-> x.place,
                            archived |-> b]
    BY DEF AsArchived, AssetRecords
  <1>3. AsArchived(x, c) = x
    BY <1>1 DEF AsArchived, AssetRecords
  <1>4. x.status \in Statuses /\ x.current \in Nat /\ x.place \in Places
    BY RecordParts
  <1>5. AsArchived(x, b) \in AssetRecords
    BY <1>2, <1>4 DEF AssetRecords
  <1> QED
    BY <1>1, <1>2, <1>3, <1>5

LEMMA Past ==
  ASSUME NEW st \in Stores, NEW st2 \in Stores, Valid(st), Valid(st2),
         \A e \in DOMAIN st.events : e \in DOMAIN st2.events /\ st2.events[e] = st.events[e],
         MayVoid(st, st2), NewAreActive(st, st2), ArchivedAlone(st, st2)
  PROVE  Kept(st, st2) /\ Frozen(st, st2)
  <1>1. ASSUME NEW r \in DOMAIN st.replacements
        PROVE  /\ r \in DOMAIN st2.replacements
               /\ st2.replacements[r] \in
                    {AsVoided(st.replacements[r], t) :
                       t \in {None} \union (st.replacements[r].at..MaxClock)}
               /\ st.replacements[r].voided # None => st2.replacements[r] = st.replacements[r]
               /\ st2.replacements[r].voided = None => r \in ActiveRecords(st)
    <2>1. PICK x \in Records : x = st.replacements[r]
      BY StoreParts
    <2>2. x.at \in Nat /\ x.voided \in Dates /\ MaxClock \in Nat
      BY RecordParts, Facts
    <2>3. r \in DOMAIN st2.replacements
      BY DEF MayVoid
    <2>4. CASE st2.replacements[r] = x
      <3>1. x = AsVoided(x, x.voided)
        BY <2>2, VoidedRecord
      <3>2. x.voided \in {None} \union (x.at..MaxClock)
        <4>1. x.voided # None => x.at <= x.voided
          BY <2>1 DEF Valid, ValidReplacements
        <4>2. x.voided = None \/ x.voided \in 1..MaxClock
          BY <2>2 DEF Dates, Clock
        <4> QED
          BY <2>2, <4>1, <4>2
      <3>3. st2.replacements[r].voided = None => r \in ActiveRecords(st)
        BY <2>1, <2>4 DEF ActiveRecords
      <3> QED
        BY <2>1, <2>3, <2>4, <3>1, <3>2, <3>3
    <2>5. CASE st2.replacements[r] # x
      <3>1. PICK t \in Clock : st2.replacements[r] = AsVoided(x, t)
        BY <2>1, <2>5 DEF MayVoid
      <3>2. x.voided = None
        BY <2>1, <2>5 DEF MayVoid
      <3>3. t \in Dates /\ t # None /\ t \in Nat /\ t <= MaxClock
        BY Facts DEF Clock
      <3>4. st2.replacements[r].voided = t /\ st2.replacements[r].at = x.at
        BY <3>1, <3>3, VoidedRecord
      <3>5. x.at <= t
        BY <2>3, <3>3, <3>4 DEF Valid, ValidReplacements
      <3>6. t \in {None} \union (x.at..MaxClock)
        BY <2>2, <3>3, <3>5
      <3> QED
        BY <2>1, <2>3, <3>1, <3>2, <3>3, <3>4, <3>6
    <2> QED
      BY <2>4, <2>5
  <1>2. Kept(st, st2)
    BY <1>1 DEF Kept
  <1>3. ASSUME NEW a \in Born(st), st.assets[a].archived
        PROVE  FrozenAsset(st, st2, a)
    <2>1. st2.assets[a] = AsArchived(st.assets[a], st2.assets[a].archived)
      BY <1>3 DEF ArchivedAlone
    <2>2. ASSUME NEW r \in ActiveRecords(st2),
                 a \in {st2.replacements[r].predecessor, st2.replacements[r].successor}
          PROVE  r \in ActiveRecords(st)
      <3>1. r \in DOMAIN st2.replacements /\ st2.replacements[r].voided = None
        BY DEF ActiveRecords
      <3>2. r \in DOMAIN st.replacements
        BY <1>3, <2>2, <3>1 DEF NewAreActive
      <3> QED
        BY <1>1, <3>1, <3>2
    <2> QED
      BY <2>1, <2>2 DEF FrozenAsset
  <1> QED
    BY <1>2, <1>3 DEF Frozen

LEMMA SameReplacements ==
  ASSUME NEW st, NEW st2, st2.replacements = st.replacements
  PROVE  MayVoid(st, st2) /\ NewAreActive(st, st2)
  BY DEF MayVoid, NewAreActive

LEMMA SameIfArchived ==
  ASSUME NEW st \in Stores, NEW st2,
         \A a \in Born(st) : st.assets[a].archived => st2.assets[a] = st.assets[a]
  PROVE  ArchivedAlone(st, st2)
  <1>1. ASSUME NEW a \in Born(st), st.assets[a].archived
        PROVE  st2.assets[a] = AsArchived(st.assets[a], st2.assets[a].archived)
    <2>1. PICK x \in AssetRecords : x = st.assets[a]
      BY StoreParts
    <2>2. x = AsArchived(x, x.archived)
      BY ArchivedRecord
    <2> QED
      BY <1>1, <2>1, <2>2
  <1> QED
    BY <1>1 DEF ArchivedAlone

LEMMA ValidatedParts ==
  ASSUME NEW st, NEW c
  PROVE  /\ Validated(st, c).outcome = "changed" => Valid(c) /\ Validated(st, c).st = c
         /\ Refused(st).outcome # "changed" /\ Unchanged(st, "no_op").outcome # "changed"
         /\ Unchanged(st, "replay").outcome # "changed"
  BY DEF Validated, Refused, Unchanged

-----------------------------------------------------------------------------
(* Every request                                                             *)

\* What a changed outcome must be, if it makes the Assets in new.
Good(st, result, new) ==
    result.outcome = "changed" =>
        /\ Sound(result.st) /\ Valid(result.st)
        /\ Kept(st, result.st) /\ Frozen(st, result.st)
        /\ Born(result.st) = Born(st) \union new

\* In a valid result a transition is not before the one it follows.
LEMMA NotBack ==
  ASSUME NEW st, Sound(st), NEW a \in Born(st), NEW to, NEW date, NEW at, NEW c, Valid(c),
         NEW n \in DOMAIN c.events, c.events[n] = Event(st, a, to, date, at), a \in Born(c),
         \A e \in DOMAIN st.events : c.events[e] = st.events[e]
  PROVE  st.assets[a].current # None => st.events[st.assets[a].current].at <= at
  <1> SUFFICES ASSUME st.assets[a].current # None
               PROVE  st.events[st.assets[a].current].at <= at
    OBVIOUS
  <1>1. st.assets[a].current \in DOMAIN st.events
    BY DEF Sound, Chained, IsLast, EventsOf
  <1>2. c.events[n].previous = st.assets[a].current /\ c.events[n].asset = a
        /\ c.events[n].at = at
    BY DEF Event
  <1>3. c.events[st.assets[a].current].at <= at
    BY <1>2, InTime
  <1> QED
    BY <1>1, <1>3

LEMMA LifecycleStep ==
  ASSUME NEW st, Sound(st), Valid(st), NEW now \in Clock,
         NEW r \in [op: {"lifecycle"}, asset: Assets, to: Statuses, date: Dates]
  PROVE  Good(st, SetLifecycle(st, now, r), {})
  <1> SUFFICES ASSUME SetLifecycle(st, now, r).outcome = "changed"
               PROVE  LET c == SetLifecycle(st, now, r).st
                      IN /\ Sound(c) /\ Valid(c) /\ Kept(st, c) /\ Frozen(st, c)
                         /\ Born(c) = Born(st)
    BY DEF Good
  <1>1. PICK a \in Assets, to \in Statuses, date \in Dates :
          a = r.asset /\ to = r.to /\ date = r.date
    OBVIOUS
  <1>2. PICK c : c = Transition(st, a, to, date, now)
    OBVIOUS
  <1>3. /\ a \in ActiveAssets(st) /\ Valid(c) /\ SetLifecycle(st, now, r).st = c
    BY <1>1, <1>2, ValidatedParts DEF SetLifecycle
  <1>4. st \in Stores /\ a \in Born(st) /\ ~st.assets[a].archived
    BY <1>3 DEF Sound, ActiveAssets
  <1>5. PICK n : n = Len(st.events) + 1
    OBVIOUS
  <1>6. /\ c \in Stores /\ c.replacements = st.replacements
        /\ \A b \in Assets \ {a} : c.assets[b] = st.assets[b]
        /\ c.events[n] = Event(st, a, to, date, now)
        /\ DOMAIN c.events = DOMAIN st.events \union {n}
        /\ \A e \in DOMAIN st.events : c.events[e] = st.events[e]
        /\ Born(c) = Born(st)
    BY <1>2, <1>4, <1>5, TransitionParts
  <1>7. st.assets[a].current # None => st.events[st.assets[a].current].at <= now
    BY <1>3, <1>4, <1>6, NotBack
  <1>8. Sound(c)
    BY <1>2, <1>4, <1>7, TransitionSound
  <1>9. ArchivedAlone(st, c)
    BY <1>4, <1>6, SameIfArchived, StoreParts
  <1>10. Kept(st, c) /\ Frozen(st, c)
    BY <1>3, <1>4, <1>6, <1>9, SameReplacements, Past
  <1> QED
    BY <1>3, <1>6, <1>8, <1>10

\* An edit of one Asset that the archive does not forbid.
LEMMA EditStep ==
  ASSUME NEW st, Sound(st), Valid(st), NEW a \in Born(st), NEW record \in AssetRecords,
         record.status = st.assets[a].status, record.current = st.assets[a].current,
         st.assets[a].archived => record = AsArchived(st.assets[a], record.archived),
         NEW c, c = Write(st, a, record), Valid(c)
  PROVE  Sound(c) /\ Kept(st, c) /\ Frozen(st, c) /\ Born(c) = Born(st)
  <1>1. st \in Stores /\ a \in Assets
    BY StoreParts DEF Sound
  <1>2. /\ c \in Stores /\ c.events = st.events /\ c.replacements = st.replacements
        /\ c.assets[a] = record
        /\ \A b \in Assets \ {a} : c.assets[b] = st.assets[b]
    BY <1>1, WriteParts
  <1>3. Sound(c) /\ Born(c) = Born(st)
    BY EditSound
  <1>4. ArchivedAlone(st, c)
    <2>1. ASSUME NEW b \in Born(st), st.assets[b].archived
          PROVE  c.assets[b] = AsArchived(st.assets[b], c.assets[b].archived)
      <3>1. CASE b = a
        BY <1>2, <2>1, <3>1
      <3>2. CASE b # a
        <4>1. PICK x \in AssetRecords : x = st.assets[b]
          BY <1>1, StoreParts
        <4>2. c.assets[b] = x
          BY <1>1, <1>2, <3>2, <4>1, StoreParts
        <4>3. x = AsArchived(x, x.archived)
          BY ArchivedRecord
        <4> QED
          BY <4>1, <4>2, <4>3
      <3> QED
        BY <3>1, <3>2
    <2> QED
      BY <2>1 DEF ArchivedAlone
  <1>5. MayVoid(st, c) /\ NewAreActive(st, c)
    BY <1>2, SameReplacements
  <1>6. \A e \in DOMAIN st.events : e \in DOMAIN c.events /\ c.events[e] = st.events[e]
    BY <1>2
  <1>7. Kept(st, c) /\ Frozen(st, c)
    BY <1>1, <1>2, <1>4, <1>5, <1>6, Past
  <1> QED
    BY <1>3, <1>7

AsPlaced(record, place) == [record EXCEPT !.place = place]

LEMMA PlacedRecord ==
  ASSUME NEW x \in AssetRecords, NEW place \in Places
  PROVE  /\ AsPlaced(x, place) \in AssetRecords /\ AsPlaced(x, place).place = place
         /\ AsPlaced(x, place).status = x.status /\ AsPlaced(x, place).current = x.current
         /\ AsPlaced(x, place).archived = x.archived
  <1>1. AsPlaced(x, place) = [status |-> x.status, current |-> x.current, place |-> place,
                              archived |-> x.archived]
    BY DEF AsPlaced, AssetRecords
  <1>2. x.status \in Statuses /\ x.current \in Nat
    BY RecordParts
  <1>3. PICK b \in BOOLEAN : b = x.archived
    BY DEF AssetRecords
  <1> QED
    BY <1>1, <1>2, <1>3 DEF AssetRecords

LEMMA PlaceIsWrite ==
  ASSUME NEW st, NEW a, NEW place
  PROVE  [st EXCEPT !.assets[a].place = place] = Write(st, a, AsPlaced(st.assets[a], place))
  BY DEF Write, AsPlaced

LEMMA ArchiveIsWrite ==
  ASSUME NEW st, NEW a, NEW yes
  PROVE  [st EXCEPT !.assets[a].archived = yes] = Write(st, a, AsArchived(st.assets[a], yes))
  BY DEF Write, AsArchived

LEMMA PlaceStep ==
  ASSUME NEW st, Sound(st), Valid(st), NEW now \in Clock,
         NEW r \in [op: {"place"}, asset: Assets, place: Places]
  PROVE  Good(st, SetDeployment(st, now, r), {})
  <1> SUFFICES ASSUME SetDeployment(st, now, r).outcome = "changed"
               PROVE  LET c == SetDeployment(st, now, r).st
                      IN /\ Sound(c) /\ Valid(c) /\ Kept(st, c) /\ Frozen(st, c)
                         /\ Born(c) = Born(st)
    BY DEF Good
  <1>1. PICK a \in Assets, place \in Places : a = r.asset /\ place = r.place
    OBVIOUS
  <1>2. PICK c : c = [st EXCEPT !.assets[a].place = place]
    OBVIOUS
  <1>3. a \in ActiveAssets(st) /\ Valid(c) /\ SetDeployment(st, now, r).st = c
    BY <1>1, <1>2, ValidatedParts DEF SetDeployment
  <1>4. st \in Stores /\ a \in Born(st) /\ ~st.assets[a].archived
    BY <1>3 DEF Sound, ActiveAssets
  <1>5. PICK x \in AssetRecords : x = st.assets[a]
    BY <1>4, StoreParts
  <1>6. c = Write(st, a, AsPlaced(x, place))
    BY <1>2, <1>5, PlaceIsWrite
  <1>7. AsPlaced(x, place) \in AssetRecords /\ AsPlaced(x, place).status = x.status
        /\ AsPlaced(x, place).current = x.current
    BY PlacedRecord
  <1>8. Sound(c) /\ Kept(st, c) /\ Frozen(st, c) /\ Born(c) = Born(st)
    BY <1>3, <1>4, <1>5, <1>6, <1>7, EditStep
  <1> QED
    BY <1>3, <1>8

LEMMA ArchiveStep ==
  ASSUME NEW st, Sound(st), Valid(st), NEW now \in Clock,
         NEW r \in [op: {"archive"}, asset: Assets, archived: BOOLEAN]
  PROVE  Good(st, SetArchived(st, now, r), {})
  <1> SUFFICES ASSUME SetArchived(st, now, r).outcome = "changed"
               PROVE  LET c == SetArchived(st, now, r).st
                      IN /\ Sound(c) /\ Valid(c) /\ Kept(st, c) /\ Frozen(st, c)
                         /\ Born(c) = Born(st)
    BY DEF Good
  <1>1. PICK a \in Assets, yes \in BOOLEAN : a = r.asset /\ yes = r.archived
    OBVIOUS
  <1>2. PICK c : c = [st EXCEPT !.assets[a].archived = yes]
    OBVIOUS
  <1>3. a \in Born(st) /\ Valid(c) /\ SetArchived(st, now, r).st = c
    BY <1>1, <1>2, ValidatedParts DEF SetArchived
  <1>4. st \in Stores
    BY DEF Sound
  <1>5. PICK x \in AssetRecords : x = st.assets[a]
    BY <1>3, <1>4, StoreParts
  <1>6. c = Write(st, a, AsArchived(x, yes))
    BY <1>2, <1>5, ArchiveIsWrite
  <1>7. /\ AsArchived(x, yes) \in AssetRecords /\ AsArchived(x, yes).status = x.status
        /\ AsArchived(x, yes).current = x.current /\ AsArchived(x, yes).archived = yes
    BY ArchivedRecord
  <1>8. PICK record \in AssetRecords : record = AsArchived(x, yes)
    BY <1>7
  <1>9. record = AsArchived(x, record.archived)
    BY <1>7, <1>8
  <1>10. record.status = x.status /\ record.current = x.current
    BY <1>7, <1>8
  <1>11. Sound(c) /\ Kept(st, c) /\ Frozen(st, c) /\ Born(c) = Born(st)
    BY <1>3, <1>5, <1>6, <1>8, <1>9, <1>10, EditStep
  <1> QED
    BY <1>3, <1>11

LEMMA ReplacementFields ==
  ASSUME NEW p, NEW s, NEW date, NEW at
  PROVE  /\ Replacement(p, s, date, at).predecessor = p
         /\ Replacement(p, s, date, at).successor = s
         /\ Replacement(p, s, date, at).voided = None
  BY DEF Replacement

\* A record appended to a snapshot in which at most a record was voided.
LEMMA ConnectStep ==
  ASSUME NEW st, Sound(st), Valid(st), NEW mid \in Stores,
         mid.assets = st.assets, mid.events = st.events,
         DOMAIN mid.replacements = DOMAIN st.replacements, MayVoid(st, mid),
         NEW p \in ActiveAssets(st), NEW s \in ActiveAssets(st), NEW date \in Dates,
         NEW at \in Clock, NEW c, c = WithReplacement(mid, p, s, date, at), Valid(c)
  PROVE  Sound(c) /\ Kept(st, c) /\ Frozen(st, c) /\ Born(c) = Born(st)
  <1>1. /\ st \in Stores /\ p \in Assets /\ s \in Assets
        /\ ~st.assets[p].archived /\ ~st.assets[s].archived
    BY StoreParts DEF Sound, ActiveAssets
  <1>2. PICK n : n = Len(mid.replacements) + 1
    OBVIOUS
  <1>3. /\ c \in Stores /\ c.assets = mid.assets /\ c.events = mid.events
        /\ c.replacements[n] = Replacement(p, s, date, at)
        /\ DOMAIN c.replacements = DOMAIN mid.replacements \union {n}
        /\ \A r \in DOMAIN mid.replacements : c.replacements[r] = mid.replacements[r]
    BY <1>1, <1>2, WithReplacementParts
  <1>4. Sound(c) /\ Born(c) = Born(st)
    BY <1>3, SameLifecycles
  <1>5. MayVoid(st, c)
    BY <1>3 DEF MayVoid
  <1>6. NewAreActive(st, c)
    <2>1. ASSUME NEW r \in DOMAIN c.replacements \ DOMAIN st.replacements, NEW a \in Born(st),
                 a \in {c.replacements[r].predecessor, c.replacements[r].successor}
          PROVE  ~st.assets[a].archived
      <3>1. c.replacements[r] = Replacement(p, s, date, at)
        BY <1>3, <2>1
      <3>2. a = p \/ a = s
        BY <2>1, <3>1, ReplacementFields
      <3> QED
        BY <1>1, <3>2
    <2> QED
      BY <2>1 DEF NewAreActive
  <1>7. ArchivedAlone(st, c)
    BY <1>1, <1>3, SameIfArchived
  <1>8. \A e \in DOMAIN st.events : e \in DOMAIN c.events /\ c.events[e] = st.events[e]
    BY <1>3
  <1> QED
    BY <1>1, <1>3, <1>4, <1>5, <1>6, <1>7, <1>8, Past

LEMMA ReplaceStep ==
  ASSUME NEW st, Sound(st), Valid(st), NEW now \in Clock,
         NEW r \in [op: {"replace"}, predecessor: Assets, successor: Assets, date: Dates]
  PROVE  Good(st, Replace(st, now, r), {})
  <1> SUFFICES ASSUME Replace(st, now, r).outcome = "changed"
               PROVE  LET c == Replace(st, now, r).st
                      IN /\ Sound(c) /\ Valid(c) /\ Kept(st, c) /\ Frozen(st, c)
                         /\ Born(c) = Born(st)
    BY DEF Good
  <1>1. PICK p \in Assets, s \in Assets, date \in Dates :
          p = r.predecessor /\ s = r.successor /\ date = r.date
    OBVIOUS
  <1>2. PICK c : c = WithReplacement(st, p, s, date, now)
    OBVIOUS
  <1>3. /\ Replaceable(st, now, p, s, date)
        /\ Valid(c) /\ Replace(st, now, r).st = c
    BY <1>1, <1>2, ValidatedParts DEF Replace
  <1>4. p \in ActiveAssets(st) /\ s \in ActiveAssets(st) /\ st \in Stores
    BY <1>3 DEF Sound, Replaceable
  <1>5. MayVoid(st, st)
    BY SameReplacements
  <1>6. Sound(c) /\ Kept(st, c) /\ Frozen(st, c) /\ Born(c) = Born(st)
    BY <1>2, <1>3, <1>4, <1>5, ConnectStep
  <1> QED
    BY <1>3, <1>6

LEMMA VoidingParts ==
  ASSUME NEW st \in Stores, NEW r \in ActiveRecords(st), NEW now \in Clock
  PROVE  LET c == Voided(st, r, now)
         IN /\ c \in Stores /\ c.assets = st.assets /\ c.events = st.events
            /\ DOMAIN c.replacements = DOMAIN st.replacements
            /\ MayVoid(st, c) /\ r \notin ActiveRecords(c) /\ NewAreActive(st, c)
  <1>1. PICK c : c = Voided(st, r, now)
    OBVIOUS
  <1>2. r \in DOMAIN st.replacements /\ st.replacements[r].voided = None /\ now # None
    BY Facts DEF ActiveRecords
  <1>3. /\ c \in Stores /\ c.assets = st.assets /\ c.events = st.events
        /\ DOMAIN c.replacements = DOMAIN st.replacements
        /\ c.replacements[r] = AsVoided(st.replacements[r], now)
        /\ c.replacements[r].voided = now
        /\ \A q \in DOMAIN st.replacements \ {r} : c.replacements[q] = st.replacements[q]
    BY <1>1, <1>2, VoidedParts
  <1>4. MayVoid(st, c)
    BY <1>2, <1>3 DEF MayVoid
  <1>5. r \notin ActiveRecords(c)
    BY <1>2, <1>3 DEF ActiveRecords
  <1>6. NewAreActive(st, c)
    BY <1>3 DEF NewAreActive
  <1> QED
    BY <1>1, <1>3, <1>4, <1>5, <1>6

LEMMA VoidStep ==
  ASSUME NEW st, Sound(st), Valid(st), NEW now \in Clock,
         NEW r \in [op: {"void"}, record: DOMAIN st.replacements]
  PROVE  Good(st, Void(st, now, r), {})
  <1> SUFFICES ASSUME Void(st, now, r).outcome = "changed"
               PROVE  LET c == Void(st, now, r).st
                      IN /\ Sound(c) /\ Valid(c) /\ Kept(st, c) /\ Frozen(st, c)
                         /\ Born(c) = Born(st)
    BY DEF Good
  <1>1. PICK c : c = Voided(st, r.record, now)
    OBVIOUS
  <1>2. r.record \in ActiveRecords(st) /\ Valid(c) /\ Void(st, now, r).st = c
    BY <1>1, ValidatedParts DEF Void, Voided
  <1>3. st \in Stores
    BY DEF Sound
  <1>4. /\ c \in Stores /\ c.assets = st.assets /\ c.events = st.events
        /\ MayVoid(st, c) /\ NewAreActive(st, c)
    BY <1>1, <1>2, <1>3, VoidingParts
  <1>5. Sound(c) /\ Born(c) = Born(st)
    BY <1>4, SameLifecycles
  <1>6. ArchivedAlone(st, c)
    BY <1>3, <1>4, SameIfArchived
  <1>7. \A e \in DOMAIN st.events : e \in DOMAIN c.events /\ c.events[e] = st.events[e]
    BY <1>4
  <1>8. Kept(st, c) /\ Frozen(st, c)
    BY <1>2, <1>3, <1>4, <1>6, <1>7, Past
  <1> QED
    BY <1>2, <1>5, <1>8

LEMMA CorrectStep ==
  ASSUME NEW st, Sound(st), Valid(st), NEW now \in Clock,
         NEW r \in [op: {"correct"}, record: DOMAIN st.replacements,
                    predecessor: Assets, successor: Assets, date: Dates]
  PROVE  Good(st, Correct(st, now, r), {})
  <1> SUFFICES ASSUME Correct(st, now, r).outcome = "changed"
               PROVE  LET c == Correct(st, now, r).st
                      IN /\ Sound(c) /\ Valid(c) /\ Kept(st, c) /\ Frozen(st, c)
                         /\ Born(c) = Born(st)
    BY DEF Good
  <1>1. PICK p \in Assets, s \in Assets, date \in Dates, q \in DOMAIN st.replacements :
          p = r.predecessor /\ s = r.successor /\ date = r.date /\ q = r.record
    OBVIOUS
  <1>2. PICK mid : mid = Voided(st, q, now)
    OBVIOUS
  <1>3. PICK c : c = WithReplacement(mid, p, s, date, now)
    OBVIOUS
  <1>4. Correct(st, now, r) =
          IF q \notin ActiveRecords(st) \/ ~Replaceable(st, now, p, s, date)
          THEN Refused(st) ELSE Validated(st, c)
    BY <1>1, <1>2, <1>3 DEF Correct, Voided
  <1>5. /\ q \in ActiveRecords(st) /\ Replaceable(st, now, p, s, date)
        /\ Valid(c) /\ Correct(st, now, r).st = c
    BY <1>4, ValidatedParts
  <1>6. p \in ActiveAssets(st) /\ s \in ActiveAssets(st) /\ st \in Stores
    BY <1>5 DEF Sound, Replaceable
  <1>7. /\ mid \in Stores /\ mid.assets = st.assets /\ mid.events = st.events
        /\ DOMAIN mid.replacements = DOMAIN st.replacements /\ MayVoid(st, mid)
    BY <1>2, <1>5, <1>6, VoidingParts
  <1>8. Sound(c) /\ Kept(st, c) /\ Frozen(st, c) /\ Born(c) = Born(st)
    BY <1>3, <1>5, <1>6, <1>7, ConnectStep
  <1> QED
    BY <1>5, <1>8

LEMMA MutateStep ==
  ASSUME NEW st, Sound(st), Valid(st), NEW now \in Clock, NEW r \in Requests(st)
  PROVE  Good(st, Mutate(st, now, r), {})
  <1>1. CASE r \in [op: {"lifecycle"}, asset: Assets, to: Statuses, date: Dates]
    <2>1. r.op = "lifecycle"
      BY <1>1
    <2>2. Mutate(st, now, r) = SetLifecycle(st, now, r)
      BY <2>1 DEF Mutate
    <2> QED
      BY <1>1, <2>2, LifecycleStep
  <1>2. CASE r \in [op: {"place"}, asset: Assets, place: Places]
    <2>1. r.op = "place"
      BY <1>2
    <2>2. Mutate(st, now, r) = SetDeployment(st, now, r)
      BY <2>1 DEF Mutate
    <2> QED
      BY <1>2, <2>2, PlaceStep
  <1>3. CASE r \in [op: {"archive"}, asset: Assets, archived: BOOLEAN]
    <2>1. r.op = "archive"
      BY <1>3
    <2>2. Mutate(st, now, r) = SetArchived(st, now, r)
      BY <2>1 DEF Mutate
    <2> QED
      BY <1>3, <2>2, ArchiveStep
  <1>4. CASE r \in [op: {"replace"}, predecessor: Assets, successor: Assets, date: Dates]
    <2>1. r.op = "replace"
      BY <1>4
    <2>2. Mutate(st, now, r) = Replace(st, now, r)
      BY <2>1 DEF Mutate
    <2> QED
      BY <1>4, <2>2, ReplaceStep
  <1>5. CASE r \in [op: {"void"}, record: DOMAIN st.replacements]
    <2>1. r.op = "void"
      BY <1>5
    <2>2. Mutate(st, now, r) = Void(st, now, r)
      BY <2>1 DEF Mutate
    <2> QED
      BY <1>5, <2>2, VoidStep
  <1>6. CASE r \in [op: {"correct"}, record: DOMAIN st.replacements,
                    predecessor: Assets, successor: Assets, date: Dates]
    <2>1. r.op = "correct"
      BY <1>6
    <2>2. Mutate(st, now, r) = Correct(st, now, r)
      BY <2>1 DEF Mutate
    <2> QED
      BY <1>6, <2>2, CorrectStep
  <1> QED
    BY <1>1, <1>2, <1>3, <1>4, <1>5, <1>6 DEF Requests

-----------------------------------------------------------------------------
(* New Assets                                                                *)

LEMMA WithAssetParts ==
  ASSUME NEW st, Sound(st), NEW a \in Assets \ Born(st), NEW status \in Statuses,
         NEW date \in Dates, NEW place \in Places, NEW at \in Clock
  PROVE  LET c == WithAsset(st, a, status, date, place, at)
         IN /\ Sound(c) /\ Born(c) = Born(st) \union {a}
            /\ c.replacements = st.replacements
            /\ \A b \in Assets \ {a} : c.assets[b] = st.assets[b]
            /\ \A e \in DOMAIN st.events : e \in DOMAIN c.events /\ c.events[e] = st.events[e]
  <1>1. PICK c : c = WithAsset(st, a, status, date, place, at)
    OBVIOUS
  <1>2. PICK born : born = Write(st, a, Fresh(place))
    OBVIOUS
  <1>3. c = IF status = "unknown" THEN born ELSE Transition(born, a, status, date, at)
    BY <1>1, <1>2 DEF WithAsset, Write, Fresh
  <1>4. st \in Stores /\ Fresh(place) \in AssetRecords /\ Fresh(place).current = None
    BY FreshParts DEF Sound
  <1>5. Sound(born) /\ Born(born) = Born(st) \union {a}
    BY <1>2, BirthSound
  <1>6. /\ born \in Stores /\ born.events = st.events /\ born.replacements = st.replacements
        /\ born.assets[a] = Fresh(place)
        /\ \A b \in Assets \ {a} : born.assets[b] = st.assets[b]
    BY <1>2, <1>4, WriteParts
  <1>7. CASE status = "unknown"
    BY <1>1, <1>3, <1>5, <1>6, <1>7
  <1>8. CASE status # "unknown"
    <2>1. c = Transition(born, a, status, date, at) /\ a \in Born(born)
      BY <1>3, <1>5, <1>8
    <2>2. born.assets[a].current = None
      BY <1>4, <1>6
    <2>3. Sound(c)
      BY <1>5, <2>1, <2>2, TransitionSound
    <2>4. /\ c.replacements = born.replacements
          /\ \A b \in Assets \ {a} : c.assets[b] = born.assets[b]
          /\ DOMAIN c.events = DOMAIN born.events \union {Len(born.events) + 1}
          /\ \A e \in DOMAIN born.events : c.events[e] = born.events[e]
          /\ Born(c) = Born(born)
      BY <1>6, <2>1, TransitionParts
    <2> QED
      BY <1>1, <1>5, <1>6, <2>3, <2>4
  <1> QED
    BY <1>7, <1>8

LEMMA CreateStep ==
  ASSUME NEW st, Sound(st), Valid(st), NEW a \in Assets \ Born(st), NEW status \in Statuses,
         NEW date \in Dates, NEW place \in Places, NEW at \in Clock,
         NEW c, c = WithAsset(st, a, status, date, place, at), Valid(c)
  PROVE  Sound(c) /\ Kept(st, c) /\ Frozen(st, c) /\ Born(c) = Born(st) \union {a}
  <1>1. st \in Stores
    BY DEF Sound
  <1>2. /\ Sound(c) /\ c.replacements = st.replacements /\ Born(c) = Born(st) \union {a}
        /\ \A b \in Assets \ {a} : c.assets[b] = st.assets[b]
        /\ \A e \in DOMAIN st.events : e \in DOMAIN c.events /\ c.events[e] = st.events[e]
    BY WithAssetParts
  <1>3. ArchivedAlone(st, c)
    BY <1>1, <1>2, SameIfArchived, StoreParts
  <1>4. c \in Stores
    BY <1>2 DEF Sound
  <1>5. MayVoid(st, c) /\ NewAreActive(st, c)
    BY <1>2, SameReplacements
  <1> QED
    BY <1>1, <1>2, <1>3, <1>4, <1>5, Past

LEMMA ManualStep ==
  ASSUME NEW st, Sound(st), Valid(st), NEW now \in Clock, NEW a \in Manual \ Born(st),
         NEW status \in Statuses
  PROVE  Good(st, CreateManual(st, now, a, status), {a})
  <1> SUFFICES ASSUME CreateManual(st, now, a, status).outcome = "changed"
               PROVE  LET c == CreateManual(st, now, a, status).st
                      IN /\ Sound(c) /\ Valid(c) /\ Kept(st, c) /\ Frozen(st, c)
                         /\ Born(c) = Born(st) \union {a}
    BY DEF Good
  <1>1. PICK c : c = WithAsset(st, a, status, None, NotDeployed, now)
    OBVIOUS
  <1>2. Valid(c) /\ CreateManual(st, now, a, status).st = c
    BY <1>1, ValidatedParts DEF CreateManual
  <1>3. a \in Assets \ Born(st) /\ None \in Dates /\ NotDeployed \in Places
    BY Facts DEF Assets
  <1>4. Sound(c) /\ Kept(st, c) /\ Frozen(st, c) /\ Born(c) = Born(st) \union {a}
    BY <1>1, <1>2, <1>3, CreateStep
  <1> QED
    BY <1>2, <1>4

\* A predecessor retired and taken out of use, and the record that says by whom.
LEMMA ReplacedStep ==
  ASSUME NEW st, Sound(st), Valid(st), NEW now \in Clock, NEW new, Sound(new),
         NEW a \in Assets \ Born(st), Born(new) = Born(st) \union {a},
         new.replacements = st.replacements,
         \A b \in Assets \ {a} : new.assets[b] = st.assets[b],
         \A e \in DOMAIN st.events : e \in DOMAIN new.events /\ new.events[e] = st.events[e],
         NEW r, r.new.asset = a, r.date \in Dates, r.predecessor \in ActiveAssets(st),
         NEW c, c = Replaced(new, now, r), Valid(c)
  PROVE  Sound(c) /\ Kept(st, c) /\ Frozen(st, c) /\ Born(c) = Born(st) \union {a}
  <1>1. PICK p \in Assets, date \in Dates : p = r.predecessor /\ date = r.date
    BY StoreParts DEF ActiveAssets, Sound
  <1>2. /\ p \in Born(st) /\ p \in Born(new) /\ ~st.assets[p].archived /\ p # a
        /\ st \in Stores /\ new \in Stores
    BY <1>1 DEF ActiveAssets, Sound
  <1>3. PICK retired :
          retired = IF Retires(r) THEN Transition(new, p, "retired", date, now) ELSE new
    OBVIOUS
  <1>4. PICK undeployed :
          undeployed = IF Undeploys(r) THEN Write(retired, p, AsPlaced(retired.assets[p], NotDeployed))
                       ELSE retired
    OBVIOUS
  <1>5. c = WithReplacement(undeployed, p, a, date, now)
    BY <1>1, <1>3, <1>4, PlaceIsWrite DEF Replaced
  <1>6. PICK n : n = Len(new.events) + 1
    OBVIOUS
  <1>7. /\ retired \in Stores /\ retired.replacements = st.replacements
        /\ \A b \in Assets \ {p} : retired.assets[b] = new.assets[b]
        /\ \A e \in DOMAIN new.events : e \in DOMAIN retired.events
                                        /\ retired.events[e] = new.events[e]
        /\ Born(retired) = Born(new)
        /\ Retires(r) => n \in DOMAIN retired.events
                         /\ retired.events[n] = Event(new, p, "retired", date, now)
    <2>1. CASE Retires(r)
      <3>1. retired = Transition(new, p, "retired", date, now) /\ "retired" \in Statuses
        BY <1>3, <2>1, Facts
      <3>2. /\ retired \in Stores /\ retired.replacements = new.replacements
            /\ \A b \in Assets \ {p} : retired.assets[b] = new.assets[b]
            /\ retired.events[n] = Event(new, p, "retired", date, now)
            /\ DOMAIN retired.events = DOMAIN new.events \union {n}
            /\ \A e \in DOMAIN new.events : retired.events[e] = new.events[e]
            /\ Born(retired) = Born(new)
        BY <1>2, <1>6, <3>1, TransitionParts
      <3> QED
        BY <3>2
    <2>2. CASE ~Retires(r)
      <3>1. retired = new
        BY <1>3, <2>2
      <3> QED
        BY <1>2, <2>2, <3>1
    <2> QED
      BY <2>1, <2>2
  <1>8. PICK x \in AssetRecords : x = retired.assets[p]
    BY <1>2, <1>7, StoreParts
  <1>9. /\ undeployed \in Stores /\ undeployed.replacements = st.replacements
        /\ undeployed.events = retired.events
        /\ \A b \in Assets \ {p} : undeployed.assets[b] = new.assets[b]
        /\ Born(undeployed) = Born(new)
        /\ Sound(retired) => Sound(undeployed)
    <2>1. CASE Undeploys(r)
      <3>1. PICK y \in AssetRecords :
              /\ y = AsPlaced(x, NotDeployed)
              /\ y.status = x.status /\ y.current = x.current
        BY PlacedRecord, Facts
      <3>2. undeployed = Write(retired, p, y)
        BY <1>4, <1>8, <2>1, <3>1
      <3>3. /\ undeployed \in Stores /\ undeployed.events = retired.events
            /\ undeployed.replacements = retired.replacements
            /\ \A b \in Assets \ {p} : undeployed.assets[b] = retired.assets[b]
            /\ Born(undeployed) = Born(retired) \union {p}
        BY <1>7, <3>2, WriteParts
      <3>4. Sound(retired) => Sound(undeployed)
        BY <1>2, <1>7, <1>8, <3>1, <3>2, EditSound
      <3> QED
        BY <1>2, <1>7, <3>3, <3>4
    <2>2. CASE ~Undeploys(r)
      <3>1. undeployed = retired
        BY <1>4, <2>2
      <3> QED
        BY <1>7, <3>1
    <2> QED
      BY <2>1, <2>2
  <1>10. PICK q : q = Len(undeployed.replacements) + 1
    OBVIOUS
  <1>11. /\ c \in Stores /\ c.assets = undeployed.assets /\ c.events = retired.events
         /\ c.replacements[q] = Replacement(p, a, date, now)
         /\ DOMAIN c.replacements = DOMAIN st.replacements \union {q}
         /\ \A m \in DOMAIN st.replacements : c.replacements[m] = st.replacements[m]
    BY <1>5, <1>9, <1>10, WithReplacementParts
  <1>12. Born(c) = Born(new)
    BY <1>9, <1>11 DEF Born
  <1>13. Sound(retired)
    <2>1. CASE Retires(r)
      <3>1. n \in DOMAIN c.events /\ c.events[n] = Event(new, p, "retired", date, now)
        BY <1>7, <1>11, <2>1
      <3>2. \A e \in DOMAIN new.events : c.events[e] = new.events[e]
        BY <1>7, <1>11
      <3>3. new.assets[p].current # None => new.events[new.assets[p].current].at <= now
        BY <1>2, <1>12, <3>1, <3>2, NotBack
      <3>4. retired = Transition(new, p, "retired", date, now) /\ "retired" \in Statuses
        BY <1>3, <2>1, Facts
      <3> QED
        BY <1>2, <3>3, <3>4, TransitionSound
    <2>2. CASE ~Retires(r)
      BY <1>3, <2>2
    <2> QED
      BY <2>1, <2>2
  <1>14. Sound(c)
    BY <1>9, <1>11, <1>13, SameLifecycles
  <1>15. \A e \in DOMAIN st.events : e \in DOMAIN c.events /\ c.events[e] = st.events[e]
    BY <1>7, <1>11
  <1>16. MayVoid(st, c)
    BY <1>11 DEF MayVoid
  <1>17. NewAreActive(st, c)
    <2>1. ASSUME NEW m \in DOMAIN c.replacements \ DOMAIN st.replacements, NEW b \in Born(st),
                 b \in {c.replacements[m].predecessor, c.replacements[m].successor}
          PROVE  ~st.assets[b].archived
      <3>1. c.replacements[m] = Replacement(p, a, date, now)
        BY <1>11, <2>1
      <3>2. b = p \/ b = a
        BY <2>1, <3>1, ReplacementFields
      <3> QED
        BY <1>2, <3>2
    <2> QED
      BY <2>1 DEF NewAreActive
  <1>18. ArchivedAlone(st, c)
    <2>1. ASSUME NEW b \in Born(st), st.assets[b].archived
          PROVE  c.assets[b] = st.assets[b]
      <3>1. b \in Assets /\ b # p /\ b # a
        BY <1>2, <2>1, StoreParts
      <3> QED
        BY <1>9, <1>11, <3>1
    <2> QED
      BY <1>2, <2>1, SameIfArchived
  <1> QED
    BY <1>2, <1>11, <1>12, <1>14, <1>15, <1>16, <1>17, <1>18, Past

LEMMA QuickRequestParts ==
  ASSUME NEW st, NEW a, NEW r \in QuickRequests(a, Shown(st))
  PROVE  /\ r.new.asset = a /\ r.new.status \in Statuses /\ r.new.date \in Dates
         /\ r.new.place \in Places /\ r.date \in Dates
  <1> DEFINE New == [asset: {a}, status: Statuses, date: Dates, place: Places]
             With(n, p, e, retire, undeploy, d) ==
               [new |-> n, predecessor |-> p, expected |-> e, retire |-> retire,
                undeploy |-> undeploy, date |-> d]
  <1>1. None \in Dates
    BY Facts
  <1>2. ASSUME NEW n \in New, NEW p, NEW e, NEW retire, NEW undeploy, NEW d \in Dates,
               r = With(n, p, e, retire, undeploy, d)
        PROVE  r.new \in New /\ r.date \in Dates
    BY <1>2
  <1>3. CASE r \in {With(n, "no_one", NoAsset, FALSE, FALSE, None) : n \in New}
    <2>1. PICK n \in New : r = With(n, "no_one", NoAsset, FALSE, FALSE, None)
      BY <1>3
    <2> QED
      BY <1>1, <2>1, <1>2
  <1>4. CASE r \in {With(n, s.asset, s.snapshot, retire, undeploy, d) :
                    n \in New, s \in Shown(st), retire, undeploy \in BOOLEAN, d \in Dates}
    <2>1. PICK n \in New, s \in Shown(st), retire \in BOOLEAN, undeploy \in BOOLEAN, d \in Dates :
             r = With(n, s.asset, s.snapshot, retire, undeploy, d)
      BY <1>4
    <2> QED
      BY <2>1, <1>2
  <1>5. r.new \in New /\ r.date \in Dates
    BY <1>3, <1>4 DEF QuickRequests
  <1> QED
    BY <1>5

LEMMA QuickStep ==
  ASSUME NEW st, Sound(st), Valid(st), NEW now \in Clock, NEW a \in Drafts \ Born(st),
         NEW r \in QuickRequests(a, Shown(st))
  PROVE  Good(st, QuickCreate(st, now, r), {a})
  <1> SUFFICES ASSUME QuickCreate(st, now, r).outcome = "changed"
               PROVE  LET c == QuickCreate(st, now, r).st
                      IN /\ Sound(c) /\ Valid(c) /\ Kept(st, c) /\ Frozen(st, c)
                         /\ Born(c) = Born(st) \union {a}
    BY DEF Good
  <1>1. /\ r.new.asset = a /\ r.new.status \in Statuses /\ r.new.date \in Dates
        /\ r.new.place \in Places /\ r.date \in Dates /\ a \in Assets \ Born(st)
    BY QuickRequestParts DEF Assets
  <1>2. PICK new : new = WithAsset(st, a, r.new.status, r.new.date, r.new.place, now)
    OBVIOUS
  <1>3. \/ /\ r.predecessor = "no_one" /\ Valid(new) /\ QuickCreate(st, now, r).st = new
        \/ /\ r.predecessor \in ActiveAssets(st) /\ Valid(Replaced(new, now, r))
           /\ QuickCreate(st, now, r).st = Replaced(new, now, r)
    BY <1>1, <1>2, ValidatedParts DEF QuickCreate
  <1>4. CASE r.predecessor = "no_one" /\ Valid(new) /\ QuickCreate(st, now, r).st = new
    <2>1. Sound(new) /\ Kept(st, new) /\ Frozen(st, new) /\ Born(new) = Born(st) \union {a}
      BY <1>1, <1>2, <1>4, CreateStep
    <2> QED
      BY <1>4, <2>1
  <1>5. CASE /\ r.predecessor \in ActiveAssets(st) /\ Valid(Replaced(new, now, r))
             /\ QuickCreate(st, now, r).st = Replaced(new, now, r)
    <2>1. /\ Sound(new) /\ Born(new) = Born(st) \union {a}
          /\ new.replacements = st.replacements
          /\ \A b \in Assets \ {a} : new.assets[b] = st.assets[b]
          /\ \A e \in DOMAIN st.events : e \in DOMAIN new.events /\ new.events[e] = st.events[e]
      BY <1>1, <1>2, WithAssetParts
    <2>2. PICK c : c = Replaced(new, now, r)
      OBVIOUS
    <2>3. Valid(c)
      BY <1>5, <2>2
    <2>4. Sound(c) /\ Kept(st, c) /\ Frozen(st, c) /\ Born(c) = Born(st) \union {a}
      BY <1>1, <1>5, <2>1, <2>2, <2>3, ReplacedStep
    <2> QED
      BY <1>5, <2>2, <2>4
  <1> QED
    BY <1>3, <1>4, <1>5

-----------------------------------------------------------------------------
(* The invariant                                                             *)

\* What a save publishes.
LEMMA SaveStep ==
  ASSUME NEW result, NEW new, Good(store, result, new), Save(result), store \in Stores
  PROVE  /\ IInv' /\ Kept(store, store') /\ Frozen(store, store')
         /\ store' = result.st /\ result.outcome = "changed"
         /\ Born(store') = Born(store) \union new
  <1>1. result.outcome = "changed" /\ Size(result.st) <= MaxRecords
    BY DEF Save
  <1>2. result.st \in Stores
    BY <1>1 DEF Good, Sound
  <1>3. store' = result.st
    BY <1>2, StoreParts DEF Save, store
  <1> QED
    BY <1>1, <1>3 DEF Good, IInv

LEMMA InvInit == Init => IInv
  <1> SUFFICES ASSUME Init
               PROVE  IInv
    OBVIOUS
  <1>1. store.assets = [a \in Assets |-> NoAsset] /\ store.events = <<>> /\ store.replacements = <<>>
    BY DEF Init, store
  <1>2. store \in Stores
    BY DEF Init, store, Stores
  <1>3. Born(store) = {}
    BY <1>1 DEF Born
  <1>4. DOMAIN store.events = {} /\ DOMAIN store.replacements = {}
    BY <1>1
  <1>5. Sound(store)
    BY <1>2, <1>3, <1>4, FS_EmptySet DEF Sound
  <1>6. Valid(store)
    <2>1. ActiveRecords(store) = {}
      BY <1>4 DEF ActiveRecords
    <2>2. (SUBSET Born(store)) \ {{}} = {}
      BY <1>3
    <2>3. OneToOne(store, {})
      BY DEF OneToOne
    <2>4. ValidReplacements(store)
      BY <1>4, <2>1, <2>2, <2>3 DEF ValidReplacements
    <2> QED
      BY <1>3, <2>4 DEF Valid
  <1>7. Size(store) <= MaxRecords
    <2>1. Marked(store) = {}
      BY <1>3 DEF Marked
    <2>2. Len(store.events) = 0 /\ Len(store.replacements) = 0
      BY <1>1
    <2>3. Cardinality(Born(store)) = 0 /\ Cardinality(Marked(store)) = 0
      BY <1>3, <2>1, FS_EmptySet
    <2> QED
      BY <2>2, <2>3, Facts DEF Size
  <1> QED
    BY <1>5, <1>6, <1>7 DEF IInv

LEMMA StepParts ==
  ASSUME IInv, Next
  PROVE  IInv' /\ Kept(store, store') /\ Frozen(store, store')
  <1>1. Sound(store) /\ Valid(store) /\ store \in Stores
    BY DEF IInv, Sound
  <1>2. CASE Submit
    <2>1. PICK r \in Requests(store), now \in Clock : Save(Mutate(store, now, r))
      BY <1>2 DEF Submit
    <2> QED
      BY <1>1, <2>1, MutateStep, SaveStep
  <1>3. CASE SubmitManual
    <2>1. PICK a \in Manual \ Born(store), s \in Statuses, now \in Clock :
            Save(CreateManual(store, now, a, s))
      BY <1>3 DEF SubmitManual
    <2> QED
      BY <1>1, <2>1, ManualStep, SaveStep
  <1>4. CASE SubmitQuickCreate
    <2>1. PICK a \in Drafts \ Born(store) :
            \E r \in QuickRequests(a, Shown(store)), now \in Clock :
              Save(QuickCreate(store, now, r))
      BY <1>4 DEF SubmitQuickCreate
    <2>2. PICK r \in QuickRequests(a, Shown(store)), now \in Clock :
            Save(QuickCreate(store, now, r))
      BY <2>1
    <2> QED
      BY <1>1, <2>2, QuickStep, SaveStep
  <1> QED
    BY <1>2, <1>3, <1>4 DEF Next

LEMMA InvNext == IInv /\ [Next]_vars => IInv'
  <1> SUFFICES ASSUME IInv, [Next]_vars
               PROVE  IInv'
    OBVIOUS
  <1>1. CASE UNCHANGED vars
    <2>1. store' = store
      BY <1>1 DEF vars, store
    <2> QED
      BY <2>1 DEF IInv
  <1>2. CASE Next
    BY <1>2, StepParts
  <1> QED
    BY <1>1, <1>2

\* Every snapshot that a save publishes is put together soundly, passes validation,
\* and is within the bound of the model.
THEOREM Invariant == Spec => []IInv
  <1> QED
    BY InvInit, InvNext, PTL DEF Spec

-----------------------------------------------------------------------------
(* The past                                                                  *)

LEMMA StoreFields ==
  /\ store.assets = assets /\ store.events = events /\ store.replacements = replacements
  /\ store'.assets = assets' /\ store'.events = events' /\ store'.replacements = replacements'
  BY DEF store

\* No later step changes a transition or drops a record; a record is only voided,
\* once, and not before it was made (models.py).
THEOREM HistoryIsPermanentHolds == Spec => HistoryIsPermanent
  <1> DEFINE Permanent ==
        /\ \A e \in DOMAIN events : e \in DOMAIN events' /\ events'[e] = events[e]
        /\ \A r \in DOMAIN replacements :
             /\ r \in DOMAIN replacements'
             /\ replacements'[r] \in
                  {[replacements[r] EXCEPT !.voided = t] :
                     t \in {None} \union replacements[r].at..MaxClock}
             /\ replacements[r].voided # None => replacements'[r] = replacements[r]
  <1>1. ASSUME IInv, Next
        PROVE  Permanent
    <2>1. Kept(store, store')
      BY <1>1, StepParts
    <2>2. /\ \A e \in DOMAIN events : e \in DOMAIN events' /\ events'[e] = events[e]
          /\ \A r \in DOMAIN replacements :
               /\ r \in DOMAIN replacements'
               /\ replacements'[r] \in
                    {AsVoided(replacements[r], t) :
                       t \in {None} \union (replacements[r].at..MaxClock)}
               /\ replacements[r].voided # None => replacements'[r] = replacements[r]
      BY <2>1, StoreFields DEF Kept
    <2> QED
      BY <2>2 DEF AsVoided
  <1>2. IInv /\ [Next]_vars => [Permanent]_vars
    BY <1>1
  <1> QED
    BY <1>2, Invariant, PTL DEF Spec, HistoryIsPermanent

\* While an Asset is archived, only its archive mark changes, and it becomes part of
\* no new replacement (_require_active_asset).
THEOREM ArchivedIsFrozenHolds == Spec => ArchivedIsFrozen
  <1> DEFINE Froze ==
        \A a \in Born(store) : assets[a].archived =>
          /\ assets'[a] = [assets[a] EXCEPT !.archived = assets'[a].archived]
          /\ \A r \in ActiveRecords(store') :
               a \in {replacements'[r].predecessor, replacements'[r].successor} =>
                 r \in ActiveRecords(store)
  <1>1. ASSUME IInv, Next
        PROVE  Froze
    <2>1. \A a \in Born(store) : store.assets[a].archived => FrozenAsset(store, store', a)
      BY <1>1, StepParts DEF Frozen
    <2>2. \A a \in Born(store) : assets[a].archived =>
            /\ assets'[a] = AsArchived(assets[a], assets'[a].archived)
            /\ \A r \in ActiveRecords(store') :
                 a \in {replacements'[r].predecessor, replacements'[r].successor} =>
                   r \in ActiveRecords(store)
      BY <2>1, StoreFields DEF FrozenAsset
    <2> QED
      BY <2>2 DEF AsArchived
  <1>2. IInv /\ [Next]_vars => [Froze]_vars
    BY <1>1
  <1> QED
    BY <1>2, Invariant, PTL DEF Spec, ArchivedIsFrozen

-----------------------------------------------------------------------------
(* Requests sent twice                                                       *)

\* A request sent again after it changed something.
Spent(st, r) ==
    LET first == Mutate(st, MaxClock, r)
    IN first.outcome = "changed" =>
        \A later \in Clock : Mutate(first.st, later, r).outcome # "changed"

LEMMA WriteSame ==
  ASSUME NEW st \in Stores, NEW a \in Assets
  PROVE  Write(st, a, st.assets[a]) = st
  <1>1. PICK map : map = [st.assets EXCEPT ![a] = st.assets[a]]
    OBVIOUS
  <1>2. map = st.assets
    BY <1>1, StoreParts
  <1>3. Write(st, a, st.assets[a]) = [st EXCEPT !.assets = map]
    BY <1>1 DEF Write
  <1> QED
    BY <1>2, <1>3 DEF Stores

LEMMA LifecycleSpent ==
  ASSUME NEW st \in Stores,
         NEW r \in [op: {"lifecycle"}, asset: Assets, to: Statuses, date: Dates],
         SetLifecycle(st, MaxClock, r).outcome = "changed", NEW later \in Clock
  PROVE  SetLifecycle(SetLifecycle(st, MaxClock, r).st, later, r).outcome # "changed"
  <1>1. PICK a \in Assets, to \in Statuses, date \in Dates :
          a = r.asset /\ to = r.to /\ date = r.date
    OBVIOUS
  <1>2. PICK c : c = Transition(st, a, to, date, MaxClock)
    OBVIOUS
  <1>3. a \in ActiveAssets(st) /\ SetLifecycle(st, MaxClock, r).st = c
    BY <1>1, <1>2, ValidatedParts DEF SetLifecycle
  <1>4. a \in Born(st) /\ ~st.assets[a].archived
    BY <1>3 DEF ActiveAssets
  <1>0. MaxClock \in Clock
    BY Facts
  <1>5. c.assets[a] = Moved(st, a, to) /\ Born(c) = Born(st)
    BY <1>0, <1>2, <1>4, TransitionParts
  <1>6. c.assets[a].status = to /\ ~c.assets[a].archived
    BY <1>4, <1>5 DEF Moved
  <1>7. a \in ActiveAssets(c)
    BY <1>4, <1>5, <1>6 DEF ActiveAssets
  <1>8. SetLifecycle(c, later, r) = Unchanged(c, "no_op")
    BY <1>1, <1>6, <1>7 DEF SetLifecycle
  <1> QED
    BY <1>3, <1>8, ValidatedParts

LEMMA PlaceSpent ==
  ASSUME NEW st \in Stores, NEW r \in [op: {"place"}, asset: Assets, place: Places],
         SetDeployment(st, MaxClock, r).outcome = "changed", NEW later \in Clock
  PROVE  SetDeployment(SetDeployment(st, MaxClock, r).st, later, r).outcome # "changed"
  <1>1. PICK a \in Assets, place \in Places : a = r.asset /\ place = r.place
    OBVIOUS
  <1>2. PICK c : c = [st EXCEPT !.assets[a].place = place]
    OBVIOUS
  <1>3. a \in ActiveAssets(st) /\ SetDeployment(st, MaxClock, r).st = c
    BY <1>1, <1>2, ValidatedParts DEF SetDeployment
  <1>4. PICK x \in AssetRecords : x = st.assets[a]
    BY <1>3, StoreParts DEF ActiveAssets
  <1>5. PICK y \in AssetRecords : y = AsPlaced(x, place)
    BY PlacedRecord
  <1>6. AsPlaced(y, place) = y
    BY <1>5 DEF AsPlaced, AssetRecords
  <1>7. c = Write(st, a, y)
    BY <1>2, <1>4, <1>5, PlaceIsWrite
  <1>8. c \in Stores /\ c.assets[a] = y
    BY <1>7, WriteParts
  <1>9. [c EXCEPT !.assets[a].place = place] = c
    <2>1. [c EXCEPT !.assets[a].place = place] = Write(c, a, AsPlaced(c.assets[a], place))
      BY PlaceIsWrite
    <2>2. AsPlaced(c.assets[a], place) = c.assets[a]
      BY <1>6, <1>8
    <2>3. Write(c, a, c.assets[a]) = c
      BY <1>8, WriteSame
    <2> QED
      BY <2>1, <2>2, <2>3, Zenon
  <1>10. SetDeployment(c, later, r) \in {Refused(c), Validated(c, c)}
    BY <1>1, <1>9 DEF SetDeployment
  <1>11. Validated(c, c) = Unchanged(c, "no_op")
    BY DEF Validated
  <1> QED
    BY <1>3, <1>10, <1>11, ValidatedParts

LEMMA ArchiveSpent ==
  ASSUME NEW st \in Stores, NEW r \in [op: {"archive"}, asset: Assets, archived: BOOLEAN],
         SetArchived(st, MaxClock, r).outcome = "changed", NEW later \in Clock
  PROVE  SetArchived(SetArchived(st, MaxClock, r).st, later, r).outcome # "changed"
  <1>1. PICK a \in Assets, yes \in BOOLEAN : a = r.asset /\ yes = r.archived
    OBVIOUS
  <1>2. PICK c : c = [st EXCEPT !.assets[a].archived = yes]
    OBVIOUS
  <1>3. a \in Born(st) /\ SetArchived(st, MaxClock, r).st = c
    BY <1>1, <1>2, ValidatedParts DEF SetArchived
  <1>4. PICK x \in AssetRecords : x = st.assets[a]
    BY <1>3, StoreParts
  <1>5. PICK y \in AssetRecords : y = AsArchived(x, yes)
    BY ArchivedRecord
  <1>6. AsArchived(y, yes) = y
    BY <1>5 DEF AsArchived, AssetRecords
  <1>7. c = Write(st, a, y)
    BY <1>2, <1>4, <1>5, ArchiveIsWrite
  <1>8. c \in Stores /\ c.assets[a] = y
    BY <1>7, WriteParts
  <1>9. [c EXCEPT !.assets[a].archived = yes] = c
    <2>1. [c EXCEPT !.assets[a].archived = yes] = Write(c, a, AsArchived(c.assets[a], yes))
      BY ArchiveIsWrite
    <2>2. AsArchived(c.assets[a], yes) = c.assets[a]
      BY <1>6, <1>8
    <2>3. Write(c, a, c.assets[a]) = c
      BY <1>8, WriteSame
    <2> QED
      BY <2>1, <2>2, <2>3, Zenon
  <1>10. SetArchived(c, later, r) \in {Refused(c), Validated(c, c)}
    BY <1>1, <1>9 DEF SetArchived
  <1>11. Validated(c, c) = Unchanged(c, "no_op")
    BY DEF Validated
  <1> QED
    BY <1>3, <1>10, <1>11, ValidatedParts

\* Whoever was just connected is taken.
LEMMA SecondRecord ==
  ASSUME NEW st \in Stores, NEW p \in Assets, NEW s \in Assets, NEW date \in Dates,
         NEW at \in Clock, NEW later \in Clock
  PROVE  ~Valid(WithReplacement(WithReplacement(st, p, s, date, at), p, s, date, later))
  <1>1. PICK c : c = WithReplacement(st, p, s, date, at)
    OBVIOUS
  <1>2. PICK n : n = Len(st.replacements) + 1
    OBVIOUS
  <1>3. /\ c \in Stores /\ c.replacements[n] = Replacement(p, s, date, at)
        /\ n \in DOMAIN c.replacements
    BY <1>1, <1>2, WithReplacementParts
  <1>4. PICK c2 : c2 = WithReplacement(c, p, s, date, later)
    OBVIOUS
  <1>5. PICK m : m = Len(c.replacements) + 1
    OBVIOUS
  <1>6. /\ c2.replacements[m] = Replacement(p, s, date, later)
        /\ DOMAIN c2.replacements = DOMAIN c.replacements \union {m}
        /\ m \notin DOMAIN c.replacements
        /\ \A q \in DOMAIN c.replacements : c2.replacements[q] = c.replacements[q]
    BY <1>3, <1>4, <1>5, WithReplacementParts
  <1>7. n # m /\ n \in ActiveRecords(c2) /\ m \in ActiveRecords(c2)
        /\ c2.replacements[n].predecessor = c2.replacements[m].predecessor
    BY <1>3, <1>6, ReplacementFields DEF ActiveRecords
  <1>8. ~Valid(c2)
    BY <1>7 DEF Valid, ValidReplacements, OneToOne
  <1> QED
    BY <1>1, <1>4, <1>8

LEMMA ReplaceSpent ==
  ASSUME NEW st \in Stores,
         NEW r \in [op: {"replace"}, predecessor: Assets, successor: Assets, date: Dates],
         Replace(st, MaxClock, r).outcome = "changed", NEW later \in Clock
  PROVE  Replace(Replace(st, MaxClock, r).st, later, r).outcome # "changed"
  <1>1. PICK p \in Assets, s \in Assets, date \in Dates :
          p = r.predecessor /\ s = r.successor /\ date = r.date
    OBVIOUS
  <1>2. PICK at \in Clock : at = MaxClock
    BY Facts
  <1>3. PICK c : c = WithReplacement(st, p, s, date, at)
    OBVIOUS
  <1>4. PICK c2 : c2 = WithReplacement(c, p, s, date, later)
    OBVIOUS
  <1>5. Replace(st, MaxClock, r).st = c
    BY <1>1, <1>2, <1>3, ValidatedParts DEF Replace
  <1>6. ~Valid(c2)
    BY <1>3, <1>4, SecondRecord
  <1>7. Replace(c, later, r) \in {Refused(c), Validated(c, c2)}
    BY <1>1, <1>4 DEF Replace
  <1> QED
    BY <1>5, <1>6, <1>7, ValidatedParts

LEMMA VoidSpent ==
  ASSUME NEW st \in Stores, NEW r \in [op: {"void"}, record: DOMAIN st.replacements],
         Void(st, MaxClock, r).outcome = "changed", NEW later \in Clock
  PROVE  Void(Void(st, MaxClock, r).st, later, r).outcome # "changed"
  <1>1. PICK c : c = Voided(st, r.record, MaxClock)
    OBVIOUS
  <1>2. r.record \in ActiveRecords(st) /\ Void(st, MaxClock, r).st = c
    BY <1>1, ValidatedParts DEF Void, Voided
  <1>3. r.record \notin ActiveRecords(c)
    BY <1>1, <1>2, VoidingParts, Facts
  <1>4. Void(c, later, r) = Refused(c)
    BY <1>3 DEF Void
  <1> QED
    BY <1>2, <1>4, ValidatedParts

LEMMA RecordsStay ==
  ASSUME NEW st \in Stores, NEW p \in Assets, NEW s \in Assets, NEW date \in Dates,
         NEW at \in Clock
  PROVE  \A m \in DOMAIN st.replacements :
           WithReplacement(st, p, s, date, at).replacements[m] = st.replacements[m]
  BY WithReplacementParts

LEMMA CorrectSpent ==
  ASSUME NEW st \in Stores,
         NEW r \in [op: {"correct"}, record: DOMAIN st.replacements,
                    predecessor: Assets, successor: Assets, date: Dates],
         Correct(st, MaxClock, r).outcome = "changed", NEW later \in Clock
  PROVE  Correct(Correct(st, MaxClock, r).st, later, r).outcome # "changed"
  <1>1. PICK p \in Assets, s \in Assets, date \in Dates, q \in DOMAIN st.replacements :
          p = r.predecessor /\ s = r.successor /\ date = r.date /\ q = r.record
    OBVIOUS
  <1>2. PICK mid : mid = Voided(st, q, MaxClock)
    OBVIOUS
  <1>3. PICK c : c = WithReplacement(mid, p, s, date, MaxClock)
    OBVIOUS
  <1>4. Correct(st, MaxClock, r) =
          IF q \notin ActiveRecords(st) \/ ~Replaceable(st, MaxClock, p, s, date)
          THEN Refused(st) ELSE Validated(st, c)
    BY <1>1, <1>2, <1>3 DEF Correct, Voided
  <1>5. q \in ActiveRecords(st) /\ Correct(st, MaxClock, r).st = c
    BY <1>4, ValidatedParts
  <1>6. /\ mid \in Stores /\ DOMAIN mid.replacements = DOMAIN st.replacements
        /\ q \notin ActiveRecords(mid)
    BY <1>2, <1>5, VoidingParts, Facts
  <1>7. \A m \in DOMAIN mid.replacements : c.replacements[m] = mid.replacements[m]
    <2>1. PICK at \in Clock : at = MaxClock
      BY Facts
    <2>2. c = WithReplacement(mid, p, s, date, at)
      BY <1>3, <2>1
    <2>3. \A m \in DOMAIN mid.replacements :
            WithReplacement(mid, p, s, date, at).replacements[m] = mid.replacements[m]
      BY <1>6, RecordsStay
    <2> QED
      BY <2>2, <2>3
  <1>8. q \notin ActiveRecords(c)
    BY <1>6, <1>7 DEF ActiveRecords
  <1>9. Correct(c, later, r) = Refused(c)
    BY <1>1, <1>8 DEF Correct
  <1> QED
    BY <1>5, <1>9, ValidatedParts

LEMMA RequestSpent ==
  ASSUME NEW st \in Stores, NEW r \in Requests(st)
  PROVE  Spent(st, r)
  <1>1. CASE r \in [op: {"lifecycle"}, asset: Assets, to: Statuses, date: Dates]
    <2>1. r.op = "lifecycle"
      BY <1>1
    <2>2. \A s, now : Mutate(s, now, r) = SetLifecycle(s, now, r)
      BY <2>1 DEF Mutate
    <2> QED
      BY <1>1, <2>2, LifecycleSpent DEF Spent
  <1>2. CASE r \in [op: {"place"}, asset: Assets, place: Places]
    <2>1. r.op = "place"
      BY <1>2
    <2>2. \A s, now : Mutate(s, now, r) = SetDeployment(s, now, r)
      BY <2>1 DEF Mutate
    <2> QED
      BY <1>2, <2>2, PlaceSpent DEF Spent
  <1>3. CASE r \in [op: {"archive"}, asset: Assets, archived: BOOLEAN]
    <2>1. r.op = "archive"
      BY <1>3
    <2>2. \A s, now : Mutate(s, now, r) = SetArchived(s, now, r)
      BY <2>1 DEF Mutate
    <2> QED
      BY <1>3, <2>2, ArchiveSpent DEF Spent
  <1>4. CASE r \in [op: {"replace"}, predecessor: Assets, successor: Assets, date: Dates]
    <2>1. r.op = "replace"
      BY <1>4
    <2>2. \A s, now : Mutate(s, now, r) = Replace(s, now, r)
      BY <2>1 DEF Mutate
    <2> QED
      BY <1>4, <2>2, ReplaceSpent DEF Spent
  <1>5. CASE r \in [op: {"void"}, record: DOMAIN st.replacements]
    <2>1. r.op = "void"
      BY <1>5
    <2>2. \A s, now : Mutate(s, now, r) = Void(s, now, r)
      BY <2>1 DEF Mutate
    <2> QED
      BY <1>5, <2>2, VoidSpent DEF Spent
  <1>6. CASE r \in [op: {"correct"}, record: DOMAIN st.replacements,
                    predecessor: Assets, successor: Assets, date: Dates]
    <2>1. r.op = "correct"
      BY <1>6
    <2>2. \A s, now : Mutate(s, now, r) = Correct(s, now, r)
      BY <2>1 DEF Mutate
    <2> QED
      BY <1>6, <2>2, CorrectSpent DEF Spent
  <1> QED
    BY <1>1, <1>2, <1>3, <1>4, <1>5, <1>6 DEF Requests

\* A form that is sent again, at any clock, finds its work done or is refused: no
\* second event or record, and no correction that voids itself (storage.py).
THEOREM NothingTwiceHolds == Spec => []NothingTwice
  <1>1. IInv => NothingTwice
    <2> SUFFICES ASSUME IInv
                 PROVE  NothingTwice
      OBVIOUS
    <2>1. store \in Stores
      BY DEF IInv, Sound
    <2>2. \A r \in Requests(store) : Spent(store, r)
      BY <2>1, RequestSpent
    <2> QED
      BY <2>2 DEF NothingTwice, Spent
  <1> QED
    BY <1>1, Invariant, PTL

-----------------------------------------------------------------------------
(* Lineages                                                                  *)

\* The last of a set of events is unique.
LEMMA LastIsChosen ==
  ASSUME NEW es \in SUBSET (Nat \ {0}), NEW n, IsLast(n, es)
  PROVE  n = CHOOSE e \in es \union {None} : \A x \in es : x <= e
  <1>1. n \in es \union {None} /\ \A x \in es : x <= n
    BY DEF IsLast
  <1>2. ASSUME NEW m \in es \union {None}, \A x \in es : x <= m
        PROVE  m = n
    BY <1>1, <1>2 DEF None
  <1> QED
    BY <1>1, <1>2

\* Validation finds the last of every family, who has no successor in it.  The first,
\* who has no predecessor in it, exists because records are one to one and the family
\* is finite: a predecessor for everyone would be a successor for everyone.
LEMMA FamilyHasFirst ==
  ASSUME NEW st, IsFiniteSet(Born(st)), ValidReplacements(st),
         NEW family \in (SUBSET Born(st)) \ {{}}
  PROVE  \E a \in family : \A r \in ActiveRecords(st) :
           st.replacements[r].successor = a => st.replacements[r].predecessor \notin family
  <1> DEFINE active == ActiveRecords(st)
             Record(r) == st.replacements[r]
  <1> SUFFICES ASSUME \A a \in family : \E r \in active :
                        Record(r).successor = a /\ Record(r).predecessor \in family
               PROVE  FALSE
    OBVIOUS
  <1>1. IsFiniteSet(family)
    BY FS_Subset
  <1>2. OneToOne(st, active)
    BY DEF ValidReplacements
  <1> DEFINE by == [a \in family |-> CHOOSE r \in active :
                      Record(r).successor = a /\ Record(r).predecessor \in family]
             before == [a \in family |-> Record(by[a]).predecessor]
  <1>3. \A a \in family : by[a] \in active /\ Record(by[a]).successor = a
                          /\ Record(by[a]).predecessor \in family
    OBVIOUS
  <1> HIDE DEF by
  <1>4. before \in [family -> family]
    BY <1>3
  <1>5. ASSUME NEW a \in family, NEW b \in family, before[a] = before[b]
        PROVE  a = b
    <2>1. Record(by[a]).predecessor = Record(by[b]).predecessor
      BY <1>5
    <2>2. by[a] = by[b]
      BY <1>2, <1>3, <2>1 DEF OneToOne
    <2> QED
      BY <1>3, <2>2
  <1>6. before \in Injection(family, family)
    BY <1>4, <1>5, DOMAIN before = family DEF Injection, IsInjective
  <1>7. before \in Surjection(family, family)
    BY <1>1, <1>6, FS_Injection
  <1>8. PICK a \in family : \A b \in family, r \in active : ~Replaces(st, r, b, a)
    BY DEF ValidReplacements
  <1>9. PICK b \in family : before[b] = a
    BY <1>7, <1>8 DEF Surjection
  <1>10. by[b] \in active /\ Record(by[b]).successor = b /\ Record(by[b]).predecessor = a
    BY <1>3, <1>9
  <1> QED
    BY <1>8, <1>10 DEF Replaces

\* At most one of a set of records that are one to one.
LEMMA AtMostOne ==
  ASSUME NEW S, \A x, y \in S : x = y
  PROVE  Cardinality(S) <= 1
  <1>1. CASE S = {}
    <2>1. Cardinality(S) = 0
      BY <1>1, FS_EmptySet
    <2> QED
      BY <2>1
  <1>2. CASE S # {}
    <2>1. PICK x : S = {x}
      BY <1>2
    <2>2. Cardinality(S) = 1
      BY <2>1, FS_Singleton
    <2> QED
      BY <2>2
  <1> QED
    BY <1>1, <1>2

LEMMA TypeIsSound == IInv => TypeOK
  <1> SUFFICES ASSUME IInv
               PROVE  TypeOK
    OBVIOUS
  <1>1. Sound(store) /\ store \in Stores /\ Size(store) <= MaxRecords
    BY DEF IInv, Sound
  <1>2. PICK n \in Nat : n = Len(events) /\ DOMAIN events = 1..n
    BY <1>1, StoreParts, StoreFields
  <1>3. n <= MaxRecords
    <2>1. PICK m \in Nat : m = Len(replacements)
      BY <1>1, StoreParts, StoreFields
    <2>2. IsFiniteSet(Born(store)) /\ Marked(store) \in SUBSET Born(store)
      BY <1>1 DEF Sound, Marked
    <2>3. Cardinality(Born(store)) \in Nat /\ Cardinality(Marked(store)) \in Nat
      BY <2>2, FS_Subset, FS_CardinalityType
    <2>4. PICK b \in Nat, c \in Nat :
            b = Cardinality(Born(store)) /\ c = Cardinality(Marked(store))
      BY <2>3
    <2>5. Size(store) = b + c + n + m
      BY <1>2, <2>1, <2>4, StoreFields DEF Size
    <2> QED
      BY <1>1, <2>5, Facts
  <1>4. \A a \in Born(store) : EventsOf(store, a) \subseteq 1..n
    BY <1>2, StoreFields DEF EventsOf
  <1>5. ASSUME NEW a \in Born(store)
        PROVE  assets[a] \in [status: Statuses, current: 0..Len(events), place: Places,
                              archived: BOOLEAN]
    <2>1. PICK x \in AssetRecords : x = assets[a]
      BY <1>1, StoreParts, StoreFields
    <2>2. x.current \in 0..n
      BY <1>1, <1>4, <2>1, StoreFields DEF Sound, Chained, IsLast, None
    <2> QED
      BY <1>2, <2>1, <2>2 DEF AssetRecords
  <1> DEFINE Bounded == [asset: Assets, previous: 0..MaxRecords, from: Statuses, to: Statuses,
                         date: Dates, at: Clock]
  <1>6. ASSUME NEW e \in 1..n
        PROVE  events[e] \in Bounded
    <2>1. PICK x \in EventRecords : x = events[e]
      BY <1>1, <1>2, StoreParts, StoreFields
    <2>2. x.asset \in Born(store) /\ e \in EventsOf(store, x.asset)
      BY <1>1, <1>2, <2>1, StoreFields DEF Sound, EventsOf
    <2>3. x.previous \in EventsOf(store, x.asset) \union {None}
      BY <1>1, <2>1, <2>2, StoreFields DEF Sound, Chained, IsLast
    <2>4. x.previous \in 0..MaxRecords
      BY <1>3, <1>4, <2>2, <2>3, Facts DEF None
    <2> QED
      BY <2>1, <2>4 DEF EventRecords
  <1>7. events \in Seq(EventRecords) /\ replacements \in Seq(Records)
    BY <1>1, StoreParts, StoreFields
  <1> HIDE DEF Bounded
  <1>8. events \in Seq(Bounded)
    BY <1>2, <1>6, <1>7
  <1> QED
    BY <1>5, <1>7, <1>8 DEF TypeOK, Records, Bounded

\* Everybody's lifecycle is one chain in the order it was recorded, up to the status
\* that is stored; everybody is replaced by at most one and replaces at most one, and
\* nobody is his own ancestor (_validate_lifecycle_graph, _validate_replacement_graph).
THEOREM LineagesAreSoundHolds == Spec => []LineagesAreSound
  <1>1. ASSUME IInv
        PROVE  LineagesAreSound
    <2>1. Sound(store) /\ Valid(store) /\ store \in Stores /\ IsFiniteSet(Born(store))
      BY <1>1 DEF IInv, Sound
    <2>2. TypeOK
      BY <1>1, TypeIsSound
    <2> DEFINE Last(es) == CHOOSE e \in es \union {None} : \A x \in es : x <= e
               Status(e) == IF e = None THEN "unknown" ELSE events[e].to
               ChainOf(a) ==
                 LET own == EventsOf(store, a)
                 IN /\ assets[a].current = Last(own) /\ assets[a].status = Status(Last(own))
                    /\ \A e \in own :
                         LET before == {x \in own : x < e}
                         IN /\ events[e].previous = Last(before)
                            /\ events[e].from = Status(Last(before))
                            /\ \A x \in before : events[x].at <= events[e].at
               First(family) ==
                 \E a \in family : \A r \in ActiveRecords(store) :
                   replacements[r].successor = a => replacements[r].predecessor \notin family
    <2>3. ASSUME NEW a \in Born(store)
          PROVE  ChainOf(a)
      <3>1. PICK own : own = EventsOf(store, a)
        OBVIOUS
      <3>2. own \in SUBSET (Nat \ {0})
        BY <2>1, <3>1, StoreParts DEF EventsOf
      <3>3. /\ IsLast(assets[a].current, own)
            /\ assets[a].status = StatusAt(store, assets[a].current)
            /\ \A e \in own :
                 /\ IsLast(events[e].previous, {x \in own : x < e})
                 /\ events[e].from = StatusAt(store, events[e].previous)
                 /\ \A x \in {x \in own : x < e} : events[x].at <= events[e].at
        BY <2>1, <3>1, StoreFields DEF Sound, Chained
      <3>4. \A e : StatusAt(store, e) = Status(e)
        BY StoreFields DEF StatusAt
      <3>5. assets[a].current = Last(own)
        BY <3>2, <3>3, LastIsChosen
      <3>6. ASSUME NEW e \in own
            PROVE  events[e].previous = Last({x \in own : x < e})
        <4>1. {x \in own : x < e} \in SUBSET (Nat \ {0})
          BY <3>2
        <4> QED
          BY <3>3, <3>6, <4>1, LastIsChosen
      <3> HIDE DEF Last, Status
      <3> QED
        BY <3>1, <3>3, <3>4, <3>5, <3>6
    <2>4. ASSUME NEW family \in (SUBSET Born(store)) \ {{}}
          PROVE  First(family)
      BY <2>1, FamilyHasFirst, StoreFields DEF Valid
    <2>5. OneToOne(store, ActiveRecords(store))
      BY <2>1 DEF Valid, ValidReplacements
    <2>6. ASSUME NEW a \in Born(store)
          PROVE  /\ Cardinality({r \in ActiveRecords(store) : replacements[r].predecessor = a}) <= 1
                 /\ Cardinality({r \in ActiveRecords(store) : replacements[r].successor = a}) <= 1
      <3>1. \A r, q \in {m \in ActiveRecords(store) : replacements[m].predecessor = a} : r = q
        BY <2>5, StoreFields DEF OneToOne
      <3>2. \A r, q \in {m \in ActiveRecords(store) : replacements[m].successor = a} : r = q
        BY <2>5, StoreFields DEF OneToOne
      <3> QED
        BY <3>1, <3>2, AtMostOne
    <2> QED
      BY <2>2, <2>3, <2>4, <2>6 DEF LineagesAreSound
  <1> QED
    BY <1>1, Invariant, PTL

-----------------------------------------------------------------------------
(* What validation accepts                                                   *)

\* A chain depends on nothing but the Asset's own events, status and current.
LEMMA ValidChainKept ==
  ASSUME NEW st, NEW st2, NEW a, ValidChain(st, a), Chained(st, a),
         st2.assets[a].current = st.assets[a].current,
         st2.assets[a].status = st.assets[a].status,
         EventsOf(st2, a) = EventsOf(st, a),
         \A e \in DOMAIN st.events : st2.events[e] = st.events[e]
  PROVE  ValidChain(st2, a)
  <1> DEFINE own == EventsOf(st, a)
             Ordered(s) == \A e \in own : s.events[e].previous # None =>
               LET before == s.events[s.events[e].previous]
               IN /\ before.asset = a /\ before.to = s.events[e].from
                  /\ InOrder(before.date, s.events[e].date) /\ before.at <= s.events[e].at
  <1>1. \A e \in own : st2.events[e] = st.events[e]
    BY DEF EventsOf
  <1>2. \A e \in own : st.events[e].previous # None =>
          st2.events[st.events[e].previous] = st.events[st.events[e].previous]
    BY <1>1 DEF Chained, IsLast
  <1>3. {e \in own : st2.events[e].previous = None} = {e \in own : st.events[e].previous = None}
    BY <1>1
  <1>4. \A e : {n \in own : st2.events[n].previous = e} = {n \in own : st.events[n].previous = e}
    BY <1>1
  <1>5. Ordered(st) => Ordered(st2)
    BY <1>1, <1>2
  <1>6. CASE own = {}
    BY <1>6 DEF ValidChain
  <1>7. CASE own # {}
    <2>1. /\ st.assets[a].current \in own
          /\ st.events[st.assets[a].current].to = st.assets[a].status
          /\ \A e \in own : st.events[e].from # st.events[e].to
          /\ Cardinality({e \in own : st.events[e].previous = None}) = 1
          /\ \A e \in own : st.events[e].previous = None => st.events[e].from = "unknown"
          /\ Ordered(st)
          /\ \A e \in own \ {st.assets[a].current} :
               Cardinality({n \in own : st.events[n].previous = e}) = 1
      BY <1>7 DEF ValidChain
    <2> HIDE DEF Ordered
    <2> HIDE DEF own
    <2>2. /\ st2.assets[a].current \in own
          /\ st2.events[st2.assets[a].current].to = st2.assets[a].status
          /\ \A e \in own : st2.events[e].from # st2.events[e].to
          /\ \A e \in own : st2.events[e].previous = None => st2.events[e].from = "unknown"
      BY <1>1, <2>1
    <2>3. Cardinality({e \in own : st2.events[e].previous = None}) = 1
      BY <1>3, <2>1
    <2>4. \A e \in own \ {st2.assets[a].current} :
            Cardinality({n \in own : st2.events[n].previous = e}) = 1
      BY <1>4, <2>1
    <2>5. Ordered(st2)
      BY <1>5, <2>1
    <2> USE DEF Ordered
    <2> QED
      BY <1>7, <2>2, <2>3, <2>4, <2>5 DEF own, ValidChain
  <1> QED
    BY <1>6, <1>7

\* At the latest clock, an undated transition to another status is in order.
LEMMA TransitionValid ==
  ASSUME NEW st, Sound(st), NEW a \in Born(st), ValidChain(st, a), NEW to \in Statuses,
         to # st.assets[a].status, NEW at \in Clock,
         \A e \in DOMAIN st.events : st.events[e].at <= at
  PROVE  ValidChain(Transition(st, a, to, None, at), a)
  <1>1. PICK c : c = Transition(st, a, to, None, at)
    OBVIOUS
  <1>2. PICK m \in Nat : m = Len(st.events) /\ DOMAIN st.events = 1..m
    BY StoreParts DEF Sound
  <1> DEFINE own == EventsOf(st, a)
             n == m + 1
             current == st.assets[a].current
             Ordered(s, e) == s.events[e].previous # None =>
               LET before == s.events[s.events[e].previous]
               IN /\ before.asset = a /\ before.to = s.events[e].from
                  /\ InOrder(before.date, s.events[e].date) /\ before.at <= s.events[e].at
  <1>3. st \in Stores /\ None \in Dates
    BY Facts DEF Sound
  <1>4. /\ c.assets[a] = Moved(st, a, to) /\ c.events[n] = Event(st, a, to, None, at)
        /\ DOMAIN c.events = DOMAIN st.events \union {n}
        /\ \A e \in DOMAIN st.events : c.events[e] = st.events[e]
    BY <1>1, <1>2, <1>3, TransitionParts
  <1>5. /\ c.assets[a].current = n /\ c.assets[a].status = to
        /\ c.events[n].asset = a /\ c.events[n].previous = current
        /\ c.events[n].from = st.assets[a].status /\ c.events[n].to = to
        /\ c.events[n].date = None /\ c.events[n].at = at
    <2>1. c.assets[a].current = n /\ c.assets[a].status = to
      BY <1>2, <1>4 DEF Moved
    <2>2. /\ c.events[n].asset = a /\ c.events[n].previous = current
          /\ c.events[n].from = st.assets[a].status /\ c.events[n].to = to
          /\ c.events[n].date = None /\ c.events[n].at = at
      BY <1>4 DEF Event
    <2> QED
      BY <2>1, <2>2
  <1>6. own \subseteq 1..m /\ n \notin own /\ None \notin own
    BY <1>2 DEF EventsOf, None
  <1>7. EventsOf(c, a) = own \union {n}
    BY <1>2, <1>4, <1>5, <1>6 DEF EventsOf
  <1>8. \A e \in own : c.events[e] = st.events[e]
    BY <1>4 DEF EventsOf
  <1>9. /\ IsLast(current, own) /\ st.assets[a].status = StatusAt(st, current)
        /\ \A e \in own : IsLast(st.events[e].previous, {x \in own : x < e})
    BY DEF Sound, Chained
  <1>10. \A e \in own : Ordered(st, e) => Ordered(c, e)
    <2> TAKE e \in own
    <2>1. st.events[e].previous # None => st.events[e].previous \in own
      BY <1>9 DEF IsLast
    <2> QED
      BY <1>8, <2>1
  <1>11. CASE own = {}
    <2>1. current = None /\ st.assets[a].status = "unknown"
      BY <1>11 DEF ValidChain
    <2>2. {e \in own \union {n} : c.events[e].previous = None} = {n}
      BY <1>5, <1>11, <2>1
    <2>3. Cardinality({e \in own \union {n} : c.events[e].previous = None}) = 1
      BY <2>2, FS_Singleton
    <2>4. (own \union {n}) \ {n} = {}
      BY <1>11
    <2> HIDE DEF own
    <2> QED
      BY <1>1, <1>5, <1>7, <1>11, <2>1, <2>3, <2>4 DEF ValidChain
  <1>12. CASE own # {}
    <2>1. /\ current \in own
          /\ st.events[current].to = st.assets[a].status
          /\ \A e \in own : st.events[e].from # st.events[e].to
          /\ Cardinality({e \in own : st.events[e].previous = None}) = 1
          /\ \A e \in own : st.events[e].previous = None => st.events[e].from = "unknown"
          /\ \A e \in own : Ordered(st, e)
          /\ \A e \in own \ {current} : Cardinality({x \in own : st.events[x].previous = e}) = 1
      BY <1>12 DEF ValidChain
    <2>2. {e \in own \union {n} : c.events[e].previous = None}
            = {e \in own : st.events[e].previous = None}
      BY <1>5, <1>6, <1>8, <2>1
    <2>3. ASSUME NEW e \in own
          PROVE  Cardinality({x \in own \union {n} : c.events[x].previous = e}) = 1
      <3>1. CASE e = current
        <4>1. \A x \in own : st.events[x].previous # current
          <5> TAKE x \in own
          <5>1. x \in Nat /\ current \in Nat /\ x <= current /\ current # None
            BY <1>6, <1>9, <2>1 DEF IsLast
          <5>2. st.events[x].previous = None \/ st.events[x].previous < x
            BY <1>9 DEF IsLast
          <5> QED
            BY <5>1, <5>2 DEF None
        <4>2. {x \in own \union {n} : c.events[x].previous = e} = {n}
          BY <1>5, <1>8, <3>1, <4>1
        <4> QED
          BY <4>2, FS_Singleton
      <3>2. CASE e # current
        <4>1. {x \in own \union {n} : c.events[x].previous = e}
                = {x \in own : st.events[x].previous = e}
          BY <1>5, <1>6, <1>8, <3>2
        <4> QED
          BY <2>1, <3>2, <4>1
      <3> QED
        BY <3>1, <3>2
    <2>4. Ordered(c, n)
      <3>1. c.events[current] = st.events[current] /\ current \in DOMAIN st.events
        BY <1>8, <2>1 DEF EventsOf
      <3>2. st.events[current].asset = a /\ st.events[current].at <= at
        BY <2>1, <3>1 DEF EventsOf
      <3> QED
        BY <1>5, <2>1, <3>1, <3>2 DEF InOrder
    <2>5. \A e \in own \union {n} : Ordered(c, e)
      BY <1>10, <2>1, <2>4
    <2>6. \A e \in own \union {n} : c.events[e].from # c.events[e].to
      BY <1>5, <1>8, <2>1
    <2>7. \A e \in own \union {n} : c.events[e].previous = None => c.events[e].from = "unknown"
      BY <1>5, <1>6, <1>8, <2>1
    <2>8. Cardinality({e \in own \union {n} : c.events[e].previous = None}) = 1
      BY <2>1, <2>2
    <2>9. \A e \in (own \union {n}) \ {n} :
            Cardinality({x \in own \union {n} : c.events[x].previous = e}) = 1
      BY <2>3
    <2> HIDE DEF own
    <2> QED
      BY <1>1, <1>5, <1>7, <1>12, <2>5, <2>6, <2>7, <2>8, <2>9 DEF ValidChain
  <1> QED
    BY <1>11, <1>12

\* The relation between records of one snapshot and of the next.
LEMMA FewerRecordsValid ==
  ASSUME NEW st, ValidReplacements(st), NEW c, Born(c) = Born(st),
         ActiveRecords(c) \subseteq ActiveRecords(st),
         \A r \in ActiveRecords(c) : c.replacements[r] = st.replacements[r],
         \A r \in DOMAIN c.replacements :
            /\ c.replacements[r].predecessor # c.replacements[r].successor
            /\ {c.replacements[r].predecessor, c.replacements[r].successor} \subseteq Born(c)
            /\ c.replacements[r].voided # None => c.replacements[r].at <= c.replacements[r].voided
  PROVE  ValidReplacements(c)
  <1>1. OneToOne(c, ActiveRecords(c))
    <2>1. OneToOne(st, ActiveRecords(st))
      BY DEF ValidReplacements
    <2> QED
      BY <2>1 DEF OneToOne
  <1>2. \A r, q \in ActiveRecords(c) :
          c.replacements[r].successor = c.replacements[q].predecessor =>
            InOrder(c.replacements[r].date, c.replacements[q].date)
    BY DEF ValidReplacements
  <1>3. ASSUME NEW cycle \in (SUBSET Born(c)) \ {{}}
        PROVE  \E a \in cycle : \A b \in cycle, r \in ActiveRecords(c) : ~Replaces(c, r, b, a)
    <2>1. PICK a \in cycle : \A b \in cycle, r \in ActiveRecords(st) : ~Replaces(st, r, b, a)
      BY DEF ValidReplacements
    <2> QED
      BY <2>1 DEF Replaces
  <1> QED
    BY <1>1, <1>2, <1>3 DEF ValidReplacements

LEMMA SameRecordsValid ==
  ASSUME NEW st, ValidReplacements(st), NEW c, Born(c) = Born(st),
         c.replacements = st.replacements
  PROVE  ValidReplacements(c)
  <1>1. ActiveRecords(c) = ActiveRecords(st)
    BY DEF ActiveRecords
  <1>2. \A r \in DOMAIN c.replacements :
          /\ c.replacements[r].predecessor # c.replacements[r].successor
          /\ {c.replacements[r].predecessor, c.replacements[r].successor} \subseteq Born(c)
          /\ c.replacements[r].voided # None => c.replacements[r].at <= c.replacements[r].voided
    BY DEF ValidReplacements
  <1> QED
    BY <1>1, <1>2, FewerRecordsValid

LEMMA Accept ==
  ASSUME NEW st, NEW c, c # st, Valid(c)
  PROVE  Validated(st, c).outcome = "changed"
  BY DEF Validated

LEMMA LifecycleAccepted ==
  ASSUME NEW st, Sound(st), Valid(st), NEW a \in ActiveAssets(st), NEW to \in Statuses,
         to # st.assets[a].status
  PROVE  Mutate(st, MaxClock,
                [op |-> "lifecycle", asset |-> a, to |-> to, date |-> None]).outcome = "changed"
  <1>1. PICK r : r = [op |-> "lifecycle", asset |-> a, to |-> to, date |-> None]
    OBVIOUS
  <1>2. PICK at \in Clock : at = MaxClock
    BY Facts
  <1>3. PICK c : c = Transition(st, a, to, None, at)
    OBVIOUS
  <1>4. st \in Stores /\ a \in Born(st) /\ None \in Dates
    BY Facts DEF Sound, ActiveAssets
  <1>5. PICK m \in Nat : m = Len(st.events)
    BY <1>4, StoreParts
  <1>6. /\ c \in Stores /\ c.replacements = st.replacements
        /\ c.assets[a] = Moved(st, a, to)
        /\ \A b \in Assets \ {a} : c.assets[b] = st.assets[b]
        /\ Len(c.events) = m + 1
        /\ c.events[m + 1] = Event(st, a, to, None, at)
        /\ DOMAIN c.events = DOMAIN st.events \union {m + 1}
        /\ \A e \in DOMAIN st.events : c.events[e] = st.events[e]
        /\ Born(c) = Born(st)
    BY <1>3, <1>4, <1>5, TransitionParts
  <1>7. ASSUME NEW b \in Born(st)
        PROVE  ValidChain(c, b)
    <2>1. ValidChain(st, b) /\ b \in Assets
      BY <1>4, StoreParts DEF Valid
    <2>2. CASE b = a
      <3>1. \A e \in DOMAIN st.events : st.events[e].at <= at
        BY <1>2, <1>4, StoreParts, RecordParts, Facts DEF Clock
      <3> QED
        BY <1>3, <1>4, <2>1, <2>2, <3>1, TransitionValid
    <2>3. CASE b # a
      <3>1. c.assets[b] = st.assets[b]
        BY <1>6, <2>1, <2>3
      <3>2. c.events[m + 1].asset = a
        BY <1>6 DEF Event
      <3>3. EventsOf(c, b) = EventsOf(st, b)
        BY <1>6, <2>3, <3>2 DEF EventsOf
      <3>4. Chained(st, b)
        BY DEF Sound
      <3> QED
        BY <1>6, <2>1, <3>1, <3>3, <3>4, ValidChainKept
    <2> QED
      BY <2>2, <2>3
  <1>8. ValidReplacements(c)
    BY <1>6, SameRecordsValid DEF Valid
  <1>9. ASSUME NEW b \in Born(st), c.assets[b].archived
        PROVE  c.assets[b].place.deployment # "deployed"
    <2>1. b \in Assets /\ (st.assets[b].archived => st.assets[b].place.deployment # "deployed")
      BY <1>4, StoreParts DEF Valid
    <2>2. CASE b = a
      BY <1>6, <1>9, <2>1, <2>2 DEF Moved
    <2>3. CASE b # a
      BY <1>6, <1>9, <2>1, <2>3
    <2> QED
      BY <2>2, <2>3
  <1>10. Valid(c)
    BY <1>6, <1>7, <1>8, <1>9 DEF Valid
  <1>11. c # st
    BY <1>5, <1>6
  <1>12. Mutate(st, MaxClock, r) = SetLifecycle(st, MaxClock, r)
    BY <1>1 DEF Mutate
  <1>13. ~(None > MaxClock)
    BY Facts DEF None
  <1>14. SetLifecycle(st, MaxClock, r) = Validated(st, c)
    BY <1>1, <1>2, <1>3, <1>13 DEF SetLifecycle
  <1> QED
    BY <1>1, <1>10, <1>11, <1>12, <1>14, Accept

LEMMA VoidAccepted ==
  ASSUME NEW st, Sound(st), Valid(st), NEW q \in ActiveRecords(st)
  PROVE  Mutate(st, MaxClock, [op |-> "void", record |-> q]).outcome = "changed"
  <1>1. PICK r : r = [op |-> "void", record |-> q]
    OBVIOUS
  <1>2. PICK at \in Clock : at = MaxClock
    BY Facts
  <1>3. PICK c : c = Voided(st, q, at)
    OBVIOUS
  <1>4. st \in Stores /\ q \in DOMAIN st.replacements
    BY DEF Sound, ActiveRecords
  <1>5. /\ c \in Stores /\ c.assets = st.assets /\ c.events = st.events
        /\ DOMAIN c.replacements = DOMAIN st.replacements
        /\ c.replacements[q] = AsVoided(st.replacements[q], at)
        /\ c.replacements[q].voided = at
        /\ \A p \in DOMAIN st.replacements \ {q} : c.replacements[p] = st.replacements[p]
    BY <1>3, <1>4, VoidedParts
  <1>6. q \notin ActiveRecords(c)
    BY <1>2, <1>5, Facts DEF ActiveRecords
  <1>7. c # st
    BY <1>6
  <1>8. Born(c) = Born(st) /\ \A a \in Born(st) : EventsOf(c, a) = EventsOf(st, a)
    BY <1>5 DEF Born, EventsOf
  <1>9. \A a \in Born(st) : ValidChain(c, a)
    BY <1>5, <1>8, ValidChainKept DEF Sound, Valid
  <1>10. ASSUME NEW p \in DOMAIN c.replacements
         PROVE  /\ c.replacements[p].predecessor # c.replacements[p].successor
                /\ {c.replacements[p].predecessor, c.replacements[p].successor} \subseteq Born(c)
                /\ c.replacements[p].voided # None =>
                     c.replacements[p].at <= c.replacements[p].voided
    <2>1. /\ st.replacements[p].predecessor # st.replacements[p].successor
          /\ {st.replacements[p].predecessor, st.replacements[p].successor} \subseteq Born(st)
          /\ st.replacements[p].voided # None =>
               st.replacements[p].at <= st.replacements[p].voided
      BY <1>5, <1>10 DEF Valid, ValidReplacements
    <2>2. CASE p = q
      <3>1. PICK x \in Records : x = st.replacements[q]
        BY <1>4, StoreParts
      <3>2. at \in Dates /\ x.at <= at
        BY <1>2, RecordParts, Facts DEF Clock
      <3>3. /\ c.replacements[q].voided = at /\ c.replacements[q].at = x.at
            /\ c.replacements[q].predecessor = x.predecessor
            /\ c.replacements[q].successor = x.successor
        BY <1>5, <3>1, <3>2, VoidedRecord
      <3> QED
        BY <1>8, <2>1, <2>2, <3>1, <3>2, <3>3
    <2>3. CASE p # q
      BY <1>5, <1>8, <1>10, <2>1, <2>3
    <2> QED
      BY <2>2, <2>3
  <1>11. /\ ActiveRecords(c) \subseteq ActiveRecords(st)
         /\ \A p \in ActiveRecords(c) : c.replacements[p] = st.replacements[p]
    BY <1>5, <1>6 DEF ActiveRecords
  <1>12. ValidReplacements(c)
    BY <1>8, <1>10, <1>11, FewerRecordsValid DEF Valid
  <1>13. Valid(c)
    BY <1>5, <1>8, <1>9, <1>12 DEF Valid
  <1>14. Mutate(st, MaxClock, r) = Void(st, MaxClock, r)
    BY <1>1 DEF Mutate
  <1>15. Void(st, MaxClock, r) = Validated(st, c)
    BY <1>1, <1>2, <1>3 DEF Void, Voided
  <1> QED
    BY <1>1, <1>7, <1>13, <1>14, <1>15, Accept

\* Two Assets neither of which is taken, with a set that the later of them leads
\* into, and the earlier is not in.
LEMMA ReplaceAccepted ==
  ASSUME NEW st, Sound(st), Valid(st), NEW a \in ActiveAssets(st), NEW b \in ActiveAssets(st),
         a # b,
         \A r \in ActiveRecords(st) :
           st.replacements[r].predecessor # a /\ st.replacements[r].successor # b,
         NEW later \in SUBSET Born(st), b \in later, a \notin later,
         \A r \in ActiveRecords(st) :
           st.replacements[r].predecessor \in later => st.replacements[r].successor \in later
  PROVE  Mutate(st, MaxClock, [op |-> "replace", predecessor |-> a, successor |-> b,
                               date |-> None]).outcome = "changed"
  <1>1. PICK r : r = [op |-> "replace", predecessor |-> a, successor |-> b, date |-> None]
    OBVIOUS
  <1>2. PICK at \in Clock : at = MaxClock
    BY Facts
  <1>3. PICK c : c = WithReplacement(st, a, b, None, at)
    OBVIOUS
  <1>4. st \in Stores /\ a \in Born(st) /\ b \in Born(st) /\ a \in Assets /\ b \in Assets
    BY StoreParts DEF Sound, ActiveAssets
  <1>5. PICK n \in Nat : n = Len(st.replacements) + 1
    BY <1>4, StoreParts
  <1>6. /\ c \in Stores /\ c.assets = st.assets /\ c.events = st.events
        /\ c.replacements[n] = Replacement(a, b, None, at)
        /\ DOMAIN c.replacements = DOMAIN st.replacements \union {n}
        /\ n \notin DOMAIN st.replacements
        /\ \A q \in DOMAIN st.replacements : c.replacements[q] = st.replacements[q]
    <2>1. None \in Dates
      BY Facts
    <2> QED
      BY <1>3, <1>4, <1>5, <2>1, WithReplacementParts
  <1>7. c # st
    BY <1>6
  <1>8. Born(c) = Born(st) /\ \A x \in Born(st) : EventsOf(c, x) = EventsOf(st, x)
    BY <1>6 DEF Born, EventsOf
  <1>9. \A x \in Born(st) : ValidChain(c, x)
    BY <1>6, <1>8, ValidChainKept DEF Sound, Valid
  <1>10. /\ c.replacements[n].predecessor = a /\ c.replacements[n].successor = b
         /\ c.replacements[n].date = None /\ c.replacements[n].voided = None
    BY <1>6 DEF Replacement
  <1>11. ActiveRecords(c) = ActiveRecords(st) \union {n}
    BY <1>6, <1>10 DEF ActiveRecords
  <1>12. \A q \in ActiveRecords(st) : q # n /\ c.replacements[q] = st.replacements[q]
    BY <1>6 DEF ActiveRecords
  <1>13. ASSUME NEW q \in DOMAIN c.replacements
         PROVE  /\ c.replacements[q].predecessor # c.replacements[q].successor
                /\ {c.replacements[q].predecessor, c.replacements[q].successor} \subseteq Born(c)
                /\ c.replacements[q].voided # None =>
                     c.replacements[q].at <= c.replacements[q].voided
    <2>1. CASE q = n
      BY <1>4, <1>8, <1>10, <2>1
    <2>2. CASE q # n
      BY <1>6, <1>8, <1>13, <2>2 DEF Valid, ValidReplacements
    <2> QED
      BY <2>1, <2>2
  <1>14. OneToOne(c, ActiveRecords(c))
    <2>1. OneToOne(st, ActiveRecords(st))
      BY DEF Valid, ValidReplacements
    <2> QED
      BY <1>10, <1>11, <1>12, <2>1 DEF OneToOne
  <1>15. ASSUME NEW q \in ActiveRecords(c), NEW p \in ActiveRecords(c),
                c.replacements[q].successor = c.replacements[p].predecessor
         PROVE  InOrder(c.replacements[q].date, c.replacements[p].date)
    <2>1. CASE q = n \/ p = n
      BY <1>10, <2>1 DEF InOrder
    <2>2. CASE q # n /\ p # n
      BY <1>11, <1>12, <1>15, <2>2 DEF Valid, ValidReplacements
    <2> QED
      BY <2>1, <2>2
  <1>16. ASSUME NEW cycle \in (SUBSET Born(c)) \ {{}}
         PROVE  \E x \in cycle : \A y \in cycle, q \in ActiveRecords(c) : ~Replaces(c, q, y, x)
    <2>1. \A family \in (SUBSET Born(st)) \ {{}} :
            \E x \in family : \A y \in family, q \in ActiveRecords(st) : ~Replaces(st, q, y, x)
      BY DEF Valid, ValidReplacements
    <2>2. CASE cycle \intersect later = {}
      <3>1. PICK x \in cycle : \A y \in cycle, q \in ActiveRecords(st) : ~Replaces(st, q, y, x)
        BY <1>8, <2>1
      <3>2. b \notin cycle
        BY <2>2
      <3> QED
        BY <1>10, <1>11, <1>12, <3>1, <3>2 DEF Replaces
    <2>3. CASE cycle \intersect later # {}
      <3>1. cycle \intersect later \in (SUBSET Born(st)) \ {{}}
        BY <1>8, <2>3
      <3>2. PICK x \in cycle \intersect later :
              \A y \in cycle \intersect later, q \in ActiveRecords(st) : ~Replaces(st, q, y, x)
        BY <2>1, <3>1
      <3>3. ASSUME NEW y \in cycle, NEW q \in ActiveRecords(c), Replaces(c, q, y, x)
            PROVE  FALSE
        <4>1. q # n
          BY <1>10, <3>2, <3>3 DEF Replaces
        <4>2. q \in ActiveRecords(st) /\ Replaces(st, q, y, x)
          BY <1>11, <1>12, <3>3, <4>1 DEF Replaces
        <4>3. y \in later
          BY <3>2, <4>2 DEF Replaces
        <4> QED
          BY <3>2, <4>2, <4>3
      <3> QED
        BY <3>2, <3>3
    <2> QED
      BY <2>2, <2>3
  <1>17. ValidReplacements(c)
    BY <1>13, <1>14, <1>15, <1>16 DEF ValidReplacements
  <1>18. Valid(c)
    BY <1>6, <1>8, <1>9, <1>17 DEF Valid
  <1>19. Mutate(st, MaxClock, r) = Replace(st, MaxClock, r)
    BY <1>1 DEF Mutate
  <1>20. None <= MaxClock
    BY Facts DEF None
  <1>21. Replace(st, MaxClock, r) = Validated(st, c)
    BY <1>1, <1>2, <1>3, <1>20 DEF Replace, Replaceable
  <1> QED
    BY <1>1, <1>7, <1>18, <1>19, <1>21, Accept

\* Unless the clock is behind what was recorded, validation of the whole store never
\* refuses what is in order: a new status, a void, a connection of two Assets that
\* neither takes one that is taken nor closes a circle (_validate_store_data).
THEOREM RefusalsAreJustifiedHolds == Spec => []RefusalsAreJustified
  <1>1. ASSUME IInv
        PROVE  RefusalsAreJustified
    <2> DEFINE Accepted(r) == Mutate(store, MaxClock, r).outcome = "changed"
               Taken(a, b) == \E r \in ActiveRecords(store) :
                 replacements[r].predecessor = a \/ replacements[r].successor = b
               Before(a, b) == \A later \in SUBSET Born(store) :
                 (/\ a \in later
                  /\ \A r \in ActiveRecords(store) :
                       replacements[r].predecessor \in later =>
                         replacements[r].successor \in later)
                 => b \in later
    <2>1. Sound(store) /\ Valid(store)
      BY <1>1 DEF IInv
    <2>2. ASSUME NEW a \in ActiveAssets(store), NEW s \in Statuses, s # assets[a].status
          PROVE  Accepted([op |-> "lifecycle", asset |-> a, to |-> s, date |-> None])
      <3>1. s # store.assets[a].status
        BY <2>2, StoreFields
      <3> QED
        BY <2>1, <3>1, LifecycleAccepted
    <2>3. ASSUME NEW r \in ActiveRecords(store)
          PROVE  Accepted([op |-> "void", record |-> r])
      BY <2>1, VoidAccepted
    <2>4. ASSUME NEW a \in ActiveAssets(store), NEW b \in ActiveAssets(store),
                 a # b, ~Taken(a, b), ~Before(b, a)
          PROVE  Accepted([op |-> "replace", predecessor |-> a, successor |-> b,
                           date |-> None])
      <3>1. PICK later \in SUBSET Born(store) :
              /\ b \in later /\ a \notin later
              /\ \A r \in ActiveRecords(store) :
                   store.replacements[r].predecessor \in later =>
                     store.replacements[r].successor \in later
        BY <2>4, StoreFields
      <3>2. \A r \in ActiveRecords(store) :
              store.replacements[r].predecessor # a /\ store.replacements[r].successor # b
        BY <2>4, StoreFields
      <3> QED
        BY <2>1, <2>4, <3>1, <3>2, ReplaceAccepted
    <2> HIDE DEF Accepted
    <2>5. \A a \in ActiveAssets(store), s \in Statuses :
            s # assets[a].status =>
              Accepted([op |-> "lifecycle", asset |-> a, to |-> s, date |-> None])
      BY <2>2
    <2>6. \A r \in ActiveRecords(store) : Accepted([op |-> "void", record |-> r])
      BY <2>3
    <2>7. \A a, b \in ActiveAssets(store) :
            a # b /\ ~Taken(a, b) /\ ~Before(b, a) =>
              Accepted([op |-> "replace", predecessor |-> a, successor |-> b, date |-> None])
      BY <2>4
    <2> USE DEF Accepted
    <2> QED
      BY <2>5, <2>6, <2>7 DEF RefusalsAreJustified
  <1> QED
    BY <1>1, Invariant, PTL

-----------------------------------------------------------------------------
(* Quick Create's retry                                                      *)

\* What a command with a predecessor makes, from what it names.
Candidate(st, now, r) ==
    LET new == WithAsset(st, r.new.asset, r.new.status, r.new.date, r.new.place, now)
    IN IF r.predecessor = "no_one" THEN new ELSE Replaced(new, now, r)

Reviewed(st, r) ==
    \/ r.predecessor = "no_one"
    \/ r.predecessor \in ActiveAssets(st) /\ r.expected = Snapshot(st, r.predecessor)

LEMMA QuickOutcome ==
  ASSUME NEW st, NEW now, NEW r, r.new.asset \notin Born(st)
  PROVE  QuickCreate(st, now, r) =
           IF QuickValid(now, r) /\ Reviewed(st, r) THEN Validated(st, Candidate(st, now, r))
           ELSE Refused(st)
  <1>1. PICK c : c = Candidate(st, now, r)
    OBVIOUS
  <1>2. PICK new : new = WithAsset(st, r.new.asset, r.new.status, r.new.date, r.new.place, now)
    OBVIOUS
  <1>3. c = IF r.predecessor = "no_one" THEN new ELSE Replaced(new, now, r)
    BY <1>1, <1>2 DEF Candidate
  <1>4. QuickCreate(st, now, r) =
          IF ~QuickValid(now, r) THEN Refused(st)
          ELSE IF r.predecessor = "no_one" THEN Validated(st, new)
          ELSE IF r.predecessor \in ActiveAssets(st) /\ r.expected = Snapshot(st, r.predecessor)
          THEN Validated(st, Replaced(new, now, r))
          ELSE Refused(st)
    BY <1>2 DEF QuickCreate
  <1> DEFINE Goal == QuickCreate(st, now, r) =
               IF QuickValid(now, r) /\ Reviewed(st, r) THEN Validated(st, Candidate(st, now, r))
               ELSE Refused(st)
  <1>5. ~QuickValid(now, r) => Goal
    BY <1>4
  <1>6. QuickValid(now, r) /\ r.predecessor = "no_one" => Goal
    <2> SUFFICES ASSUME QuickValid(now, r), r.predecessor = "no_one"
                 PROVE  Goal
      OBVIOUS
    <2>1. QuickCreate(st, now, r) = Validated(st, new)
      BY <1>4
    <2>2. Reviewed(st, r)
      BY DEF Reviewed
    <2>3. Candidate(st, now, r) = new
      BY <1>1, <1>3
    <2> QED
      BY <2>1, <2>2, <2>3
  <1>7. /\ QuickValid(now, r) /\ r.predecessor # "no_one"
        /\ r.predecessor \in ActiveAssets(st) /\ r.expected = Snapshot(st, r.predecessor)
        => Goal
    BY <1>1, <1>3, <1>4 DEF Reviewed
  <1>8. /\ QuickValid(now, r) /\ r.predecessor # "no_one"
        /\ ~(r.predecessor \in ActiveAssets(st) /\ r.expected = Snapshot(st, r.predecessor))
        => Goal
    BY <1>4 DEF Reviewed
  <1>9. Goal
    <2> HIDE DEF Goal
    <2> QED
      BY <1>5, <1>6, <1>7, <1>8
  <1> QED
    BY <1>9

\* A command names an Asset and shows it as it is, or names none and no date.
LEMMA QuickPredecessor ==
  ASSUME NEW st \in Stores, NEW a, NEW r \in QuickRequests(a, Shown(st))
  PROVE  \/ r.predecessor = "no_one" /\ r.date = None
         \/ /\ r.predecessor # "no_one" /\ r.predecessor \in Born(st)
            /\ r.expected = Snapshot(st, r.predecessor)
  <1> DEFINE New == [asset: {a}, status: Statuses, date: Dates, place: Places]
             With(n, p, e, retire, undeploy, d) ==
               [new |-> n, predecessor |-> p, expected |-> e, retire |-> retire,
                undeploy |-> undeploy, date |-> d]
  <1>1. CASE r \in {With(n, "no_one", NoAsset, FALSE, FALSE, None) : n \in New}
    <2>1. PICK n \in New : r = With(n, "no_one", NoAsset, FALSE, FALSE, None)
      BY <1>1
    <2> QED
      BY <2>1
  <1>2. CASE r \in {With(n, s.asset, s.snapshot, retire, undeploy, d) :
                    n \in New, s \in Shown(st), retire, undeploy \in BOOLEAN, d \in Dates}
    <2>1. PICK n \in New, s \in Shown(st), retire \in BOOLEAN, undeploy \in BOOLEAN, d \in Dates :
             r = With(n, s.asset, s.snapshot, retire, undeploy, d)
      BY <1>2
    <2>2. PICK p \in Born(st) : s = [asset |-> p, snapshot |-> Snapshot(st, p)]
      BY DEF Shown
    <2>3. p # "no_one"
      BY <2>2, StoreParts, HistoryAssumption DEF Assets
    <2>4. s.asset = p /\ s.snapshot = Snapshot(st, p)
      BY <2>2
    <2>5. r.predecessor = p /\ r.expected = Snapshot(st, p)
      BY <2>1, <2>4
    <2> QED
      BY <2>2, <2>3, <2>5
  <1> QED
    BY <1>1, <1>2 DEF QuickRequests

\* The Asset that a command makes.
MadeAsset(st, c, a, status, date, place, now) ==
    LET k == Len(st.events) + 1
    IN /\ c.assets[a].place = place /\ c.assets[a].status = status
       /\ status = "unknown" => EventsOf(c, a) = {}
       /\ status # "unknown" =>
            /\ EventsOf(c, a) = {k} /\ c.assets[a].current = k
            /\ c.events[k].previous = None /\ c.events[k].to = status
            /\ c.events[k].date = date /\ c.events[k].at = now

LEMMA WithAssetMakes ==
  ASSUME NEW st, Sound(st), NEW a \in Assets \ Born(st), NEW status \in Statuses,
         NEW date \in Dates, NEW place \in Places, NEW at \in Clock
  PROVE  MadeAsset(st, WithAsset(st, a, status, date, place, at), a, status, date, place, at)
  <1>1. PICK c : c = WithAsset(st, a, status, date, place, at)
    OBVIOUS
  <1>2. PICK born : born = Write(st, a, Fresh(place))
    OBVIOUS
  <1>3. c = IF status = "unknown" THEN born ELSE Transition(born, a, status, date, at)
    BY <1>1, <1>2 DEF WithAsset, Write, Fresh
  <1>4. /\ st \in Stores /\ Fresh(place) \in AssetRecords /\ Fresh(place).current = None
        /\ Fresh(place).status = "unknown" /\ Fresh(place).place = place
    BY FreshParts DEF Sound
  <1>5. /\ born \in Stores /\ born.events = st.events
        /\ born.assets[a] = Fresh(place) /\ a \in Born(born)
    BY <1>2, <1>4, WriteParts
  <1>6. \A e \in DOMAIN st.events : st.events[e].asset # a
    BY DEF Sound
  <1>7. CASE status = "unknown"
    <2>1. EventsOf(c, a) = {}
      BY <1>3, <1>5, <1>6, <1>7 DEF EventsOf
    <2> QED
      BY <1>1, <1>3, <1>4, <1>5, <1>7, <2>1 DEF MadeAsset
  <1>8. CASE status # "unknown"
    <2>1. c = Transition(born, a, status, date, at)
      BY <1>3, <1>8
    <2>2. PICK k : k = Len(st.events) + 1
      OBVIOUS
    <2>3. /\ c.assets[a] = Moved(born, a, status)
          /\ c.events[k] = Event(born, a, status, date, at)
          /\ DOMAIN c.events = DOMAIN st.events \union {k}
          /\ \A e \in DOMAIN st.events : c.events[e] = st.events[e]
      BY <1>5, <2>1, <2>2, TransitionParts
    <2>4. /\ c.events[k].asset = a /\ c.events[k].previous = None /\ c.events[k].to = status
          /\ c.events[k].date = date /\ c.events[k].at = at
      BY <1>4, <1>5, <2>3 DEF Event
    <2>5. /\ c.assets[a].place = place /\ c.assets[a].status = status
          /\ c.assets[a].current = k
      BY <1>4, <1>5, <2>2, <2>3 DEF Moved
    <2>6. EventsOf(c, a) = {k}
      BY <1>6, <2>3, <2>4 DEF EventsOf
    <2> QED
      BY <1>1, <1>8, <2>2, <2>4, <2>5, <2>6 DEF MadeAsset
  <1> QED
    BY <1>7, <1>8

\* What is done to the predecessor, and the record of it.
MadeRecord(st, c, p, a, date, now) ==
    LET m == Len(st.replacements) + 1
    IN /\ DOMAIN c.replacements = DOMAIN st.replacements \union {m}
       /\ m \notin DOMAIN st.replacements
       /\ c.replacements[m] = Replacement(p, a, date, now)
       /\ \A q \in DOMAIN st.replacements : c.replacements[q] = st.replacements[q]

IsRetirement(st, c, k, p, date, now) ==
    /\ k \notin DOMAIN st.events /\ k # None /\ c.assets[p].current = k
    /\ c.events[k].previous = st.assets[p].current /\ c.events[k].from = st.assets[p].status
    /\ c.events[k].to = "retired" /\ c.events[k].date = date /\ c.events[k].at = now

DoneToPredecessor(st, c, r, p, now) ==
    /\ c.assets[p].status = IF Retires(r) THEN "retired" ELSE st.assets[p].status
    /\ c.assets[p].place = IF Undeploys(r) THEN NotDeployed ELSE st.assets[p].place
    /\ Retires(r) => \E k : IsRetirement(st, c, k, p, r.date, now)
    /\ ~Retires(r) => c.assets[p].current = st.assets[p].current

LEMMA ReplacedMakes ==
  ASSUME NEW st, Sound(st), NEW now \in Clock, NEW a \in Assets \ Born(st),
         NEW r, r.new.asset = a, r.new.status \in Statuses, r.new.date \in Dates,
         r.new.place \in Places, r.date \in Dates,
         NEW p \in Born(st), p = r.predecessor, NEW new, NEW c,
         new = WithAsset(st, a, r.new.status, r.new.date, r.new.place, now),
         c = Replaced(new, now, r)
  PROVE  /\ c \in Stores
         /\ MadeAsset(st, c, a, r.new.status, r.new.date, r.new.place, now)
         /\ MadeRecord(st, c, p, a, r.date, now)
         /\ DoneToPredecessor(st, c, r, p, now)
  <1>1. PICK status \in Statuses, date \in Dates, place \in Places, day \in Dates :
          status = r.new.status /\ date = r.new.date /\ place = r.new.place /\ day = r.date
    OBVIOUS
  <1>2. /\ Sound(new) /\ Born(new) = Born(st) \union {a}
        /\ new.replacements = st.replacements
        /\ \A b \in Assets \ {a} : new.assets[b] = st.assets[b]
        /\ \A e \in DOMAIN st.events : e \in DOMAIN new.events /\ new.events[e] = st.events[e]
    BY <1>1, WithAssetParts
  <1>3. MadeAsset(st, new, a, status, date, place, now)
    BY <1>1, WithAssetMakes
  <1>4. p \in Assets /\ p # a /\ p \in Born(new) /\ st \in Stores /\ new \in Stores
        /\ new.assets[p] = st.assets[p]
    BY <1>2, StoreParts DEF Sound
  <1>5. PICK retired :
          retired = IF Retires(r) THEN Transition(new, p, "retired", day, now) ELSE new
    OBVIOUS
  <1>6. PICK undeployed :
          undeployed = IF Undeploys(r) THEN Write(retired, p, AsPlaced(retired.assets[p], NotDeployed))
                       ELSE retired
    OBVIOUS
  <1>7. c = WithReplacement(undeployed, p, a, day, now)
    BY <1>1, <1>5, <1>6, PlaceIsWrite DEF Replaced
  <1>8. PICK n \in Nat : n = Len(new.events) + 1 /\ n # None /\ n \notin DOMAIN new.events
    <2>1. PICK l \in Nat : l = Len(new.events) /\ DOMAIN new.events = 1..l
      BY <1>4, StoreParts
    <2>2. l + 1 \in Nat /\ l + 1 # None /\ l + 1 \notin DOMAIN new.events
      BY <2>1 DEF None
    <2> QED
      BY <2>1, <2>2
  <1>9. /\ retired \in Stores /\ retired.replacements = st.replacements
        /\ retired.assets[a] = new.assets[a]
        /\ \A e \in DOMAIN new.events : e \in DOMAIN retired.events
                                        /\ retired.events[e] = new.events[e]
        /\ EventsOf(retired, a) = EventsOf(new, a)
        /\ retired.assets[p].status = IF Retires(r) THEN "retired" ELSE st.assets[p].status
        /\ retired.assets[p].place = st.assets[p].place
        /\ Retires(r) => IsRetirement(st, retired, n, p, day, now)
        /\ ~Retires(r) => retired.assets[p].current = st.assets[p].current
    <2>1. CASE Retires(r)
      <3>1. retired = Transition(new, p, "retired", day, now) /\ "retired" \in Statuses
        BY <1>5, <2>1, Facts
      <3>2. /\ retired \in Stores /\ retired.replacements = new.replacements
            /\ retired.assets[p] = Moved(new, p, "retired")
            /\ \A b \in Assets \ {p} : retired.assets[b] = new.assets[b]
            /\ retired.events[n] = Event(new, p, "retired", day, now)
            /\ DOMAIN retired.events = DOMAIN new.events \union {n}
            /\ \A e \in DOMAIN new.events : retired.events[e] = new.events[e]
        BY <1>4, <1>8, <3>1, TransitionParts
      <3>3. /\ retired.assets[p].status = "retired" /\ retired.assets[p].current = n
            /\ retired.assets[p].place = st.assets[p].place
        BY <1>4, <1>8, <3>2 DEF Moved
      <3>4. /\ retired.events[n].asset = p /\ retired.events[n].previous = st.assets[p].current
            /\ retired.events[n].from = st.assets[p].status
            /\ retired.events[n].to = "retired" /\ retired.events[n].date = day
            /\ retired.events[n].at = now
        BY <1>4, <3>2 DEF Event
      <3>5. n \notin DOMAIN st.events
        BY <1>2, <1>8
      <3>6. IsRetirement(st, retired, n, p, day, now)
        BY <1>8, <3>3, <3>4, <3>5 DEF IsRetirement
      <3>7. EventsOf(retired, a) = EventsOf(new, a)
        BY <1>4, <3>2, <3>4 DEF EventsOf
      <3> QED
        BY <1>2, <1>4, <2>1, <3>2, <3>3, <3>6, <3>7
    <2>2. CASE ~Retires(r)
      <3>1. retired = new
        BY <1>5, <2>2
      <3> QED
        BY <1>2, <1>4, <2>2, <3>1
    <2> QED
      BY <2>1, <2>2
  <1>10. PICK x \in AssetRecords : x = retired.assets[p]
    <2>1. p \in Born(retired)
      <3>1. CASE Retires(r)
        <4>1. retired = Transition(new, p, "retired", day, now) /\ "retired" \in Statuses
          BY <1>5, <3>1, Facts
        <4> QED
          BY <1>4, <4>1, TransitionParts
      <3>2. CASE ~Retires(r)
        BY <1>4, <1>5, <3>2
      <3> QED
        BY <3>1, <3>2
    <2> QED
      BY <1>9, <2>1, StoreParts
  <1>11. /\ undeployed \in Stores /\ undeployed.replacements = st.replacements
         /\ undeployed.events = retired.events
         /\ undeployed.assets[a] = new.assets[a]
         /\ undeployed.assets[p].status = x.status /\ undeployed.assets[p].current = x.current
         /\ undeployed.assets[p].place = IF Undeploys(r) THEN NotDeployed ELSE x.place
    <2>1. CASE Undeploys(r)
      <3>1. PICK y \in AssetRecords :
              /\ y = AsPlaced(x, NotDeployed) /\ y.place = NotDeployed
              /\ y.status = x.status /\ y.current = x.current
        BY PlacedRecord, Facts
      <3>2. undeployed = Write(retired, p, y)
        BY <1>6, <1>10, <2>1, <3>1
      <3>3. p \in Assets /\ retired \in Stores
        BY <1>4, <1>9
      <3>4. /\ undeployed \in Stores /\ undeployed.events = retired.events
            /\ undeployed.replacements = retired.replacements
            /\ undeployed.assets[p] = y
            /\ \A b \in Assets \ {p} : undeployed.assets[b] = retired.assets[b]
        BY <3>2, <3>3, WriteParts
      <3> QED
        BY <1>4, <1>9, <2>1, <3>1, <3>4
    <2>2. CASE ~Undeploys(r)
      <3>1. undeployed = retired
        BY <1>6, <2>2
      <3> QED
        BY <1>9, <1>10, <2>2, <3>1
    <2> QED
      BY <2>1, <2>2
  <1>12. PICK m : m = Len(st.replacements) + 1
    OBVIOUS
  <1>13. /\ c \in Stores /\ c.assets = undeployed.assets /\ c.events = retired.events
         /\ c.replacements[m] = Replacement(p, a, day, now)
         /\ DOMAIN c.replacements = DOMAIN st.replacements \union {m}
         /\ m \notin DOMAIN st.replacements
         /\ \A q \in DOMAIN st.replacements : c.replacements[q] = st.replacements[q]
    BY <1>4, <1>7, <1>11, <1>12, WithReplacementParts
  <1>14. MadeRecord(st, c, p, a, day, now)
    BY <1>12, <1>13 DEF MadeRecord
  <1>15. DoneToPredecessor(st, c, r, p, now)
    <2>1. /\ c.assets[p].status = IF Retires(r) THEN "retired" ELSE st.assets[p].status
          /\ c.assets[p].current = retired.assets[p].current
      BY <1>9, <1>10, <1>11, <1>13
    <2>2. c.assets[p].place = IF Undeploys(r) THEN NotDeployed ELSE st.assets[p].place
      BY <1>9, <1>10, <1>11, <1>13
    <2>3. Retires(r) => IsRetirement(st, c, n, p, r.date, now)
      BY <1>1, <1>9, <1>13, <2>1 DEF IsRetirement
    <2>4. ~Retires(r) => c.assets[p].current = st.assets[p].current
      BY <1>9, <2>1
    <2> QED
      BY <2>1, <2>2, <2>3, <2>4 DEF DoneToPredecessor
  <1>16. MadeAsset(st, c, a, status, date, place, now)
    <2>1. c.assets[a] = new.assets[a] /\ EventsOf(c, a) = EventsOf(new, a)
      BY <1>9, <1>11, <1>13 DEF EventsOf
    <2>2. \A e \in EventsOf(new, a) : c.events[e] = new.events[e]
      BY <1>9, <1>13 DEF EventsOf
    <2> QED
      BY <1>3, <2>1, <2>2 DEF MadeAsset
  <1> QED
    BY <1>1, <1>13, <1>14, <1>15, <1>16

\* The parts of a replay's comparison.
Related(st, a) ==
    {q \in DOMAIN st.replacements :
       a \in {st.replacements[q].predecessor, st.replacements[q].successor}}

InitialMatches(st, r, e) ==
    /\ st.assets[r.new.asset].current = e /\ st.events[e].previous = None
    /\ st.events[e].to = r.new.status /\ st.events[e].date = r.new.date

RetirementMatches(st, r, e) ==
    /\ st.events[e].previous = r.expected.current /\ st.events[e].from = r.expected.status
    /\ st.events[e].to = "retired" /\ st.events[e].date = r.date

PredecessorMatches(st, r, at) ==
    LET p == st.assets[r.predecessor]
    IN /\ p.status = IF Retires(r) THEN "retired" ELSE r.expected.status
       /\ IF Retires(r) THEN RetirementMatches(st, r, p.current) /\ st.events[p.current].at = at
          ELSE p.current = r.expected.current
       /\ p.place = IF Undeploys(r) THEN NotDeployed ELSE r.expected.place

RecordMatches(st, r, q) ==
    LET at == st.replacements[q].at
    IN /\ st.replacements[q] = Replacement(r.predecessor, r.new.asset, r.date, at)
       /\ PredecessorMatches(st, r, at)
       /\ \A e \in EventsOf(st, r.new.asset) : st.events[e].at = at

LEMMA ReplayParts ==
  ASSUME NEW st, NEW r
  PROVE  ReplayMatches(st, r) <=>
           /\ st.assets[r.new.asset].place = r.new.place
           /\ st.assets[r.new.asset].status = r.new.status
           /\ Cardinality(EventsOf(st, r.new.asset)) = IF r.new.status = "unknown" THEN 0 ELSE 1
           /\ \A e \in EventsOf(st, r.new.asset) : InitialMatches(st, r, e)
           /\ Cardinality(Related(st, r.new.asset)) = IF r.predecessor = "no_one" THEN 0 ELSE 1
           /\ \A q \in Related(st, r.new.asset) : RecordMatches(st, r, q)
  BY DEF ReplayMatches, Related, InitialMatches, RetirementMatches, PredecessorMatches,
         RecordMatches

\* The effect of a command, its commands being what QuickRequests says.
Effect(st, c, now, r) ==
    /\ MadeAsset(st, c, r.new.asset, r.new.status, r.new.date, r.new.place, now)
    /\ r.predecessor = "no_one" => Related(c, r.new.asset) = {}
    /\ r.predecessor # "no_one" =>
         /\ Related(c, r.new.asset) = {Len(st.replacements) + 1}
         /\ c.replacements[Len(st.replacements) + 1] =
              Replacement(r.predecessor, r.new.asset, r.date, now)
         /\ DoneToPredecessor(st, c, r, r.predecessor, now)

LEMMA CandidateEffect ==
  ASSUME NEW st, Sound(st), Valid(st), NEW now \in Clock, NEW a \in Drafts \ Born(st),
         NEW r \in QuickRequests(a, Shown(st))
  PROVE  Effect(st, Candidate(st, now, r), now, r)
  <1>1. PICK c : c = Candidate(st, now, r)
    OBVIOUS
  <1>2. /\ r.new.asset = a /\ r.new.status \in Statuses /\ r.new.date \in Dates
        /\ r.new.place \in Places /\ r.date \in Dates /\ a \in Assets \ Born(st)
    BY QuickRequestParts DEF Assets
  <1>3. PICK new : new = WithAsset(st, a, r.new.status, r.new.date, r.new.place, now)
    OBVIOUS
  <1>4. c = IF r.predecessor = "no_one" THEN new ELSE Replaced(new, now, r)
    BY <1>1, <1>2, <1>3 DEF Candidate
  <1>5. st \in Stores
    BY DEF Sound
  <1>6. \A q \in DOMAIN st.replacements :
          a \notin {st.replacements[q].predecessor, st.replacements[q].successor}
    BY <1>2 DEF Valid, ValidReplacements
  <1>7. CASE r.predecessor = "no_one"
    <2>1. c = new
      BY <1>4, <1>7
    <2>2. MadeAsset(st, c, a, r.new.status, r.new.date, r.new.place, now)
      BY <1>2, <1>3, <2>1, WithAssetMakes
    <2>3. c.replacements = st.replacements
      BY <1>2, <1>3, <2>1, WithAssetParts
    <2>4. Related(c, a) = {}
      BY <1>6, <2>3 DEF Related
    <2> QED
      BY <1>1, <1>2, <1>7, <2>2, <2>4 DEF Effect
  <1>8. CASE r.predecessor # "no_one"
    <2>1. c = Replaced(new, now, r)
      BY <1>4, <1>8
    <2>2. PICK p \in Born(st) : p = r.predecessor
      BY <1>5, <1>8, QuickPredecessor
    <2>3. /\ c \in Stores
          /\ MadeAsset(st, c, a, r.new.status, r.new.date, r.new.place, now)
          /\ MadeRecord(st, c, p, a, r.date, now)
          /\ DoneToPredecessor(st, c, r, p, now)
      BY <1>2, <1>3, <2>1, <2>2, ReplacedMakes
    <2>4. PICK m : m = Len(st.replacements) + 1
      OBVIOUS
    <2>5. /\ DOMAIN c.replacements = DOMAIN st.replacements \union {m}
          /\ c.replacements[m] = Replacement(p, a, r.date, now)
          /\ \A q \in DOMAIN st.replacements : c.replacements[q] = st.replacements[q]
      BY <2>3, <2>4 DEF MadeRecord
    <2>6. c.replacements[m].successor = a
      BY <2>5, ReplacementFields
    <2>7. Related(c, a) = {m}
      BY <1>6, <2>5, <2>6 DEF Related
    <2> QED
      BY <1>1, <1>2, <1>8, <2>2, <2>3, <2>4, <2>5, <2>7 DEF Effect
  <1> QED
    BY <1>7, <1>8

\* A command's own effect is recognised.
LEMMA EffectIsReplayed ==
  ASSUME NEW st \in Stores, NEW now \in Clock, NEW c, NEW a,
         NEW r \in QuickRequests(a, Shown(st)), Effect(st, c, now, r)
  PROVE  ReplayMatches(c, r)
  <1>1. PICK k : k = Len(st.events) + 1
    OBVIOUS
  <1>2. PICK m : m = Len(st.replacements) + 1
    OBVIOUS
  <1> DEFINE own == EventsOf(c, r.new.asset)
             status == r.new.status
  <1>3. /\ c.assets[r.new.asset].place = r.new.place /\ c.assets[r.new.asset].status = status
        /\ status = "unknown" => own = {}
        /\ status # "unknown" =>
             /\ own = {k} /\ c.assets[r.new.asset].current = k
             /\ c.events[k].previous = None /\ c.events[k].to = status
             /\ c.events[k].date = r.new.date /\ c.events[k].at = now
    BY <1>1 DEF Effect, MadeAsset
  <1>4. Cardinality(own) = IF status = "unknown" THEN 0 ELSE 1
    BY <1>3, FS_EmptySet, FS_Singleton
  <1>5. \A e \in own : InitialMatches(c, r, e) /\ c.events[e].at = now
    BY <1>3 DEF InitialMatches
  <1>6. CASE r.predecessor = "no_one"
    <2>1. Related(c, r.new.asset) = {}
      BY <1>6 DEF Effect
    <2>2. Cardinality(Related(c, r.new.asset)) = 0
      BY <2>1, FS_EmptySet
    <2> QED
      BY <1>3, <1>4, <1>5, <1>6, <2>1, <2>2, ReplayParts
  <1>7. CASE r.predecessor # "no_one"
    <2>1. /\ Related(c, r.new.asset) = {m}
          /\ c.replacements[m] = Replacement(r.predecessor, r.new.asset, r.date, now)
          /\ DoneToPredecessor(st, c, r, r.predecessor, now)
      BY <1>2, <1>7 DEF Effect
    <2>2. r.expected = Snapshot(st, r.predecessor)
      BY <1>7, QuickPredecessor
    <2> DEFINE p == r.predecessor
    <2>3. /\ r.expected.status = st.assets[p].status /\ r.expected.current = st.assets[p].current
          /\ r.expected.place = st.assets[p].place
      BY <2>2 DEF Snapshot
    <2>4. c.replacements[m].at = now
      BY <2>1 DEF Replacement
    <2>5. PredecessorMatches(c, r, now)
      <3>1. CASE Retires(r)
        <4>1. PICK e : IsRetirement(st, c, e, p, r.date, now)
          BY <2>1, <3>1 DEF DoneToPredecessor
        <4>2. RetirementMatches(c, r, c.assets[p].current)
              /\ c.events[c.assets[p].current].at = now
          BY <2>3, <4>1 DEF IsRetirement, RetirementMatches
        <4> QED
          BY <2>1, <2>3, <3>1, <4>2 DEF DoneToPredecessor, PredecessorMatches
      <3>2. CASE ~Retires(r)
        BY <2>1, <2>3, <3>2 DEF DoneToPredecessor, PredecessorMatches
      <3> QED
        BY <3>1, <3>2
    <2>6. RecordMatches(c, r, m)
      BY <1>5, <2>1, <2>4, <2>5 DEF RecordMatches
    <2>7. Cardinality(Related(c, r.new.asset)) = 1
      BY <2>1, FS_Singleton
    <2> QED
      BY <1>3, <1>4, <1>5, <1>7, <2>1, <2>6, <2>7, ReplayParts
  <1> QED
    BY <1>6, <1>7

\* Two commands that are both recognised in one effect did the same to the
\* predecessor.
LEMMA SamePredecessor ==
  ASSUME NEW st, NEW c, NEW now, NEW p, NEW r0, NEW r,
         st.assets[p].current \in DOMAIN st.events \union {None},
         r.predecessor = p, r0.expected = Snapshot(st, p), r.expected = Snapshot(st, p),
         DoneToPredecessor(st, c, r0, p, now), PredecessorMatches(c, r, now)
  PROVE  (Retires(r) <=> Retires(r0)) /\ (Undeploys(r) <=> Undeploys(r0))
  <1>1. /\ r.expected.status = st.assets[p].status /\ r.expected.current = st.assets[p].current
        /\ r.expected.place = st.assets[p].place
        /\ r0.expected.status = st.assets[p].status
        /\ r0.expected.place = st.assets[p].place
    BY DEF Snapshot
  <1>2. ASSUME Retires(r), ~Retires(r0)
        PROVE  FALSE
    <2>1. c.assets[p].status = "retired"
      BY <1>2 DEF PredecessorMatches
    <2>2. c.assets[p].status = st.assets[p].status
      BY <1>2 DEF DoneToPredecessor
    <2>3. st.assets[p].status \in {"active", "unknown"}
      BY <1>1, <1>2 DEF Retires
    <2> QED
      BY <2>1, <2>2, <2>3
  <1>3. ASSUME Retires(r0), ~Retires(r)
        PROVE  FALSE
    <2>1. PICK k : IsRetirement(st, c, k, p, r0.date, now)
      BY <1>3 DEF DoneToPredecessor
    <2>2. c.assets[p].current \notin DOMAIN st.events \union {None}
      BY <2>1 DEF IsRetirement
    <2>3. c.assets[p].current = r.expected.current
      BY <1>3 DEF PredecessorMatches
    <2> QED
      BY <1>1, <2>2, <2>3
  <1>4. ASSUME NEW q, Undeploys(q), q.expected.place = st.assets[p].place
        PROVE  st.assets[p].place # NotDeployed
    BY <1>4 DEF Undeploys, NotDeployed
  <1>5. c.assets[p].place = IF Undeploys(r0) THEN NotDeployed ELSE st.assets[p].place
    BY DEF DoneToPredecessor
  <1>6. c.assets[p].place = IF Undeploys(r) THEN NotDeployed ELSE st.assets[p].place
    BY <1>1 DEF PredecessorMatches
  <1>7. ASSUME Undeploys(r), ~Undeploys(r0)
        PROVE  FALSE
    BY <1>1, <1>4, <1>5, <1>6, <1>7
  <1>8. ASSUME Undeploys(r0), ~Undeploys(r)
        PROVE  FALSE
    BY <1>1, <1>4, <1>5, <1>6, <1>8
  <1> QED
    BY <1>2, <1>3, <1>7, <1>8

\* What a command makes depends on nothing else.
LEMMA ReplacedSame ==
  ASSUME NEW st, NEW now, NEW r0, NEW r, r.predecessor = r0.predecessor,
         r.new.asset = r0.new.asset, r.date = r0.date,
         Retires(r) <=> Retires(r0), Undeploys(r) <=> Undeploys(r0)
  PROVE  Replaced(st, now, r) = Replaced(st, now, r0)
  <1>1. PICK p, a, date : p = r.predecessor /\ a = r.new.asset /\ date = r.date
    OBVIOUS
  <1>2. PICK t : t = Transition(st, p, "retired", date, now)
    OBVIOUS
  <1>3. PICK b : b = IF Retires(r) THEN t ELSE st
    OBVIOUS
  <1>4. PICK u : u = [b EXCEPT !.assets[p].place = NotDeployed]
    OBVIOUS
  <1>5. Replaced(st, now, r) = WithReplacement(IF Undeploys(r) THEN u ELSE b, p, a, date, now)
    BY <1>1, <1>2, <1>3, <1>4 DEF Replaced
  <1>6. b = IF Retires(r0) THEN t ELSE st
    BY <1>3
  <1>7. Replaced(st, now, r0) = WithReplacement(IF Undeploys(r0) THEN u ELSE b, p, a, date, now)
    BY <1>1, <1>2, <1>4, <1>6 DEF Replaced
  <1>8. (IF Undeploys(r) THEN u ELSE b) = (IF Undeploys(r0) THEN u ELSE b)
    OBVIOUS
  <1> QED
    BY <1>5, <1>7, <1>8

\* Only a command with the same effect is recognised.
LEMMA ReplayedIsEffect ==
  ASSUME NEW st, Sound(st), Valid(st), NEW now \in Clock, NEW a \in Drafts \ Born(st),
         NEW r0 \in QuickRequests(a, Shown(st)), NEW r \in QuickRequests(a, Shown(st)),
         QuickValid(now, r0), Reviewed(st, r0),
         NEW c, c = Candidate(st, now, r0), Valid(c), c # st,
         QuickValid(MaxClock, r), ReplayMatches(c, r)
  PROVE  QuickCreate(st, now, r).st = c
  <1>1. Effect(st, c, now, r0)
    BY CandidateEffect
  <1>2. r.new.asset = a /\ r0.new.asset = a /\ st \in Stores
    BY QuickRequestParts DEF Sound
  <1>3. /\ c.assets[a].place = r.new.place /\ c.assets[a].status = r.new.status
        /\ \A e \in EventsOf(c, a) : InitialMatches(c, r, e)
        /\ Cardinality(Related(c, a)) = IF r.predecessor = "no_one" THEN 0 ELSE 1
        /\ \A q \in Related(c, a) : RecordMatches(c, r, q)
    BY <1>2, ReplayParts
  <1>4. r.new.place = r0.new.place /\ r.new.status = r0.new.status
    BY <1>1, <1>2, <1>3 DEF Effect, MadeAsset
  <1>5. r.new.date = r0.new.date
    <2>1. CASE r.new.status = "unknown"
      BY <1>4, <2>1 DEF QuickValid
    <2>2. CASE r.new.status # "unknown"
      <3>1. PICK k : EventsOf(c, a) = {k} /\ c.events[k].date = r0.new.date
        BY <1>1, <1>2, <1>4, <2>2 DEF Effect, MadeAsset
      <3> QED
        BY <1>3, <3>1 DEF InitialMatches
    <2> QED
      BY <2>1, <2>2
  <1>6. WithAsset(st, a, r.new.status, r.new.date, r.new.place, now)
          = WithAsset(st, a, r0.new.status, r0.new.date, r0.new.place, now)
    BY <1>4, <1>5
  <1>7. PICK new : new = WithAsset(st, a, r.new.status, r.new.date, r.new.place, now)
    OBVIOUS
  <1>8. (r.predecessor = "no_one") <=> (r0.predecessor = "no_one")
    <2>1. r0.predecessor = "no_one" => Cardinality(Related(c, a)) = 0
      BY <1>1, <1>2, FS_EmptySet DEF Effect
    <2>2. r0.predecessor # "no_one" => Cardinality(Related(c, a)) = 1
      BY <1>1, <1>2, FS_Singleton DEF Effect
    <2> QED
      BY <1>3, <2>1, <2>2
  <1>9. /\ r.date = r0.date /\ Reviewed(st, r) /\ Candidate(st, now, r) = c
    <2>1. CASE r0.predecessor = "no_one"
      <3>1. r.predecessor = "no_one"
        BY <1>8, <2>1
      <3>2. r.date = None /\ r0.date = None
        BY <1>2, <2>1, <3>1, QuickPredecessor
      <3>3. Reviewed(st, r)
        BY <3>1 DEF Reviewed
      <3>4. Candidate(st, now, r) = new /\ Candidate(st, now, r0) = new
        BY <1>2, <1>6, <1>7, <2>1, <3>1 DEF Candidate
      <3> QED
        BY <3>2, <3>3, <3>4
    <2>2. CASE r0.predecessor # "no_one"
      <3>1. r.predecessor # "no_one"
        BY <1>8, <2>2
      <3>2. PICK m : /\ m \in Related(c, a)
                     /\ c.replacements[m] = Replacement(r0.predecessor, a, r0.date, now)
        BY <1>1, <1>2, <2>2 DEF Effect
      <3>3. DoneToPredecessor(st, c, r0, r0.predecessor, now)
        BY <1>1, <2>2 DEF Effect
      <3>4. RecordMatches(c, r, m)
        BY <1>3, <3>2
      <3>5. PICK at : /\ at = c.replacements[m].at
                      /\ c.replacements[m] = Replacement(r.predecessor, a, r.date, at)
                      /\ PredecessorMatches(c, r, at)
        BY <1>2, <3>4 DEF RecordMatches
      <3>6. r.predecessor = r0.predecessor /\ r.date = r0.date /\ at = now
        BY <3>2, <3>5 DEF Replacement
      <3>7. PICK p \in Born(st) : p = r.predecessor /\ r.expected = Snapshot(st, p)
                                  /\ r0.predecessor = p /\ r0.expected = Snapshot(st, p)
        BY <1>2, <2>2, <3>1, <3>6, QuickPredecessor
      <3>8. st.assets[p].current \in DOMAIN st.events \union {None}
        BY DEF Sound, Chained, IsLast, EventsOf
      <3>9. (Retires(r) <=> Retires(r0)) /\ (Undeploys(r) <=> Undeploys(r0))
        BY <3>3, <3>5, <3>6, <3>7, <3>8, SamePredecessor
      <3>10. Replaced(new, now, r) = Replaced(new, now, r0)
        BY <1>2, <3>6, <3>9, ReplacedSame
      <3>11. Candidate(st, now, r) = Replaced(new, now, r)
        BY <1>2, <1>7, <3>1 DEF Candidate
      <3>12. Candidate(st, now, r0) = Replaced(new, now, r0)
        BY <1>2, <1>6, <1>7, <2>2 DEF Candidate
      <3>13. p \in ActiveAssets(st)
        BY <2>2, <3>7 DEF Reviewed
      <3>14. Reviewed(st, r)
        BY <3>7, <3>13 DEF Reviewed
      <3> QED
        BY <3>6, <3>10, <3>11, <3>12, <3>14
    <2> QED
      BY <2>1, <2>2
  <1>10. QuickValid(now, r)
    BY <1>4, <1>5, <1>9 DEF QuickValid
  <1>11. QuickCreate(st, now, r) = Validated(st, c)
    BY <1>2, <1>9, <1>10, QuickOutcome
  <1> QED
    BY <1>11, Accept, ValidatedParts

\* Only Quick Create makes a draft an Asset.
LEMMA DraftIsMade ==
  ASSUME IInv, Next, NEW a \in Drafts, a \notin Born(store), a \in Born(store')
  PROVE  \E r \in QuickRequests(a, Shown(store)), now \in Clock :
           /\ QuickCreate(store, now, r).outcome = "changed"
           /\ store' = QuickCreate(store, now, r).st
  <1>1. Sound(store) /\ Valid(store) /\ store \in Stores
    BY DEF IInv, Sound
  <1>2. CASE Submit
    <2>1. PICK r \in Requests(store), now \in Clock : Save(Mutate(store, now, r))
      BY <1>2 DEF Submit
    <2>2. Born(store') = Born(store) \union {}
      BY <1>1, <2>1, MutateStep, SaveStep
    <2> QED
      BY <2>2
  <1>3. CASE SubmitManual
    <2>1. PICK b \in Manual \ Born(store), s \in Statuses, now \in Clock :
            Save(CreateManual(store, now, b, s))
      BY <1>3 DEF SubmitManual
    <2>2. Born(store') = Born(store) \union {b}
      BY <1>1, <2>1, ManualStep, SaveStep
    <2>3. a # b
      BY HistoryAssumption
    <2> QED
      BY <2>2, <2>3
  <1>4. CASE SubmitQuickCreate
    <2>1. PICK b \in Drafts \ Born(store) :
            \E r \in QuickRequests(b, Shown(store)), now \in Clock :
              Save(QuickCreate(store, now, r))
      BY <1>4 DEF SubmitQuickCreate
    <2>2. PICK r \in QuickRequests(b, Shown(store)), now \in Clock :
            Save(QuickCreate(store, now, r))
      BY <2>1
    <2>3. /\ Born(store') = Born(store) \union {b}
          /\ store' = QuickCreate(store, now, r).st
          /\ QuickCreate(store, now, r).outcome = "changed"
      BY <1>1, <2>2, QuickStep, SaveStep
    <2>4. a = b
      BY <2>3
    <2> QED
      BY <2>2, <2>3, <2>4
  <1> QED
    BY <1>2, <1>3, <1>4 DEF Next

LEMMA QuickChanged ==
  ASSUME NEW st, NEW now, NEW r, r.new.asset \notin Born(st),
         QuickCreate(st, now, r).outcome = "changed"
  PROVE  LET c == QuickCreate(st, now, r).st
         IN /\ QuickValid(now, r) /\ Reviewed(st, r) /\ c = Candidate(st, now, r)
            /\ Valid(c) /\ c # st
  <1>1. QuickValid(now, r) /\ Reviewed(st, r)
    BY QuickOutcome, ValidatedParts
  <1>2. QuickCreate(st, now, r) = Validated(st, Candidate(st, now, r))
    BY <1>1, QuickOutcome
  <1>3. Validated(st, st).outcome # "changed"
    BY DEF Validated, Unchanged
  <1> QED
    BY <1>1, <1>2, <1>3, ValidatedParts

LEMMA Answered ==
  ASSUME NEW st, NEW r, r.new.asset \in Born(st)
  PROVE  QuickCreate(st, MaxClock, r).outcome = "replay"
           <=> QuickValid(MaxClock, r) /\ ReplayMatches(st, r)
  <1>1. QuickCreate(st, MaxClock, r) =
          IF ~QuickValid(MaxClock, r) THEN Refused(st)
          ELSE IF ReplayMatches(st, r) THEN Unchanged(st, "replay") ELSE Refused(st)
    BY DEF QuickCreate
  <1>2. Unchanged(st, "replay").outcome = "replay" /\ Refused(st).outcome # "replay"
    BY DEF Unchanged, Refused
  <1>3. CASE ~QuickValid(MaxClock, r)
    BY <1>1, <1>2, <1>3
  <1>4. CASE QuickValid(MaxClock, r) /\ ReplayMatches(st, r)
    BY <1>1, <1>2, <1>4
  <1>5. CASE QuickValid(MaxClock, r) /\ ~ReplayMatches(st, r)
    BY <1>1, <1>2, <1>5
  <1> QED
    BY <1>3, <1>4, <1>5

\* After a draft has landed, exactly the commands that would have made what it made
\* are answered as done; every other command with its UUID is a conflict
\* (_quick_replay_result).
THEOREM ReplayIsExactHolds == Spec => ReplayIsExact
  <1> DEFINE Exact ==
        \A a \in Drafts : a \notin Born(store) /\ a \in Born(store') =>
          \A r \in QuickRequests(a, Shown(store)) :
            QuickCreate(store', MaxClock, r).outcome = "replay"
              <=> \E now \in Clock : QuickCreate(store, now, r).st = store'
  <1>1. ASSUME IInv, Next
        PROVE  Exact
    <2> SUFFICES ASSUME NEW a \in Drafts, a \notin Born(store), a \in Born(store'),
                        NEW r \in QuickRequests(a, Shown(store))
                 PROVE  QuickCreate(store', MaxClock, r).outcome = "replay"
                          <=> \E now \in Clock : QuickCreate(store, now, r).st = store'
      OBVIOUS
    <2>1. Sound(store) /\ Valid(store) /\ store \in Stores
      BY <1>1 DEF IInv, Sound
    <2>2. PICK st, c : st = store /\ c = store'
      OBVIOUS
    <2>3. r.new.asset = a
      BY QuickRequestParts
    <2>4. QuickCreate(c, MaxClock, r).outcome = "replay"
            <=> QuickValid(MaxClock, r) /\ ReplayMatches(c, r)
      BY <2>2, <2>3, Answered
    <2>5. ASSUME QuickValid(MaxClock, r), ReplayMatches(c, r)
          PROVE  \E now \in Clock : QuickCreate(st, now, r).st = c
      <3>1. PICK r0 \in QuickRequests(a, Shown(st)), now \in Clock :
              QuickCreate(st, now, r0).outcome = "changed" /\ c = QuickCreate(st, now, r0).st
        BY <1>1, <2>2, DraftIsMade
      <3>2. r0.new.asset = a
        BY QuickRequestParts
      <3>3. /\ QuickValid(now, r0) /\ Reviewed(st, r0) /\ c = Candidate(st, now, r0)
            /\ Valid(c) /\ c # st
        BY <2>2, <3>1, <3>2, QuickChanged
      <3>4. QuickCreate(st, now, r).st = c
        BY <2>1, <2>2, <2>5, <3>3, ReplayedIsEffect
      <3> QED
        BY <3>4
    <2>6. ASSUME NEW now \in Clock, QuickCreate(st, now, r).st = c
          PROVE  QuickValid(MaxClock, r) /\ ReplayMatches(c, r)
      <3>1. QuickCreate(st, now, r).outcome = "changed"
        <4>1. c # st
          BY <2>2
        <4>2. QuickCreate(st, now, r) \in {Refused(st), Validated(st, Candidate(st, now, r))}
          BY <2>2, <2>3, QuickOutcome
        <4> QED
          BY <2>6, <4>1, <4>2 DEF Refused, Unchanged, Validated
      <3>2. QuickValid(now, r) /\ c = Candidate(st, now, r)
        BY <2>2, <2>3, <2>6, <3>1, QuickChanged
      <3>3. Effect(st, c, now, r)
        BY <2>1, <2>2, <3>2, CandidateEffect
      <3>4. ReplayMatches(c, r)
        BY <2>1, <2>2, <3>3, EffectIsReplayed
      <3>5. QuickValid(MaxClock, r)
        <4>1. r.new.date \in Dates /\ r.date \in Dates
          BY QuickRequestParts
        <4>2. PICK d \in Nat, e \in Nat, t \in Nat :
                d = r.new.date /\ e = r.date /\ t = now /\ t <= MaxClock
          BY <4>1 DEF Dates, Clock, None
        <4>3. d <= t /\ e <= t /\ (r.new.status = "unknown" => r.new.date = None)
          BY <3>2, <4>2 DEF QuickValid
        <4>4. d <= MaxClock /\ e <= MaxClock
          BY <4>2, <4>3, Facts
        <4> QED
          BY <4>2, <4>3, <4>4 DEF QuickValid
      <3> QED
        BY <3>4, <3>5
    <2> QED
      BY <2>2, <2>4, <2>5, <2>6
  <1>2. IInv /\ [Next]_vars => [Exact]_vars
    BY <1>1
  <1> QED
    BY <1>2, Invariant, PTL DEF Spec, ReplayIsExact
=============================================================================
