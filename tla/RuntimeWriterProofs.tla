------------------------- MODULE RuntimeWriterProofs -------------------------
(***************************************************************************)
(* Proofs about RuntimeWriter for every bound on time and on events.       *)
(***************************************************************************)
EXTENDS RuntimeWriter, SequenceTheorems, TLAPS

\* The pending deltas are a chain: each continues the one before it, so none
\* begins before an earlier one ends.
Chained(deltas) ==
    /\ \A i \in 1..(Len(deltas) - 1) :
          deltas[i + 1].expected = deltas[i].expected + deltas[i].delta
    /\ \A i, j \in 1..Len(deltas) :
          i < j => deltas[i].expected + deltas[i].delta <= deltas[j].expected

\* The chain leads from one total to another.
Spans(deltas, from, to) ==
    /\ Chained(deltas)
    /\ IF deltas = <<>>
       THEN to = from
       ELSE /\ deltas[1].expected = from
            /\ deltas[Len(deltas)].expected + deltas[Len(deltas)].delta = to

\* What was sealed continues what was committed.
SealedInv == Spans(pending, committed, committed + sealed)

\* The operation under the lock has something to commit; a writer that is being
\* removed measures nothing more, and one that is gone told the manager what it
\* left pending.
HolderInv ==
    /\ holder # "none" \/ queued # {} => writer # "absent"
    /\ holder # "none" => pending # <<>>
    /\ holder = "remove" \/ writer = "removed" => ~observing
    /\ writer = "removed" /\ pending # <<>> => unresolved
    /\ writer = "absent" => ~observing /\ answer = "none"

IInv == TypeOK /\ SealedInv /\ HolderInv /\ Conserved /\ OneInDoubt /\ ReportsAreDurable

-----------------------------------------------------------------------------
(* Chains of deltas                                                          *)

\* The parts of a pending delta.
LEMMA DeltaType ==
  ASSUME NEW deltas \in Seq(Deltas)
  PROVE  \A i \in 1..Len(deltas) :
            deltas[i].expected \in Nat /\ deltas[i].delta \in Nat \ {0}
  <1>1. \A i \in 1..Len(deltas) : deltas[i] \in Deltas
    BY ElementOfSeq
  <1> QED
    BY <1>1 DEF Deltas

\* A delta that continues the last total extends the chain.
LEMMA SpansAppend ==
  ASSUME NEW deltas \in Seq(Deltas), NEW from \in Nat, NEW to \in Nat,
         NEW time \in Nat \ {0}, Spans(deltas, from, to)
  PROVE  LET longer == Append(deltas, [expected |-> to, delta |-> time]) IN
         /\ longer \in Seq(Deltas)
         /\ Len(longer) = Len(deltas) + 1
         /\ Spans(longer, from, to + time)
  <1> DEFINE new == [expected |-> to, delta |-> time]
             longer == Append(deltas, new)
  <1>1. new \in Deltas
    BY DEF Deltas
  <1>2. /\ longer \in Seq(Deltas) /\ longer # <<>>
        /\ Len(longer) = Len(deltas) + 1
        /\ \A i \in 1..Len(deltas) : longer[i] = deltas[i]
        /\ longer[Len(deltas) + 1] = new
    BY <1>1, AppendProperties
  <1>3. Len(deltas) \in Nat /\ (deltas # <<>> => Len(deltas) >= 1)
    BY LenProperties, EmptySeq
  <1>4. \A i \in 1..Len(deltas) :
           deltas[i].expected \in Nat /\ deltas[i].delta \in Nat \ {0}
    BY DeltaType
  <1>5. \A i \in 1..Len(deltas) : deltas[i].expected + deltas[i].delta <= to
    <2> SUFFICES ASSUME NEW i \in 1..Len(deltas)
                 PROVE  deltas[i].expected + deltas[i].delta <= to
      OBVIOUS
    <2>1. deltas # <<>> /\ Len(deltas) \in 1..Len(deltas)
      BY <1>3, EmptySeq
    <2>2. deltas[Len(deltas)].expected + deltas[Len(deltas)].delta = to
      BY <2>1 DEF Spans
    <2>3. CASE i = Len(deltas)
      BY <2>2, <2>3
    <2>4. CASE i < Len(deltas)
      <3>1. deltas[i].expected + deltas[i].delta <= deltas[Len(deltas)].expected
        BY <2>1, <2>4 DEF Spans, Chained
      <3> QED
        BY <3>1, <2>1, <2>2, <1>4
    <2> QED
      BY <2>3, <2>4, <1>3
  <1> HIDE DEF longer
  <1>6. Chained(longer)
    <2>1. ASSUME NEW i \in 1..(Len(longer) - 1)
          PROVE  longer[i + 1].expected = longer[i].expected + longer[i].delta
      <3>1. CASE i < Len(deltas)
        BY <3>1, <1>2, <1>3 DEF Spans, Chained
      <3>2. CASE i = Len(deltas)
        BY <3>2, <1>2, <1>3 DEF Spans
      <3> QED
        BY <3>1, <3>2, <1>2, <1>3
    <2>2. ASSUME NEW i \in 1..Len(longer), NEW j \in 1..Len(longer), i < j
          PROVE  longer[i].expected + longer[i].delta <= longer[j].expected
      <3>1. CASE j <= Len(deltas)
        BY <2>2, <3>1, <1>2, <1>3 DEF Spans, Chained
      <3>2. CASE j = Len(deltas) + 1
        BY <2>2, <3>2, <1>2, <1>3, <1>5
      <3> QED
        BY <3>1, <3>2, <1>2, <1>3
    <2> QED
      BY <2>1, <2>2 DEF Chained
  <1>7. longer[1].expected = from
    <2>1. CASE deltas = <<>>
      BY <2>1, <1>2, EmptySeq DEF Spans
    <2>2. CASE deltas # <<>>
      BY <2>2, <1>2, <1>3 DEF Spans
    <2> QED
      BY <2>1, <2>2
  <1>8. longer[Len(longer)].expected + longer[Len(longer)].delta = to + time
    BY <1>2
  <1> QED
    BY <1>2, <1>6, <1>7, <1>8 DEF Spans, longer

\* Once its first delta is committed, the rest of the chain leads from there.
LEMMA SpansTail ==
  ASSUME NEW deltas \in Seq(Deltas), NEW from \in Nat, NEW to \in Nat,
         deltas # <<>>, Spans(deltas, from, to)
  PROVE  /\ Head(deltas) \in Deltas /\ Head(deltas).expected = from
         /\ from + Head(deltas).delta <= to
         /\ Tail(deltas) \in Seq(Deltas) /\ Len(Tail(deltas)) < Len(deltas)
         /\ Spans(Tail(deltas), from + Head(deltas).delta, to)
  <1> DEFINE rest == Tail(deltas)
  <1>1. /\ Head(deltas) \in Deltas /\ rest \in Seq(Deltas)
        /\ Len(rest) = Len(deltas) - 1
        /\ \A i \in 1..Len(rest) : rest[i] = deltas[i + 1]
    BY HeadTailProperties
  <1>2. Len(deltas) \in Nat \ {0}
    BY EmptySeq
  <1>0. Head(deltas) = deltas[1]
    OBVIOUS
  <1>3. \A i \in 1..Len(deltas) :
           deltas[i].expected \in Nat /\ deltas[i].delta \in Nat \ {0}
    BY DeltaType
  <1>4. deltas[1].expected = from
        /\ deltas[Len(deltas)].expected + deltas[Len(deltas)].delta = to
    BY DEF Spans
  <1>5. from + Head(deltas).delta <= to
    <2>1. CASE Len(deltas) <= 1
      BY <1>0, <2>1, <1>2, <1>3, <1>4
    <2>2. CASE Len(deltas) > 1
      <3>1. deltas[1].expected + deltas[1].delta <= deltas[Len(deltas)].expected
        BY <2>2, <1>2 DEF Spans, Chained
      <3> QED
        BY <1>0, <3>1, <1>2, <1>3, <1>4
    <2> QED
      BY <2>1, <2>2, <1>2
  <1> HIDE DEF rest
  <1>6. Chained(rest)
    <2>1. ASSUME NEW i \in 1..(Len(rest) - 1)
          PROVE  rest[i + 1].expected = rest[i].expected + rest[i].delta
      <3>1. i + 1 \in 1..(Len(deltas) - 1) /\ i \in 1..Len(rest) /\ i + 1 \in 1..Len(rest)
        BY <1>1, <1>2
      <3> QED
        BY <3>1, <1>1 DEF Spans, Chained
    <2>2. ASSUME NEW i \in 1..Len(rest), NEW j \in 1..Len(rest), i < j
          PROVE  rest[i].expected + rest[i].delta <= rest[j].expected
      <3>1. i + 1 \in 1..Len(deltas) /\ j + 1 \in 1..Len(deltas) /\ i + 1 < j + 1
        BY <1>1, <1>2, <2>2
      <3> QED
        BY <3>1, <1>1 DEF Spans, Chained
    <2> QED
      BY <2>1, <2>2 DEF Chained
  <1>7. CASE rest = <<>>
    <2>1. Len(deltas) <= 1
      <3>1. Len(rest) <= 0
        BY <1>7
      <3> QED
        BY <3>1, <1>1, <1>2
    <2>2. to = from + Head(deltas).delta
      BY <1>0, <2>1, <1>2, <1>4
    <2>3. Spans(rest, from + Head(deltas).delta, to)
      BY <2>2, <1>6, <1>7 DEF Spans
    <2> QED
      BY <1>0, <2>1, <2>3, <1>1, <1>2, <1>4, <1>5 DEF rest
  <1>8. CASE rest # <<>>
    <2>1. Len(rest) \in 1..Len(rest) /\ 1 \in 1..Len(rest)
      BY <1>1, <1>8, EmptySeq
    <2>2. rest[Len(rest)] = deltas[Len(deltas)] /\ rest[1] = deltas[2]
      BY <2>1, <1>1, <1>2
    <2>3. deltas[2].expected = deltas[1].expected + deltas[1].delta
      <3>1. 1 \in 1..(Len(deltas) - 1)
        BY <2>1, <1>1, <1>2
      <3> QED
        BY <3>1 DEF Spans, Chained
    <2> QED
      BY <1>0, <1>1, <1>2, <1>4, <1>5, <1>6, <1>8, <2>2, <2>3 DEF Spans, rest
  <1> QED
    BY <1>7, <1>8

-----------------------------------------------------------------------------
(* Steps of the account                                                      *)

\* What a handler may do to the account before it commits: time moves from
\* running to pending, and the head of the queue stays what it was.
Resealed ==
    /\ committed' = committed /\ sealed' \in Nat /\ elapsed' \in Nat
    /\ observing' \in BOOLEAN /\ pending' \in Seq(Deltas) /\ SealedInv'
    /\ sealed' + elapsed' = sealed + elapsed
    /\ ~observing' => elapsed' = 0
    /\ pending # <<>> => pending' # <<>> /\ Head(pending') = Head(pending)

\* A handler that leaves the account alone.
LEMMA SameAccount ==
  ASSUME TypeOK, SealedInv, Conserved, writer # "absent", UNCHANGED accountVars
  PROVE  Resealed
  BY DEF TypeOK, SealedInv, Conserved, accountVars, Resealed

\* A handler that seals, whether it goes on measuring or not.
LEMMA SealStep ==
  ASSUME TypeOK, SealedInv, Conserved, writer # "absent", NEW c \in BOOLEAN, Seal(c)
  PROVE  /\ Resealed
         /\ observing' = (observing /\ c)
         /\ ~observing => pending' = pending
  <1>1. CASE observing /\ elapsed > 0
    <2>1. /\ committed \in Nat /\ sealed \in Nat /\ pending \in Seq(Deltas)
          /\ elapsed \in Nat \ {0} /\ committed + sealed \in Nat
      BY <1>1 DEF TypeOK
    <2>2. Spans(pending, committed, committed + sealed)
      BY DEF SealedInv
    <2>3. pending' = Append(pending, [expected |-> committed + sealed, delta |-> elapsed])
          /\ sealed' = sealed + elapsed /\ committed' = committed /\ elapsed' = 0
          /\ observing' = (observing /\ c)
      BY <1>1 DEF Seal
    <2>4. pending' \in Seq(Deltas)
          /\ Spans(pending', committed, (committed + sealed) + elapsed)
      BY <2>1, <2>2, <2>3, SpansAppend
    <2>5. Head(pending') = IF pending = <<>>
                           THEN [expected |-> committed + sealed, delta |-> elapsed]
                           ELSE Head(pending)
      BY <2>1, <2>3, HeadTailAppend
    <2>6. pending' # <<>>
      BY <2>1, <2>3, AppendProperties DEF Deltas
    <2>7. (committed + sealed) + elapsed = committed' + sealed'
      BY <2>1, <2>3
    <2>8. SealedInv'
      BY <2>3, <2>4, <2>7 DEF SealedInv
    <2>9. sealed' \in Nat /\ sealed' + elapsed' = sealed + elapsed
      BY <2>1, <2>3
    <2> QED
      BY <1>1, <2>3, <2>4, <2>5, <2>6, <2>8, <2>9 DEF Resealed, TypeOK
  <1>2. CASE ~(observing /\ elapsed > 0)
    <2>1. /\ UNCHANGED <<committed, pending, sealed>> /\ elapsed' = 0
          /\ observing' = (observing /\ c)
      BY <1>2 DEF Seal
    <2>2. elapsed = 0
      BY <1>2 DEF TypeOK, Conserved
    <2>3. SealedInv'
      BY <2>1 DEF SealedInv
    <2> QED
      BY <2>1, <2>2, <2>3 DEF Resealed, TypeOK
  <1> QED
    BY <1>1, <1>2

\* A handler that reseals and flushes is right about what it reports, and it keeps
\* the lock exactly as long as something is pending.
LEMMA FlushStep ==
  ASSUME IInv, Resealed, UNCHANGED <<total, start, span, dropped>>,
         writer # "absent", NEW op \in Operations, Flush(op)
  PROVE  /\ SealedInv' /\ Conserved' /\ OneInDoubt' /\ ReportsAreDurable'
         /\ committed' \in Nat /\ sealed' \in Nat /\ elapsed' \in Nat
         /\ pending' \in Seq(Deltas) /\ observing' \in BOOLEAN
         /\ holder' = IF pending' = <<>> THEN "none" ELSE op
         /\ answer' \in {"none", "durable", "failed"}
  <1> USE DEF IInv, Resealed
  <1>0. /\ committed \in Nat /\ sealed \in Nat /\ elapsed \in Nat /\ total \in Nat
        /\ dropped \in Nat /\ start \in Nat /\ span \in Nat
        /\ committed' = committed /\ total' = total
        /\ dropped' = dropped /\ start' = start /\ span' = span
    BY DEF TypeOK
  <1>a. PICK s \in Nat, e \in Nat : s = sealed' /\ e = elapsed'
    OBVIOUS
  <1>b. committed + s + e + dropped = start + span
    <2>1. s + e = sealed + elapsed
          /\ committed + sealed + elapsed + dropped = start + span
      BY <1>a DEF Conserved
    <2> QED
      BY <1>0, <2>1
  <1>1. Conserved'
    <2>1. committed' + sealed' + elapsed' + dropped' = start' + span'
      BY <1>0, <1>a, <1>b
    <2> QED
      BY <2>1 DEF Conserved
  <1>2. OneInDoubt'
    <2>1. CASE pending = <<>> /\ pending' = <<>>
      BY <2>1 DEF OneInDoubt
    <2>2. CASE pending = <<>> /\ pending' # <<>>
      <3>1. Head(pending').expected = committed
        <4>1. Head(pending') = pending'[1]
          OBVIOUS
        <4> QED
          BY <4>1, <2>2 DEF SealedInv, Spans
      <3> QED
        BY <3>1, <2>2 DEF OneInDoubt, Expected
    <2>3. CASE pending # <<>>
      BY <2>3 DEF OneInDoubt, Expected, Commits
    <2> QED
      BY <2>1, <2>2, <2>3
  <1>3. ReportsAreDurable'
    <2>1. CASE pending' = <<>>
      <3>1. s = 0
        <4>1. committed + s = committed
          BY <2>1, <1>0, <1>a DEF SealedInv, Spans
        <4> QED
          BY <4>1, <1>0
      <3>2. total' = committed'
        BY <2>1, <1>2 DEF OneInDoubt
      <3>3. total' + dropped' + elapsed' = start' + span'
        <4>1. total + dropped + e = start + span
          BY <3>1, <3>2, <1>0, <1>b
        <4> QED
          BY <4>1, <1>0, <1>a
      <3> QED
        BY <2>1, <3>2, <3>3 DEF ReportsAreDurable
    <2>2. CASE pending' # <<>>
      BY <2>2 DEF Flush, ReportsAreDurable
    <2> QED
      BY <2>1, <2>2
  <1> QED
    BY <1>1, <1>2, <1>3 DEF Flush, Finish, TypeOK

-----------------------------------------------------------------------------
(* The inductive invariant, handler by handler                               *)

\* What every handler has in common: it reseals, flushes, and takes itself off
\* the queue of a writer that is live or removed.
LEMMA HandlerStep ==
  ASSUME IInv, Resealed, UNCHANGED <<total, landed, source, start, span, dropped>>,
         writer # "absent", NEW op \in Operations, Flush(op),
         queued' \subseteq queued, events' \in Seq([old: States, new: States]),
         removing' \in BOOLEAN, listening' \in BOOLEAN, unresolved' \in BOOLEAN,
         writer' \in {"live", "removed"},
         op = "remove" \/ writer' = "removed" => ~observing',
         writer' = "removed" /\ pending' # <<>> => unresolved'
  PROVE  IInv'
  <1>1. /\ SealedInv' /\ Conserved' /\ OneInDoubt' /\ ReportsAreDurable'
        /\ committed' \in Nat /\ sealed' \in Nat /\ elapsed' \in Nat
        /\ pending' \in Seq(Deltas) /\ observing' \in BOOLEAN
        /\ holder' = IF pending' = <<>> THEN "none" ELSE op
        /\ answer' \in {"none", "durable", "failed"}
    BY FlushStep
  <1>2. TypeOK'
    BY <1>1 DEF IInv, TypeOK
  <1>3. HolderInv'
    BY <1>1 DEF HolderInv, Operations, Strict
  <1> QED
    BY <1>1, <1>2, <1>3 DEF IInv

\* A handler that only seals and flushes.
LEMMA SealingHandler ==
  ASSUME IInv, NEW op \in Operations \ {"remove"}, NEW c \in BOOLEAN, Seal(c), Flush(op),
         writer # "absent", queued' \subseteq queued,
         removing' \in BOOLEAN, listening' \in BOOLEAN,
         UNCHANGED <<storeVars, source, events, historyVars, writer, unresolved>>
  PROVE  IInv'
  <1>1. Resealed /\ (~observing => pending' = pending) /\ observing' = (observing /\ c)
    BY SealStep DEF IInv
  <1>2. writer = "removed" => ~observing' /\ (pending' # <<>> => unresolved')
    BY <1>1 DEF IInv, HolderInv
  <1> QED
    BY <1>1, <1>2, HandlerStep DEF IInv, TypeOK, storeVars, historyVars

\* A handler that leaves the account alone and flushes.
LEMMA RetryingHandler ==
  ASSUME IInv, NEW op \in Operations \ {"remove"}, UNCHANGED accountVars, Flush(op),
         writer # "absent", queued' \subseteq queued,
         removing' \in BOOLEAN, listening' \in BOOLEAN,
         UNCHANGED <<storeVars, source, events, historyVars, writer, unresolved>>
  PROVE  IInv'
  <1>1. Resealed
    BY SameAccount DEF IInv
  <1>2. writer = "removed" => ~observing' /\ (pending' # <<>> => unresolved')
    BY DEF IInv, HolderInv, accountVars
  <1> QED
    BY <1>1, <1>2, HandlerStep DEF IInv, TypeOK, storeVars, historyVars

\* A source event that waited for the lock.
LEMMA HandleSourceStep ==
  ASSUME IInv, HandleSource
  PROVE  IInv'
  <1> DEFINE e == Head(events)
             active == IsActive(e.new, observing)
  <1>1. /\ writer = "live" /\ events # <<>> /\ holder = "none" /\ events' = Tail(events)
        /\ UNCHANGED <<storeVars, source, listening, queued, historyVars, writer,
                       removing, unresolved>>
    BY DEF HandleSource
  <1>2. events' \in Seq([old: States, new: States])
    BY <1>1, HeadTailProperties DEF IInv, TypeOK
  <1>3. CASE Ignored(e)
    <2>1. answer' = "none" /\ UNCHANGED <<accountVars, holder>>
      BY <1>3 DEF HandleSource
    <2> QED
      BY <1>1, <1>2, <2>1 DEF IInv, TypeOK, SealedInv, HolderInv, Conserved, OneInDoubt,
         Expected, Commits, ReportsAreDurable, storeVars, historyVars, accountVars
  <1>4. CASE ~Ignored(e)
    <2>1. Flush("source")
      BY <1>4 DEF HandleSource
    <2>2. Resealed
      <3>1. CASE observing /\ ~active
        <4>1. Seal(FALSE)
          BY <1>4, <3>1 DEF HandleSource
        <4> QED
          BY <4>1, <1>1, SealStep DEF IInv
      <3>2. CASE ~(observing /\ ~active)
        <4>1. observing' = active /\ elapsed' = (IF observing THEN elapsed ELSE 0)
              /\ UNCHANGED <<committed, pending, sealed>>
          BY <1>4, <3>2 DEF HandleSource
        <4>2. active \in BOOLEAN /\ elapsed' = elapsed /\ (~observing' => elapsed' = 0)
          BY <3>2, <4>1, <1>1 DEF IsActive, IInv, Conserved, TypeOK
        <4> QED
          BY <4>1, <4>2 DEF Resealed, IInv, TypeOK, SealedInv
      <3> QED
        BY <3>1, <3>2
    <2> QED
      BY <1>1, <1>2, <2>1, <2>2, HandlerStep
         DEF IInv, TypeOK, storeVars, historyVars, Operations
  <1> QED
    BY <1>3, <1>4

\* A preparation to unload: it stops measuring once it has committed everything.
LEMMA HandlePrepareStep ==
  ASSUME IInv, HandlePrepare
  PROVE  IInv'
  <1>1. /\ queued' \subseteq queued /\ listening' = listening
        /\ UNCHANGED <<storeVars, source, events, historyVars, writer, unresolved>>
    BY DEF HandlePrepare, sourceVars
  <1>2. writer # "absent"
    BY DEF HandlePrepare, IInv, HolderInv
  <1>3. CASE removing
    BY <1>1, <1>2, <1>3, RetryingHandler
       DEF HandlePrepare, IInv, TypeOK, Operations, Strict
  <1>4. CASE ~removing
    <2>1. PICK c \in BOOLEAN : Seal(c)
      <3>1. ((observing /\ elapsed > 0) \/ pending # <<>>) \in BOOLEAN
        OBVIOUS
      <3> QED
        BY <1>4, <3>1 DEF HandlePrepare
    <2> QED
      BY <1>1, <1>2, <1>4, <2>1, SealingHandler
         DEF HandlePrepare, IInv, TypeOK, Operations, Strict
  <1> QED
    BY <1>3, <1>4 DEF IInv, TypeOK

\* A removal: the manager hears of what stays pending.
LEMMA HandleRemoveStep ==
  ASSUME IInv, HandleRemove
  PROVE  IInv'
  <1>1. /\ holder = "none" /\ queued' \subseteq queued /\ removing' = TRUE
        /\ Seal(FALSE) /\ Flush("remove") /\ UNCHANGED <<storeVars, historyVars>>
    BY DEF HandleRemove
  <1>2. writer # "absent"
    BY DEF HandleRemove, IInv, HolderInv
  <1>3. Resealed /\ (~observing => pending' = pending) /\ observing' = FALSE
    BY <1>1, <1>2, SealStep DEF IInv
  <1>4. CASE holder' = "none"
    BY <1>1, <1>2, <1>3, <1>4, HandlerStep, EmptySeq
       DEF HandleRemove, Unregister, IInv, TypeOK, storeVars, historyVars, Operations
  <1>5. CASE holder' # "none"
    <2>1. UNCHANGED <<sourceVars, writer, unresolved>>
      BY <1>5 DEF HandleRemove
    <2>2. writer' = "removed" /\ pending' # <<>> => unresolved'
      BY <2>1, <1>3 DEF IInv, HolderInv
    <2> QED
      BY <1>1, <1>2, <1>3, <2>1, <2>2, HandlerStep
         DEF IInv, TypeOK, storeVars, sourceVars, historyVars, Operations
  <1> QED
    BY <1>4, <1>5

\* Every handler keeps the invariant.
LEMMA HandleKeeps ==
  ASSUME IInv, Handle
  PROVE  IInv'
  <1>1. queued # {} => writer # "absent"
    BY DEF IInv, HolderInv
  <1> USE <1>1 DEF Operations, Strict, sourceVars, IInv, TypeOK
  <1>2. CASE HandlePeriodic
    BY <1>2, SealingHandler, RetryingHandler DEF HandlePeriodic
  <1>3. CASE HandleCheckpoint
    <2>1. CASE removing
      BY <1>3, <2>1 DEF HandleCheckpoint, Finish, SealedInv, HolderInv, Conserved,
         OneInDoubt, Expected, Commits, ReportsAreDurable, storeVars, historyVars,
         accountVars
    <2>2. CASE ~removing
      BY <1>3, <2>2, SealingHandler DEF HandleCheckpoint
    <2> QED
      BY <2>1, <2>2
  <1>4. CASE HandleFinalize
    BY <1>4, RetryingHandler DEF HandleFinalize
  <1>5. CASE HandleRetire
    <2>1. CASE removing
      BY <1>5, <2>1, RetryingHandler DEF HandleRetire
    <2>2. CASE ~removing
      BY <1>5, <2>2, SealingHandler DEF HandleRetire
    <2> QED
      BY <2>1, <2>2
  <1>6. CASE HandleShutdown
    BY <1>6, SealingHandler DEF HandleShutdown
  <1> QED
    BY <1>2, <1>3, <1>4, <1>5, <1>6, HandleSourceStep, HandlePrepareStep, HandleRemoveStep
       DEF Handle

\* The head delta continues the committed total, and committing it leaves a chain.
LEMMA HeadDelta ==
  ASSUME IInv, holder # "none"
  PROVE  /\ pending # <<>> /\ pending \in Seq(Deltas) /\ writer # "absent"
         /\ Expected = committed /\ Commits \in Nat
         /\ Head(pending).delta \in Nat \ {0} /\ Commits = committed + Head(pending).delta
         /\ Head(pending).delta <= sealed
         /\ Tail(pending) \in Seq(Deltas)
         /\ Spans(Tail(pending), Commits, committed + sealed)
  <1>1. /\ pending # <<>> /\ pending \in Seq(Deltas) /\ writer # "absent"
        /\ committed \in Nat /\ sealed \in Nat /\ committed + sealed \in Nat
        /\ Spans(pending, committed, committed + sealed)
    BY DEF IInv, HolderInv, TypeOK, SealedInv
  <1>2. /\ Head(pending) \in Deltas /\ Head(pending).expected = committed
        /\ committed + Head(pending).delta <= committed + sealed
        /\ Tail(pending) \in Seq(Deltas)
        /\ Spans(Tail(pending), committed + Head(pending).delta, committed + sealed)
    BY <1>1, SpansTail
  <1>3. Head(pending).delta \in Nat \ {0}
    BY <1>2 DEF Deltas
  <1> QED
    BY <1>1, <1>2, <1>3 DEF Expected, Commits

\* A commit that reaches the disk puts the total one delta ahead of the writer.
LEMMA CommitLandsStep ==
  ASSUME IInv, CommitLands
  PROVE  IInv'
  <1>1. pending # <<>> /\ writer # "absent" /\ Expected = committed /\ Commits \in Nat
    BY HeadDelta DEF CommitLands
  <1>2. /\ total' = Commits /\ landed' = TRUE /\ answer' = "none"
        /\ UNCHANGED <<sourceVars, accountVars, lockVars, historyVars, writer, removing,
                       unresolved>>
    BY DEF CommitLands
  <1>3. OneInDoubt'
    BY <1>1, <1>2 DEF OneInDoubt, Expected, Commits, accountVars
  <1>4. TypeOK'
    BY <1>1, <1>2 DEF IInv, TypeOK, sourceVars, accountVars, lockVars, historyVars
  <1> QED
    BY <1>2, <1>3, <1>4 DEF IInv, SealedInv, HolderInv, Conserved, ReportsAreDurable,
       sourceVars, accountVars, lockVars, historyVars

\* A commit that returns moves its delta from pending to committed.
LEMMA CommitReturnsStep ==
  ASSUME IInv, CommitReturns
  PROVE  IInv'
  <1> DEFINE delta == Head(pending).delta
  <1>1. /\ pending # <<>> /\ pending \in Seq(Deltas) /\ writer # "absent"
        /\ Commits \in Nat /\ delta \in Nat \ {0} /\ Commits = committed + delta
        /\ delta <= sealed /\ Tail(pending) \in Seq(Deltas)
        /\ Spans(Tail(pending), Commits, committed + sealed)
    BY HeadDelta DEF CommitReturns
  <1>2. /\ holder # "none" /\ total = Commits /\ committed' = Commits
        /\ pending' = Tail(pending) /\ sealed' = sealed - delta /\ landed' = FALSE
        /\ UNCHANGED <<total, queued, start, span>>
        /\ IF pending' = <<>> THEN Finish(holder, TRUE) ELSE answer' = "none" /\ UNCHANGED holder
        /\ IF pending' = <<>> /\ holder = "remove"
           THEN Unregister ELSE UNCHANGED <<sourceVars, writer, unresolved>>
    BY DEF CommitReturns
  <1>3. /\ committed \in Nat /\ sealed \in Nat /\ elapsed \in Nat /\ dropped \in Nat
        /\ start \in Nat /\ span \in Nat /\ holder \in Operations
    BY <1>2 DEF IInv, TypeOK
  <1>4. PICK c \in Nat, s \in Nat : c = committed' /\ s = sealed'
    <2>1. sealed - delta \in Nat
      BY <1>1, <1>3
    <2> QED
      BY <1>1, <1>2, <2>1
  <1>5. c + s = committed + sealed
    <2>1. c = committed + delta /\ s = sealed - delta
      BY <1>1, <1>2, <1>4
    <2> QED
      BY <1>1, <1>3, <2>1
  <1> HIDE DEF delta
  <1>6. SealedInv'
    <2>1. committed' + sealed' = committed + sealed
      BY <1>4, <1>5
    <2> QED
      BY <1>1, <1>2, <2>1 DEF SealedInv
  <1>7. OneInDoubt'
    <2>1. total' = committed'
      BY <1>2
    <2>2. pending' # <<>> => Head(pending').expected = committed'
      <3>1. Head(pending') = pending'[1]
        OBVIOUS
      <3> QED
        BY <1>2, <3>1, <1>6 DEF SealedInv, Spans
    <2> QED
      BY <2>1, <2>2 DEF OneInDoubt, Expected
  <1>8. PICK e \in Nat, d \in Nat :
           /\ e = elapsed' /\ d = dropped' /\ e + d = elapsed + dropped
           /\ observing' \in BOOLEAN /\ removing' \in BOOLEAN
           /\ (~observing' => e = 0) /\ (~observing => ~observing')
    <2>1. CASE pending' = <<>> /\ holder = "prepare"
      <3>1. removing' = TRUE /\ observing' = FALSE
            /\ elapsed' = 0 /\ dropped' = dropped + elapsed
        BY <2>1 DEF CommitReturns
      <3>2. dropped + elapsed \in Nat /\ 0 + (dropped + elapsed) = elapsed + dropped
        BY <1>3
      <3> QED
        BY <3>1, <3>2
    <2>2. CASE ~(pending' = <<>> /\ holder = "prepare")
      <3>1. UNCHANGED <<removing, observing, elapsed, dropped>>
        BY <2>2 DEF CommitReturns
      <3> QED
        BY <3>1, <1>1, <1>3 DEF IInv, TypeOK, Conserved
    <2> QED
      BY <2>1, <2>2
  <1>sum. c + s + e + d = start + span
    <2>1. committed + sealed + elapsed + dropped = start + span
      BY <1>1 DEF IInv, Conserved
    <2>2. e + d = elapsed + dropped
      BY <1>8
    <2>3. /\ committed \in Nat /\ sealed \in Nat /\ elapsed \in Nat /\ dropped \in Nat
          /\ start \in Nat /\ span \in Nat
      BY <1>3
    <2> QED
      BY <2>1, <2>2, <2>3, <1>5
  <1>9. Conserved'
    <2>1. committed' + sealed' + elapsed' + dropped' = start' + span'
      BY <1>sum, <1>2, <1>4, <1>8
    <2>2. ~observing' => elapsed' = 0
      BY <1>8
    <2> QED
      BY <2>1, <2>2 DEF Conserved
  <1>10. ReportsAreDurable'
    <2>1. CASE pending' = <<>>
      <3>1. s = 0
        <4>1. c + s = c
          BY <2>1, <1>4, <1>6 DEF SealedInv, Spans
        <4> QED
          BY <4>1
      <3>2. c + d + e = start + span
        <4>1. c + 0 + e + d = c + d + e
          OBVIOUS
        <4> QED
          BY <4>1, <3>1, <1>sum
      <3>3. total' + dropped' + elapsed' = start' + span'
        BY <3>2, <1>2, <1>4, <1>8
      <3> QED
        BY <2>1, <3>3, <1>2 DEF ReportsAreDurable
    <2>2. CASE pending' # <<>>
      BY <2>2, <1>2 DEF ReportsAreDurable
    <2> QED
      BY <2>1, <2>2
  <1>11. TypeOK'
    BY <1>1, <1>2, <1>3, <1>4, <1>8, EmptySeq
       DEF IInv, TypeOK, Finish, Unregister, sourceVars
  <1>12. HolderInv'
    <2>1. CASE pending' = <<>>
      BY <2>1, <1>1, <1>2, <1>8 DEF IInv, HolderInv, Finish, Unregister, sourceVars, TypeOK
    <2>2. CASE pending' # <<>>
      BY <2>2, <1>1, <1>2, <1>8 DEF IInv, HolderInv, sourceVars
    <2> QED
      BY <2>1, <2>2
  <1> QED
    BY <1>6, <1>7, <1>9, <1>10, <1>11, <1>12 DEF IInv

\* A commit that fails keeps every pending delta.
LEMMA CommitFailsStep ==
  ASSUME IInv, CommitFails
  PROVE  IInv'
  <1>1. /\ holder # "none" /\ landed' = FALSE /\ holder' = "none"
        /\ answer' \in {"none", "failed"} /\ pending' = pending
        /\ UNCHANGED <<total, committed, sealed, observing, elapsed, queued, historyVars,
                       removing>>
    BY DEF CommitFails, Finish
  <1>2. /\ listening' \in BOOLEAN /\ events' \in Seq([old: States, new: States])
        /\ source' \in States
        /\ \/ writer' = writer /\ unresolved' = unresolved /\ holder # "remove"
           \/ writer' = "removed" /\ unresolved' = TRUE /\ holder = "remove"
    <2>1. pending # <<>>
      BY <1>1 DEF IInv, HolderInv
    <2> QED
      BY <1>1, <2>1, EmptySeq DEF CommitFails, Unregister, sourceVars, IInv, TypeOK
  <1>3. TypeOK'
    BY <1>1, <1>2 DEF IInv, TypeOK, historyVars
  <1>4. HolderInv'
    BY <1>1, <1>2 DEF IInv, HolderInv
  <1>5. writer # "absent"
    BY <1>1 DEF IInv, HolderInv
  <1>6. SealedInv' /\ Conserved' /\ OneInDoubt' /\ ReportsAreDurable'
    BY <1>1, <1>5 DEF IInv, SealedInv, Conserved, OneInDoubt, Expected, Commits,
       ReportsAreDurable, historyVars
  <1> QED
    BY <1>3, <1>4, <1>6 DEF IInv

\* Steps of the source, the clock and the callers, and a new writer.
LEMMA OtherStep ==
  ASSUME IInv,
         \/ AddWriter \/ Tick \/ RequestRemoval \/ CheckpointWithoutWriter \/ ProcessStops
         \/ \E s \in States : SourceChanges(s)
         \/ \E op \in Operations \ {"source", "remove"} : Request(op)
  PROVE  IInv'
  <1> USE DEF IInv, storeVars, sourceVars, accountVars, lockVars, historyVars
  <1>1. Chained(<<>>) /\ <<>> \in Seq(Deltas) /\ <<>> \in Seq([old: States, new: States])
    BY DEF Chained
  <1>2. CASE AddWriter
    <2>1. IsActive(source, FALSE) \in BOOLEAN
      BY DEF IsActive
    <2>2. TypeOK'
      BY <1>1, <1>2, <2>1 DEF AddWriter, TypeOK
    <2>3. SealedInv' /\ Conserved'
      BY <1>1, <1>2 DEF AddWriter, TypeOK, SealedInv, Spans, Conserved
    <2> QED
      BY <1>2, <2>2, <2>3 DEF AddWriter, HolderInv, OneInDoubt, ReportsAreDurable
  <1>3. CASE Tick
    <2>1. writer # "absent"
      BY <1>3 DEF Tick, HolderInv
    <2>2. TypeOK' /\ Conserved'
      BY <1>3, <2>1 DEF Tick, TypeOK, Conserved
    <2> QED
      BY <1>3, <2>2 DEF Tick, SealedInv, HolderInv, OneInDoubt, Expected, Commits,
         ReportsAreDurable
  <1>4. ASSUME NEW s \in States, SourceChanges(s)
        PROVE  IInv'
    <2>1. events' \in Seq([old: States, new: States])
      <3>1. events \in Seq([old: States, new: States])
            /\ [old |-> source, new |-> s] \in [old: States, new: States]
        BY DEF TypeOK
      <3>2. Append(events, [old |-> source, new |-> s]) \in Seq([old: States, new: States])
        BY <3>1, AppendProperties
      <3> QED
        BY <1>4, <3>1, <3>2 DEF SourceChanges
    <2>2. TypeOK'
      BY <1>4, <2>1 DEF SourceChanges, TypeOK
    <2> QED
      BY <1>4, <2>2 DEF SourceChanges, SealedInv, HolderInv, Conserved, OneInDoubt,
         Expected, Commits, ReportsAreDurable
  <1>5. ASSUME NEW op \in Operations \ {"source", "remove"}, Request(op)
        PROVE  IInv'
    BY <1>5 DEF Request, TypeOK, SealedInv, HolderInv, Conserved, OneInDoubt, Expected,
       Commits, ReportsAreDurable
  <1>6. CASE RequestRemoval
    BY <1>6 DEF RequestRemoval, Operations, TypeOK, SealedInv, HolderInv, Conserved,
       OneInDoubt, Expected, Commits, ReportsAreDurable
  <1>7. CASE CheckpointWithoutWriter
    <2>1. writer = "removed" /\ answer' = (IF unresolved THEN "failed" ELSE "durable")
          /\ UNCHANGED <<storeVars, sourceVars, accountVars, lockVars, historyVars, writer,
                         removing, unresolved>>
      BY <1>7 DEF CheckpointWithoutWriter
    <2>2. TypeOK' /\ SealedInv' /\ HolderInv' /\ Conserved' /\ OneInDoubt'
      BY <2>1 DEF TypeOK, SealedInv, HolderInv, Conserved, OneInDoubt, Expected, Commits
    <2>3. ReportsAreDurable'
      <3>1. CASE ~unresolved
        <4>1. pending = <<>> /\ total = committed
          BY <2>1, <3>1 DEF HolderInv, OneInDoubt
        <4>2. committed + sealed = committed
          BY <4>1 DEF SealedInv, Spans
        <4>3. sealed = 0
          BY <4>2 DEF TypeOK
        <4>4. total + dropped + elapsed = start + span
          BY <2>1, <4>1, <4>3 DEF Conserved, TypeOK
        <4> QED
          BY <2>1, <4>1, <4>4 DEF ReportsAreDurable
      <3>2. CASE unresolved
        BY <2>1, <3>2 DEF ReportsAreDurable
      <3> QED
        BY <3>1, <3>2
    <2> QED
      BY <2>2, <2>3
  <1>8. CASE ProcessStops
    <2>1. TypeOK'
      BY <1>1, <1>8 DEF ProcessStops, TypeOK
    <2>2. SealedInv' /\ Conserved'
      BY <1>1, <1>8 DEF ProcessStops, SealedInv, Spans, Conserved
    <2> QED
      BY <1>8, <2>1, <2>2 DEF ProcessStops, HolderInv, OneInDoubt, ReportsAreDurable
  <1> QED
    BY <1>2, <1>3, <1>4, <1>5, <1>6, <1>7, <1>8

LEMMA InitInv == Init => IInv
  <1> SUFFICES ASSUME Init PROVE IInv
    OBVIOUS
  <1>1. Chained(<<>>) /\ <<>> \in Seq(Deltas) /\ <<>> \in Seq([old: States, new: States])
    BY DEF Chained
  <1>2. TypeOK
    BY <1>1 DEF Init, TypeOK
  <1> QED
    BY <1>1, <1>2 DEF Init, IInv, SealedInv, Spans, HolderInv, Conserved, OneInDoubt,
       ReportsAreDurable

LEMMA StepInv == IInv /\ [Next]_vars => IInv'
  <1> SUFFICES ASSUME IInv, [Next]_vars PROVE IInv'
    OBVIOUS
  <1>1. CASE UNCHANGED vars
    BY <1>1 DEF vars, IInv, TypeOK, SealedInv, HolderInv, Conserved, OneInDoubt, Expected,
       Commits, ReportsAreDurable
  <1>2. CASE Next
    BY <1>2, OtherStep, HandleKeeps, CommitLandsStep, CommitReturnsStep, CommitFailsStep
       DEF Next, CommitStep
  <1> QED
    BY <1>1, <1>2

-----------------------------------------------------------------------------
(* Theorems                                                                  *)

\* The inductive invariant holds in every reachable state: the pending deltas are
\* a chain from the committed total to what was sealed.
THEOREM Invariant == Spec => []IInv
  BY InitInv, StepInv, PTL DEF Spec

\* The Runtime writer is type correct: no counter becomes negative and no delta of
\* zero, which the Store refuses for ever, is ever queued.
THEOREM TypeCorrect == Spec => []TypeOK
  <1>1. IInv => TypeOK
    BY DEF IInv
  <1> QED
    BY <1>1, Invariant, PTL

\* No interleaving of handlers, failed commits and restarts loses measured time or
\* counts it twice.
THEOREM ConservedHolds == Spec => []Conserved
  <1>1. IInv => Conserved
    BY DEF IInv
  <1> QED
    BY <1>1, Invariant, PTL

\* The canonical total is never further from the writer's than the one delta an
\* ambiguous save left in doubt, so no compare-and-set meets an unexpected total.
THEOREM OneInDoubtHolds == Spec => []OneInDoubt
  <1>1. IInv => OneInDoubt
    BY DEF IInv
  <1> QED
    BY <1>1, Invariant, PTL

\* Neither a strict operation nor the manager reports durable while measured time
\* is not.
THEOREM ReportsAreDurableHolds == Spec => []ReportsAreDurable
  <1>1. IInv => ReportsAreDurable
    BY DEF IInv
  <1> QED
    BY <1>1, Invariant, PTL

\* What a step may not do to a quiesced writer.
StaysQuiet ==
    removing /\ ~observing /\ removing' =>
       ~observing' /\ span' = span /\ Len(pending') <= Len(pending)

LEMMA StepQuiet == IInv /\ [Next]_vars => StaysQuiet
  <1> SUFFICES ASSUME IInv, [Next]_vars, removing, ~observing, removing'
               PROVE  ~observing' /\ span' = span /\ Len(pending') <= Len(pending)
    BY DEF StaysQuiet
  <1> USE DEF storeVars, sourceVars, accountVars, lockVars, historyVars
  <1>1. Len(pending) \in Nat
    BY LenProperties DEF IInv, TypeOK
  <1>2. ASSUME pending' = pending, observing' = observing \/ ~observing', span' = span
        PROVE  ~observing' /\ span' = span /\ Len(pending') <= Len(pending)
    BY <1>1, <1>2
  <1>3. ASSUME NEW c \in BOOLEAN, Seal(c)
        PROVE  pending' = pending /\ ~observing'
    BY <1>3 DEF Seal
  <1>4. CASE UNCHANGED vars
    BY <1>2, <1>4 DEF vars
  <1>5. CASE \/ AddWriter \/ Tick \/ RequestRemoval \/ CheckpointWithoutWriter
             \/ ProcessStops \/ CommitLands
             \/ \E s \in States : SourceChanges(s)
             \/ \E op \in Operations \ {"source", "remove"} : Request(op)
    BY <1>2, <1>5 DEF AddWriter, Tick, RequestRemoval, CheckpointWithoutWriter,
       ProcessStops, CommitLands, SourceChanges, Request
  <1>6. CASE HandleSource
    BY <1>2, <1>6 DEF HandleSource, Ignored
  <1>7. CASE HandlePeriodic \/ HandleCheckpoint \/ HandleFinalize \/ HandleRetire
    BY <1>2, <1>7 DEF HandlePeriodic, HandleCheckpoint, HandleFinalize, HandleRetire
  <1>8. CASE HandleShutdown \/ HandleRemove
    BY <1>2, <1>3, <1>8 DEF HandleShutdown, HandleRemove
  <1>9. CASE HandlePrepare
    BY <1>2, <1>9 DEF HandlePrepare
  <1>10. CASE CommitFails
    BY <1>2, <1>10 DEF CommitFails
  <1>11. CASE CommitReturns
    <2>1. pending # <<>> /\ pending \in Seq(Deltas)
      BY <1>11, HeadDelta DEF CommitReturns
    <2>2. Len(pending') <= Len(pending)
      BY <1>1, <1>11, <2>1, HeadTailProperties DEF CommitReturns
    <2> QED
      BY <1>11, <2>2 DEF CommitReturns
  <1> QED
    BY <1>4, <1>5, <1>6, <1>7, <1>8, <1>9, <1>10, <1>11 DEF Next, Handle, CommitStep

\* A retired or prepared writer measures nothing and creates no new delta, whatever
\* handlers were queued behind it.
THEOREM QuiescedStaysQuietHolds == Spec => QuiescedStaysQuiet
  <1>1. IInv /\ [Next]_vars => [StaysQuiet]_vars
    BY StepQuiet
  <1>2. Spec => [][StaysQuiet]_vars
    BY <1>1, Invariant, PTL DEF Spec
  <1> QED
    BY <1>2 DEF QuiescedStaysQuiet, StaysQuiet
=============================================================================
