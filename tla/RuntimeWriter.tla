---------------------------- MODULE RuntimeWriter ----------------------------
(***************************************************************************)
(* The Runtime writer of one Asset (DeviceRuntimeHoursSensor in sensor.py) *)
(* against the canonical total in the Asset Store.  The writer measures    *)
(* while its source is active, seals measured time into pending deltas and *)
(* commits them in order by compare-and-set.  Every operation runs under   *)
(* the writer's own FIFO lock and gives it up only after its last commit,  *)
(* so a step is the code between two awaits.  The Store is what            *)
(* DurableCalls promises: a commit lands at most once and an error says    *)
(* nothing about whether it did.                                           *)
(***************************************************************************)
EXTENDS Naturals, Sequences

CONSTANTS
    MaxTime,    \* bound on the canonical total plus everything measured
    MaxEvents   \* bound on source events waiting for the lock

ASSUME BoundsAssumption == MaxTime \in Nat /\ MaxEvents \in Nat

VARIABLES
    total,       \* the Asset's canonical runtime.total_seconds on disk
    source,      \* the source entity, a member of States
    events,      \* source events whose handlers wait for the lock
    writer,      \* live (registered), removed (unregistered), absent (no object)
    committed,   \* _committed_seconds
    pending,     \* _pending, a sequence of deltas with their expected totals
    sealed,      \* the sum of the pending deltas, which the code recomputes
    observing,   \* _active_since is set
    elapsed,     \* time since _active_since
    removing,    \* _removing
    listening,   \* the source listener is subscribed
    queued,      \* operations waiting for the lock
    holder,      \* the operation committing under the lock, or "none"
    landed,      \* the head delta's write has reached the disk
    unresolved,  \* the Asset is in the manager's _runtime_unresolved
    answer,      \* what a strict operation that just ended reports
    start, span, \* history: the total at creation, the time measured since
    dropped      \* history: measured time that a preparation discarded

storeVars == <<total, landed>>
sourceVars == <<source, events, listening>>
accountVars == <<committed, pending, sealed, observing, elapsed>>
lockVars == <<queued, holder>>
historyVars == <<start, span, dropped>>
vars == <<total, landed, source, events, listening, committed, pending, sealed,
          observing, elapsed, queued, holder, start, span, dropped,
          writer, removing, unresolved, answer>>

Strict == {"checkpoint", "prepare", "finalize", "retire"}
Operations == Strict \union {"source", "periodic", "shutdown", "remove"}

\* What a source state means to _is_active: above the threshold, below the stop
\* threshold, between the two (active if it was), or not usable.
States == {"on", "off", "between", "gone"}
IsActive(s, currently) == s = "on" \/ (s = "between" /\ currently)


\* A delta of zero is one that async_commit_runtime_delta refuses for ever.
Deltas == [expected: Nat, delta: Nat \ {0}]

TypeOK ==
    /\ total \in Nat /\ committed \in Nat /\ sealed \in Nat /\ elapsed \in Nat
    /\ source \in States /\ events \in Seq([old: States, new: States])
    /\ writer \in {"live", "removed", "absent"}
    /\ pending \in Seq(Deltas)
    /\ observing \in BOOLEAN /\ removing \in BOOLEAN /\ listening \in BOOLEAN
    /\ queued \subseteq Operations /\ holder \in Operations \union {"none"}
    /\ landed \in BOOLEAN /\ unresolved \in BOOLEAN
    /\ answer \in {"none", "durable", "failed"}
    /\ start \in Nat /\ span \in Nat /\ dropped \in Nat

Init ==
    /\ total = 0 /\ landed = FALSE
    /\ source \in States /\ events = <<>> /\ listening = FALSE
    /\ writer = "absent"
    /\ committed = 0 /\ pending = <<>> /\ sealed = 0
    /\ observing = FALSE /\ elapsed = 0 /\ removing = FALSE
    /\ queued = {} /\ holder = "none"
    /\ unresolved = FALSE /\ answer = "none"
    /\ start = 0 /\ span = 0 /\ dropped = 0

-----------------------------------------------------------------------------
(* The source and time                                                       *)

\* async_added_to_hass, in a freshly loaded entry: the committed total is the
\* canonical one and no earlier writer of the Asset can still commit.
AddWriter ==
    /\ writer # "live"
    /\ writer' = "live"
    /\ committed' = total /\ pending' = <<>> /\ sealed' = 0
    /\ observing' = IsActive(source, FALSE) /\ elapsed' = 0
    /\ removing' = FALSE /\ unresolved' = FALSE
    /\ listening' = TRUE /\ events' = <<>>
    /\ queued' = {} /\ holder' = "none" /\ landed' = FALSE
    /\ answer' = "none"
    /\ start' = total /\ span' = 0 /\ dropped' = 0
    /\ UNCHANGED <<total, source>>

\* The clock advances while the writer measures.
Tick ==
    /\ observing /\ start + span < MaxTime
    /\ elapsed' = elapsed + 1 /\ span' = span + 1
    /\ answer' = "none"
    /\ UNCHANGED <<storeVars, sourceVars, committed, pending, sealed, observing,
                   lockVars, start, dropped, writer, removing, unresolved>>

\* The source changes; the handler of a subscribed writer waits for the lock,
\* unless the writer is quiesced.
SourceChanges(s) ==
    /\ s # source /\ source' = s
    /\ IF listening /\ ~removing
       THEN /\ Len(events) < MaxEvents
            /\ events' = Append(events, [old |-> source, new |-> s])
       ELSE UNCHANGED events
    /\ answer' = "none"
    /\ UNCHANGED <<storeVars, listening, accountVars, lockVars, historyVars, writer,
                   removing, unresolved>>

\* Mutant: the interval of a quiesced writer does nothing.
DueUnlessQuiesced(op) == op = "periodic" => ~removing

\* The interval has something to do: seal, or retry what is pending.
Due(op) == op = "periodic" => ~removing \/ pending # <<>>

\* A timer, the manager or Home Assistant calls an operation of the writer.
Request(op) ==
    /\ writer = "live" /\ op \notin queued \union {holder}
    /\ Due(op)
    /\ queued' = queued \union {op}
    /\ answer' = "none"
    /\ UNCHANGED <<storeVars, sourceVars, accountVars, holder, historyVars, writer,
                   removing, unresolved>>

\* async_will_remove_from_hass behind another operation: the writer is marked
\* before it waits for the lock.
RequestRemoval ==
    /\ writer = "live" /\ "remove" \notin queued \union {holder}
    /\ holder # "none" \/ queued # {} \/ events # <<>>
    /\ queued' = queued \union {"remove"}
    /\ removing' = TRUE
    /\ answer' = "none"
    /\ UNCHANGED <<storeVars, sourceVars, accountVars, holder, historyVars, writer, unresolved>>

-----------------------------------------------------------------------------
(* Operations under the lock                                                 *)

\* Mutant: an interval that measured nothing is sealed too.
SealEmptyIntervals(continue) ==
    /\ IF observing /\ elapsed >= 0
       THEN /\ pending' = Append(pending, [expected |-> committed + sealed,
                                           delta    |-> elapsed])
            /\ sealed' = sealed + elapsed
       ELSE UNCHANGED <<pending, sealed>>
    /\ elapsed' = 0
    /\ observing' = (observing /\ continue)
    /\ UNCHANGED committed

\* Mutant: the expected total leaves out the deltas already pending.
SealFromCommitted(continue) ==
    /\ IF observing /\ elapsed > 0
       THEN /\ pending' = Append(pending, [expected |-> committed,
                                           delta    |-> elapsed])
            /\ sealed' = sealed + elapsed
       ELSE UNCHANGED <<pending, sealed>>
    /\ elapsed' = 0
    /\ observing' = (observing /\ continue)
    /\ UNCHANGED committed

\* Mutant: a continued interval is not restarted from now.
SealKeepsBaseline(continue) ==
    /\ IF observing /\ elapsed > 0
       THEN /\ pending' = Append(pending, [expected |-> committed + sealed,
                                           delta    |-> elapsed])
            /\ sealed' = sealed + elapsed
       ELSE UNCHANGED <<pending, sealed>>
    /\ elapsed' = IF continue THEN elapsed ELSE 0
    /\ observing' = (observing /\ continue)
    /\ UNCHANGED committed

\* _seal_active: what has been measured becomes the last pending delta; the
\* baseline moves to now, or measuring stops.
Seal(continue) ==
    /\ IF observing /\ elapsed > 0
       THEN /\ pending' = Append(pending, [expected |-> committed + sealed,
                                           delta    |-> elapsed])
            /\ sealed' = sealed + elapsed
       ELSE UNCHANGED <<pending, sealed>>
    /\ elapsed' = 0
    /\ observing' = (observing /\ continue)
    /\ UNCHANGED committed

\* Mutant: a strict operation logs the failure of its flush and returns.
FinishLenient(op, ok) ==
    /\ holder' = "none"
    /\ answer' = IF op \in Strict THEN "durable" ELSE "none"

\* The operation releases the lock; `ok` says whether it committed everything.
Finish(op, ok) ==
    /\ holder' = "none"
    /\ answer' = IF op \in Strict THEN (IF ok THEN "durable" ELSE "failed") ELSE "none"

\* The operation has sealed what it seals: commit, or end if nothing is pending.
Flush(op) ==
    IF pending' = <<>>
    THEN Finish(op, TRUE)
    ELSE holder' = op /\ answer' = "none"

\* Mutant: the writer is not looked at again under the lock.
IgnoredUnchecked(e) ==
    IsActive(e.new, observing) = observing /\ (e.old = "gone") = (e.new = "gone")

\* The event is for a writer quiesced meanwhile, or nothing changed.
Ignored(e) ==
    \/ removing
    \/ IsActive(e.new, observing) = observing /\ (e.old = "gone") = (e.new = "gone")

\* _handle_source_change: a stop seals, a start begins an interval, and every
\* change is an occasion to retry.
HandleSource ==
    LET e == Head(events)
        active == IsActive(e.new, observing)
    IN
    /\ writer = "live" /\ events # <<>> /\ holder = "none"
    /\ events' = Tail(events)
    /\ IF Ignored(e)
       THEN /\ answer' = "none"
            /\ UNCHANGED <<accountVars, holder>>
       ELSE /\ IF observing /\ ~active
               THEN Seal(FALSE)
               ELSE /\ observing' = active
                    /\ elapsed' = IF observing THEN elapsed ELSE 0
                    /\ UNCHANGED <<committed, pending, sealed>>
            /\ Flush("source")
    /\ UNCHANGED <<storeVars, source, listening, queued, historyVars, writer, removing, unresolved>>

\* _handle_periodic_checkpoint: a quiesced writer only retries.
HandlePeriodic ==
    /\ "periodic" \in queued /\ holder = "none"
    /\ queued' = queued \ {"periodic"}
    /\ IF removing THEN UNCHANGED accountVars ELSE Seal(TRUE)
    /\ Flush("periodic")
    /\ UNCHANGED <<storeVars, sourceVars, historyVars, writer, removing, unresolved>>

\* async_checkpoint_runtime: strict, refuses on a quiesced writer.
HandleCheckpoint ==
    /\ "checkpoint" \in queued /\ holder = "none"
    /\ queued' = queued \ {"checkpoint"}
    /\ IF removing
       THEN /\ UNCHANGED accountVars
            /\ Finish("checkpoint", FALSE)
       ELSE Seal(TRUE) /\ Flush("checkpoint")
    /\ UNCHANGED <<storeVars, sourceVars, historyVars, writer, removing, unresolved>>

\* async_finalize_runtime: strict, seals nothing.
HandleFinalize ==
    /\ "finalize" \in queued /\ holder = "none"
    /\ queued' = queued \ {"finalize"}
    /\ UNCHANGED accountVars
    /\ Flush("finalize")
    /\ UNCHANGED <<storeVars, sourceVars, historyVars, writer, removing, unresolved>>

\* async_retire_runtime: quiesced before its commits, whatever they do.
HandleRetire ==
    /\ "retire" \in queued /\ holder = "none"
    /\ queued' = queued \ {"retire"}
    /\ removing' = TRUE
    /\ IF removing
       THEN UNCHANGED <<accountVars, listening>>
       ELSE Seal(FALSE) /\ listening' = FALSE
    /\ Flush("retire")
    /\ UNCHANGED <<storeVars, source, events, historyVars, writer, unresolved>>

\* _handle_shutdown: a last checkpoint that does not quiesce.
HandleShutdown ==
    /\ "shutdown" \in queued /\ holder = "none"
    /\ queued' = queued \ {"shutdown"}
    /\ Seal(FALSE)
    /\ Flush("shutdown")
    /\ UNCHANGED <<storeVars, sourceVars, historyVars, writer, removing, unresolved>>

\* async_prepare_runtime_unload: strict; the writer goes on measuring and is
\* quiesced when its commits are over, at once if there is none.  On a quiesced writer it only commits, like finalize.
HandlePrepare ==
    /\ "prepare" \in queued /\ holder = "none"
    /\ queued' = queued \ {"prepare"}
    /\ IF removing
       THEN /\ UNCHANGED <<accountVars, removing>>
            /\ Flush("finalize")
       ELSE /\ Seal((observing /\ elapsed > 0) \/ pending # <<>>)
            /\ Flush("prepare")
            /\ removing' = (holder' = "none")
    /\ UNCHANGED <<storeVars, sourceVars, historyVars, writer, unresolved>>

\* The end of async_will_remove_from_hass: the writer is unregistered, and the
\* manager told if something it measured was not persisted.
Unregister ==
    /\ writer' = "removed"
    /\ unresolved' = (unresolved \/ pending' # <<>>)
    /\ listening' = FALSE /\ events' = <<>>
    /\ UNCHANGED source

HandleRemove ==
    /\ holder = "none"
    /\ \/ "remove" \in queued
       \/ writer = "live" /\ queued = {} /\ events = <<>>
    /\ queued' = queued \ {"remove"}
    /\ removing' = TRUE
    /\ Seal(FALSE)
    /\ Flush("remove")
    /\ IF holder' = "none" THEN Unregister ELSE UNCHANGED <<sourceVars, writer, unresolved>>
    /\ UNCHANGED <<storeVars, historyVars>>

-----------------------------------------------------------------------------
(* Commits                                                                   *)

Expected == Head(pending).expected
Commits == Head(pending).expected + Head(pending).delta

\* async_commit_runtime_delta finds the expected total and its save lands.
CommitLands ==
    /\ holder # "none" /\ ~landed
    /\ total = Expected
    /\ total' = Commits /\ landed' = TRUE
    /\ answer' = "none"
    /\ UNCHANGED <<sourceVars, accountVars, lockVars, historyVars, writer, removing,
                   unresolved>>

\* It returns, after its own save or because an earlier save of the same delta
\* had landed; the flush goes on to the next delta or the operation ends.
CommitReturns ==
    /\ holder # "none" /\ total = Commits
    /\ committed' = Commits
    /\ pending' = Tail(pending) /\ sealed' = sealed - Head(pending).delta
    /\ landed' = FALSE
    /\ IF pending' = <<>> THEN Finish(holder, TRUE) ELSE answer' = "none" /\ UNCHANGED holder
    /\ IF pending' = <<>> /\ holder = "prepare"
       THEN /\ removing' = TRUE /\ observing' = FALSE
            /\ elapsed' = 0 /\ dropped' = dropped + elapsed
       ELSE UNCHANGED <<removing, observing, elapsed, dropped>>
    /\ IF pending' = <<>> /\ holder = "remove"
       THEN Unregister
       ELSE UNCHANGED <<sourceVars, writer, unresolved>>
    /\ UNCHANGED <<total, queued, start, span>>

\* It raises: refused, not persisted, ambiguous or another total was found.
\* All pending deltas are kept and the operation ends.
CommitFails ==
    /\ holder # "none"
    /\ landed' = FALSE
    /\ Finish(holder, FALSE)
    /\ IF holder = "remove"
       THEN UNCHANGED pending /\ Unregister
       ELSE UNCHANGED <<pending, sourceVars, writer, unresolved>>
    /\ UNCHANGED <<total, committed, sealed, observing, elapsed, queued, historyVars,
                   removing>>

\* async_checkpoint_runtime of the manager when the Asset has no writer.
CheckpointWithoutWriter ==
    /\ writer = "removed"
    /\ answer' = IF unresolved THEN "failed" ELSE "durable"
    /\ UNCHANGED <<storeVars, sourceVars, accountVars, lockVars, historyVars, writer,
                   removing, unresolved>>

\* The process ends: nothing but the canonical total is left.
ProcessStops ==
    /\ writer # "absent"
    /\ writer' = "absent"
    /\ committed' = 0 /\ pending' = <<>> /\ sealed' = 0
    /\ observing' = FALSE /\ elapsed' = 0 /\ removing' = FALSE
    /\ listening' = FALSE /\ events' = <<>>
    /\ queued' = {} /\ holder' = "none" /\ landed' = FALSE
    /\ unresolved' = FALSE /\ answer' = "none"
    /\ start' = 0 /\ span' = 0 /\ dropped' = 0
    /\ UNCHANGED <<total, source>>

-----------------------------------------------------------------------------
Handle ==
    \/ HandleSource \/ HandlePeriodic \/ HandleCheckpoint \/ HandleFinalize
    \/ HandleRetire \/ HandleShutdown \/ HandlePrepare \/ HandleRemove

CommitStep == CommitLands \/ CommitReturns \/ CommitFails

Next ==
    \/ AddWriter
    \/ Tick
    \/ \E s \in States : SourceChanges(s)
    \/ \E op \in Operations \ {"source", "remove"} : Request(op)
    \/ RequestRemoval
    \/ Handle
    \/ CommitStep
    \/ CheckpointWithoutWriter
    \/ ProcessStops

Spec == Init /\ [][Next]_vars

\* The interval timer keeps firing, the lock is first in, first out, the
\* executor settles each save, and saves that are tried again and again succeed.
FairSpec ==
    /\ Spec
    /\ WF_vars(Request("periodic")) /\ SF_vars(HandlePeriodic)
    /\ WF_vars(CommitStep) /\ SF_vars(CommitLands) /\ SF_vars(CommitReturns)

-----------------------------------------------------------------------------
(* Properties                                                                *)

\* No measured time is lost or counted twice by any interleaving of the
\* operations: committed, pending and running time are what was measured, but
\* for the interval a successful preparation discards.
Conserved ==
    writer # "absent" =>
        /\ committed + sealed + elapsed + dropped = start + span
        /\ ~observing => elapsed = 0

\* The canonical total is what the writer believes or one delta ahead of it, the
\* head delta that a failed or ambiguous save left in doubt; and the head is always
\* the continuation of the committed total.  So no compare-and-set ever meets an
\* unexpected total, which would block the queue for good, whatever was retried.
OneInDoubt ==
    writer # "absent" =>
        IF pending = <<>>
        THEN total = committed
        ELSE Expected = committed /\ total \in {committed, Commits}

\* "durable" is never reported while measured time is not durable: neither by a
\* strict operation nor, after the writer is gone, by the manager.
ReportsAreDurable ==
    answer = "durable" =>
        /\ pending = <<>> /\ total = committed
        /\ total + dropped + elapsed = start + span

\* A writer that was retired or prepared for unload measures nothing more and
\* creates no new delta, whatever handlers were queued behind it.
QuiescedStaysQuiet ==
    [][removing /\ ~observing /\ removing' =>
          ~observing' /\ span' = span /\ Len(pending') <= Len(pending)]_vars

\* Every second that a live writer has sealed becomes durable, whatever fails on
\* the way and also after a failed retirement, whose configuration is gone.
SealedIsCommitted ==
    \A t \in 1..MaxTime :
        (writer = "live" /\ committed + sealed >= t) ~> (committed >= t \/ writer # "live")
=============================================================================
