---------------------------- MODULE MCMaintenance ----------------------------
(* Maintenance for the checker: one Asset per schedule, events interchangeable. *)
EXTENDS Maintenance, TLC

MCAssetOf == [s \in Schedules |-> CHOOSE a \in Assets : TRUE]

MCEntries == {[date |-> 1, meter |-> 1]}
MCBaselines == {[date |-> 2, meter |-> 1]}

\* All of that is plausible, or neither the day nor the Runtime has been reached.
MCContexts == {[today |-> 2, meter |-> 1], [today |-> 1, meter |-> 0]}

Symmetry == Permutations(Events)
=============================================================================
