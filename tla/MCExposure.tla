----------------------------- MODULE MCExposure -----------------------------
(* Exposure for the checker: two Assets, the second one with a schedule. *)
EXTENDS Exposure

MCAssetOf == [s \in Schedules |-> 2]
=============================================================================
