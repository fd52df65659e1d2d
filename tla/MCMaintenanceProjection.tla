----------------------- MODULE MCMaintenanceProjection -----------------------
(* MaintenanceProjection for the checker: month ends, a leap day, the last year. *)
EXTENDS MaintenanceProjection

\* Some days around the end of January and of February of a leap year, and the end of the calendar.
MCDays == {20240131, 20240228, 20240229, 20240301, 99991231}

MCIntervals == {[value |-> 1, unit |-> "months"], [value |-> 1, unit |-> "years"],
                [value |-> 1, unit |-> "days"]}
=============================================================================
