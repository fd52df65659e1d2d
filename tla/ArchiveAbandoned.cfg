\* A dialog closed while its reservation waits for the lock.
CONSTANTS
    MaxAssets = 2
    MaxSubentries = 1
    Devices = {d1}
    Flows = {f1}
    MaxCalls = 2
SYMMETRY Symmetry
SPECIFICATION Spec
INVARIANTS NoAbandonedReservation
