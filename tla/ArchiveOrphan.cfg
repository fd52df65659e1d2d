\* A subentry removed while the entry is being set up.
CONSTANTS
    MaxAssets = 2
    MaxSubentries = 1
    Devices = {d1}
    Flows = {f1}
    MaxCalls = 2
SYMMETRY Symmetry
SPECIFICATION Spec
INVARIANTS OrphansStop
