\* Forms, dialogs and reloads over a configuration that belongs to the Store.
CONSTANTS
    MaxAssets = 2
    MaxSubentries = 1
    Devices = {d1, d2}
    Flows = {f1}
    MaxCalls = 2
SYMMETRY Symmetry
SPECIFICATION Spec
INVARIANTS TypeOK SetupIsPossible
PROPERTIES NoArchivedBinding ArchivedKeepsReferences
