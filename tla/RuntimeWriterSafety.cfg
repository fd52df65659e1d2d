\* Every interleaving of the writer's operations, failures and restarts.
CONSTANTS
    MaxTime = 3
    MaxEvents = 1
SPECIFICATION Spec
INVARIANTS TypeOK Conserved OneInDoubt ReportsAreDurable
PROPERTIES QuiescedStaysQuiet
