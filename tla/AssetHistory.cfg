\* Three Assets, one of them from a Quick Create draft, and five records in all,
\* with which a history ends.
CONSTANTS
    Manual = {m1, m2}
    Drafts = {d1}
    Statuses = {"unknown", "active", "retired"}
    Places <- MCPlaces
    MaxClock = 2
    MaxRecords = 5
SYMMETRY Symmetry
SPECIFICATION Spec
INVARIANTS LineagesAreSound NothingTwice RefusalsAreJustified
PROPERTIES HistoryIsPermanent ArchivedIsFrozen ReplayIsExact
CHECK_DEADLOCK FALSE
