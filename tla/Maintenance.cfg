\* One schedule and three events with corrections.
CONSTANTS
    Assets = {a1}
    Schedules = {s1}
    Events = {e1, e2, e3}
    AssetOf <- MCAssetOf
    Reasons = {"none", "mistake"}
    Values = {1}
    Entries <- MCEntries
    Baselines <- MCBaselines
    Contexts <- MCContexts
SYMMETRY Symmetry
SPECIFICATION Spec
INVARIANTS StoreIsValid LocksAreConfirmed RetryIsRecognised
PROPERTIES HistoryIsPermanent LockedBaselineIsFinal ArchivedIsFrozen
