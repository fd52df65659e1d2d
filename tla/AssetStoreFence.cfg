\* Two callers race over one Asset across reloads, failures and one fault.
CONSTANTS
    Uuids = {u1}
    MaxNumber = 1
    Tasks = {t1, t2}
    Managers = {m1, m2}
    EntryTask = EntryTask
    Nobody = Nobody
    NoRequest = NoRequest
    MaxFaults = 1
SYMMETRY Symmetry
SPECIFICATION Spec
INVARIANTS TypeOK Coherent
PROPERTIES PublishedIsDurable FencedWrites ImplementsDurableCalls
