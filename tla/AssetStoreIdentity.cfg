\* One caller, two UUIDs competing for two numbers, up to two faults.
CONSTANTS
    Uuids = {u1, u2}
    MaxNumber = 2
    Tasks = {t1}
    Managers = {m1, m2}
    EntryTask = EntryTask
    Nobody = Nobody
    NoRequest = NoRequest
    MaxFaults = 2
SYMMETRY Symmetry
SPECIFICATION Spec
PROPERTIES IdentityPermanent
