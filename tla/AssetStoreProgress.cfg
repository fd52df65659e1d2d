\* One caller contends with the entry for the fence; every step may fail.
CONSTANTS
    Uuids = {u1}
    MaxNumber = 1
    Tasks = {t1}
    Managers = {m1, m2}
    EntryTask = EntryTask
    Nobody = Nobody
    NoRequest = NoRequest
    MaxFaults = 1
SPECIFICATION FairSpec
PROPERTIES EveryCallReturns EntryNeverHangs
