\* Pending time under the fairness of the interval timer, the lock and the disk; the source
\* changes only while nothing listens (RuntimeWriterSafety has its events).
CONSTANTS
    MaxTime = 2
    MaxEvents = 0
SPECIFICATION FairSpec
PROPERTIES SealedIsCommitted
