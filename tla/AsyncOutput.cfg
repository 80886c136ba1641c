SPECIFICATION FairSpec
CONSTANTS
    Req = {r1, r2}
    MaxBatch = 4
    Depth = 2
INVARIANTS
    TypeOK
    NeverFails
    PendingKept
    CurrentEpochOnly
    TrackerExclusive
PROPERTIES
    EveryBatchAnswered
    ImplementsSettlement
\* The engine may stop sending batches, and sends MaxBatch of them at most.
CHECK_DEADLOCK FALSE
