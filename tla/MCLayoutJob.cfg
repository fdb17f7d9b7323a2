CONSTANTS
    Jobs = {j1}
    Workers = {w1, w2}
    Reapers = {r1}
    NoWorker = NoWorker
    NoJob = NoJob
    MaxStalled = 1
    MaxAttempts = 1
SPECIFICATION FairSpec
INVARIANTS
    SingleRunner
    BundleBacked
    AbortIsNotFailure
PROPERTIES
    KeepsLifecycle
    Settles
CHECK_DEADLOCK FALSE
