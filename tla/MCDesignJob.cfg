CONSTANTS
    Jobs = {j1}
    Workers = {w1, w2}
    Reapers = {r1}
    NoWorker = NoWorker
    NoJob = NoJob
    MaxStalled = 1
    MaxCalls = 2
SPECIFICATION FairSpec
INVARIANTS
    SingleRunner
PROPERTIES
    KeepsLifecycle
    Settles
CHECK_DEADLOCK FALSE
