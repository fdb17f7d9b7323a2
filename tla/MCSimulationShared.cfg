CONSTANTS
    Sims = {s1}
    Workers = {w1, w2}
    NoWorker = NoWorker
    NoSim = NoSim
    MaxAttempts = 2
    MaxStalled = 1
    MaxRetries = 0
    HostKills = FALSE
SPECIFICATION Spec
INVARIANT
    OutageIsNotBlamed
CHECK_DEADLOCK FALSE
SYMMETRY Symmetry
