CONSTANTS
    Sims = {s1}
    Workers = {w1, w2}
    NoWorker = NoWorker
    NoSim = NoSim
    MaxAttempts = 2
    MaxStalled = 1
    MaxRetries = 1
    HostKills = TRUE
SPECIFICATION Spec
INVARIANTS
    NoPrematureVerdict
    CompletedIsSettled
PROPERTY
    KeepsLifecycle
CHECK_DEADLOCK FALSE
SYMMETRY Symmetry
