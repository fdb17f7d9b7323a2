CONSTANTS
    Sims = {"nominal", "corner", "montecarlo", "temperature", "supply"}
    Asked <- MCAsked
    Whole = 10
    RobustMin = 6
    MarginalMin = 5
    MinRuns = 3
    Headroom = 2
    Sizes = {2, 6, 8}
SPECIFICATION VerifySpec
INVARIANTS
    FailIsEarned
    PassIsEarned
    SamplerAndGraderAgree
CHECK_DEADLOCK FALSE
