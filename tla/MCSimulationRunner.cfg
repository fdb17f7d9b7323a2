SPECIFICATION RunnerSpec
CONSTANTS
    Runs = {r1, r2}
    Kinds = {"sim", "batch"}
    Ladder = 2
    Target = 2
    AttemptCap = 3
    MinRuns = 2
    MaxCrashes = 1
INVARIANT InfraToldApart
INVARIANT OwnData
SYMMETRY Symmetry
