\* One key, two commits of it, a limit that one of them reaches.
SPECIFICATION Spec
CONSTANTS
    Keys = {k1}
    Assets = {a1, a2}
    Nobody = Nobody
    Limits = {0, 1}
    MaxSpill = 1
INVARIANTS
    DanglingOnlyInWindow
    NothingLeaks
PROPERTIES
    CommitsFit
SYMMETRY Symmetry
