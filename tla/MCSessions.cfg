\* Two tabs, one with two requests under way at once.
SPECIFICATION Spec
CONSTANTS
    Tabs = {t1, t2}
    Slots = {s1, s2}
    MaxTokens = 3
    MaxCalls = 2
INVARIANTS
    OneLiveToken
    ReuseHasCause
PROPERTIES
    SignOutIsFinal
SYMMETRY Symmetry
CHECK_DEADLOCK FALSE
