CONSTANTS
    LowerOf <- MCLowerOf
    MaxDefaultProbes = 3
    Circuits <- MCCircuits
    Criteria <- MCCriteria
SPECIFICATION Spec
INVARIANTS
    BoundToNamedNet
    NamedNetIsAnswered
    LogicIsDriven
    NoSilentMerge
CHECK_DEADLOCK FALSE
