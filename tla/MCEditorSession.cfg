\* Three wired parts of three places, one of them added or copied again, and a part somebody else drew.
SPECIFICATION EditorSpec
CONSTANTS
    PinNames = {1, 2}
    MaxParts = 3
    MaxPlaces = 3
    HistoryLimit = 1
    Opened <- MCOpened
    MaxRevisions = 2
    MaxWires = 3
    MaxGroup = 2
INVARIANTS
    WiresAgree
PROPERTIES
    KeepsTimeline
    EditsMoveNothing
    DeletionParts
