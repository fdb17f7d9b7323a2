CONSTANTS
    Tabs = {t1}
    SharedDevice = FALSE
    PatientUser = TRUE
    MaxEdits = 2
    MaxOrphans = 0
SPECIFICATION FairSpec
INVARIANTS
    LatestIsQueued
    CleanMeansSaved
    Backed
PROPERTIES
    QueueDrains
CHECK_DEADLOCK FALSE
