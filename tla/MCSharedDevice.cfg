CONSTANTS
    Tabs = {t1, t2}
    SharedDevice = TRUE
    PatientUser = TRUE
    MaxEdits = 2
    MaxOrphans = 0
SPECIFICATION Spec
PROPERTIES
    ClearedWhenSafe
CHECK_DEADLOCK FALSE
