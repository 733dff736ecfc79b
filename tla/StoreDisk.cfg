SPECIFICATION Spec
CONSTANTS
    Keys = {k1, k2}
    Values = {"list", "tuple", "object"}
    Absent = Absent
    NoJson = NoJson
    Json <- JsonForms
    Missing = Missing
    Torn = Torn
    NotRunning = NotRunning
    MaxCrash = 2
    MaxRot = 1
    MaxIOError = 1
INVARIANTS SavedIsDurable BackupUsed IInv
PROPERTIES CrashAtomic
