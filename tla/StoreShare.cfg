SPECIFICATION FairSpec
CONSTANTS
    Nodes = {1, 2}
    Keys = {"k1", "k2"}
    Values = {"list", "set"}
    Absent = Absent
    NoJson = NoJson
    Json <- JsonOf
    Owner <- Owners
    Nobody = Nobody
    MaxCall = 2
    MaxRestart = 1
    MaxFault = 1
INVARIANTS IInv LatestIsCurrent HookUpToDate
PROPERTIES Heals
CHECK_DEADLOCK FALSE
