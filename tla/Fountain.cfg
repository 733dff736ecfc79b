SPECIFICATION FairSpec
CONSTANTS
    N = 5
    MaxFrame = 9
    Repair <- RepairFiveShort
    EdgeIds = {1, 2, 3}
INVARIANTS PayloadExact OrderIndependent IInv
PROPERTIES Refinement IngestReturns
CHECK_DEADLOCK FALSE
