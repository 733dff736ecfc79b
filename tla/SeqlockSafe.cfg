SPECIFICATION FairSpec
CONSTANTS
    Parts = {1, 2}
    Retries = 2
    SeqLimit = 6
    MaxPub = 4
    MaxCrash = 1
    MaxFlip = 1
INVARIANTS NeverCorrupt IInv
PROPERTIES Linearizable ReadReturns
CHECK_DEADLOCK FALSE
