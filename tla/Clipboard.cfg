SPECIFICATION FairSpec
CONSTANTS
    Nodes = {1, 2, 3}
    Starters = {1, 2, 3}
    Texts = {"a", "b"}
    NoText = NoText
    Skew <- OneAhead
    Copies <- WithPicture
    MaxCopy = 2
    MaxStamp = 2
    MaxBusy <- LastBusy
INVARIANTS IInv Followed NoEcho
PROPERTIES Settles
CHECK_DEADLOCK FALSE
