SPECIFICATION Spec
CONSTANTS
    Nodes = {1, 2, 3}
    Starters = {1, 2, 3}
    Texts = {"a", "b"}
    NoText = NoText
    Skew <- NoSkew
    Copies <- TwoUsers
    MaxCopy = 2
    MaxStamp = 2
    MaxBusy <- NeverBusy
INVARIANTS Converges
CHECK_DEADLOCK FALSE
