SPECIFICATION Spec
CONSTANTS
    Pids = {1}
    Sizes = {"short", "long"}
    NBlocks <- OneOrTwo
    Redundancy = 1
    SessionMod = 4
    Encrypted = FALSE
    Reorder = FALSE
    MaxPub = 3
    MaxRestarts = 1
INVARIANTS NeverTorn
