SPECIFICATION Spec
CONSTANTS
    Pids = {1}
    Sizes = {"short", "long"}
    NBlocks <- OneOrThree
    Redundancy = 1
    SessionMod = 2
    Encrypted = FALSE
    Reorder = TRUE
    MaxPub = 3
    MaxRestarts = 2
INVARIANTS SourceIInv TornByReuse
