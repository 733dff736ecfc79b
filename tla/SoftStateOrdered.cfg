SPECIFICATION PresenceSpec
CONSTANTS
    Pids = {1, 2}
    Sizes = {"short", "long"}
    NBlocks <- OneOrTwo
    Redundancy = 1
    SessionMod = 4
    Encrypted = FALSE
    Reorder = FALSE
    MaxPub = 2
    MaxRestarts = 0
    Ttl = 0
    MaxClock = 1
INVARIANTS DeliveredIsShown PresenceIInv SnapshotCurrent
PROPERTIES ForwardOnly
