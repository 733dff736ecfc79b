SPECIFICATION Spec
CONSTANTS
    Transfers = {"one", "two", "three"}
    Session <- Sessions
    Size <- Lengths
    K = 2
    Names = {"report", "photo"}
    Files <- Containers
    Password <- Passwords
    Key = "teamsecret"
    Extra = 2
    None = None
    Missing = Missing
    Torn = Torn
    MaxFault = 2
INVARIANTS IInv NeverMixed LandsOnce AloneLands
CHECK_DEADLOCK FALSE
