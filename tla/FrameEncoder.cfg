SPECIFICATION Spec
CONSTANTS
    Threads = {t1, t2}
    Settings <- EncoderSettings
    Requests = {1, 6, 9}
    Units = 3
    Draws = {0, 3}
    TriesPerBlock = 2
    TabSize = 2
    KMod = 4
    IndexMod = 8
    MaxCalls = 3
INVARIANTS IInv FramesRight DropletRight
PROPERTIES CallsReturn
CHECK_DEADLOCK FALSE
