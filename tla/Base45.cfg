SPECIFICATION CarrierSpec
CONSTANTS
    Byte = 4
    Radix = 3
    Foreign = Foreign
    Frames <- ShortFrames
    Texts <- ShortTexts
INVARIANTS CarrierIInv RoundTrip Canonical
CHECK_DEADLOCK FALSE
