SPECIFICATION CryptSpec
CONSTANTS
    Byte = 6
    Window = 2
    Starts = {9}
    MaxIV = 15
    MaxKeys = 2
    MaxResyncs = 1
INVARIANTS
    FreshAccepted
    LostBounded
PROPERTY NoReplay
CHECK_DEADLOCK FALSE
