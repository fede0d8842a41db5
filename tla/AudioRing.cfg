SPECIFICATION RingSpec
CONSTANTS
    BufferSize = 3
    MaxSamples = 9
INVARIANTS
    ReadsNext
    RingWhole
CHECK_DEADLOCK FALSE
