SPECIFICATION FairSpec
CONSTANTS
    MaxSequence = 3
    NoWork = NoWork
INVARIANTS
    QueuesUnused
    TalkEnds
PROPERTIES
    IsFifo
    FramesLeave
CHECK_DEADLOCK FALSE
