SPECIFICATION FairSpec
CONSTANTS
    s1 = s1
    s2 = s2
    Streams = {s1}
    NumRefs = 2
    None = None
    Dangling = Dangling
    Replays = FALSE
    MaxReclaim = 1
    HookCalls = {"play", "pause"}
INVARIANT
    PinProtects
PROPERTY
    StoppedIsReleased
CHECK_DEADLOCK FALSE
