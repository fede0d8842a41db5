SPECIFICATION Spec
CONSTANTS
    s1 = s1
    s2 = s2
    Streams = {s1, s2}
    NumRefs = 2
    None = None
    Dangling = Dangling
    Replays = TRUE
    MaxReclaim = 1
    HookCalls = {"play", "pause"}
SYMMETRY Symmetry
INVARIANTS
    ListedIsPinnable
    NoLostReclaim
    PlayHonoured
    NoDanglingNext
CHECK_DEADLOCK FALSE
