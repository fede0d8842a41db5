SPECIFICATION IncomingSpec
CONSTANTS
    HeaderSize = 2
    Lengths = {0, 1, 3}
    MaxRecord = 6
    UnknownTypes = FALSE
    MaxPackets = 3
    c0 = c0
    c1 = c1
    c2 = c2
    None = None
    Channels = {c0, c1, c2}
    Root = c0
    Names = {"a", "b"}
    Reuse = FALSE
    MaxChanges = 3
    MaxBacklog = 3
INVARIANTS
    HandledInOrder
    TreeMirrors
    PathsWalk
CHECK_DEADLOCK FALSE
