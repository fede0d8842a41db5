SPECIFICATION LoopSpec
CONSTANTS
    MaxConnects = 1
    p1 = p1
    Pipes = {p1}
    None = None
    k1 = k1
    k2 = k2
    Keys = {k1, k2}
    CallGives = FALSE
    MaxDepth = 2
    Mixes = {{"pipes"}, {"functions"}}
INVARIANTS
    HooksInOrder
    WholeWhileWorking
    EndIsComplete
    PipeOpenOrGone
PROPERTIES
    HookDispatch
CHECK_DEADLOCK FALSE
