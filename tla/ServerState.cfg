SPECIFICATION Spec
CONSTANTS
    Users = {me, u2}
    Me = me
    Channels = {root, c1}
    Root = root
    None = None
    MaxEvents = 3
    MaxAudio = 2
INVARIANTS
    ListsMatch
    Mirror
    HooksAreTrue
CHECK_DEADLOCK FALSE
