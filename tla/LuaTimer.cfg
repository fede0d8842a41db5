SPECIFICATION FairSpec
CONSTANTS
    Timers = {t1, t2}
    Slots = {1, 2, 3, 4}
    None = None
    MaxStarts = 2
INVARIANTS
    RegistryExact
PROPERTIES
    CallsTheLatest
    StoppedIsReleased
CHECK_DEADLOCK FALSE
