SPECIFICATION BufferSpec
CONSTANTS
    Capacities = {1}
    Numbers = {3, 4, 127, 128, 16383, 16384, 2097151, 2097152, 268435455, 268435456}
    Strings = {0, 2}
    Sizes = {1, 4}
    Places = {2}
    MaxWrites = 2
    MaxMoves = 1
INVARIANTS
    HeadsInMemory
    ReadsBack
CHECK_DEADLOCK FALSE
