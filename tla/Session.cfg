SPECIFICATION SessionSpec
CONSTANTS
    Byte = 5
    UdpTcpFallback = 2
    MaxFlight = 2
    MaxSilent = 4
    NoLimit = NoLimit
    Limits = {32000, 160060, 160061}
    Bitrates = {8500, 128000}
    u1 = u1
    u2 = u2
    c0 = c0
    c1 = c1
    None = None
    Users = {u1, u2}
    Channels = {c0, c1}
    Self = u1
    Root = c0
    MaxCalls = 2
INVARIANTS
    UdpIsAnswered
    FitsTheLimit
    HeardInOrder
    RequestsMeant
PROPERTIES
    TunnelFollowsPath
CHECK_DEADLOCK FALSE
