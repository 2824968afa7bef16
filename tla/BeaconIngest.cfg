SPECIFICATION FairReportsSpec
CONSTANTS
    b1 = b1
    b2 = b2
    p1 = p1
    p2 = p2
    ap1 = ap1
    ap2 = ap2
    NoOne = NoOne
    NoFetch = NoFetch
    Beacons = {b1}
    People = {p1}
    APs = {ap1, ap2}
    MinAPs = 2
    RadioMayFail = TRUE
    CallsMayFail = TRUE
    BufferWindow = 1
    EmitInterval = 2
    Hold = 3
    CacheTTL = 1
    Keys = {b1}
    Macs = {ap1}
    Keep = 2
    Every = 2
    TTL = 2
    None = None
INVARIANTS
    IdentityIsRecent
    NodesHold
PROPERTIES
    ExactStands
    HeardIsPositioned
