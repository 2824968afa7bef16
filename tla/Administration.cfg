SPECIFICATION AdminSpec
CONSTANTS
    APs = {a}
    Scales = {x1, x2}
    Spots = {p1, p2}
    Layouts = {z1, z2}
    Threads = {t1, t2}
    CoordTTL = 1
    BufferWindow = 1
    CallsMayFail = TRUE
    NoScale = NoScale
    Unplaced = Unplaced
    Removed = Removed
    NoContext = NoContext
    NoReading = NoReading
    Idle = Idle
    Users = {x1, x2}
    Alerts = {a1}
    Guards = {g1}
    Shifts = {s1}
    CacheMax = 1
    MaxFeedback = 3
    None = None
    Workers = {w}
    Forklifts = {x1, x2}
    Points = {0, 1}
    Limits = {1, 2}
    Default = 1
    Admins = {x}
    TTL = 1
    Suppress = 2
    MaxCheck = 1
SYMMETRY Symmetry
INVARIANTS
    ScaleHolds
    AccountsHold
    FloorsHold
    IncidentsHold
    CollisionsAreTold
PROPERTIES
    StandingIsKept
