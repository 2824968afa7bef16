SPECIFICATION Spec
CONSTANTS
    Cams = {c1, c2}
    Macs = {m1}
    Channels = {h1, h2}
    m1 = m1
    h1 = h1
    Watched <- OneKey
    Workers = {w1, w2}
    Alarms = {a1}
    None = None
SYMMETRY Symmetry
INVARIANTS
    UniqueIdentity
    CacheIsRegistry
    EventsOfRegistered
CHECK_DEADLOCK TRUE
