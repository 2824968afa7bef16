SPECIFICATION Spec
CONSTANTS
    Cams = {c1, c2}
    Ips = {p1, p2}
    Threads = 2
    None = None
PROPERTIES
    PresenceSettles
CHECK_DEADLOCK TRUE
