SPECIFICATION Spec
CONSTANTS
    Cams = {c1}
    Ips = {p1}
    Hosts = {h1, h2}
    Threads = {t1, t2}
    None = None
PROPERTIES
    OpeningHeals
CHECK_DEADLOCK FALSE
