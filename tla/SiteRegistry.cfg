SPECIFICATION Spec
CONSTANTS
    Floors = {f1, f2}
    APs = {a, b}
    Macs = {m1}
    Threads = {t1, t2}
    Unmade = Unmade
    Gone = Gone
    NoMac = NoMac
    NoLink = NoLink
    Idle = Idle
SYMMETRY Symmetry
INVARIANTS
    NothingDangles
    MacsAreUnique
