SPECIFICATION VigiSpec
CONSTANTS
    t1 = t1
    t2 = t2
    c1 = c1
    c2 = c2
    c3 = c3
    good = good
    wrong = wrong
    NoClient = NoClient
    NoCaller = NoCaller
    NoMarker = NoMarker
    Callers = {t1, t2}
    Clients = {c1, c2, c3}
    Passwords = {good, wrong}
    CameraPw = good
    MaxEdits = 2
    Bodies <- SomeBodies
    Window = 1
    MaxEntries = 3
    MaxDelay = 1
SYMMETRY Symmetry
INVARIANTS
    RationedWhenShared
    BlocksForCause
    AlarmsAreHonest
