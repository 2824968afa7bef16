SPECIFICATION FaultsSpec
CONSTANTS
    Writers = {main, other}
    Main = main
    MaxWrites = 3
    MaxLost = 1
    PartMax = 2
    Nothing = Nothing
    Requests = {t1, t2}
    Callers = {c1, c2, c3}
    Spare = 2
    Members = {m1, m2}
    Ips = {p1, p2}
    Most = 2
    Viewed = {x1}
    Addresses = {p1}
    Hosts = {h1, h2}
SYMMETRY Symmetry
INVARIANTS
    LogsHold
    ListenerTells
    NodesAreOwned
    RelayFollows
PROPERTIES
    OnlyGrows
    PruneSparesRegistered
