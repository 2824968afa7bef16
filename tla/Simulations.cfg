SPECIFICATION SimulationsSpec
CONSTANTS
    Modes <- OneMode
    Keys <- SimKeys
    Writes <- AllKeysOf
    Clears <- AllKeysOf
    Tasks = {t1, t2}
    Stoppers = {s1, s2}
    a = a  b = b  c = c  d = d
    alpha = alpha  beta = beta  gamma = gamma  delta = delta
    APs <- FourAPs
    Placements <- FourOrThree
    ByCoordinates <- Sorted
    Configs <- TwoConfigs
    Outgoing <- Out
    Incoming <- In
    Segments <- Script
    Deletable = {d}
    None = None
SYMMETRY Symmetry
INVARIANTS
    NobodyLeftBehind
    HandleOwnsRunner
    LoopsAreHonest
    WalkIsSound
    OwnAlertOnce
