SPECIFICATION FairSpec
CONSTANTS
    w1 = w1
    f = f
    Nobody = Nobody
    NoAnchor = NoAnchor
    People = {w1, f}
    Forklifts = {f}
    Places <- Row
    Near <- RowNear
    Kinds = {"exact", "approx"}
    SavesMayFail = TRUE
    StillAfter = 3
    Stale = 3
    MaxAge = 5
    Spacing = 1
    SweepPeriod = 2
INVARIANTS
    SilenceIsReported
PROPERTIES
    AlertsAreNotRepeated
    DownIsReported
