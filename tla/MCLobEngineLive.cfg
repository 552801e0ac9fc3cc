\* Liveness: no symmetry, two ids.
CONSTANTS
    i1 = i1
    i2 = i2
    i3 = i3
    NoId = NoId
    NumLevels = 2
    MaxOrders = 4
    Ids <- TwoIds
    MaxQty = 2
    MaxLevelQty = 7
    FastPathEnable = TRUE
    MaxCommands = 3
    HostPrices = {0, 1, 2}
    DuplicateAdds = FALSE
    ForeignSideModify = FALSE
    SpliceStaleHeads = FALSE
    WarmReset = "never"
    WindowFull = FALSE
SPECIFICATION FairSpec
PROPERTY EveryCommandCompletes
CHECK_DEADLOCK FALSE
