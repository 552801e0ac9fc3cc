\* FAST_PATH_ENABLE = 0: every crossing goes through the drain, and a host may
\* repeat ids and fill a hash window.
CONSTANTS
    i1 = i1
    i2 = i2
    i3 = i3
    NoId = NoId
    NumLevels = 3
    MaxOrders = 4
    Ids <- ThreeIds
    MaxQty = 2
    MaxLevelQty = 7
    FastPathEnable = FALSE
    MaxCommands = 3
    HostPrices = {1, 2, 3}
    DuplicateAdds = TRUE
    ForeignSideModify = FALSE
    SpliceStaleHeads = FALSE
    WarmReset = "never"
    WindowFull = TRUE
SPECIFICATION CheckSpec
SYMMETRY Symmetry
PROPERTY MatchesGolden
CHECK_DEADLOCK FALSE
