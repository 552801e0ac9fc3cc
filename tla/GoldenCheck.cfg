\* The fast path on a pool of two slots, with a host that keeps to the reference.
CONSTANTS
    i1 = i1
    i2 = i2
    i3 = i3
    NoId = NoId
    NumLevels = 3
    MaxOrders = 3
    Ids <- ThreeIds
    MaxQty = 2
    MaxLevelQty = 7
    FastPathEnable = TRUE
    MaxCommands = 4
    HostPrices = {1, 2}
    DuplicateAdds = FALSE
    ForeignSideModify = FALSE
    SpliceStaleHeads = FALSE
    WarmReset = "never"
    WindowFull = FALSE
SPECIFICATION CheckSpec
SYMMETRY Symmetry
PROPERTY MatchesGolden
CHECK_DEADLOCK FALSE
