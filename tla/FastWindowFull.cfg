\* A hash window is full when the fast path leaves a remainder.
CONSTANTS
    i1 = i1
    i2 = i2
    i3 = i3
    NoId = NoId
    NumLevels = 2
    MaxOrders = 4
    Ids <- ThreeIds
    MaxQty = 2
    MaxLevelQty = 7
    FastPathEnable = TRUE
    MaxCommands = 3
    HostPrices = {0, 1}
    DuplicateAdds = FALSE
    ForeignSideModify = FALSE
    SpliceStaleHeads = FALSE
    WarmReset = "never"
    WindowFull = TRUE
SPECIFICATION Spec
SYMMETRY Symmetry
INVARIANT RefusedAddLeavesNoTrade
CHECK_DEADLOCK FALSE
