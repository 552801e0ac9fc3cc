\* One level: the head was filled and its successor is cancelled.
CONSTANTS
    i1 = i1
    i2 = i2
    i3 = i3
    NoId = NoId
    NumLevels = 1
    MaxOrders = 4
    Ids <- ThreeIds
    MaxQty = 1
    MaxLevelQty = 7
    FastPathEnable = TRUE
    MaxCommands = 4
    HostPrices = {0}
    DuplicateAdds = FALSE
    ForeignSideModify = FALSE
    SpliceStaleHeads = TRUE
    WarmReset = "never"
    WindowFull = FALSE
SPECIFICATION Spec
SYMMETRY Symmetry
INVARIANT QueuesAreFifos
CHECK_DEADLOCK FALSE
