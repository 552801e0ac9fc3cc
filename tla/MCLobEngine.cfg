\* Three orders, three levels, a host that may repeat ids, name the wrong side
\* and fill a hash window.
CONSTANTS
    i1 = i1
    i2 = i2
    i3 = i3
    NoId = NoId
    NumLevels = 3
    MaxOrders = 4
    Ids <- ThreeIds
    MaxQty = 2
    MaxLevelQty = 7
    FastPathEnable = TRUE
    MaxCommands = 3
    HostPrices = {0, 1, 2, 3}
    DuplicateAdds = TRUE
    ForeignSideModify = TRUE
    SpliceStaleHeads = FALSE
    WarmReset = "book empty"
    WindowFull = TRUE
SPECIFICATION Spec
SYMMETRY Symmetry
INVARIANTS QueuesAreFifos SlotsAccountedFor BestIsTheBooks WriteBackToTheSameLevel NoUseOfFreedSlot OneAtATime AcknowledgesTheBook PriceTimePriority
PROPERTIES OnlyHeldSlots EncoderContract
CHECK_DEADLOCK FALSE
