\* One matched trade and a report FIFO with one place left
CONSTANTS
    Depth = 2
    NoId = 0
    BuyIds = {0, 1}
    SellIds = {2}
    TradeGap = 2
    AckGap = 1
    MaxMade = 4
SPECIFICATION Spec
INVARIANTS NothingLost
