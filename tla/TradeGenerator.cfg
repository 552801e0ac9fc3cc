\* Two-place FIFOs, so that both the trade and the report FIFO fill up.
CONSTANTS
    Depth = 2
    NoId = 0
    BuyIds = {0, 1}
    SellIds = {2}
    TradeGap = 2
    AckGap = 1
    MaxMade = 6
SPECIFICATION Spec
INVARIANTS NumberedAsMade LostOnlyWhenCrowded ReportsBeforeAck
PROPERTIES ProducersGoOn
