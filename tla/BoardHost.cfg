\* Two programs on one board of seven orders; two random or typed commands, one fault.
CONSTANTS
    NumLevels = 5
    NoId = 0
    PriceMin = 1
    PriceMax = 2
    CrossSpan = 1
    MaxQuantity = 2
    BoardOrders = 8
    MaxFaults = 1
    Programs = {"random", "capacity", "fastpath", "parallel", "smoke", "demo", "prompt"}
    MaxSessions = 2
    TypedQty = {1, 50}
    MaxCommands = 2
SPECIFICATION Spec
INVARIANTS GoodBoardPasses PassMeansAgreement DemoPassIsTrue ShowsItsAnswer
PROPERTIES TestsEnd
CHECK_DEADLOCK FALSE
