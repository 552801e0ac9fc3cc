\* Prices 1 to 5; four batches, or fewer with as many faults of the network.
CONSTANTS
    NumLevels = 6
    NoId = 0
    PriceMin = 1
    PriceMax = 5
    CrossSpan = 5
    MaxQuantity = 2
    MaxSteps = 4
    MaxLag = 1
SPECIFICATION Spec
INVARIANTS TypeOK Reproduces CountsTell BooksConsistent HeapFindsBest FifoIsTimePriority
PROPERTIES ImplementsBook NoTradeThrough
CHECK_DEADLOCK FALSE
