CONSTANTS
    w1 = w1
    NoWorker = NoWorker
    Workers = {w1}
    U32 = 4
    MaxId = 3
    Typed <- RangesAndPairs
    Sizes <- TwoTasksFirst
SPECIFICATION Spec
CHECK_DEADLOCK FALSE
INVARIANT ParsedAsTyped
