SPECIFICATION Spec
CONSTANTS
    Edge = {e1, e2}
    Weight = {1, 2}
    Alg = {a1}
    HistoryClearInterval = 2
    MaxNodes = 1
    MaxModifications = 6
    MaxSteps = 2
INVARIANT HistoryExplainsStatus
CHECK_DEADLOCK FALSE
