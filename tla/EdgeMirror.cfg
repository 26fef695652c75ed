SPECIFICATION Spec
CONSTANTS
    Edge = {e1, e2}
    Weight = {1, 2}
    Alg = {pk, rr}
    Topo = {pk}
    Ramal = {rr}
    InAdvance = TRUE
    HistoryClearInterval = 2
    MaxNodes = 1
    MaxModifications = 8
INVARIANTS MirrorSynced ReplayRetained 
PROPERTY RefinesSnapshot
CHECK_DEADLOCK FALSE
