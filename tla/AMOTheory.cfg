SPECIFICATION Spec
CONSTANTS
    Amo = {a, b, c}
    NoVar = NoVar
    MaxLevel = 3
INVARIANTS ConflictUndecidedFirst ReasonsExplain
PROPERTY KeepsPromise
CHECK_DEADLOCK FALSE
