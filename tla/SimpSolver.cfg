SPECIFICATION Spec
CONSTANTS
    NVars = 3
    Problem <- MCProblem
    Theory <- MCTheory
    Assumptions <- MCAssumptions
    Kept = {1}
    Grow = 0
    ClauseLim = 1
    MaxSolves = 2
INVARIANTS Preserved NothingSubsumed
PROPERTIES AnswersRight Terminates
CHECK_DEADLOCK FALSE
