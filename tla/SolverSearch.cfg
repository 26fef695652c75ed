SPECIFICATION Spec
CONSTANTS
    NVars = 4
    TheoryVar = {2, 3, 4}
    Problem <- SearchProblem
    Lemmas <- SearchLemmas
    AsClause = {}
    Eager = TRUE
    Assumptions <- SearchAssumptions
    MaxSolves = 2
    MaxRestarts = 0
INVARIANTS NoMissedConflict LearntAsserts Sound
