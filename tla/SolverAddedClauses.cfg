SPECIFICATION Spec
CONSTANTS
    NVars = 3
    TheoryVar = {1, 2, 3}
    Problem <- AddProblem
    Lemmas <- AddLemmas
    AsClause = {1, 2, 3}
    Eager = FALSE
    Assumptions <- AddAssumptions
    MaxSolves = 1
    MaxRestarts = 0
INVARIANTS TheoryInSync ReasonsValid
PROPERTIES RefutationsRight ModelsRight
