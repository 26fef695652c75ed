SPECIFICATION FairSpec
CONSTANTS
    NVars = 3
    TheoryVar = {2, 3}
    Problem <- LazyProblem
    Lemmas <- LazyLemmas
    AsClause = {}
    Eager = FALSE
    Assumptions <- LazyAssumptions
    MaxSolves = 2
    MaxRestarts = 1
INVARIANT TheoryReasonsValid
PROPERTIES AnswersRight Terminates
