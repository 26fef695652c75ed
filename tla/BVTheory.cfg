SPECIFICATION FairSpec
CONSTANTS
    Width = 2
    Problems <- MCProblems
INVARIANTS BoundsSound UpToDate AnswersHold ClausesFalse ClausesValid
PROPERTY PropagationEnds
