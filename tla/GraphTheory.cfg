SPECIFICATION FairSpec
CONSTANTS
    sa = sa
    ab = ab
    sb = sb
    pa = pa
    pb = pb
    Edge = {sa, ab, sb}
    Prop = {pb}
    MaxLevel = 2
    MaxPostponed = 1
    Node <- MCNode
    Source = 1
    From <- MCFrom
    To <- MCTo
    At <- MCAt
    Units = {ab}
    Late = {pb}
    LateLazy = FALSE
INVARIANTS GraphsFollow TheoryInStep PropagationComplete AnswersHold EnqueuedJustified ClausesFalse ClausesValid
PROPERTY PropagationEnds
