SPECIFICATION Spec
CONSTANTS
    Node <- MCNode
    Source = 0
    Edge = {1, 2, 3, 4, 5, 6}
    From <- MCFrom
    To <- MCTo
    Limits = {2, 5}
    MaxPending = 3
INVARIANT CountsExact
 
