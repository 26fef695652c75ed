SPECIFICATION Spec
CONSTANTS
    Width = 2
    Problems <- MCMixed
INVARIANT ClausesValid
