SPECIFICATION Spec
CONSTANTS
    Top <- MCTop
    Instances <- MCInstances
    Settings <- MCSettings
INVARIANT AnswerRight
 
