\* Every request, while policies change.
SPECIFICATION Spec
CONSTANTS
    Configs <- MCConfigs
    Shapes <- MCShapes
INVARIANTS
    
    AccessIsRecorded
    AnsweredOnce
    ReadyMeansAllUp
PROPERTIES
    EveryRequestEnds
