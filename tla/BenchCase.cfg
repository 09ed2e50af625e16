CONSTANTS
    MaxSteps = 2
    CaseShapes <- MCCaseShapes

SPECIFICATION Spec

INVARIANTS
    KeepsContract
    StageNamesTheStop
    PinsRemoved

PROPERTIES
    ImplementsVerdict
