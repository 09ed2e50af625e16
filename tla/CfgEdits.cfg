\* Every operation and every batch of a pass, two calls deep, with all the
\* metadata a lifted program carries; each program is lowered and lifted again.
SPECIFICATION BatchSpec
CONSTANTS
    Programs <- MCPrograms
    Replacements <- MCReplacements
    Ops <- AllOps
    ProgTypes = {6}
    MaxCalls = 2
    MaxBlocks = 5
    MaxBody = 9
    MaxSites = 2
INVARIANTS
    TypeOK
    NoDanglingReference
    FactsFresh
    VerifierStatesMatchCode
    PredecessorsInvertSuccessors
    TargetsKept
    LoweringKeepsFlow
    PendingStillMatch
PROPERTIES
    BodyRecordsStayOrdered
    RestructuringKeepsFlow
    LayoutKept
    OnlyMatchedRemoved
