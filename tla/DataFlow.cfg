\* The derived facts of every small program against every path of a run.
SPECIFICATION Spec
CONSTANTS
    Programs <- MCPrograms
    Regs = {0, 1, 2, 6, 10}
    W32 = 2
    W64 = 3
INVARIANTS
    UseDefExact
    LivenessExact
    FactsHold
PROPERTIES
    RebuildEnds
\* The program exits, and the machine then has nothing to do.
CHECK_DEADLOCK FALSE
