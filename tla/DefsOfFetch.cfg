\* The doc of InsnNode.defs, on a program with an atomic fetch.
SPECIFICATION Spec
CONSTANTS
    Programs <- MCFetch
    Regs = {0, 1, 2, 6, 10}
    W32 = 2
    W64 = 3
PROPERTIES
    DefsComplete
CHECK_DEADLOCK FALSE
