CONSTANTS
    Targets = {1, 2, 3}
    BtfIds <- MCBtfIds
    CallOffs <- MCCallOffs
    JsonOffs <- MCJsonOffs
    MapCounts = {0, 1, 2}

SPECIFICATION Spec

INVARIANTS
    IndicesAgree
    ModuleSlotsBehindMaps

PROPERTIES
    OthersUndisturbed
    ShiftKeepsOffsetsApart
