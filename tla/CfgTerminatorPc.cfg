\* The documented meaning of terminator_btf_pc, against a merge of one chain.
SPECIFICATION BatchSpec
CONSTANTS
    Programs <- MCJumpChain
    Replacements = {}
    Ops <- StructureOps
    ProgTypes = {0}
    MaxCalls = 1
    MaxBlocks = 5
    MaxBody = 3
    MaxSites = 1
INVARIANT TerminatorPcIsOriginal
