SPECIFICATION FairSpec
CONSTANTS
    PageWords = 2
    NPages = 2
    Lines <- MCLines
    N = 2
    Idx <- MCIdx
    Tag <- MCTag
    Roots <- MCRoots
    Tables <- MCTables
    Word <- MCWord
    Memories <- MCMemories
    Stores <- MCStores
    Targets <- MCTargets
    L1Addr <- MCL1Addr
    L0Addr <- MCL0Addr
    PteBad <- MCPteBad
    PteLeaf <- MCPteLeaf
    PteFault <- MCPteFault
    Denied <- MCDenied
    Frame <- MCFrame
INVARIANTS FrontQuiet ExecutesProgram CachesFresh
PROPERTIES ExKeepsComing
