SPECIFICATION FairSpec
CONSTANTS
    Pages <- MCPages
    Addr <- MCAddr
    IOAddr <- MCIO
    Word <- MCWord
    Modes = {TRUE, FALSE}
    Memories <- MCMemories
    Program <- MCProgram
    N = 2
    MdClocks = 4
    Direct <- MCDirect
    L1Addr <- MCL1Addr
    L0Addr <- MCL0Addr
    PteBad <- MCPteBad
    PteLeaf <- MCPteLeaf
    PteFault <- MCPteFault
    Phys <- MCPhys
    AmoNew <- MCAmoNew
INVARIANTS RetiresRight WalkIsRight AccessesOnce ScAfterLr
PROPERTIES PortContract PipelineMoves
