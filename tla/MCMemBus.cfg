SPECIFICATION FairSpec
CONSTANTS
    W = 3
    RowTxns = 2
    RowGap = 2
    RefInterval = 20
    C_RFC = 2
    C_RCD = 1
    C_RP = 1
    RD_WAIT = 0
    VAddr <- MCVAddr
    DAddr <- MCDAddr
    FAddr <- MCFAddr
INVARIANTS TransactionExact CommandsLegal RefreshInTime VideoWaitsOnce
PROPERTIES EveryoneServed
