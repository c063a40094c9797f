SPECIFICATION FairSpec
CONSTANTS
    Depth = 2
    Room = 1
    K = 3
    Byte <- OneByte
    Loads <- Everything
INVARIANTS TxStream NeverPopsEmpty
PROPERTIES TxDrains LineFallsRunning StrapsInOrder
