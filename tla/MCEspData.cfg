SPECIFICATION FairSpec
CONSTANTS
    Depth = 2
    Room = 1
    K = 3
    Byte <- TwoBytes
    Loads <- Receiving
INVARIANT PoppedIsTaken
