SPECIFICATION NetSpec
CONSTANTS
    Lens <- MCLens
    Worlds <- MCWorlds
INVARIANTS DialsWhatWasAsked PageIsThisFetch CleanGetSucceeds NoLineLost
PROPERTY GetReturns
CHECK_DEADLOCK FALSE
