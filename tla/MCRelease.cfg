SPECIFICATION RelSpec
CONSTANTS
    Extra <- MCExtra
    Toggles <- MCToggles
    Slips <- MCSlips
    MaxEdits = 2
    MaxBuilds = 1
INVARIANTS PublishedIsCurrent GreenComesUp
CHECK_DEADLOCK FALSE
