SPECIFICATION Spec
CONSTANTS
    MaxCommit = 2
    MaxClock = 2
    MaxComment = 1
    MaxTrouble = 0

PROPERTIES
    MergedGreen
