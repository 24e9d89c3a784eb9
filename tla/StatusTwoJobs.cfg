SPECIFICATION FairSpec
CONSTANTS
    Job = {j, k}
    Disabled = {k}
    ByLabel = TRUE
    AutoCancelOn = TRUE
    MaxCommit = 1
    MaxComment = 1
    MaxBuild = 2
    MaxTrouble = 1
    MaxEvent = 2
PROPERTIES
    Settles
    SkipHeard
    RebuildHeard
