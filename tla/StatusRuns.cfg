SPECIFICATION Spec
CONSTANTS
    Job = {j}
    Disabled = {}
    ByLabel = TRUE
    AutoCancelOn = TRUE
    MaxCommit = 2
    MaxComment = 1
    MaxBuild = 2
    MaxTrouble = 1
    MaxEvent = 1
INVARIANTS
    TypeOK
    HonestUnlessOvertaken
PROPERTIES
    CancelsJustified
    
