SPECIFICATION FairSpec
CONSTANTS
    MaxCommit = 3
    MaxIssue = 3
    MaxTrouble = 1
INVARIANTS
    TypeOK
    OneIssue

    
