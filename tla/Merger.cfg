SPECIFICATION FairSpec
CONSTANTS
    MaxCommit = 2
    MaxClock = 2
    MaxComment = 3
    MaxTrouble = 1
INVARIANTS
    TypeOK
    AnsweredOnce
PROPERTIES
    MergedVetted
    ReadyMerged
