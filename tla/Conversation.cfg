SPECIFICATION FairSpec
CONSTANTS
    People = {alice, bob, carol}
    Collaborators = {alice}
    PullAuthor = bob
    Bot = bot
    PageSize = 5
    MaxSaid = 4
    MaxThread = 6
    MaxTrouble = 1
INVARIANTS
    TypeOK
    AllowedAfter
    AnswersNew
PROPERTIES
    NothingMissed
