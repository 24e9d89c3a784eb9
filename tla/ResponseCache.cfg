SPECIFICATION FairSpec
CONSTANTS
    daemon = daemon
    command = command
    w1 = w1
    w2 = w2
    Worker = {w1, w2}
    Process = {daemon, command}
    Of <- MCOf
    Nobody = Nobody
    MaxVersion = 2
    MaxTrouble = 1
INVARIANTS
    TypeOK
    CacheSound
    FreshAnswer
PROPERTIES
    CallsEnd
