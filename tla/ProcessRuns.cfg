SPECIFICATION FairSpec
CONSTANTS
    Run = {a, b, c}
    Url = {u}
    Child = {x, y}
    Buildable = {x}
    NoRun = NoRun
INVARIANTS
    ExclusiveUntilSwallowed
    OwnEntryUntilSwallowed
    SupersededNeverReturns
PROPERTIES
    RunsEnd
CHECK_DEADLOCK FALSE
