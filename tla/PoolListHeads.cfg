SPECIFICATION FairSpec
CONSTANTS
    r1 = r1
    r2 = r2
    main = main
    urgent = urgent
    pull = pull
    Repo <- MCRepo
    Head <- MCHead
    HeadRepo <- MCHeadRepo
    Branch = {main}
    Urgent = {urgent}
    Hook = {}
    Worker = {w1, w2, w3}
    Capacity = 1
    EagerCount = TRUE
    Serving = FALSE
    NoTask = NoTask
    Exited = Exited
PROPERTIES
    TerminateReturns
CHECK_DEADLOCK FALSE
