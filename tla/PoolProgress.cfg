SPECIFICATION FairSpec
CONSTANTS
    r1 = r1
    r2 = r2
    main = main
    urgent = urgent
    pull = pull
    Repo <- OneRepo
    Head <- MCHead
    HeadRepo <- OneRepoHeadRepo
    Branch = {main}
    Urgent = {urgent}
    Hook = {k1, k2}
    Worker = {w1, w2}
    Capacity = 1
    EagerCount = FALSE
    Serving = TRUE
    NoTask = NoTask
    Exited = Exited
PROPERTIES
    JoinEventuallyReturns
    DeliveryHandled
