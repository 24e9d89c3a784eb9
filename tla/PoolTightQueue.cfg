SPECIFICATION Spec
CONSTANTS
    r1 = r1
    r2 = r2
    main = main
    urgent = urgent
    pull = pull
    Repo <- MCRepo
    Head <- MCHead
    HeadRepo <- MCHeadRepo
    Branch = {main}
    Urgent = {urgent}
    Hook = {k1}
    Worker = {w1, w2, w3}
    Capacity = 1
    EagerCount = FALSE
    Serving = TRUE
    NoTask = NoTask
    Exited = Exited
INVARIANTS
    TypeOK
    JoinBarrier
    RoundComplete
    
    CountExact
PROPERTIES
    ImplementsRounds
SYMMETRY WorkerSymmetry
