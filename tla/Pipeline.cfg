SPECIFICATION FairSpec
CONSTANTS
    a = a
    b = b
    matrix = matrix
    nightly = nightly
    deploy = deploy
    Head = {a, b}
    Job = {matrix, nightly, deploy}
    Spec <- MCSpec
    Stages = 2
    StageOf <- MCStageOf
    Here <- MCHere
    Periodic = {nightly}
    MaxRefresh = 1
    MaxTrouble = 1
INVARIANTS
    TypeOK
PROPERTIES
    
    MergedComplete
    
    
