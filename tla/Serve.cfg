SPECIFICATION LiveSpec
CONSTANTS
    Kinds <- BothKinds
    Request = {r1, r2}
    MaxLives = 2
INVARIANTS
    TypeOK
    
    RestartsWithItsState
    LeftoverSocketIsHarmless
    ReadyServiceIsBuilt

    
CHECK_DEADLOCK FALSE
