SPECIFICATION Spec
CONSTANTS
    Module = {postgres, kafka}
    Run = {run1, run2}
    MaxCommits = 2
    MaxAttempts = 2
INVARIANTS
    TypeOK
    TestsGateEveryRelease
    ToldIsServed

    
SYMMETRY Symmetry
CHECK_DEADLOCK FALSE
