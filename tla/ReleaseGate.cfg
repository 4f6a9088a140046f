SPECIFICATION Spec
CONSTANTS
    Module = {postgres, kafka}
    Run = {run1, run2}
    MaxCommits = 2
    MaxAttempts = 1
INVARIANTS
    NoVersionWithoutAcceptance
SYMMETRY Symmetry
CHECK_DEADLOCK FALSE
