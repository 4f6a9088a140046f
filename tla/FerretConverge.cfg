SPECIFICATION Spec
CONSTANTS
    Pass = {p1, p2}
    User = {u}
    Collection = {orders, accounts}
    Unique = {accounts}
    Seeded = {orders, accounts}
    Doc = {d1, d2}
    NoItem = NoItem
    MaxRuns = 2
INVARIANTS
    TypeOK
    NeverDuplicates
    
    
    FirstPassSeedsAll
CHECK_DEADLOCK FALSE
