SPECIFICATION Spec
CONSTANTS
    Conn = {c1, c2, c3}
    SynKey = {k1, k2}
    NoKey = NoKey
    NoTarget = NoTarget
    Endpoints <- PlainEndpoint
    Origins = {TRUE}
INVARIANTS
    CancelHitsOwner
PROPERTIES
    ImplementsCancelService
