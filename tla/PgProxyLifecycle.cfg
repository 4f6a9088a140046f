SPECIFICATION LiveSpec
CONSTANTS
    Conn = {c1, c2}
    SynKey = {k1, k2}
    NoKey = NoKey
    NoTarget = NoTarget
    Endpoints <- AnyEndpoint
    Origins = {TRUE, FALSE}
INVARIANTS
    TypeOK
    RegistryExact
    NoPlaintextSession
    RealKeysStayInside
PROPERTIES
    LeaversAreForgotten
    CancelLands
