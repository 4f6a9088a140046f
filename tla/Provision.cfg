SPECIFICATION Spec
CONSTANTS
    Drivers <- AllDrivers
    Major = {m1, m2}
    Tuning = {t1, t2}
    Off = Off
INVARIANTS
    TypeOK
    ServerAsDeclared
    VersionLockHolds
    OnlyCreationCanBreakIt
    LiveServerKeepsSocket
PROPERTIES
    NoDoubleStart
    DataSurvives
