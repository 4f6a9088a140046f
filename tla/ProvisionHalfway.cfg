SPECIFICATION Spec
CONSTANTS
    Drivers <- OnlyPostgres
    Major = {m1}
    Tuning = {t1}
    Off = Off
INVARIANTS
    ProvisionedIsReady
