SPECIFICATION Spec
CONSTANTS
    Drivers <- OnlyPostgres
    Bodies <- MCBodies
    Inst <- App
    Requires <- MCRequires
INVARIANTS
    GrantsGoWithTheirRole
