SPECIFICATION Spec
CONSTANTS
    Drivers <- AllDrivers
    Bodies <- MCBodies
    Inst <- App
    Requires <- MCRequires
INVARIANTS
    TypeOK
    
    PrunedIsGone
    
    
