SPECIFICATION Spec
CONSTANTS
    Unit = 3
    Rates = {1, 2, 4}
    Bursts = {1, 3, 5, 8}
    MaxTime = 5
    MaxChecks = 3
INVARIANTS
    TypeOK
    RateBound
PROPERTY AdmitsIffConforms
