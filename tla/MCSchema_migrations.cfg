SPECIFICATION Spec
CONSTANTS
    NoTable = NoTable
    Plans <- MCPlans
    Engines = {"postgres", "mysql"}
    MaxDies = 2
    MaxBacks = 2
CHECK_DEADLOCK FALSE
INVARIANTS NothingRefused Clean
PROPERTIES SparesOthers Deployed
