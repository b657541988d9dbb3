SPECIFICATION Spec
CONSTANTS
    NoTable = NoTable
    Plans <- MCTwice
    Engines = {"postgres", "mysql"}
    MaxDies = 0
    MaxBacks = 0
CHECK_DEADLOCK FALSE
INVARIANTS NothingRefused
