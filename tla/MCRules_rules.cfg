SPECIFICATION Spec
CONSTANTS
    Absent = Absent
    NoBound = NoBound
    None = None
    Specs <- MCSpecs
    Writes <- MCWrites
    Cases = {"forward", "kinds", "moves", "entries", "replaced", "least",
             "means", "count", "sum", "withdrawn"}
INVARIANTS
    Inv
    VerdictUnmoved
    ToldOnce
    SaidUnlessBarred
CHECK_DEADLOCK FALSE
