SPECIFICATION Spec
CONSTANTS
    Absent = Absent
    NoBound = NoBound
    None = None
    Specs <- MCSpecs
    Writes <- MCWrites
    Cases = {"fixed"}
INVARIANT
    EntriesFixed
CHECK_DEADLOCK FALSE
