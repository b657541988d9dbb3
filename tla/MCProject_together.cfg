SPECIFICATION Spec
CONSTANTS
    Entities = {1, 2}
    Paths = {3}
    Migrations = {}
    GenTexts = {"g1"}
    AuthorTexts = {"a1"}
    Torn = "torn"
    Everyone = 0
    Gone = Gone
    NoRecord = NoRecord
    Idle = Idle
    Shapes = {"full", "lean"}
    Emits <- MCSharedEmits
    Runs = {r1, r2}
    Overlap = TRUE
    MaxForce = 1
PROPERTIES AuthorsWorkKept
SYMMETRY RunSymmetry
