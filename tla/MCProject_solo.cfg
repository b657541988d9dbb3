SPECIFICATION Spec
CONSTANTS
    Entities = {1}
    Paths = {1, 2, 4}
    Migrations = {4}
    GenTexts = {"g1", "g2"}
    AuthorTexts = {"a1"}
    Torn = "torn"
    Everyone = 0
    Gone = Gone
    NoRecord = NoRecord
    Idle = Idle
    Shapes = {"full", "other", "lean"}
    Emits <- MCSoloEmits
    Runs = {r1}
    Overlap = FALSE
    MaxForce = 1
INVARIANTS Inv
PROPERTIES HooksWrittenOnce RefusalStands NoOpRegeneration NothingGoesUnknown AdoptionKept KeepsContract
