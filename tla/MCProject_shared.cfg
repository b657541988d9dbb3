SPECIFICATION FairSpec
CONSTANTS
    Entities = {1, 2}
    Paths = {1, 3}
    Migrations = {}
    GenTexts = {"g1"}
    AuthorTexts = {"a1"}
    Torn = "torn"
    Everyone = 0
    Gone = Gone
    NoRecord = NoRecord
    Idle = Idle
    Shapes = {"full", "lean"}
    Emits <- MCSharedEmits
    Runs = {r1}
    Overlap = FALSE
    MaxForce = 0
PROPERTIES RefusalStands AdoptionOutlasts NeighboursStayCurrent PruneSparesNeighbours Settles
