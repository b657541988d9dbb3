SPECIFICATION FairSpec
CONSTANTS
    Entities = {e1, e2}
    First = e1
    Names = {"N", "k"}
    Sites = {"notifications", "catalog"}
    Catalogs = {"catalog"}
    SiteOf <- MCSiteOf
    Texts = {"g1", "g2"}
    AuthorTexts = {"a1"}
    Odd = "odd"
    Absent = "absent"
    Idle = Idle
    Shapes = {"one", "two"}
    Declares <- MCDeclares
INVARIANTS Inv
PROPERTIES AuthorsEntriesKept NothingGoesUnknown PruneSparesNeighbours Settles
