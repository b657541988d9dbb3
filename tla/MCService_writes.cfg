SPECIFICATION Spec
CONSTANTS
    t1 = t1
    k1 = k1
    k2 = k2
    open = open
    closing = closing
    closed = closed
    Tenants = {t1, t2}
    NoTenant = NoTenant
    Keys = {k1, k2}
    Blank = Blank
    Phases = {open, closing, closed}
    Names = {n1, n2}
    Slots = {s1, s2}
    NoEntry = NoEntry
    Removed = Removed
    Amounts = {a1}
    Zero = Zero
    Absent = Absent
    Nothing = Nothing
    NoLimit = NoLimit
    Null = Null
    Ids = {i1, i2}
    NoId = NoId
    Declarations <- MCDeclarations
    Clients = {c1, c2}
    Callers <- MCCallers
    Idle = Idle
SYMMETRY Symmetric
CHECK_DEADLOCK FALSE
INVARIANTS Inv OnlyRacesConflict QuotaOvershoot SpellingsAgree
PROPERTIES KeepsContract WritesAreScoped
