SPECIFICATION Spec
CONSTANTS
    Entities = {e1, e2}
    Person = person
    Dialects = {1, 2}
    Idle = Idle
    MaxNumber = 3
    MaxKinds = 1
INVARIANTS Inv NumbersDistinct EveryUpHasDown NoSecondMigration
SYMMETRY EntitySymmetry
