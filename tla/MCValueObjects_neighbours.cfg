SPECIFICATION Spec
CONSTANTS
    Entities = {e1, e2}
    Types = {A, B}
    Person = person
    Gone = gone
    Idle = Idle
INVARIANTS Inv
PROPERTIES ValidStaysValid
SYMMETRY Symmetry
