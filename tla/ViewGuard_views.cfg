SPECIFICATION Spec
CONSTANTS
    Shapes = {"a", "b"}
    MaxVersion = 4
    NoShape = "none"
    Nothing = Nothing
    Idle = Idle
INVARIANTS Inv BootNeverAborts
