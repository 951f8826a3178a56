SPECIFICATION Spec
CONSTANTS
    Nodes = {n1, n2}
    Transition = 1
    MaxAhead = 2
    MaxTime = 2
    MaxKeys = 2
SYMMETRY NodeSymmetry
INVARIANTS GenerationsUsedOnce OneKeyPerGeneration
PROPERTY GenerationsGrow
CHECK_DEADLOCK FALSE
