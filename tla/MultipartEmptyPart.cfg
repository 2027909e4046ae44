SPECIFICATION Spec
CONSTANTS
    Bodies <- MCEmptyParts
    Boundary <- MCBoundary
    HeaderMax = 14
    DataMax = 3
    MaxLines = 4
INVARIANT EveryPartFound
CHECK_DEADLOCK FALSE
