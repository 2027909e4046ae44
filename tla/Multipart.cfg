SPECIFICATION Spec
CONSTANTS
    Bodies <- MCBodies
    Boundary <- MCBoundary
    HeaderMax = 14
    DataMax = 3
    MaxLines = 4
INVARIANT TypeOK
PROPERTY ImplementsPartStream
CHECK_DEADLOCK FALSE
