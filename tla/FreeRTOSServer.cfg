SPECIFICATION Spec
CONSTANTS
    Ids = {c0, c1}
    N = 2
    MaxSocketBuf = 1
    MaxConn = 2
    MaxFrames = 2
    MaxUnits = 2
    MaxUart = 1
    Impatient = TRUE
    Talkative = TRUE
    Sliced = TRUE
INVARIANTS TypeOK OneReader
PROPERTIES CommandIsStable  OnlyWriteBackLoses
CONSTRAINT SecondFrameAlone
SYMMETRY Links
