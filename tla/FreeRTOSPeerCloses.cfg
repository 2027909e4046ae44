SPECIFICATION FairSpec
CONSTANTS
    Ids = {c0, c1}
    N = 2
    MaxSocketBuf = 2
    MaxConn = 1
    MaxFrames = 1
    MaxUnits = 1
    MaxUart = 3
    Impatient = TRUE
    Talkative = FALSE
    Sliced = FALSE
PROPERTY ClosedIsNoticed
