SPECIFICATION FairSpec
CONSTANTS
    Ids = {c0, c1}
    N = 2
    MaxSocketBuf = 2
    MaxConn = 2
    MaxFrames = 1
    MaxUnits = 2
    MaxUart = 3
    Impatient = FALSE
    Talkative = FALSE
    Sliced = FALSE
INVARIANTS OneSlotPerSocket ReadsOwnBytes AnsweredOnce
PROPERTY EveryRequestServed EveryCommandCarriedOut
