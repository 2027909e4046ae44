SPECIFICATION FairDriver
CONSTANTS
    RLen = 3
    MaxBytes = 7
    MaxStream = 3
    MaxLen = 2
    MaxSend = 4
    SendBeside = 0
    MaxTraffic = 7
    Patient = FALSE
INVARIANTS TypeOK InOrder  RefusedOnlyWhenFull
           TxTypeOK TxInOrder NoStreamStranded
PROPERTY UndisturbedIsSent
