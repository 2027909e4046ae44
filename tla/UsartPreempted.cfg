SPECIFICATION FairDriver
CONSTANTS
    RLen = 3
    MaxBytes = 2
    MaxStream = 5
    MaxLen = 1
    MaxSend = 2
    SendBeside = 0
    MaxTraffic = 4
    Patient = TRUE
PROPERTY EverythingSent
CHECK_DEADLOCK FALSE
