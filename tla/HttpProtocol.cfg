SPECIFICATION Spec
CONSTANTS
    Messages <- MCMessages
    NoLength <- MCNoLength
    BufSize = 6
    HdrMax = 8
    CompactAt = 2
    IntMod = 32
INVARIANTS TypeOK AbsorberLife WaitsOnlyForMissingBytes DataCallsNotEmpty
PROPERTY ImplementsBodyStream
