SPECIFICATION DispatchSpec
CONSTANTS
    BufSize = 4
    Requests <- MCRequests
INVARIANTS TypeOK NoByteLostOrRepeated EndedIsComplete
    ApiGetsWhatWasWritten ParametersComeBack
