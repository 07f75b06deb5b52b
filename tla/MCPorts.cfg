CONSTANTS
    RingBytes = 3
    BatchMax = 2
    MaxBytes = 6
    TxRingBytes = 4
    ResponseSizes = {1, 3}
    Baud = {1, 2}
    DefaultBaud = 0
    MaxTxBytes = 7
    MaxBauds = 2
    Mps = 2
    BufMax = 4
    MaxRequests = 2
    MaxLost = 2
    MaxAborts = 1
SPECIFICATION MCSpec
INVARIANTS
    TypesOK
    ParserSeesNoHole
    ResponsesLeaveWhole
    DataStagesWhole
PROPERTIES
    RecoveryEnds
    EverythingSent
    ControlFinishes
CHECK_DEADLOCK FALSE
