SPECIFICATION MCSpec
CONSTANTS
    Explored = {"device", "hs", "pipes", "control", "capture", "layout", "cdc", "stream", "return"}
    MaxPackets = 2
    Parts = 2
    MaxTries = 2
    MaxReports = 3
    MaxOuts = 3
    MaxLosses = 2
    Mps = 2
    MaxTransfers = 3
    MaxTrouble = 3
    MaxGlitches = 2
    Attempts = 2
    MaxSessions = 3
    Pieces <- MCPieces
    MaxPieces = 4
    MaxUsages = 3
    MaxCaptures = 2
    RxRingBytes = 4
    TxRingBytes = 4
    Bulk = 2
    CdcResponses = {0, 1, 2}
    MaxCommands = 4
    MaxControls = 3
    Size = 4
    RingBytes = 3
    Decoys <- SomeDecoys
    MaxSlots = 3
    Words = 3
    MaxPublish = 4
    MaxMissed = 1
    MaxAborts = 1
    MaxOther = 2
INVARIANTS TypesOK EndpointsAgree SetReportIntact TransfersOnce CloneOfOneDevice LayoutFound PortIntact OnlyHitSlotsLost ThreeReturnsSuffice
CHECK_DEADLOCK FALSE
