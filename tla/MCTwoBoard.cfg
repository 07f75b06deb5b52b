CONSTANTS
    d1 = d1
    d2 = d2
    Explored = {"reports", "commands"}
    Device <- MCDevice
    Chunks <- DifferentBlobs
    Shape <- MCShape
    SeqMod = 4
    InjectDepth = 3
    MaxResets = 1
    RingFrames = 2
    MaxBurst = 2
    MaxReports = 2
    MaxInject = 0
    CommandRing = 1
    CommandBurst = 1
    CommandReports = 1
    CommandInject = 3
SPECIFICATION MCSpec
INVARIANTS
    TypeOK
    NoSplice
    RelayedInOrder
    CloneIsOneDevice
PROPERTIES
    LinkRecovers
