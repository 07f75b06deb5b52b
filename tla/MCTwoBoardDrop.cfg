CONSTANTS
    d1 = d1
    d2 = d2
    Explored = {"reports"}
    Device <- MCDevice
    Chunks <- DifferentBlobs
    Shape <- MCShape
    SeqMod = 4
    RingFrames = 2
    InjectDepth = 3
    MaxBurst = 1
    MaxReports = 0
    MaxInject = 1
    MaxResets = 0
    CommandRing = 1
    CommandBurst = 0
    CommandReports = 0
    CommandInject = 0
SPECIFICATION MCSpec
PROPERTY NoCommandDropped
