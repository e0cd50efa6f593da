SPECIFICATION Spec
CONSTANTS
    PictqSize = 2
    MinFrames = 1
    MinMinFrames = 1
    CodecDelay = 1
    FileLen = 2
    SeekTargets = {0}
    LoopSettings = {TRUE, FALSE}
    MaxCalls = 2
    MaxSeeks = 2
    MaxFaults = 1
INVARIANTS
    TypeOK
    FramesOfTheirSerial
    ShownIsKept
    OneStaleFrame
PROPERTIES
    CompletedAtEnd
