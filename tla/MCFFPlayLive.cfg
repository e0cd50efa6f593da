SPECIFICATION FairSpec
CONSTANTS
    PictqSize = 2
    MinFrames = 1
    MinMinFrames = 1
    CodecDelay = 1
    FileLen = 2
    SeekTargets = {0}
    LoopSettings = {}
    MaxCalls = 2
    MaxSeeks = 1
    MaxFaults = 0
PROPERTIES
    ShutdownReturns
    SeekShows
    BufferingEnds
