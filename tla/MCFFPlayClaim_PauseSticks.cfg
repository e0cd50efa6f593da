SPECIFICATION ClaimSpec
CONSTANTS
    PictqSize = 2
    MinFrames = 1
    MinMinFrames = 1
    CodecDelay = 1
    FileLen = 2
    SeekTargets = {0}
    LoopSettings = {TRUE, FALSE}
    MaxCalls = 2
    MaxSeeks = 1
    MaxFaults = 0
INVARIANT
    PauseSticks
