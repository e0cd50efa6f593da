SPECIFICATION FairSpec
CONSTANTS
    Senders = {s1}
    Background = ws
    MaxFrames = 2
    MaxOpens = 1
    MaxFaults = 1
    MaxIncoming = 1
    MaxCalls = 3
PROPERTIES
    SendReturns
    DisconnectReturns
