SPECIFICATION Spec
CONSTANTS
    Senders = {s1, s2}
    Background = ws
    MaxFrames = 2
    MaxOpens = 2
    MaxFaults = 1
    MaxIncoming = 1
    MaxCalls = 1
INVARIANT AutoReconnects
