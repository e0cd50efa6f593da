SPECIFICATION Spec
SYMMETRY SenderSymmetry
CONSTANTS
    Senders = {s1, s2}
    Background = ws
    MaxFrames = 2
    MaxOpens = 2
    MaxFaults = 1
    MaxIncoming = 0
    MaxCalls = 3
INVARIANTS
    TypeOK
    InOnePlace
    QueueOrderKept
    OfflineAfterDisconnect
    FlushedOnOpen
PROPERTY
    ImplementsOutbox
