SPECIFICATION FairSpec
CONSTANTS
    QueueMax = 2
    MaxRetry = 2
    Chunks = 2
    MaxJobs = 2
    MaxCalls = 3
INVARIANTS
    TypeOK
    NoForgottenJob
    UploadingIsHeld
    PopFindsEntry
    InterruptionHasCause
    CompletedIsFull
PROPERTIES
    CancelSticks
    CompletedIsFinished
    QueuedIsTaken
    DestructorReturns
