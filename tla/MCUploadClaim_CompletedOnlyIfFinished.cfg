SPECIFICATION Spec
CONSTANTS
    QueueMax = 2
    MaxRetry = 2
    Chunks = 2
    MaxJobs = 2
    MaxCalls = 3
PROPERTY
    CompletedOnlyIfFinished
