SPECIFICATION Spec
CONSTANTS
    PoolSize = 3
    PreloadCount = 1
    UrlLists <- FeedGrowsOn
    LoopArgument = "weak_thiz"
    AsksAgain = {}
    MaxPlayers = 2
    MaxFaults = 1
INVARIANT
    TypeOK
    CurrentLoaded
    DroppedIsStopped
    OnlyVisitedPlays
    NoMissedStart
