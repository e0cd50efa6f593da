SPECIFICATION FairSpec
CONSTANTS
    PoolSize = 1
    PreloadCount = 0
    UrlLists <- Feed2
    LoopArgument = "player"
    AsksAgain = {1, 2}
    MaxPlayers = 2
    MaxFaults = 0
PROPERTY
    PlaysAtIndex
