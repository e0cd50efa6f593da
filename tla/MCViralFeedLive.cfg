SPECIFICATION FairSpec
CONSTANTS
    PoolSize = 2
    PreloadCount = 1
    UrlLists <- FeedGrows
    LoopArgument = "weak_thiz"
    AsksAgain = {1}
    MaxPlayers = 2
    MaxFaults = 0
PROPERTY
    CurrentStarts
    LoopsEnd
