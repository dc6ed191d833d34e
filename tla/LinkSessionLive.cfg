CONSTANTS
    Owner = owner
    Host = host
    MaxMessages = 2
    MaxDiff = 1
    MaxChanged = 1
    MaxSentStates = 3
    MaxRetired = 1
    Reorder = FALSE
    Linger = FALSE
    OwnerQueues = 0
    HostQueues = 1
    OwnerStarts = 2
    HostStarts = 1
    MaxQueued <- Queues
    MaxStarts <- Starts
    MaxScreens = 3
    MaxNet = 1
SPECIFICATION FairSpec
PROPERTIES EventuallyTaken ScreenCatchesUp
CHECK_DEADLOCK FALSE
