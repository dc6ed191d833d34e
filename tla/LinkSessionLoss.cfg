CONSTANTS
    Owner = owner
    Host = host
    MaxMessages = 2
    MaxDiff = 1
    MaxChanged = 1
    MaxSentStates = 4
    MaxRetired = 1
    Reorder = FALSE
    Linger = FALSE
    OwnerQueues = 1
    HostQueues = 0
    OwnerStarts = 2
    HostStarts = 1
    MaxQueued <- Queues
    MaxStarts <- Starts
    MaxScreens = 0
    MaxNet = 1
SPECIFICATION Spec
INVARIANT NothingLost
CHECK_DEADLOCK FALSE
