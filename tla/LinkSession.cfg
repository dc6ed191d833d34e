CONSTANTS
    Owner = owner
    Host = host
    MaxMessages = 2
    MaxDiff = 1
    MaxChanged = 1
    MaxSentStates = 4
    MaxRetired = 1
    Reorder = TRUE
    Linger = TRUE
    OwnerQueues = 2
    HostQueues = 0
    OwnerStarts = 2
    HostStarts = 3
    MaxQueued <- Queues
    MaxStarts <- Starts
    MaxScreens = 3
    MaxNet = 2
SPECIFICATION OneLoad
INVARIANTS SurvivorLosesNothing TakenInOrderOnce AlwaysSendable GridOfOneFrame
CHECK_DEADLOCK FALSE
