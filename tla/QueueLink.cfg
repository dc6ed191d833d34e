CONSTANTS
    Owner = owner
    Host = host
    Message = {m1, m2}
    MaxMessages = 2
    MaxDiff = 1
    MaxSentStates = 3
    MaxOwner = 3
    MaxHost = 1
    MaxQueued <- MaxQueuedBy
SYMMETRY AnyBody
SPECIFICATION Spec
INVARIANTS InOrderOnce AlwaysSendable
PROPERTIES ImplementsReliableQueue
CHECK_DEADLOCK FALSE
