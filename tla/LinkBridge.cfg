CONSTANTS
    N = 2
    InboundCapacity = 1
    InboxCapacity = 2
    Sizes <- TwoAndOne
    MaxRestarts = 1
    MaxScreens = 1
SPECIFICATION FairSpec
INVARIANTS WholeFrames InOrderOnce CompleteDelivered
PROPERTIES EverythingTaken
