CONSTANTS
    Owner = owner
    Host = host
    Writer = {w1, w2}
    None = none
    x = x
    y = y
    Frames <- SomeFrames
    MaxChanged = 1
    MaxSentStates = 4
    MaxFrames = 3
SYMMETRY AnyWriter
SPECIFICATION Spec
INVARIANTS GridIsPeers FramesWholeInOrder StepAlwaysFits
CHECK_DEADLOCK FALSE
