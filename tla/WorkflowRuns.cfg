CONSTANTS
    Proc = {p1, p2}
    NoProc = none
    MaxGates = 1
    MaxCancels = 2
    MaxFrames = 2
    Readable = TRUE
SPECIFICATION OneLoad
INVARIANTS RunningHasRunner LiveRunSpared
PROPERTIES OutcomeKept OrphanSettles
CHECK_DEADLOCK FALSE
