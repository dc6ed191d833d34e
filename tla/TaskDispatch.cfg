CONSTANTS
    Calls = {c1}
    NoCall = none
    TaskOf <- OneTask
    AbortIdOf <- OneAbort
    MaxResets = 1
    MaxPending = 2
    Concurrency = 1
    LinkCapacity = 1
    MaxCrashes = 1
    MaxOutages = 1
    MaxHolds = 1
SPECIFICATION FairSpec
INVARIANTS RunsReachable NothingStranded OutcomeIsItsOwn
PROPERTIES AbortEnds SilentReaped AbortedRunStops
CHECK_DEADLOCK FALSE
