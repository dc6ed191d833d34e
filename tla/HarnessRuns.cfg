CONSTANTS
    Run = {r1, r2}
    MaxRuns = 1
    MaxPending = 1
SPECIFICATION FairSpec
INVARIANTS GrantIffRetiring OutcomeShown
PROPERTIES GrantReturned
CHECK_DEADLOCK FALSE
