CONSTANTS
    Turns = {t1, t2}
    NoTurn = none
    MaxOpens = 2
    MaxCloses = 1
SPECIFICATION FairSpec
INVARIANTS TurnsSerialized OneChild AnswerIsOwn ResetSticks
PROPERTIES AbortedEnds
CHECK_DEADLOCK FALSE
