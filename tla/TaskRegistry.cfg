CONSTANTS
    a = a
    b = b
    Task = {t1, t2, t3}
    Grant <- TwoGrants
    MaxInFlight <- OneAndTwo
    MaxInFlightGlobal = 2
    MaxEntries = 2
SPECIFICATION RegistryFairSpec
INVARIANTS WorkReachable NotMisled
PROPERTIES WaiterWoken
CHECK_DEADLOCK FALSE
