SPECIFICATION ReservationSpec
CONSTANTS
    Proc = {p1, p2}
    NoProc = NoProc
    ReservationBlock = 2
    MaxSeq = 6
    MaxKeys = 2
SYMMETRY Processes
INVARIANTS NeverRewinds ReservedBeforeUse IdentityKept
