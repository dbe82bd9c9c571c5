SPECIFICATION Spec
CONSTANTS
    u1 = u1
    User = {u1}
    Process = {p1, p2}
    DayLength = 2
    LastHour = 5
    BornOn <- BornFirstDay
    Ends <- EndsSoon
    NoEnd = NoEnd
    NoUser = NoUser
    MaxRuns = 3
    MaxTouches = 1
SYMMETRY Symmetry
INVARIANTS RemindedOnce RenewalAnnounced
CHECK_DEADLOCK FALSE
