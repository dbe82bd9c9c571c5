SPECIFICATION FairLifecycle
CONSTANTS
    Slot = {s1}
    ActiveSlot = {s1}
    Capacity <- OneSeat
    BookingId = {b1, b2}
    CardBooking = {b1}
    Customer = {c1}
    Admin = {}
    Key = {}
    Worker = {w1, w2}
    Staff = {m1}
    NoStaff = NoStaff
    NoSlot = NoSlot
    NoBooking = NoBooking
    NoUser = NoUser
    NoKey = NoKey
    NoWorker = NoWorker
    GivenUp = GivenUp
INVARIANTS BookingMirrorsJob FinishedStaysFinished LeftWithinCapacity
PROPERTIES JobsMoveForward EveryDutyAnswered
CHECK_DEADLOCK FALSE
