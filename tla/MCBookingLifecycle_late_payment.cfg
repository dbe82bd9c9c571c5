SPECIFICATION LifecycleSpec
CONSTANTS
    Slot = {s1}
    ActiveSlot = {s1}
    Capacity <- OneSeat
    BookingId = {b1, b2}
    CardBooking = {b1, b2}
    Customer = {c1}
    Admin = {}
    Key = {}
    Worker = {w1, w2}
    Staff = {}
    NoStaff = NoStaff
    NoSlot = NoSlot
    NoBooking = NoBooking
    NoUser = NoUser
    NoKey = NoKey
    NoWorker = NoWorker
    GivenUp = GivenUp
INVARIANT NoOversell
CHECK_DEADLOCK FALSE
