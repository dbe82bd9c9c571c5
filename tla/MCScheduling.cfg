SPECIFICATION FairSpec
CONSTANTS
    s1 = s1
    s2 = s2
    closed = closed
    Slot = {s1, s2, closed}
    ActiveSlot = {s1, s2}
    Capacity <- TwoSeats
    BookingId = {b1, b2, b3}
    Customer = {c1, c2}
    Admin = {}
    Key = {}
    Worker = {w1, w2}
    NoSlot = NoSlot
    NoBooking = NoBooking
    NoUser = NoUser
    NoKey = NoKey
    NoWorker = NoWorker
    GivenUp = GivenUp
INVARIANTS TypeOK ReadsStayFresh NoOversell SeatsAccounted
PROPERTIES RefinesLedger EveryRequestAnswered
CHECK_DEADLOCK FALSE
