SPECIFICATION LoyaltySpec
CONSTANTS
    b1 = b1
    b2 = b2
    o1 = o1
    ann = ann
    bob = bob
    cat = cat
    r1 = r1
    r2 = r2
    Payment = {b1, b2, o1}
    User = {ann, bob, cat}
    Owner <- Owners
    Amount <- Amounts
    Method <- Cards
    TopUp = {1}
    Worker = {w1, w2}
    MaxEntries = 0
    MaxDeclines = 0
    MaxFaults = 1
    NoPayment = NoPayment
    NoUser = NoUser
    NoWorker = NoWorker
    NoEvent = NoEvent
    Booked = {b1, b2}
    Referral = {r1, r2}
    Referrer <- By
    Referee <- Of
    Threshold = {0, 2}
    NoReferral = NoReferral
SYMMETRY Symmetry
INVARIANTS PointsAccounted TierEarned FirstBookingRewardsReferral
CHECK_DEADLOCK FALSE
