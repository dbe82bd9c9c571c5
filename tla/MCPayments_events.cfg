SPECIFICATION FairSpec
CONSTANTS
    card = card
    wallet = wallet
    cash = cash
    u1 = u1
    Payment = {card}
    User = {u1}
    Owner <- OneOwner
    Amount <- Two
    Method <- ByName
    TopUp = {1}
    Worker = {w1, w2}
    MaxEntries = 0
    MaxDeclines = 2
    MaxFaults = 2
    NoPayment = NoPayment
    NoUser = NoUser
    NoWorker = NoWorker
    NoEvent = NoEvent
INVARIANT FulfilledOnce
PROPERTIES EveryEventAnswered CapturedIsFulfilled
CHECK_DEADLOCK FALSE
