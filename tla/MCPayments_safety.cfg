SPECIFICATION Spec
CONSTANTS
    card = card
    wallet = wallet
    cash = cash
    u1 = u1
    Payment = {card, wallet, cash}
    User = {u1}
    Owner <- OneOwner
    Amount <- Two
    Method <- ByName
    TopUp = {1, 3}
    Worker = {w1, w2}
    MaxEntries = 3
    MaxDeclines = 0
    MaxFaults = 0
    NoPayment = NoPayment
    NoUser = NoUser
    NoWorker = NoWorker
    NoEvent = NoEvent
SYMMETRY Symmetry
INVARIANTS TypeOK WalletReadsStayFresh WalletLedger SucceededIsFunded
CHECK_DEADLOCK FALSE
