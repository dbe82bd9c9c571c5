SPECIFICATION Spec
CONSTANTS
    phone = phone
    desk = desk
    app = app
    m1 = m1
    boss = boss
    ann = ann
    Conn = {phone, desk, app}
    UserOf <- Users
    Owner = ann
    Staff = {m1, m2}
    Admin = {boss}
    Lifetime = 2
    Patience = 1
    Room = 1
    NoEta = NoEta
    LastMoment = 3
    MaxPings = 3
    MaxMoves = 3
INVARIANTS HttpKeepsUp EstimateIsRecent
CHECK_DEADLOCK FALSE
