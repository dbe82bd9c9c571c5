SPECIFICATION FairSpec
CONSTANTS
    Subscription = {s1, s2}
    User = {u1}
    Worker = {w1, w2}
    MaxEvents = 2
    MaxAborts = 1
    NoUser = NoUser
    NoSubscription = NoSubscription
INVARIANTS InStepWithStripe CancelledIsNotBilled 
PROPERTY CancellationArrives
CHECK_DEADLOCK FALSE
