SPECIFICATION Spec
CONSTANTS
    Account = {a1}
    Phone = {p1}
    Vehicle = {v1, v2}
    Address = {h1}
    MaxCodes = 2
    MaxRequests = 5
    Worker = {w1, w2}
    NoPhone = NoPhone
    NoAccount = NoAccount
    NoItem = NoItem
SYMMETRY Symmetry
INVARIANTS CodeOpensOnce OneDefault DeletedStaysDeleted ErasedStaysErased
CHECK_DEADLOCK FALSE
