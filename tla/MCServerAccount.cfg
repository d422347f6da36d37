SPECIFICATION Spec
SYMMETRY Symmetry
CONSTANTS
    Worker = {w1, w2}
    Host = {h1, h2}
    Tel = {t1}
    VerifyTel = {t1, t2}
    FormerTel = {t2}
    Usernum = {}
    Empty = Empty
    Value = {v1, v2}
    First = v1
    TooLong = TooLong
    New = {v2}
    Nil = Nil
    Id = {0, 1}
    MaxRequests = 4
    MaxSweeps = 1
INVARIANTS
    TypeOK
    OneAccountPerCode
    NothingLost
    
    KeptNodeStays
PROPERTIES
    OnlyOwnerChanges
CHECK_DEADLOCK FALSE
