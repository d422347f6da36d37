SPECIFICATION AccountSpec
CONSTANTS
    Acct = {0, 1, 2}
    Former = {0, 2}
    Elsewhere = {2}
    First = first
    Value = {first, v2, garbage}
    Garbage = garbage
    TooLong = toolong
    New = {v2, toolong}
    Nil = nil
    MaxRequests = 3
    MaxTimes = 2
INVARIANTS
    CopiesAgree
CHECK_DEADLOCK FALSE
