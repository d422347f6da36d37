SPECIFICATION Spec
CONSTANTS
    m = m
    Main = m
    w1 = w1
    w2 = w2
    s1 = s1
    s2 = s2
    query = query
    port = port
    zero = zero
    Granule = 1
    ItemNum = 1
    Worker = {w1, w2}
    Sender = {s1}
    Flag = {query, port, zero}
    Registered <- MCRegistered
    RegisteredAf <- MCRegisteredAf
    MayBeSilent = {query}
    ZeroFlag = zero
    MaxRecv = 3
SYMMETRY MCSymmetry
INVARIANTS
    TypeOK
    OneOwner
    TokensMatch
    NullOnlyAfterRefusal
    NoUseAfterFree
    ProcessedOnce
