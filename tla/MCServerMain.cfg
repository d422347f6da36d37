SPECIFICATION Spec
CONSTANT FileNum = 2
INVARIANTS
    ReleasedOnce
    KeptWhileUsed
    EndsClean
