SPECIFICATION FairGuiSpec
CONSTANTS
    Timeout = 1
    MaxNumber = 3
INVARIANTS
    
    
    CalledAsMeant
PROPERTY
    WaitingEnds
CHECK_DEADLOCK FALSE
