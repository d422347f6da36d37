SPECIFICATION FairSpec
CONSTANTS
    Granule = 1
    ItemNum = 2
    Main = Main
    Recv = Recv
    Work = Work
    MaxAsked = 2
    MaxReceived = 1
INVARIANTS
    TypeOK
    InOrder
PROPERTIES
    AppendedIsProcessed
    ShutdownEnds
CHECK_DEADLOCK FALSE
