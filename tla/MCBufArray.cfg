SPECIFICATION Spec
CONSTANTS
    Granule = 2
    NumItems <- MCNumItems
    NMallocs <- MCNMallocs
    NumBuffers = 5
INVARIANTS
    TypeOK
    ItemsConserved
    CountOfContained
PROPERTY
    ImplementsFifo
