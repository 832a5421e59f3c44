SPECIFICATION FairSpec
CONSTANTS
    n1 = n1
    n2 = n2
    n3 = n3
    n4 = n4
    Nodes <- MCNodes
    Slots = 2
    None = None
CHECK_DEADLOCK FALSE
INVARIANTS
    TypeOK
    SendNeverBlocks
    NoneMeansAllFailed
    EachMeasuredOnce
PROPERTY Returns
