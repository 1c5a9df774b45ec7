CONSTANTS
    Nodes <- MCNodes
    Edges <- MCEdges
    Ends <- MCEnds
    Operators <- MCOperators
    Readers <- MCReaders
    MaxWrites = 1
SPECIFICATION Spec
INVARIANTS
    TypeOK
    LockSafe
    NoLockAcrossQuery
    SteadyEdgesServed
PROPERTIES
    ImplementsStore
    WaitersServed
    EventuallyFresh
