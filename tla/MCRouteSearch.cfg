CONSTANTS
    Nodes <- MCNodes
    Edges <- MCEdges
    Carriers <- MCCarriers
    Edge <- MCEdge
    TicksPerHour <- MCTicksPerHour
    Requests <- MCRequests
SPECIFICATION Spec
INVARIANTS
    TypeOK
    PathsAdmissible
    ScheduledInWindow
    CheapestFirst
    NoWalkTwice
    TopK
    WorkBound
    ScheduleIsRoutes
PROPERTY
    Termination
\* The loop ends and the call returns.
CHECK_DEADLOCK FALSE
