CONSTANTS
    Nodes <- MCNodes
    Edges <- MCEdges
    Carriers <- MCCarriers
    Edge <- MCEdge
    TicksPerHour <- MCTicksPerHour
    Requests <- RailRequests
SPECIFICATION Spec
INVARIANT
    OnTimeWalkOffered
\* The loop ends and the call returns.
CHECK_DEADLOCK FALSE
