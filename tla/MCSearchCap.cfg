CONSTANTS
    Nodes <- MCNodes
    Edges <- MCEdges
    Carriers <- MCCarriers
    Edge <- MCEdge
    TicksPerHour <- MCTicksPerHour
    Requests <- TwoLegRequest
SPECIFICATION Spec
INVARIANT
    FeasibleWalkOffered
\* The loop ends and the call returns.
CHECK_DEADLOCK FALSE
