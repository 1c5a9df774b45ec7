CONSTANTS
    Nodes <- MCNodes
    Edges <- MCEdges
    Carriers <- MCCarriers
    Edge <- MCEdge
    TicksPerHour <- MCTicksPerHour
    DefaultWage <- MCDefaultWage
    Calls <- MCCalls
    DefaultHours <- MCDefaultHours
    UsizeLimit <- MCUsizeLimit
    CarbonUnit <- MCCarbonUnit
    LegScale <- MCLegScale
SPECIFICATION Spec
INVARIANTS
    TypeOK
    EvaluationAgrees
PROPERTIES
    ImplementsCall
    EveryCallAnswered
\* The call has been answered and an evaluation too.
CHECK_DEADLOCK FALSE
