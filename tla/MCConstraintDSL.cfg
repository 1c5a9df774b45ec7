\* Every small expression and every pair of templates on every small route.
CONSTANTS
    Depth <- MCDepth
    Batches <- MCBatches
    RouteSet <- MCRoutes
    Arguments <- MCArguments
SPECIFICATION Spec
INVARIANTS
    TypeOK
    VerdictsMean
    TemplatesMean
\* Every constraint of the list has its result.
CHECK_DEADLOCK FALSE
