\* A list of carriers to avoid, by the field of the carrier.
CONSTANTS
    Depth <- MCDepth
    Batches <- MCBatches
    RouteSet <- MCRoutes
    Arguments <- MCArguments
SPECIFICATION Spec
INVARIANT NotInSetMeans
CHECK_DEADLOCK FALSE
