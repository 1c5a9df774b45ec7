CONSTANTS
    Requests <- MCRequests
SPECIFICATION Spec
INVARIANTS
    TypeOK
    HealthOfStart
PROPERTIES
    ApiServes
    OptimizerServes
    CallsRecover
