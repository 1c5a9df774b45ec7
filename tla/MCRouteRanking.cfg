CONSTANTS
    CandidateLists <- MCCandidateLists
    Requests <- MCRequests
    TimeUnit <- MCTimeUnit
    CarbonUnit <- MCCarbonUnit
    LaborScale <- MCLaborScale
    DefaultWage <- MCDefaultWage
SPECIFICATION Spec
INVARIANTS
    TypeOK
    CountsExact
    NoCycle
    RanksAreFronts
    OptimalIsUndominated
    DominatorsFirst
PROPERTY
    Termination
\* The call returns.
CHECK_DEADLOCK FALSE
