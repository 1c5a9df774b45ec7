CONSTANTS
    Requests = {q1, q2, q3}
    Shipments = {s1, s2}
    Routes = {r1, r2, r3}
    MaxRoutes = 2
    None = None
SPECIFICATION Spec
SYMMETRY Symmetry
INVARIANT RouteSelectedIsTrue
\* Every request may have been answered.
CHECK_DEADLOCK FALSE
