----------------------------- MODULE MCRouteRanking -----------------------------
(***************************************************************************)
(* Up to four candidates in order of cost, as the search returns them,     *)
(* from nine combinations of objectives (equal routes and chains of three  *)
(* included) and two routes that fail a hard constraint.                   *)
(***************************************************************************)
EXTENDS RouteRanking

MCTimeUnit == 1

MCCarbonUnit == 1

MCLaborScale == 2

MCDefaultWage == 800

Objectives ==
    [cost : {1, 2}, time : {1, 2}, carbon : {1}, labor : {0, 2}, wage : {800}]

Greener == [cost |-> 2, time |-> 2, carbon |-> 0, labor |-> 2, wage |-> 900]

Late == [cost |-> 1, time |-> 3, carbon |-> 0, labor |-> 2, wage |-> 900]

Underpaid == [cost |-> 2, time |-> 1, carbon |-> 0, labor |-> 2, wage |-> 799]

\* Lists of at most n candidates in order of cost.
MCCandidateLists ==
    {s \in UNION {[1..n -> Objectives \cup {Greener, Late, Underpaid}] : n \in {0, 3}} :
        \A i \in 1..Len(s) - 1 : s[i].cost <= s[i + 1].cost}
    \cup {s \in [1..4 -> {o \in Objectives : o.cost = o.time} \cup {Greener}] :
        \A i \in 1..3 : s[i].cost <= s[i + 1].cost}

\* The HTTP defaults (0.4, 0.3, 0.2, 0.1), cost only, and the zeros of a gRPC
\* request that sets no weight.
MCRequests ==
    [weight : {[cost |-> 4, time |-> 3, carbon |-> 2, labor |-> 1],
               [cost |-> 1, time |-> 0, carbon |-> 0, labor |-> 0],
               [cost |-> 0, time |-> 0, carbon |-> 0, labor |-> 0]},
     window : {2}, max_routes : {1, 2}]
================================================================================
