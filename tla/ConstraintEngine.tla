--------------------------- MODULE ConstraintEngine ---------------------------
(***************************************************************************)
(* ConstraintEngine (rust-routing constraints/mod.rs): what evaluate_route *)
(* says of a route.  The three hard checks are always made; a soft check   *)
(* is made where the request sets its limit, and its result goes by the    *)
(* name of the limit.  A hard check scores 1.0 or 0.0 as it passed; the    *)
(* scores of the soft checks decide nothing and are left out.              *)
(***************************************************************************)
EXTENDS Integers, Sequences, FiniteSets

CONSTANT DefaultWage      \* the minimum wage where the cache has none

\* min_wages maps what the code looks up, the node code of a segment.
EmptyCache == [min_wages |-> <<>>, sanctioned_carriers |-> {}]

MinWage(cache, node) ==
    IF node \in DOMAIN cache.min_wages THEN cache.min_wages[node] ELSE DefaultWage

check_sanction_constraint(cache, route) ==
    \A i \in DOMAIN route.segments :
        route.segments[i].carrier_code \notin cache.sanctioned_carriers

MutCheckWageConstraint(cache, route) ==
    \A i \in DOMAIN route.segments :
        route.segments[i].carrier_wage_cents > MinWage(cache, route.segments[i].to_node)

check_wage_constraint(cache, route) ==
    \A i \in DOMAIN route.segments :
        route.segments[i].carrier_wage_cents >= MinWage(cache, route.segments[i].to_node)

\* window: the whole hours between pickup and deadline.
check_time_constraint(route, window) == route.total_time_hours <= window

HardResults(cache, route, window) ==
    { [id |-> "sanction-check", is_hard |-> TRUE,
       passed |-> check_sanction_constraint(cache, route)],
      [id |-> "wage-minimum", is_hard |-> TRUE,
       passed |-> check_wage_constraint(cache, route)],
      [id |-> "time-window", is_hard |-> TRUE,
       passed |-> check_time_constraint(route, window)] }

WithinLimit(route, limit, bound) ==
    CASE limit = "max_cost_usd"    -> route.total_cost_usd <= bound
      [] limit = "max_carbon_kg"   -> route.total_carbon_kg <= bound
      [] limit = "min_labor_score" -> route.labor_score >= bound

\* limits: the bounds of the soft limits that are set.
evaluate_route(cache, route, window, limits) ==
    HardResults(cache, route, window) \cup
    {[id |-> l, is_hard |-> FALSE, passed |-> WithinLimit(route, l, limits[l])] :
        l \in DOMAIN limits}

AllHardPassed(results) == \A r \in results : r.is_hard => r.passed
===============================================================================
