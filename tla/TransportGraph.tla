---------------------------- MODULE TransportGraph ----------------------------
(***************************************************************************)
(* The in-memory transport network the optimizer searches                  *)
(* (rust-routing graph/mod.rs): nodes, and directed edges that carry a     *)
(* mode, a carrier, a cost and a transit time.  The graph of one call is   *)
(* fixed (the handler holds the read lock for the whole call), so it is a  *)
(* constant here; GraphService models how the graph itself is replaced.    *)
(*                                                                         *)
(* Times are counted in ticks, TicksPerHour to the hour, because the code  *)
(* adds fractional hours but moves its clocks by whole ones.               *)
(***************************************************************************)
EXTENDS Integers, Sequences, FiniteSets

CONSTANTS
    Nodes,         \* the nodes of the graph
    Edges,         \* the edges of the graph, parallel edges included
    Carriers,      \* carrier codes
    Edge,          \* Edge[e]: the weight and the end points of edge e
    TicksPerHour   \* how finely the model divides an hour

TransportMode == {"Maritime", "Rail", "Road", "Air"}

\* Costs, distances and transit times are what db/mod.rs reads from rows that
\* hold non-negative numbers.
TransportEdge ==
    [from : Nodes, to : Nodes, mode : TransportMode, carrier_code : Carriers,
     distance_km : Nat, base_cost_usd : Nat, cost_per_kg : Nat, transit : Nat,
     carbon_per_tonne_km : Nat, carrier_wage_cents : Nat, carrier_safety_rating : 0..5,
     carrier_unionized : BOOLEAN, carrier_sanctioned : BOOLEAN, active : BOOLEAN]

ASSUME GraphAssumption ==
    /\ IsFiniteSet(Nodes) /\ IsFiniteSet(Edges)
    /\ Edge \in [Edges -> TransportEdge]
    /\ TicksPerHour \in Nat \ {0}

\* graph.edges(node): the edges that leave a node.
edges_from(n) == {e \in Edges : Edge[e].from = n}

calculate_cost(e, weight_kg) ==
    Edge[e].base_cost_usd + Edge[e].cost_per_kg * weight_kg

\* In the unit in which the model counts carbon.
calculate_carbon(e, weight_kg) ==
    Edge[e].distance_km * weight_kg * Edge[e].carbon_per_tonne_km

\* 0.4 wages, 0.4 safety and 0.2 unions, over a common denominator: a score of
\* 1.0 is 5 * min_wage, exactly so where min_wage is a multiple of 10.
labor_score(e, min_wage) ==
    LET wage == IF Edge[e].carrier_wage_cents < 2 * min_wage
                THEN Edge[e].carrier_wage_cents ELSE 2 * min_wage
    IN  wage + 2 * ((min_wage * Edge[e].carrier_safety_rating) \div 5)
             + (IF Edge[e].carrier_unionized THEN min_wage ELSE min_wage \div 2)

\* The match is symmetric in its two modes; equal modes other than Air fall
\* through to the last arm.
mode_transfer_hours(from, to) ==
    LET pair == {from, to}
    IN  CASE "Air" \in pair              -> 4
          [] pair = {"Maritime", "Rail"} -> 24
          [] pair = {"Maritime", "Road"} -> 12
          [] pair = {"Rail", "Road"}     -> 6
          [] OTHER                       -> 2

\* Duration::hours(t as i64): the whole hours of t ticks, again in ticks.
WholeHours(t) == (t \div TicksPerHour) * TicksPerHour

TransferTicks(from, to) == mode_transfer_hours(from, to) * TicksPerHour
===============================================================================
