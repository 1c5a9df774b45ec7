----------------------------- MODULE MCRouteSearch -----------------------------
(***************************************************************************)
(* A small multimodal network for TLC: an origin A, hubs X and H and a     *)
(* destination B, with parallel edges A -> X, a dear direct edge A -> H, a *)
(* way back X -> A, a direct flight, and edges of a sanctioned and of a    *)
(* retired carrier.                                                        *)
(***************************************************************************)
EXTENDS RouteSearchClaims, TLC

MCNodes == {"A", "X", "H", "B"}

MCCarriers == {"c1", "c2"}

MCTicksPerHour == 2

E(from, to, mode, carrier, cost, transit) ==
    [from |-> from, to |-> to, mode |-> mode, carrier_code |-> carrier,
     distance_km |-> 1, base_cost_usd |-> cost, cost_per_kg |-> 1, transit |-> transit,
     carbon_per_tonne_km |-> 1, carrier_wage_cents |-> 1500, carrier_safety_rating |-> 3,
     carrier_unionized |-> FALSE, carrier_sanctioned |-> FALSE, active |-> TRUE]

\* Transit times in half hours: 1 is a leg shorter than the whole hours the
\* clocks move by.
MCEdge ==
    "AXsea"  :> E("A", "X", "Maritime", "c1", 0, 9) @@
    "AXrail" :> E("A", "X", "Rail", "c1", 1, 5) @@
    "AXroad" :> E("A", "X", "Road", "c1", 1, 4) @@
    "XHroad" :> E("X", "H", "Road", "c1", 0, 3) @@
    "XAroad" :> E("X", "A", "Road", "c2", 0, 1) @@
    "AHrail" :> E("A", "H", "Rail", "c2", 6, 7) @@
    "HBroad" :> E("H", "B", "Road", "c1", 0, 3) @@
    "HBrail" :> E("H", "B", "Rail", "c2", 1, 1) @@
    "ABair"  :> E("A", "B", "Air", "c2", 9, 1) @@
    "ABbad"  :> [E("A", "B", "Road", "c1", 0, 2) EXCEPT !.carrier_sanctioned = TRUE] @@
    "HBold"  :> [E("H", "B", "Road", "c1", 0, 2) EXCEPT !.active = FALSE]

MCEdges == DOMAIN MCEdge

\* Every combination of the request's parameters over small ranges.  k is 0,
\* 3 or 6; the windows run from already closed to ample.
MCRequests ==
    [origin : {"A", "H"}, destination : {"A", "B"}, weight_kg : {1},
     deliver_by : {-1, 4, 20, 60, 400}, max_routes : 0..2, max_segments : 0..4,
     allowed_modes : {{}, {"Rail", "Road"}}, excluded_carriers : {{}, {"c2"}}]

\* Surface modes, ample time, at most two legs.
TwoLegRequest ==
    [origin : {"A"}, destination : {"B"}, weight_kg : {1},
     deliver_by : {400}, max_routes : {1}, max_segments : {2},
     allowed_modes : {{"Maritime", "Rail", "Road"}}, excluded_carriers : {{}}]

\* Rail only: A -> H -> B is 4 hours under way, and the windows leave 5 to 8.
RailRequests ==
    [origin : {"A"}, destination : {"B"}, weight_kg : {1},
     deliver_by : 10..16, max_routes : {1}, max_segments : {3},
     allowed_modes : {{"Rail"}}, excluded_carriers : {{}}]
===============================================================================
