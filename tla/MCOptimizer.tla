------------------------------ MODULE MCOptimizer ------------------------------
(***************************************************************************)
(* A network of at most two legs between A and B, with walks that trade    *)
(* cost, time and labor, one that pays too little, one of a sanctioned     *)
(* carrier; and calls over both protocols that set some fields and not     *)
(* others, out of range ones included.                                     *)
(***************************************************************************)
EXTENDS Optimizer, TLC

MCNodes == {"A", "X", "B"}

MCCarriers == {"c1", "c2", "c3"}

MCTicksPerHour == 2

\* 15 hours in place of 720.
MCDefaultHours == 15

MCUsizeLimit == 1000

MCCarbonUnit == 1

MCLegScale == 2

MCDefaultWage == 800

E(from, to, mode, carrier, cost, transit, carbon, wage) ==
    [from |-> from, to |-> to, mode |-> mode, carrier_code |-> carrier,
     distance_km |-> 1, base_cost_usd |-> cost, cost_per_kg |-> 1, transit |-> transit,
     carbon_per_tonne_km |-> carbon, carrier_wage_cents |-> wage,
     carrier_safety_rating |-> 3, carrier_unionized |-> FALSE,
     carrier_sanctioned |-> FALSE, active |-> TRUE]

MCEdge ==
    "AXrail"   :> E("A", "X", "Rail", "c1", 1, 7, 1, 1600) @@
    "AXroad"   :> E("A", "X", "Road", "c2", 2, 9, 2, 800) @@
    "XBroad"   :> E("X", "B", "Road", "c1", 1, 5, 2, 1500) @@
    "XBcheap"  :> E("X", "B", "Road", "c3", 0, 5, 1, 799) @@
    "ABair"    :> E("A", "B", "Air", "c2", 9, 3, 6, 3000) @@
    "ABslow"   :> E("A", "B", "Maritime", "c1", 1, 33, 0, 1500) @@
    "ABbad"    :> [E("A", "B", "Road", "c3", 0, 2, 0, 1500) EXCEPT !.carrier_sanctioned = TRUE]

MCEdges == DOMAIN MCEdge

Shipment == [shipment_id |-> "s", weight_kg |-> 1, volume_m3 |-> 1]

HttpBody == Shipment @@ [origin_code |-> "A", destination_code |-> "B"]

GrpcBody == Shipment @@ [origin_port |-> "A", destination_port |-> "B",
                         max_routes |-> 2, max_segments |-> 2]

Weighted == [cost_weight |-> 4, time_weight |-> 3, carbon_weight |-> 2, labor_weight |-> 1]

\* Fields set on top of a complete body, and fields left out of it.
Settings ==
    { <<>>, Weighted, [cost_weight |-> 1],
      [max_routes |-> 0], [max_routes |-> 1] @@ Weighted, [max_routes |-> 3] @@ Weighted,
      [max_routes |-> -1], [max_segments |-> 0], [max_segments |-> 1], [max_segments |-> -1],
      [weight_kg |-> 0], [weight_kg |-> 3] @@ Weighted,
      [allowed_modes |-> {"Rail", "Road"}], [allowed_modes |-> {"Ship"}],
      [allowed_modes |-> {"Ship", "Road"}],
      [excluded_carriers |-> {"c1"}], [excluded_carriers |-> {"c1", "c2", "c3"}],
      [max_cost_usd |-> 4, max_carbon_kg |-> 2, min_labor_score |-> 15000] }

Windows ==
    { <<>> } \cup {[deliver_by |-> d] : d \in {-1, 16, 24, 80}}
    \cup {[pickup_after |-> 5], [pickup_after |-> 40], [pickup_after |-> 10, deliver_by |-> 30]}

Without(body, fields) == [f \in DOMAIN body \ fields |-> body[f]]

\* The camelCase fields in which the Deno API writes its calls.
DenoBody ==
    [shipmentId |-> "s", originPort |-> "A", destinationPort |-> "B", weightKg |-> 1,
     volumeM3 |-> 1, maxRoutes |-> 10, maxSegments |-> 8]

MCCalls ==
    [via : {"http"}, body : {s @@ w @@ HttpBody : s \in Settings, w \in Windows}]
    \cup [via : {"grpc"}, body : {s @@ w @@ GrpcBody : s \in Settings, w \in Windows}]
    \cup [via : {"http", "grpc"},
          body : {DenoBody, [destination_code |-> "Z", destination_port |-> "Z"] @@ HttpBody @@ GrpcBody,
                  Without(HttpBody, {"volume_m3"}), Without(GrpcBody, {"max_routes"}),
                  Without(GrpcBody, {"max_segments"}), Without(GrpcBody, {"origin_port"})}]
================================================================================
