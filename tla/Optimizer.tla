------------------------------- MODULE Optimizer -------------------------------
(***************************************************************************)
(* One call of the route optimizer, from the fields on the wire to the     *)
(* answer: optimize_handler (main.rs, HTTP) and optimize_routes            *)
(* (grpc/mod.rs) parse the call, Optimizer::optimize runs the search and   *)
(* the ranking (instances of RouteSearch and RouteRanking), and the        *)
(* handler converts the routes.  The client may then have the service      *)
(* evaluate a route it was given (evaluate_constraints).                   *)
(*                                                                         *)
(* A call is [via, body], body the fields that are set; times are ticks    *)
(* from the instant of the call.  An unreadable date counts as unset, and  *)
(* the names of modes are compared regardless of case.                     *)
(***************************************************************************)
EXTENDS TransportGraph, ConstraintEngine, FiniteSetsExt, Sums

CONSTANTS
    Calls,
    DefaultHours,    \* the window of a call without a deadline: 30 days
    UsizeLimit,      \* 2^64: a negative int32 as usize is this much larger
    CarbonUnit,      \* one kilogram of carbon
    LegScale         \* how finely the mean labor score of a route is kept

\* Fields that hold numbers of either sign; the client may set any of them.
NumberFields ==
    {"max_routes", "max_segments", "pickup_after", "deliver_by",
     "cost_weight", "time_weight", "carbon_weight", "labor_weight"}

\* A shipment weighs something (db/schemas/surrealdb.surql asserts it, this
\* service does not check).
ASSUME OptimizerAssumption ==
    /\ \A c \in Calls :
          /\ c.via \in {"http", "grpc"}
          /\ \A f \in DOMAIN c.body \cap NumberFields : c.body[f] \in Int
          /\ "weight_kg" \in DOMAIN c.body => c.body["weight_kg"] \in Nat
          /\ "excluded_carriers" \in DOMAIN c.body =>
                c.body["excluded_carriers"] \subseteq Carriers
    /\ DefaultWage \in Nat \ {0}
    /\ {DefaultHours, UsizeLimit, CarbonUnit, LegScale} \subseteq Nat \ {0}

VARIABLES
    call,
    heap, visited_counts, paths, search_status,         \* of RouteSearch
    routes,          \* the candidate routes, with their constraint_results
    dominated_count, ranks, pareto_optimal, remaining,  \* of RouteRanking
    non_dominated, current_rank, ranking_status, result,
    answer,          \* what the client receives
    evaluation       \* what evaluate_constraints answered

searchVars == <<heap, visited_counts, paths, search_status>>

rankingVars == <<dominated_count, ranks, pareto_optimal, remaining, non_dominated,
                 current_rank, ranking_status, result>>

vars == <<call, searchVars, routes, rankingVars, answer, evaluation>>
-------------------------------------------------------------------------------
(***************************************************************************)
(* The request.                                                            *)
(***************************************************************************)
Field(f, unset) == IF f \in DOMAIN call.body THEN call.body[f] ELSE unset

DefaultWindow == DefaultHours * TicksPerHour

\* What serde demands of the JSON; usize fields take no negative number.
Deserializes ==
    /\ {"shipment_id", "origin_code", "destination_code", "weight_kg", "volume_m3"}
          \subseteq DOMAIN call.body
    /\ Field("max_routes", 10) >= 0 /\ Field("max_segments", 8) >= 0

pickup_after == Field("pickup_after", 0)

\* The deadline of a call without one is counted from the call, not from the
\* pickup.
deliver_by == Field("deliver_by", DefaultWindow)

allowed_modes == Field("allowed_modes", {}) \cap TransportMode

\* The soft limits that are set.
limits == Restrict(call.body, DOMAIN call.body \cap
                                {"max_cost_usd", "max_carbon_kg", "min_labor_score"})

\* Weights in tenths.
HttpRequest ==
    [origin_code       |-> Field("origin_code", ""),
     destination_code  |-> Field("destination_code", ""),
     weight_kg         |-> Field("weight_kg", 0),
     pickup_after      |-> pickup_after,
     deliver_by        |-> deliver_by,
     max_routes        |-> Field("max_routes", 10),
     max_segments      |-> Field("max_segments", 8),
     allowed_modes     |-> allowed_modes,
     excluded_carriers |-> Field("excluded_carriers", {}),
     limits            |-> limits,
     weight |-> [cost   |-> Field("cost_weight", 4),   time  |-> Field("time_weight", 3),
                 carbon |-> Field("carbon_weight", 2), labor |-> Field("labor_weight", 1)]]

AsUsize(n) == n % UsizeLimit

\* What a gRPC client leaves unset is zero or empty.
GrpcRequest ==
    [origin_code       |-> Field("origin_port", ""),
     destination_code  |-> Field("destination_port", ""),
     weight_kg         |-> Field("weight_kg", 0),
     pickup_after      |-> pickup_after,
     deliver_by        |-> deliver_by,
     max_routes        |-> AsUsize(Field("max_routes", 0)),
     max_segments      |-> AsUsize(Field("max_segments", 0)),
     allowed_modes     |-> allowed_modes,
     excluded_carriers |-> Field("excluded_carriers", {}),
     limits            |-> limits,
     weight |-> [cost   |-> Field("cost_weight", 0),   time  |-> Field("time_weight", 0),
                 carbon |-> Field("carbon_weight", 0), labor |-> Field("labor_weight", 0)]]

internal_request == IF call.via = "http" THEN HttpRequest ELSE GrpcRequest

MutSearchRequest ==
    LET r == internal_request
    IN  [origin            |-> r.origin_code,
         destination       |-> r.destination_code,
         weight_kg         |-> r.weight_kg,
         deliver_by        |-> r.deliver_by,
         max_routes        |-> r.max_routes,
         max_segments      |-> r.max_segments,
         allowed_modes     |-> r.allowed_modes,
         excluded_carriers |-> r.excluded_carriers]

\* The search's clock starts at the pickup.
SearchRequest ==
    LET r == internal_request
    IN  [origin            |-> r.origin_code,
         destination       |-> r.destination_code,
         weight_kg         |-> r.weight_kg,
         deliver_by        |-> r.deliver_by - r.pickup_after,
         max_routes        |-> r.max_routes,
         max_segments      |-> r.max_segments,
         allowed_modes     |-> r.allowed_modes,
         excluded_carriers |-> r.excluded_carriers]

\* num_hours() truncates toward zero.
window ==
    LET t == internal_request.deliver_by - internal_request.pickup_after
    IN  IF t >= 0 THEN WholeHours(t) ELSE -WholeHours(-t)

\* Requests serves RouteSearch's own Init and TypeOK, which are not used here.
Search == INSTANCE RouteSearch WITH
    Requests <- {}, request <- SearchRequest, status <- search_status
-------------------------------------------------------------------------------
(***************************************************************************)
(* Routes.                                                                 *)
(***************************************************************************)
CountryMinWage == 1500

LaborScale == LegScale * 5 * CountryMinWage

\* path_to_route names the carrier of the previous leg as the node a later leg
\* starts from.
Segment(p, i) ==
    LET e == Edge[p[i]]
        at == Search!arrivals(p)
    IN  [from_node      |-> IF i = 1 THEN internal_request.origin_code
                            ELSE Edge[p[i - 1]].carrier_code,
         to_node        |-> e.to,
         mode           |-> e.mode,
         carrier_code   |-> e.carrier_code,
         cost_usd       |-> calculate_cost(p[i], internal_request.weight_kg),
         transit_hours  |-> e.transit,
         carbon_kg      |-> calculate_carbon(p[i], internal_request.weight_kg),
         carrier_wage_cents |-> e.carrier_wage_cents,
         labor_score    |-> labor_score(p[i], CountryMinWage),
         departure_time |-> internal_request.pickup_after + at[i - 1]
                              + Search!RouteTransfer(SubSeq(p, 1, i - 1), p[i]),
         arrival_time   |-> internal_request.pickup_after + at[i]]

\* A route of these segments, with the totals of recalculate_totals and before
\* any ranking.
CandidateRoute(segments) ==
    LET legs == DOMAIN segments
    IN  [segments           |-> segments,
         total_cost_usd     |-> SumOf([i \in legs |-> segments[i].cost_usd]),
         total_time_hours   |-> SumOf([i \in legs |-> segments[i].transit_hours]),
         total_carbon_kg    |-> SumOf([i \in legs |-> segments[i].carbon_kg]),
         labor_score        |->
            IF segments = <<>> THEN 0
            ELSE (LegScale * SumOf([i \in legs |-> segments[i].labor_score])) \div Len(segments),
         pareto_rank        |-> 0,
         pareto_optimal     |-> FALSE,
         constraint_results |-> {}]

path_to_route(p) == CandidateRoute([i \in 1..Len(p) |-> Segment(p, i)])

\* The route of a path the search found, as the hard constraints see it.
EvaluatedRoute(p) ==
    [path_to_route(p) EXCEPT
        !.constraint_results =
            evaluate_route(EmptyCache, path_to_route(p), window, internal_request.limits)]

\* What the ranking compares of a route; wage is the lowest of its legs.
Candidates ==
    [i \in DOMAIN routes |->
        [cost   |-> routes[i].total_cost_usd,  time  |-> routes[i].total_time_hours,
         carbon |-> routes[i].total_carbon_kg, labor |-> routes[i].labor_score,
         wage   |-> Min({s.carrier_wage_cents : s \in Range(routes[i].segments)})]]

RankingRequest ==
    [weight |-> internal_request.weight, window |-> window,
     max_routes |-> internal_request.max_routes]

\* CandidateLists and Requests serve RouteRanking's own Init and TypeOK.
Ranking == INSTANCE RouteRanking WITH
    CandidateLists <- {}, Requests <- {}, TimeUnit <- TicksPerHour,
    candidates <- Candidates, status <- ranking_status, request <- RankingRequest
-------------------------------------------------------------------------------
Pending == [status |-> "pending", routes |-> <<>>, candidates_evaluated |-> 0]

NotAsked == [status |-> "none"]

Init ==
    /\ call \in Calls
    /\ heap = {} /\ visited_counts = [n \in Nodes |-> 0]
    /\ paths = <<>> /\ search_status = "idle" /\ routes = <<>>
    /\ dominated_count = <<>> /\ ranks = <<>> /\ pareto_optimal = {}
    /\ remaining = {} /\ non_dominated = {} /\ current_rank = 1
    /\ ranking_status = "idle" /\ result = <<>>
    /\ answer = Pending
    /\ evaluation = NotAsked

Parsed ==
    /\ answer = Pending
    /\ call.via = "http" => Deserializes

\* The extractor of the HTTP handler answers 422 itself.
Refuse ==
    /\ answer = Pending /\ call.via = "http" /\ ~Deserializes
    /\ answer' = [Pending EXCEPT !.status = "refused"]
    /\ UNCHANGED <<call, searchVars, routes, rankingVars, evaluation>>

MutUnknownNode ==
    /\ Parsed
    /\ internal_request.origin_code \notin Nodes
    /\ answer' = [Pending EXCEPT !.status = "ok"]
    /\ UNCHANGED <<call, searchVars, routes, rankingVars, evaluation>>

\* An origin or a destination the graph does not have: success, and no route.
UnknownNode ==
    /\ Parsed
    /\ ~({internal_request.origin_code, internal_request.destination_code} \subseteq Nodes)
    /\ answer' = [Pending EXCEPT !.status = "ok"]
    /\ UNCHANGED <<call, searchVars, routes, rankingVars, evaluation>>

StartSearch ==
    /\ Parsed /\ search_status = "idle"
    /\ {internal_request.origin_code, internal_request.destination_code} \subseteq Nodes
    /\ heap' = {Search!StartState}
    /\ search_status' = "searching"
    /\ UNCHANGED <<call, visited_counts, paths, routes, rankingVars, answer, evaluation>>

\* One iteration of find_k_shortest_paths.
SearchStep ==
    /\ UNCHANGED <<call, routes, rankingVars, answer, evaluation>>
    /\ Search!Next

\* The routes are built and evaluated; those that pass start the ranking.
BuildRoutes ==
    /\ search_status = "done" /\ ranking_status = "idle"
    /\ UNCHANGED <<call, searchVars>>
    /\ routes' = [i \in DOMAIN paths |-> EvaluatedRoute(paths[i].path)]
    /\ remaining' = Ranking!Kept'
    /\ dominated_count' = [i \in remaining' |-> 0]
    /\ ranks' = [i \in remaining' |-> 0]
    /\ ranking_status' = "count"
    /\ UNCHANGED <<pareto_optimal, non_dominated, current_rank, result, answer, evaluation>>

\* One step of calculate_pareto_ranks, or the final sort.
RankStep ==
    /\ UNCHANGED <<call, searchVars, routes, answer, evaluation>>
    /\ Ranking!Next

\* What the answer carries of the i-th candidate: over HTTP neither the wages
\* nor the results, and the labor score of a leg over neither protocol.
OnWire(i) ==
    LET http == call.via = "http"
        unsent == {"labor_score"} \cup IF http THEN {"carrier_wage_cents"} ELSE {}
    IN  [routes[i] EXCEPT
            !.pareto_rank = ranks[i],
            !.pareto_optimal = i \in pareto_optimal,
            !.constraint_results = IF http THEN {} ELSE @,
            !.segments = [l \in DOMAIN @ |-> Restrict(@[l], DOMAIN @[l] \ unsent)]]

Answer ==
    /\ answer = Pending /\ ranking_status = "done"
    /\ answer' = [status |-> "ok", candidates_evaluated |-> Len(paths),
                  routes |-> [a \in DOMAIN result |-> OnWire(result[a])]]
    /\ UNCHANGED <<call, searchVars, routes, rankingVars, evaluation>>

Serve ==
    \/ Refuse \/ UnknownNode \/ StartSearch \/ SearchStep
    \/ BuildRoutes \/ RankStep \/ Answer

\* A leg of the message, its labor score given.
ParsedSegment(s, labor) ==
    [from_node |-> s.from_node, to_node |-> s.to_node, mode |-> s.mode,
     carrier_code |-> s.carrier_code, cost_usd |-> s.cost_usd,
     transit_hours |-> s.transit_hours, carbon_kg |-> s.carbon_kg,
     carrier_wage_cents |-> IF "carrier_wage_cents" \in DOMAIN s
                            THEN s.carrier_wage_cents ELSE 0,
     labor_score |-> labor,
     departure_time |-> s.departure_time, arrival_time |-> s.arrival_time]

MutParseProtoRoute(route) ==
    CandidateRoute([i \in DOMAIN route.segments |->
        [ParsedSegment(route.segments[i], 0) EXCEPT !.carrier_wage_cents = 0]])

\* A wage that is not in the message is 0; every leg scores 0.8 for labor, and
\* all but the ranking is computed anew.
parse_proto_route(route) ==
    [CandidateRoute([i \in DOMAIN route.segments |->
        ParsedSegment(route.segments[i], (CountryMinWage * 5 * 8) \div 10)])
     EXCEPT !.pareto_rank = route.pareto_rank, !.pareto_optimal = route.pareto_optimal]

\* evaluate_constraints, for the default request, which limits nothing but the
\* time.  overall_score is the share of the results that passed.
EvaluateConstraints(route) ==
    LET results == evaluate_route(EmptyCache, parse_proto_route(route), DefaultWindow, <<>>)
    IN  /\ evaluation = NotAsked
        /\ evaluation' = [status |-> "ok", route |-> route,
                          all_hard_passed |-> AllHardPassed(results),
                          overall_score |-> Cardinality({r \in results : r.passed})]
        /\ UNCHANGED <<call, searchVars, routes, rankingVars, answer>>

\* "Route is required"
EvaluateNothing ==
    /\ evaluation = NotAsked
    /\ evaluation' = [status |-> "invalid_argument"]
    /\ UNCHANGED <<call, searchVars, routes, rankingVars, answer>>

Next ==
    \/ Serve
    \/ \E a \in DOMAIN answer.routes : EvaluateConstraints(answer.routes[a])
    \/ EvaluateNothing

\* The handler runs to its end once it has the lock; clients ask as they like.
Fairness == WF_vars(Serve)

Spec == Init /\ [][Next]_vars /\ Fairness
-------------------------------------------------------------------------------
(***************************************************************************)
(* The two stages fit together: the ranking works on the candidates that   *)
(* evaluate_route lets pass, no other, and starts when the search is over. *)
(***************************************************************************)
Retained == {i \in DOMAIN routes : AllHardPassed(routes[i].constraint_results)}

TypeOK ==
    /\ call \in Calls
    /\ heap \subseteq Search!SearchState /\ paths \in Seq(Search!SearchState)
    /\ IF ranking_status = "idle" THEN ranks = <<>>
       ELSE /\ search_status = "done"
            /\ ranks \in [Retained -> Nat] /\ dominated_count \in [Retained -> Nat]
            /\ non_dominated \subseteq remaining /\ remaining \subseteq Retained
    /\ answer.status \in {"pending", "refused", "ok"}
    /\ answer.candidates_evaluated > 0 =>
          answer.candidates_evaluated <= 3 * internal_request.max_routes

(***************************************************************************)
(* What the client can see of an answer: the walks its routes tell, leg by *)
(* leg from the origin.                                                    *)
(***************************************************************************)
Tells(route, w) ==
    /\ Len(route.segments) = Len(w)
    /\ \A i \in DOMAIN w :
        LET s == route.segments[i]  e == Edge[w[i]]
        IN  /\ e.from = IF i = 1 THEN s.from_node ELSE route.segments[i - 1].to_node
            /\ e.to = s.to_node /\ e.mode = s.mode /\ e.carrier_code = s.carrier_code
            /\ e.transit = s.transit_hours
            /\ calculate_cost(w[i], Field("weight_kg", 0)) = s.cost_usd
            /\ calculate_carbon(w[i], Field("weight_kg", 0)) = s.carbon_kg

\* The walk behind an offer is the path it was built from, if that is what
\* the route tells.
ToldWalks ==
    [a \in DOMAIN answer.routes |->
        LET w == paths[result[a]].path
        IN  IF Tells(answer.routes[a], w) THEN w ELSE <<>>]

Client == INSTANCE OptimizeCall WITH
    LegalWage <- DefaultWage, StandardWindow <- DefaultWindow,
    outcome <- answer.status, offers <- ToldWalks

(***************************************************************************)
(* Parsing, search, ranking and conversion together keep what OptimizeCall *)
(* promises a client in the terms of its own call: a malformed call is     *)
(* refused, and the walks of any other answer respect every field set.     *)
(***************************************************************************)
ImplementsCall == Client!Spec

(***************************************************************************)
(* A route the service offered passes when the same service is asked to    *)
(* evaluate it, unless it takes longer than 30 days, which is all the      *)
(* evaluation knows of the deadline, or came by HTTP, without its wages.   *)
(***************************************************************************)
EvaluationAgrees ==
    evaluation.status = "ok" =>
        /\ evaluation.all_hard_passed <=> evaluation.overall_score = 3
        /\ evaluation.all_hard_passed <=>
              call.via = "grpc" /\ evaluation.route.total_time_hours <= DefaultWindow

(***************************************************************************)
(* Every call is answered, those with unknown nodes, with limits of zero   *)
(* and with limits that wrapped around included.                           *)
(***************************************************************************)
EveryCallAnswered == <>(answer.status # "pending")
================================================================================
