---------------------------- MODULE OptimizerProofs ----------------------------
(***************************************************************************)
(* What the search and the ranking are proved to do, carried over to a     *)
(* call of the optimizer that runs the one after the other.                *)
(***************************************************************************)
EXTENDS Optimizer, SumProofs

\* The theorems about the search, for the request of this call.
SP == INSTANCE RouteSearchProofs WITH
    Requests <- Search!OptimizeRequest, request <- SearchRequest, status <- search_status

\* The theorems about the ranking, for the routes of this call.
RP == INSTANCE RouteRankingProofs WITH
    CandidateLists <- Seq(Ranking!Candidate), Requests <- Ranking!Request,
    TimeUnit <- TicksPerHour, candidates <- Candidates, status <- ranking_status,
    request <- RankingRequest

-------------------------------------------------------------------------------
(***************************************************************************)
(* The instances speak of the same things.                                 *)
(***************************************************************************)

LEMMA SameGraph ==
    /\ SP!TransportEdge = TransportEdge
    /\ \A S : SP!IsFiniteSet(S) <=> IsFiniteSet(S)
    /\ SP!GraphAssumption
<1>1. SP!TransportEdge = TransportEdge
  BY DEF SP!TransportEdge, TransportEdge, SP!TransportMode, TransportMode
<1>2. \A S : SP!IsFiniteSet(S) <=> IsFiniteSet(S)
  BY DEF SP!IsFiniteSet, IsFiniteSet
<1>3. QED
  BY <1>1, <1>2, GraphAssumption DEF SP!GraphAssumption

LEMMA SearchAssumption == SP!RequestAssumption
BY DEF SP!RequestAssumption, SP!OptimizeRequest, Search!OptimizeRequest,
       SP!TransportMode, Search!TransportMode

LEMMA RankAssumption == RP!RankingAssumption
BY GraphAssumption, OptimizerAssumption
   DEF RP!RankingAssumption, RP!Candidate, Ranking!Candidate, RP!Request, Ranking!Request,
       RP!Weights, Ranking!Weights, LaborScale, CountryMinWage

LEMMA SameWholeHours == \A t : SP!WholeHours(t) = WholeHours(t)
BY DEF SP!WholeHours, WholeHours

LEMMA SameExtend ==
    \A s, e : Search!Extend(s, e) = SP!Extend(s, e)
BY DEF Search!Extend, SP!Extend, Search!SearchTransfer, SP!SearchTransfer,
       Search!RouteTransfer, SP!RouteTransfer, Search!TransferTicks, SP!TransferTicks,
       Search!mode_transfer_hours, SP!mode_transfer_hours, Search!WholeHours, SP!WholeHours,
       Search!calculate_cost, SP!calculate_cost

LEMMA SameIteration ==
    ASSUME NEW s
    PROVE  /\ Search!SkipVisited(s) <=> SP!SkipVisited(s)
           /\ Search!EmitPath(s) <=> SP!EmitPath(s)
           /\ Search!SkipDeep(s) <=> SP!SkipDeep(s)
           /\ Search!Expand(s) <=> SP!Expand(s)
<1>1. Search!Pop(s) <=> SP!Pop(s)
  BY DEF Search!Pop, SP!Pop, Search!IsTop, SP!IsTop
<1>2. /\ Search!OverVisited(s) <=> SP!OverVisited(s)
      /\ Search!AtDestination(s) <=> SP!AtDestination(s)
      /\ Search!AtDepthLimit(s) <=> SP!AtDepthLimit(s)
      /\ Search!k = SP!k
  BY DEF Search!OverVisited, SP!OverVisited, Search!AtDestination, SP!AtDestination,
         Search!AtDepthLimit, SP!AtDepthLimit, Search!k, SP!k
<1>3. Search!Successors(s) = SP!Successors(s)
  <2>1. \A e : Search!Admissible(e) <=> SP!Admissible(e)
    BY DEF Search!Admissible, SP!Admissible
  <2>2. Search!edges_from(s.node) = SP!edges_from(s.node)
    BY DEF Search!edges_from, SP!edges_from
  <2>3. QED
    BY <2>1, <2>2, SameExtend DEF Search!Successors, SP!Successors
<1>4. QED
  BY <1>1, <1>2, <1>3
     DEF Search!SkipVisited, SP!SkipVisited, Search!EmitPath, SP!EmitPath,
         Search!SkipDeep, SP!SkipDeep, Search!Expand, SP!Expand

LEMMA SameSearch ==
    /\ Search!Next <=> SP!Next
    /\ Search!StartState = SP!StartState
    /\ Search!SearchState = SP!SearchState
    /\ Search!k = SP!k
<1>1. Search!Exhausted <=> SP!Exhausted
  BY DEF Search!Exhausted, SP!Exhausted
<1>2. Search!Next <=> SP!Next
  BY <1>1, SameIteration DEF Search!Next, SP!Next
<1>3. QED
  BY <1>2 DEF Search!StartState, SP!StartState, Search!SearchState, SP!SearchState,
              Search!k, SP!k

-------------------------------------------------------------------------------
(***************************************************************************)
(* What the fields of a call make of the request.                          *)
(***************************************************************************)

LEMMA FieldTypes ==
    ASSUME call \in Calls
    PROVE  /\ call.via \in {"http", "grpc"}
           /\ \A f \in NumberFields : \A n \in Int : Field(f, n) \in Int
           /\ \A n \in Nat : Field("weight_kg", n) \in Nat
           /\ Field("excluded_carriers", {}) \subseteq Carriers
           /\ allowed_modes \subseteq TransportMode
           /\ DefaultWindow \in Nat
<1>1. DefaultWindow \in Nat
  BY OptimizerAssumption, GraphAssumption DEF DefaultWindow
<1>2. QED
  BY <1>1, OptimizerAssumption DEF Field, allowed_modes

LEMMA RequestTypes ==
    ASSUME call \in Calls, call.via = "http" => Deserializes
    PROVE  /\ internal_request.weight_kg \in Nat
           /\ internal_request.pickup_after \in Int /\ internal_request.deliver_by \in Int
           /\ internal_request.max_routes \in Nat /\ internal_request.max_segments \in Nat
           /\ internal_request.allowed_modes \subseteq TransportMode
           /\ internal_request.excluded_carriers \subseteq Carriers
           /\ internal_request.weight.cost \in Int /\ internal_request.weight.time \in Int
           /\ internal_request.weight.carbon \in Int /\ internal_request.weight.labor \in Int
<1> DEFINE F(f, n) == Field(f, n)
<1>1. /\ \A n \in Int : /\ F("max_routes", n) \in Int /\ F("max_segments", n) \in Int
                        /\ F("pickup_after", n) \in Int /\ F("deliver_by", n) \in Int
                        /\ F("cost_weight", n) \in Int /\ F("time_weight", n) \in Int
                        /\ F("carbon_weight", n) \in Int /\ F("labor_weight", n) \in Int
      /\ \A n \in Nat : F("weight_kg", n) \in Nat
      /\ F("excluded_carriers", {}) \subseteq Carriers
      /\ allowed_modes \subseteq TransportMode
      /\ DefaultWindow \in Int
  <2>1. {"max_routes", "max_segments", "pickup_after", "deliver_by", "cost_weight",
         "time_weight", "carbon_weight", "labor_weight"} = NumberFields
    BY DEF NumberFields
  <2>2. \A f \in NumberFields : \A n \in Int : F(f, n) \in Int
    BY FieldTypes
  <2>3. /\ \A n \in Nat : F("weight_kg", n) \in Nat
        /\ F("excluded_carriers", {}) \subseteq Carriers
        /\ allowed_modes \subseteq TransportMode
        /\ DefaultWindow \in Int
    BY FieldTypes
  <2> HIDE DEF F
  <2>4. QED
    BY <2>1, <2>2, <2>3
<1>2. CASE call.via = "http"
  <2>1. F("max_routes", 10) \in Nat /\ F("max_segments", 8) \in Nat
    BY <1>1, <1>2 DEF Deserializes
  <2>2. internal_request = HttpRequest
    BY <1>2 DEF internal_request
  <2> HIDE DEF F
  <2>3. /\ HttpRequest.weight_kg = F("weight_kg", 0)
        /\ HttpRequest.pickup_after = F("pickup_after", 0)
        /\ HttpRequest.deliver_by = F("deliver_by", DefaultWindow)
        /\ HttpRequest.max_routes = F("max_routes", 10)
        /\ HttpRequest.max_segments = F("max_segments", 8)
        /\ HttpRequest.allowed_modes = allowed_modes
        /\ HttpRequest.excluded_carriers = F("excluded_carriers", {})
        /\ HttpRequest.weight.cost = F("cost_weight", 4)
        /\ HttpRequest.weight.time = F("time_weight", 3)
        /\ HttpRequest.weight.carbon = F("carbon_weight", 2)
        /\ HttpRequest.weight.labor = F("labor_weight", 1)
    BY DEF F, HttpRequest, pickup_after, deliver_by
  <2>4. /\ F("weight_kg", 0) \in Nat /\ F("pickup_after", 0) \in Int
        /\ F("deliver_by", DefaultWindow) \in Int
        /\ F("cost_weight", 4) \in Int /\ F("time_weight", 3) \in Int
        /\ F("carbon_weight", 2) \in Int /\ F("labor_weight", 1) \in Int
    BY <1>1
  <2>5. QED
    BY <1>1, <2>1, <2>2, <2>3, <2>4
<1>3. CASE call.via # "http"
  <2>1. /\ AsUsize(F("max_routes", 0)) \in Nat
        /\ AsUsize(F("max_segments", 0)) \in Nat
    <3>1. UsizeLimit \in Nat \ {0}
      BY OptimizerAssumption
    <3>2. \A n \in Int : AsUsize(n) \in Nat
      BY <3>1 DEF AsUsize
    <3> HIDE DEF F
    <3>3. QED
      BY <1>1, <3>2
  <2>2. internal_request = GrpcRequest
    BY <1>3 DEF internal_request
  <2> HIDE DEF F
  <2>3. /\ GrpcRequest.weight_kg = F("weight_kg", 0)
        /\ GrpcRequest.pickup_after = F("pickup_after", 0)
        /\ GrpcRequest.deliver_by = F("deliver_by", DefaultWindow)
        /\ GrpcRequest.max_routes = AsUsize(F("max_routes", 0))
        /\ GrpcRequest.max_segments = AsUsize(F("max_segments", 0))
        /\ GrpcRequest.allowed_modes = allowed_modes
        /\ GrpcRequest.excluded_carriers = F("excluded_carriers", {})
        /\ GrpcRequest.weight.cost = F("cost_weight", 0)
        /\ GrpcRequest.weight.time = F("time_weight", 0)
        /\ GrpcRequest.weight.carbon = F("carbon_weight", 0)
        /\ GrpcRequest.weight.labor = F("labor_weight", 0)
    BY DEF F, GrpcRequest, pickup_after, deliver_by
  <2>4. /\ F("weight_kg", 0) \in Nat /\ F("pickup_after", 0) \in Int
        /\ F("deliver_by", DefaultWindow) \in Int
        /\ F("cost_weight", 0) \in Int /\ F("time_weight", 0) \in Int
        /\ F("carbon_weight", 0) \in Int /\ F("labor_weight", 0) \in Int
    BY <1>1
  <2>5. QED
    BY <1>1, <2>1, <2>2, <2>3, <2>4
<1>4. QED
  BY <1>2, <1>3

\* The search gets a request of its type.
LEMMA SearchRequestType ==
    ASSUME call \in Calls, call.via = "http" => Deserializes,
           {internal_request.origin_code, internal_request.destination_code} \subseteq Nodes
    PROVE  SearchRequest \in SP!OptimizeRequest
BY RequestTypes DEF SearchRequest, SP!OptimizeRequest, SP!TransportMode, TransportMode

\* The whole hours of the window are no more than the window.
LEMMA WindowFacts ==
    ASSUME call \in Calls, call.via = "http" => Deserializes
    PROVE  LET t == internal_request.deliver_by - internal_request.pickup_after
           IN  /\ t \in Int /\ t = SearchRequest.deliver_by
               /\ window \in Int
               /\ t >= 0 => window <= t
<1> DEFINE t == internal_request.deliver_by - internal_request.pickup_after
<1>1. t \in Int /\ t = SearchRequest.deliver_by
  BY RequestTypes DEF SearchRequest
<1>2. TicksPerHour \in Nat \ {0}
  BY GraphAssumption
<1>3. \A n \in Nat : WholeHours(n) \in Nat /\ WholeHours(n) <= n
  <2> TAKE n \in Nat
  <2> DEFINE q == n \div TicksPerHour
             m == q * TicksPerHour
  <2>1. q \in Nat /\ m <= n
    BY <1>2
  <2>2. m \in Nat
    BY <1>2, <2>1
  <2>3. QED
    BY <2>1, <2>2 DEF WholeHours
<1>4. window = IF t >= 0 THEN WholeHours(t) ELSE -WholeHours(-t)
  BY DEF window
<1> HIDE DEF t
<1>5. window \in Int /\ (t >= 0 => window <= t)
  BY <1>1, <1>3, <1>4
<1>6. QED
  BY <1>1, <1>5 DEF t

\* The ranking gets a request of its type where no weight is negative.
LEMMA RankingRequestType ==
    ASSUME call \in Calls, call.via = "http" => Deserializes,
           LET w == internal_request.weight
           IN  w.cost >= 0 /\ w.time >= 0 /\ w.carbon >= 0 /\ w.labor >= 0
    PROVE  RankingRequest \in Ranking!Request
<1> DEFINE w == internal_request.weight
<1>1. w = [cost |-> w.cost, time |-> w.time, carbon |-> w.carbon, labor |-> w.labor]
  BY DEF internal_request, HttpRequest, GrpcRequest
<1>2. w.cost \in Nat /\ w.time \in Nat /\ w.carbon \in Nat /\ w.labor \in Nat
  BY RequestTypes
<1>3. w \in Ranking!Weights
  <2> HIDE DEF w
  <2>1. QED
    BY <1>1, <1>2 DEF Ranking!Weights
<1>4. window \in Int /\ internal_request.max_routes \in Nat
  BY WindowFacts, RequestTypes
<1>5. QED
  BY <1>3, <1>4 DEF RankingRequest, Ranking!Request

\* A call stays the same, and all that is computed from it.
LEMMA SameCall ==
    ASSUME call' = call
    PROVE  /\ internal_request' = internal_request
           /\ SearchRequest' = SearchRequest
           /\ window' = window
           /\ RankingRequest' = RankingRequest
           /\ Deserializes' <=> Deserializes
<1>1. internal_request' = internal_request
  BY DEF internal_request, HttpRequest, GrpcRequest, Field, pickup_after, deliver_by,
         allowed_modes, limits
<1>2. QED
  BY <1>1 DEF SearchRequest, window, RankingRequest, Deserializes, Field

LEMMA SameRoutes ==
    ASSUME call' = call
    PROVE  \A p : EvaluatedRoute(p)' = EvaluatedRoute(p)
<1>1. \A p, i : Segment(p, i)' = Segment(p, i)
  BY SameCall DEF Segment, Search!arrivals, Search!RouteTransfer
<1>2. \A p : path_to_route(p)' = path_to_route(p)
  BY <1>1 DEF path_to_route, CandidateRoute
<1>3. QED
  BY <1>2, SameCall DEF EvaluatedRoute

-------------------------------------------------------------------------------
(***************************************************************************)
(* What a path the search found is to the client.                          *)
(***************************************************************************)

\* The client computes what the optimizer computes.
LEMMA SameTerms ==
    /\ \A h : Client!SumOf(h) = SumOf(h)
    /\ \A h : SP!SumOf(h) = SumOf(h)
    /\ \A e, n : Client!calculate_cost(e, n) = calculate_cost(e, n)
    /\ \A e, n : Client!calculate_carbon(e, n) = calculate_carbon(e, n)
    /\ \A e, n : Client!labor_score(e, n) = labor_score(e, n)
    /\ \A t : Client!WholeHours(t) = WholeHours(t)
    /\ \A f, n : Client!Value(f, n) = Field(f, n)
    /\ Client!TransportMode = TransportMode
<1>1. /\ \A h : Client!SumOf(h) = SumOf(h)
      /\ \A h : SP!SumOf(h) = SumOf(h)
  BY DEF SumOf, FoldFunction, FoldFunctionOnSet, MapThenFoldSet,
         Client!SumOf, Client!FoldFunction, Client!FoldFunctionOnSet, Client!MapThenFoldSet,
         SP!SumOf, SP!FoldFunction, SP!FoldFunctionOnSet, SP!MapThenFoldSet
<1>2. QED
  BY <1>1 DEF Client!calculate_cost, calculate_cost, Client!calculate_carbon, calculate_carbon,
     Client!labor_score, labor_score, Client!WholeHours, WholeHours,
     Client!Value, Client!Sets, Field, Client!TransportMode, TransportMode

\* The waits and hours of a path are those of the search's schedule.
LEMMA SameSchedule ==
    ASSUME NEW w \in Seq(Edges)
    PROVE  Client!Schedule(w) = SP!arrivals(w)[Len(w)]
<1> DEFINE d == [i \in DOMAIN w |-> Client!Wait(w, i) + Client!WholeHours(Edge[w[i]].transit)]
<1>1. DOMAIN w = 1..Len(w)
  BY LenProperties
<1>2. ASSUME NEW i \in 1..Len(w)
      PROVE  Client!Wait(w, i) = SP!RouteTransfer(SubSeq(w, 1, i - 1), w[i])
  <2> DEFINE q == SubSeq(w, 1, i - 1)
  <2>1. i \in Nat \ {0} /\ Len(w) \in Nat
    BY LenProperties
  <2>2. Len(q) = i - 1 /\ (i > 1 => q[i - 1] = w[i - 1])
    BY <2>1
  <2>3. q = <<>> <=> i = 1
    BY <2>1, <2>2
  <2>4. \A m, n : Client!TransferTicks(m, n) = SP!TransferTicks(m, n)
    BY DEF Client!TransferTicks, SP!TransferTicks, Client!mode_transfer_hours,
           SP!mode_transfer_hours
  <2> HIDE DEF q
  <2>5. QED
    BY <2>1, <2>2, <2>3, <2>4 DEF Client!Wait, SP!RouteTransfer, q
<1>3. d = SP!LegTicks(w)
  BY <1>1, <1>2, SameTerms, SameWholeHours DEF SP!LegTicks
<1>4. SP!arrivals(w)[Len(w)] = SP!SumOf(SP!LegTicks(w))
  BY SP!LastArrival, SameGraph, SearchAssumption
<1>5. Client!Schedule(w) = Client!SumOf(d)
  BY DEF Client!Schedule
<1> HIDE DEF d
<1>6. QED
  BY <1>3, <1>4, <1>5, SameTerms

\* A chain of unfiltered edges, within the limit, that keeps the schedule.
PathOf(w) ==
    /\ w \in Seq(Edges) /\ w # <<>>
    /\ Len(w) <= SearchRequest.max_segments
    /\ \A i \in 1..Len(w) :
          /\ Edge[w[i]].active /\ ~Edge[w[i]].carrier_sanctioned
          /\ Edge[w[i]].carrier_code \notin SearchRequest.excluded_carriers
          /\ SearchRequest.allowed_modes = {} \/ Edge[w[i]].mode \in SearchRequest.allowed_modes
    /\ \A i \in 1..Len(w) - 1 :
          /\ Edge[w[i]].to = Edge[w[i + 1]].from
          /\ Edge[w[i]].to # SearchRequest.destination
    /\ Edge[w[1]].from = SearchRequest.origin
    /\ Edge[w[Len(w)]].to = SearchRequest.destination
    /\ Client!Schedule(w) <= SearchRequest.deliver_by

LEMMA WeightKg == internal_request.weight_kg = Field("weight_kg", 0)
BY DEF internal_request, HttpRequest, GrpcRequest

\* The cost of a path is that of the search's entry.
LEMMA SameCost ==
    ASSUME NEW w \in Seq(Edges)
    PROVE  Client!Cost(w) = SP!route_cost(w)
<1> DEFINE c == [i \in 1..Len(w) |-> SP!calculate_cost(w[i], SearchRequest.weight_kg)]
           d == [i \in DOMAIN w |-> Client!calculate_cost(w[i], Client!Value("weight_kg", 0))]
<1>1. DOMAIN w = 1..Len(w)
  BY LenProperties
<1>2. SearchRequest.weight_kg = Client!Value("weight_kg", 0)
  BY WeightKg, SameTerms DEF SearchRequest
<1>3. \A e, n : SP!calculate_cost(e, n) = Client!calculate_cost(e, n)
  BY DEF SP!calculate_cost, Client!calculate_cost
<1>4. c = d
  BY <1>1, <1>2, <1>3
<1>5. SP!route_cost(w) = SP!SumOf(c) /\ Client!Cost(w) = Client!SumOf(d)
  BY DEF SP!route_cost, Client!Cost
<1> HIDE DEF c, d
<1>6. QED
  BY <1>4, <1>5, SameTerms

LEMMA PathsFound ==
    ASSUME SP!IInv, SP!ScheduleIsRoutes
    PROVE  /\ paths \in Seq(SP!SearchState)
           /\ Len(paths) <= SP!k
           /\ \A i \in 1..Len(paths) : PathOf(paths[i].path)
           /\ \A i, j \in 1..Len(paths) : i # j => paths[i].path # paths[j].path
           /\ \A i, j \in 1..Len(paths) :
                 i < j => Client!Cost(paths[i].path) <= Client!Cost(paths[j].path)
<1>1. paths \in Seq(SP!SearchState)
  BY DEF SP!IInv, SP!TypeOK
<1>2. ASSUME NEW i \in 1..Len(paths)
      PROVE  /\ PathOf(paths[i].path) /\ paths[i].path \in Seq(Edges)
             /\ Client!Cost(paths[i].path) = paths[i].cost
  <2> DEFINE s == paths[i]
  <2>1. s \in SP!Found
    BY DEF SP!Found
  <2>2. s \in SP!SearchState
    BY <1>1, ElementOfSeq
  <2>3. s.path \in Seq(Edges)
    BY <2>2 DEF SP!SearchState
  <2>4. SP!WellFormed(s) /\ SP!AtDestination(s) /\ SP!EndsAtDestination(s)
    BY <2>1 DEF SP!IInv, SP!PathsAdmissible
  <2>5. s.scheduled <= SearchRequest.deliver_by
    BY <2>1 DEF SP!IInv, SP!ScheduledInWindow
  <2>6. s.scheduled = Client!Schedule(s.path)
    BY <2>1, <2>3, SameSchedule DEF SP!ScheduleIsRoutes
  <2>7. Client!Cost(s.path) = s.cost
    BY <2>1, <2>3, SameCost DEF SP!ScheduleIsRoutes
  <2> HIDE DEF s
  <2>8. PathOf(s.path)
    BY <2>3, <2>4, <2>5, <2>6
       DEF PathOf, SP!WellFormed, SP!AtDestination, SP!EndsAtDestination, SP!Admissible
  <2>9. QED
    BY <2>3, <2>7, <2>8 DEF s
<1>3. ASSUME NEW i \in 1..Len(paths), NEW j \in 1..Len(paths), i # j
      PROVE  paths[i].path # paths[j].path
  <2>1. ~SP!Begins(paths[i].path, paths[j].path)
    BY <1>3 DEF SP!IInv, SP!NoWalkTwice
  <2>2. SP!Begins(paths[i].path, paths[i].path)
    BY <1>2, SP!BeginsItself, SameGraph, SearchAssumption
  <2>3. QED
    BY <2>1, <2>2
<1>4. ASSUME NEW i \in 1..Len(paths), NEW j \in 1..Len(paths), i < j
      PROVE  Client!Cost(paths[i].path) <= Client!Cost(paths[j].path)
  <2>1. j \in i..Len(paths)
    BY <1>4
  <2>2. paths[i].cost <= paths[j].cost
    BY <2>1 DEF SP!IInv, SP!CheapestFirst
  <2>3. QED
    BY <1>2, <2>2
<1>5. QED
  BY <1>1, <1>2, <1>3, <1>4 DEF SP!IInv, SP!NoWalkTwice

-------------------------------------------------------------------------------
(***************************************************************************)
(* What the route built from a path is.                                    *)
(***************************************************************************)

LEMMA SegmentFields ==
    ASSUME NEW w, NEW i
    PROVE  /\ Segment(w, i).to_node = Edge[w[i]].to
           /\ Segment(w, i).mode = Edge[w[i]].mode
           /\ Segment(w, i).carrier_code = Edge[w[i]].carrier_code
           /\ Segment(w, i).cost_usd = Client!calculate_cost(w[i], Client!Value("weight_kg", 0))
           /\ Segment(w, i).transit_hours = Edge[w[i]].transit
           /\ Segment(w, i).carbon_kg = Client!calculate_carbon(w[i], Client!Value("weight_kg", 0))
           /\ Segment(w, i).carrier_wage_cents = Edge[w[i]].carrier_wage_cents
           /\ Segment(w, i).labor_score = Client!labor_score(w[i], 1500)
           /\ i = 1 => Segment(w, i).from_node = internal_request.origin_code
BY SameTerms, WeightKg DEF Segment, CountryMinWage

\* The totals of a route are the client's.
LEMMA RouteTotals ==
    ASSUME NEW w, PathOf(w)
    PROVE  LET r == path_to_route(w)
           IN  /\ DOMAIN r.segments = 1..Len(w) /\ Len(r.segments) = Len(w)
               /\ \A i \in 1..Len(w) : r.segments[i] = Segment(w, i)
               /\ r.total_cost_usd = Client!Cost(w)
               /\ r.total_time_hours = Client!Transit(w)
               /\ r.total_carbon_kg = Client!Carbon(w)
               /\ r.labor_score = Client!Labor(w)
<1> DEFINE n == Len(w)
           segments == [i \in 1..n |-> Segment(w, i)]
           r == path_to_route(w)
           cost == [i \in 1..n |-> segments[i].cost_usd]
           time == [i \in 1..n |-> segments[i].transit_hours]
           carbon == [i \in 1..n |-> segments[i].carbon_kg]
           labor == [i \in 1..n |-> segments[i].labor_score]
<1>1. w \in Seq(Edges) /\ n \in Nat \ {0} /\ DOMAIN w = 1..n
  BY LenProperties, EmptySeq DEF PathOf
<1>2. DOMAIN segments = 1..n /\ Len(segments) = n /\ segments # <<>>
  BY <1>1
<1>3. /\ r.segments = segments
      /\ r.total_cost_usd = SumOf(cost) /\ r.total_time_hours = SumOf(time)
      /\ r.total_carbon_kg = SumOf(carbon)
      /\ r.labor_score = (LegScale * SumOf(labor)) \div n
  BY <1>2 DEF path_to_route, CandidateRoute
<1>4. /\ cost = [i \in DOMAIN w |-> Client!calculate_cost(w[i], Client!Value("weight_kg", 0))]
      /\ time = [i \in DOMAIN w |-> Edge[w[i]].transit]
      /\ carbon = [i \in DOMAIN w |-> Client!calculate_carbon(w[i], Client!Value("weight_kg", 0))]
      /\ labor = [i \in DOMAIN w |-> Client!labor_score(w[i], 1500)]
  BY <1>1, SegmentFields
<1> HIDE DEF cost, time, carbon, labor
<1>5. /\ Client!SumOf(cost) = Client!Cost(w) /\ Client!SumOf(time) = Client!Transit(w)
      /\ Client!SumOf(carbon) = Client!Carbon(w)
      /\ Client!Labor(w) = (LegScale * Client!SumOf(labor)) \div n
  BY <1>4 DEF Client!Cost, Client!Transit, Client!Carbon, Client!Labor
<1>6. QED
  BY <1>2, <1>3, <1>5, SameTerms

\* They are natural numbers.
LEMMA TotalsNat ==
    ASSUME call \in Calls, NEW w, PathOf(w)
    PROVE  /\ Client!Cost(w) \in Nat /\ Client!Transit(w) \in Nat
           /\ Client!Carbon(w) \in Nat /\ Client!Labor(w) \in Nat
           /\ \A i \in 1..Len(w) : Edge[w[i]].carrier_wage_cents \in Nat
           /\ Client!Schedule(w) \in Nat
<1> DEFINE n == Len(w)
           kg == Client!Value("weight_kg", 0)
           cost == [i \in DOMAIN w |-> Client!calculate_cost(w[i], kg)]
           time == [i \in DOMAIN w |-> Edge[w[i]].transit]
           carbon == [i \in DOMAIN w |-> Client!calculate_carbon(w[i], kg)]
           labor == [i \in DOMAIN w |-> Client!labor_score(w[i], 1500)]
<1>1. /\ w \in Seq(Edges) /\ n \in Nat \ {0} /\ DOMAIN w = 1..n
      /\ IsFiniteSet(1..n)
  BY LenProperties, EmptySeq, FS_Interval DEF PathOf
<1>2. kg \in Nat
  BY FieldTypes, SameTerms
<1>3. ASSUME NEW i \in 1..n
      PROVE  /\ w[i] \in Edges
             /\ Client!calculate_cost(w[i], kg) \in Nat
             /\ Edge[w[i]].transit \in Nat
             /\ Client!calculate_carbon(w[i], kg) \in Nat
             /\ Client!labor_score(w[i], 1500) \in Nat
             /\ Edge[w[i]].carrier_wage_cents \in Nat
  <2> DEFINE e == Edge[w[i]]
  <2>1. w[i] \in Edges
    BY <1>1, ElementOfSeq
  <2>2. /\ e.base_cost_usd \in Nat /\ e.cost_per_kg \in Nat /\ e.transit \in Nat
        /\ e.distance_km \in Nat /\ e.carbon_per_tonne_km \in Nat
        /\ e.carrier_wage_cents \in Nat /\ e.carrier_safety_rating \in 0..5
    BY <2>1, GraphAssumption DEF TransportEdge
  <2> HIDE DEF kg
  <2>3. Client!calculate_cost(w[i], kg) \in Nat
    <3>1. e.cost_per_kg * kg \in Nat
      BY <1>2, <2>2
    <3>2. QED
      BY <2>2, <3>1 DEF Client!calculate_cost
  <2>4. Client!calculate_carbon(w[i], kg) \in Nat
    <3>1. e.distance_km * kg \in Nat
      BY <1>2, <2>2
    <3>2. QED
      BY <2>2, <3>1 DEF Client!calculate_carbon
  <2>5. Client!labor_score(w[i], 1500) \in Nat
    <3>1. /\ (1500 * e.carrier_safety_rating) \div 5 \in Nat
          /\ 1500 \div 2 \in Nat
      BY <2>2
    <3> HIDE DEF e
    <3>2. QED
      BY <2>2, <3>1 DEF Client!labor_score, e
  <2>6. QED
    BY <2>1, <2>2, <2>3, <2>4, <2>5
<1>4. /\ cost \in [1..n -> Nat] /\ time \in [1..n -> Nat]
      /\ carbon \in [1..n -> Nat] /\ labor \in [1..n -> Nat]
  BY <1>1, <1>3
<1>5. /\ Client!Cost(w) = Client!SumOf(cost) /\ Client!Transit(w) = Client!SumOf(time)
      /\ Client!Carbon(w) = Client!SumOf(carbon)
      /\ Client!Labor(w) = (LegScale * Client!SumOf(labor)) \div n
  BY DEF Client!Cost, Client!Transit, Client!Carbon, Client!Labor
<1>6. Client!Schedule(w) \in Nat
  <2>1. Client!Schedule(w) = SP!SumOf(SP!LegTicks(w))
    BY <1>1, SameSchedule, SP!LastArrival, SameGraph, SearchAssumption
  <2>2. SP!LegTicks(w) \in [1..n -> Nat]
    BY <1>1, SP!LegTicksType, SameGraph, SearchAssumption
  <2>3. QED
    BY <1>1, <2>1, <2>2, SumIsNat, SameTerms
<1> HIDE DEF cost, time, carbon, labor
<1>7. /\ SumOf(cost) \in Nat /\ SumOf(time) \in Nat /\ SumOf(carbon) \in Nat
      /\ SumOf(labor) \in Nat
  BY <1>1, <1>4, SumIsNat
<1>8. (LegScale * SumOf(labor)) \div n \in Nat
  <2> DEFINE m == LegScale * SumOf(labor)
  <2>1. m \in Nat
    BY <1>7, OptimizerAssumption
  <2> HIDE DEF m
  <2>2. m \div n \in Nat
    BY <1>1, <2>1
  <2>3. QED
    BY <2>2 DEF m
<1>9. QED
  BY <1>3, <1>5, <1>6, <1>7, <1>8, SameTerms
-------------------------------------------------------------------------------
(***************************************************************************)
(* The hard constraints: what evaluate_route lets pass is what the ranking *)
(* keeps.                                                                  *)
(***************************************************************************)

\* Of finitely many numbers one is the least.
LEMMA LeastOf ==
    ASSUME NEW S, S \subseteq Nat, S # {}
    PROVE  Min(S) \in S /\ \A n \in S : Min(S) <= n
<1>1. \E x \in S : \A y \in S : x <= y
  BY LeastNat
<1>2. QED
  BY <1>1 DEF Min

\* On an empty cache no carrier is sanctioned and every node has the default
\* wage.
LEMMA HardChecks ==
    ASSUME NEW route, NEW w
    PROVE  AllHardPassed(HardResults(EmptyCache, route, w)) <=>
             /\ \A i \in DOMAIN route.segments :
                   route.segments[i].carrier_wage_cents >= DefaultWage
             /\ route.total_time_hours <= w
<1>1. /\ EmptyCache.sanctioned_carriers = {} /\ DOMAIN EmptyCache.min_wages = {}
  BY DEF EmptyCache
<1>2. check_sanction_constraint(EmptyCache, route)
  BY <1>1 DEF check_sanction_constraint
<1>3. check_wage_constraint(EmptyCache, route) <=>
         \A i \in DOMAIN route.segments :
            route.segments[i].carrier_wage_cents >= DefaultWage
  BY <1>1 DEF check_wage_constraint, MinWage
<1>4. AllHardPassed(HardResults(EmptyCache, route, w)) <=>
         /\ check_sanction_constraint(EmptyCache, route)
         /\ check_wage_constraint(EmptyCache, route)
         /\ check_time_constraint(route, w)
  BY DEF AllHardPassed, HardResults
<1>5. QED
  BY <1>2, <1>3, <1>4 DEF check_time_constraint

\* The soft results do not count.
LEMMA SoftDoNotCount ==
    ASSUME NEW cache, NEW route, NEW w, NEW soft
    PROVE  AllHardPassed(evaluate_route(cache, route, w, soft)) <=>
              AllHardPassed(HardResults(cache, route, w))
BY DEF AllHardPassed, evaluate_route

LEMMA CandidateFacts ==
    ASSUME call \in Calls, NEW w, PathOf(w)
    PROVE  LET wages == {s.carrier_wage_cents : s \in Range(EvaluatedRoute(w).segments)}
           IN  /\ Min(wages) \in Nat
               /\ Min(wages) >= DefaultWage <=>
                     \A i \in 1..Len(w) : Edge[w[i]].carrier_wage_cents >= DefaultWage
               /\ AllHardPassed(EvaluatedRoute(w).constraint_results) <=>
                     Min(wages) >= DefaultWage /\ Client!Transit(w) <= window
<1> DEFINE r == path_to_route(w)
           x == EvaluatedRoute(w)
           wages == {s.carrier_wage_cents : s \in Range(x.segments)}
<1>1. /\ DOMAIN r.segments = 1..Len(w) /\ Len(w) \in Nat \ {0}
      /\ \A i \in 1..Len(w) : /\ r.segments[i].carrier_wage_cents = Edge[w[i]].carrier_wage_cents
                               /\ Edge[w[i]].carrier_wage_cents \in Nat
      /\ r.total_time_hours = Client!Transit(w)
  <2>1. Len(w) \in Nat \ {0}
    BY LenProperties, EmptySeq DEF PathOf
  <2>2. /\ DOMAIN r.segments = 1..Len(w)
        /\ \A i \in 1..Len(w) : r.segments[i] = Segment(w, i)
        /\ r.total_time_hours = Client!Transit(w)
    BY RouteTotals
  <2>3. \A i \in 1..Len(w) : Edge[w[i]].carrier_wage_cents \in Nat
    BY TotalsNat
  <2> HIDE DEF r
  <2>4. QED
    BY <2>1, <2>2, <2>3, SegmentFields
<1>2. /\ x.segments = r.segments
      /\ x.constraint_results =
            evaluate_route(EmptyCache, r, window, internal_request.limits)
  BY DEF EvaluatedRoute, path_to_route, CandidateRoute
<1> HIDE DEF r, x
<1>3. wages = {Edge[w[i]].carrier_wage_cents : i \in 1..Len(w)}
  BY <1>1, <1>2 DEF Range
<1> HIDE DEF wages
<1>4. wages \subseteq Nat /\ wages # {}
  BY <1>1, <1>3
<1>5. Min(wages) \in wages /\ \A n \in wages : Min(wages) <= n
  BY <1>4, LeastOf
<1>6. Min(wages) \in Nat /\ DefaultWage \in Nat
  BY <1>4, <1>5, OptimizerAssumption
<1>7. Min(wages) >= DefaultWage <=>
         \A i \in 1..Len(w) : Edge[w[i]].carrier_wage_cents >= DefaultWage
  <2>1. Min(wages) >= DefaultWage <=> \A n \in wages : n >= DefaultWage
    BY <1>4, <1>5, <1>6
  <2>2. QED
    BY <2>1, <1>3
<1>8. AllHardPassed(x.constraint_results) <=>
         Min(wages) >= DefaultWage /\ Client!Transit(w) <= window
  BY <1>1, <1>2, <1>7, SoftDoNotCount, HardChecks
<1>9. QED
  BY <1>6, <1>7, <1>8 DEF wages, x

-------------------------------------------------------------------------------
(***************************************************************************)
(* The routes of a call, from the paths of its search.                     *)
(***************************************************************************)

AllRoutes == [i \in DOMAIN paths |-> EvaluatedRoute(paths[i].path)]

CandidateOf(r) ==
    [cost   |-> r.total_cost_usd,  time  |-> r.total_time_hours,
     carbon |-> r.total_carbon_kg, labor |-> r.labor_score,
     wage   |-> Min({s.carrier_wage_cents : s \in Range(r.segments)})]

Built == [i \in DOMAIN paths |-> CandidateOf(EvaluatedRoute(paths[i].path))]

Passing == {i \in DOMAIN paths : Built[i].wage >= DefaultWage /\ Built[i].time <= window}

PathsSound ==
    /\ paths \in Seq(SP!SearchState)
    /\ \A i \in DOMAIN paths : PathOf(paths[i].path)
    /\ \A i, j \in DOMAIN paths :
          i < j => Client!Cost(paths[i].path) <= Client!Cost(paths[j].path)

LEMMA BuiltFacts ==
    ASSUME call \in Calls, PathsSound
    PROVE  /\ DOMAIN paths = 1..Len(paths) /\ Len(paths) \in Nat
           /\ Built \in Seq(Ranking!Candidate) /\ Len(Built) = Len(paths)
           /\ \A i \in DOMAIN paths :
                 LET w == paths[i].path
                 IN  /\ Built[i].cost = Client!Cost(w) /\ Built[i].time = Client!Transit(w)
                     /\ Built[i].carbon = Client!Carbon(w) /\ Built[i].labor = Client!Labor(w)
                     /\ AllHardPassed(EvaluatedRoute(w).constraint_results) <=> i \in Passing
                     /\ i \in Passing =>
                           /\ \A l \in 1..Len(w) : Edge[w[l]].carrier_wage_cents >= DefaultWage
                           /\ Client!Transit(w) <= window
<1>1. DOMAIN paths = 1..Len(paths) /\ Len(paths) \in Nat
  BY LenProperties DEF PathsSound
<1>2. ASSUME NEW i \in DOMAIN paths, NEW w, w = paths[i].path
      PROVE  /\ Built[i] \in Ranking!Candidate
             /\ Built[i].cost = Client!Cost(w) /\ Built[i].time = Client!Transit(w)
             /\ Built[i].carbon = Client!Carbon(w) /\ Built[i].labor = Client!Labor(w)
             /\ AllHardPassed(EvaluatedRoute(w).constraint_results) <=> i \in Passing
             /\ i \in Passing =>
                   /\ \A l \in 1..Len(w) : Edge[w[l]].carrier_wage_cents >= DefaultWage
                   /\ Client!Transit(w) <= window
  <2> DEFINE r == path_to_route(w)
             x == EvaluatedRoute(w)
             wages == {s.carrier_wage_cents : s \in Range(x.segments)}
  <2>1. PathOf(w)
    BY <1>2 DEF PathsSound
  <2>2. /\ r.total_cost_usd = Client!Cost(w) /\ r.total_time_hours = Client!Transit(w)
        /\ r.total_carbon_kg = Client!Carbon(w) /\ r.labor_score = Client!Labor(w)
    BY <2>1, RouteTotals
  <2>3. /\ Client!Cost(w) \in Nat /\ Client!Transit(w) \in Nat
        /\ Client!Carbon(w) \in Nat /\ Client!Labor(w) \in Nat
    BY <2>1, TotalsNat
  <2>4. /\ x.total_cost_usd = r.total_cost_usd /\ x.total_time_hours = r.total_time_hours
        /\ x.total_carbon_kg = r.total_carbon_kg /\ x.labor_score = r.labor_score
    BY DEF EvaluatedRoute, path_to_route, CandidateRoute
  <2>5. /\ Min(wages) \in Nat
        /\ Min(wages) >= DefaultWage <=>
              \A l \in 1..Len(w) : Edge[w[l]].carrier_wage_cents >= DefaultWage
        /\ AllHardPassed(x.constraint_results) <=>
              Min(wages) >= DefaultWage /\ Client!Transit(w) <= window
    BY <2>1, CandidateFacts
  <2>6. Built[i] = CandidateOf(x)
    BY <1>2 DEF Built
  <2> HIDE DEF r, x
  <2>7. /\ Built[i].cost = Client!Cost(w) /\ Built[i].time = Client!Transit(w)
        /\ Built[i].carbon = Client!Carbon(w) /\ Built[i].labor = Client!Labor(w)
        /\ Built[i].wage = Min(wages)
        /\ Built[i] \in Ranking!Candidate
    BY <2>2, <2>3, <2>4, <2>5, <2>6 DEF CandidateOf, Ranking!Candidate
  <2> HIDE DEF wages
  <2>8. i \in Passing <=> Min(wages) >= DefaultWage /\ Client!Transit(w) <= window
    BY <2>7 DEF Passing
  <2>9. QED
    BY <2>5, <2>7, <2>8 DEF x
<1>3. Built \in Seq(Ranking!Candidate) /\ Len(Built) = Len(paths)
  <2>1. Built \in [1..Len(paths) -> Ranking!Candidate]
    BY <1>1, <1>2 DEF Built
  <2>2. QED
    BY <1>1, <2>1
<1>4. QED
  BY <1>1, <1>2, <1>3

\* The ranking works on them.
LEMMA RankingSees ==
    ASSUME call \in Calls, PathsSound, routes = AllRoutes
    PROVE  /\ Candidates = Built
           /\ Ranking!Kept = Passing /\ RP!Kept = Passing /\ Retained = Passing
<1>1. Candidates = Built
  BY DEF Candidates, AllRoutes, Built, CandidateOf
<1>2. /\ DOMAIN Built = DOMAIN paths /\ 1..Len(Built) = DOMAIN paths
  BY BuiltFacts DEF Built
<1>3. Ranking!Kept = Passing /\ RP!Kept = Passing
  BY <1>1, <1>2 DEF Ranking!Kept, RP!Kept, Ranking!HardPassed, RP!HardPassed, RankingRequest,
                    Passing
<1>4. Retained = Passing
  BY BuiltFacts DEF Retained, AllRoutes, Passing
<1>5. QED
  BY <1>1, <1>3, <1>4

\* So it does after a step that keeps or makes them.
LEMMA RankingSeesNext ==
    ASSUME call \in Calls, PathsSound, call' = call, paths' = paths, routes' = AllRoutes
    PROVE  /\ Candidates' = Built /\ AllRoutes' = AllRoutes
           /\ Built' = Built /\ Passing' = Passing
           /\ Ranking!Kept' = Passing /\ Retained' = Passing
<1>1. \A p : EvaluatedRoute(p)' = EvaluatedRoute(p)
  BY SameRoutes
<1>2. AllRoutes' = AllRoutes /\ Built' = Built
  BY <1>1 DEF AllRoutes, Built, CandidateOf
<1>3. window' = window /\ RankingRequest' = RankingRequest
  BY SameCall
<1>4. Passing' = Passing
  BY <1>2, <1>3 DEF Passing
<1>5. Candidates' = Built
  BY DEF Candidates, AllRoutes, Built, CandidateOf
<1>6. /\ DOMAIN Built = DOMAIN paths /\ 1..Len(Built) = DOMAIN paths
  BY BuiltFacts DEF Built
<1>7. Ranking!Kept' = Passing
  BY <1>3, <1>5, <1>6 DEF Ranking!Kept, Ranking!HardPassed, RankingRequest, Passing
<1>8. Retained' = Passing
  BY BuiltFacts DEF Retained, AllRoutes, Passing
<1>9. QED
  BY <1>2, <1>4, <1>5, <1>7, <1>8

-------------------------------------------------------------------------------
(***************************************************************************)
(* The invariant.                                                          *)
(***************************************************************************)

SearchInv ==
    /\ search_status \in {"idle", "searching", "done"}
    /\ search_status = "idle" =>
          heap = {} /\ paths = <<>> /\ visited_counts = [n \in Nodes |-> 0]
    /\ search_status # "idle" =>
          /\ call.via = "http" => Deserializes
          /\ {internal_request.origin_code, internal_request.destination_code} \subseteq Nodes
          /\ SP!IInv /\ SP!ScheduleIsRoutes

LEMMA SearchVarsKept ==
    ASSUME call' = call, UNCHANGED searchVars, SearchInv
    PROVE  SearchInv'
<1>1. UNCHANGED SP!vars
  BY SameCall DEF SP!vars, searchVars
<1>2. SP!IInv /\ SP!ScheduleIsRoutes => SP!IInv' /\ SP!ScheduleIsRoutes'
  BY <1>1, SP!NextIInv, SP!ScheduleStep, SameGraph, SearchAssumption
<1>3. QED
  BY <1>2, SameCall DEF SearchInv, searchVars

LEMMA SearchStarts ==
    ASSUME call \in Calls, SearchInv, StartSearch
    PROVE  SearchInv'
<1>1. SP!Init' => SP!IInv'
  BY SP!InitIInv, SameGraph, SearchAssumption, PTL
<1>2. SP!Init' => SP!ScheduleIsRoutes'
  BY SP!ScheduleInit, SameGraph, SearchAssumption, PTL
<1>3. SP!Init'
  <2>1. SearchRequest' = SearchRequest /\ SearchRequest \in SP!OptimizeRequest
    BY SameCall, SearchRequestType DEF StartSearch, Parsed
  <2>2. SP!OptimizeRequest = Search!OptimizeRequest
    BY DEF SP!OptimizeRequest, Search!OptimizeRequest, SP!TransportMode, Search!TransportMode
  <2>3. heap' = {SP!StartState} /\ SP!StartState' = SP!StartState
    BY <2>1, SameSearch DEF StartSearch, SP!StartState
  <2>4. QED
    BY <2>1, <2>2, <2>3 DEF SP!Init, StartSearch, SearchInv
<1>4. QED
  BY <1>1, <1>2, <1>3, SameCall DEF SearchInv, StartSearch, Parsed

LEMMA SearchSteps ==
    ASSUME SearchInv, SearchStep
    PROVE  SearchInv' /\ search_status = "searching" /\ search_status' \in {"searching", "done"}
<1>1. SP!Next
  BY SameSearch DEF SearchStep
<1>2. search_status = "searching" /\ search_status' \in {"searching", "done"}
  BY <1>1 DEF SP!Next, SP!SkipVisited, SP!EmitPath, SP!SkipDeep, SP!Expand, SP!Exhausted, SP!Pop
<1>3. SP!IInv' /\ SP!ScheduleIsRoutes'
  BY <1>1, <1>2, SP!NextIInv, SP!ScheduleStep, SameGraph, SearchAssumption DEF SearchInv
<1>4. QED
  BY <1>2, <1>3, SameCall DEF SearchInv, SearchStep

\* After the search its paths are sound.
LEMMA SearchGivesPaths ==
    ASSUME call \in Calls, SearchInv, search_status # "idle"
    PROVE  /\ PathsSound
           /\ Len(paths) <= 3 * internal_request.max_routes
           /\ \A i, j \in DOMAIN paths : i # j => paths[i].path # paths[j].path
<1>1. SP!IInv /\ SP!ScheduleIsRoutes
  BY DEF SearchInv
<1>2. DOMAIN paths = 1..Len(paths)
  BY <1>1, PathsFound, LenProperties
<1>3. SP!k = 3 * internal_request.max_routes
  <2>1. internal_request.max_routes \in Nat
    BY RequestTypes DEF SearchInv
  <2>2. QED
    BY <2>1 DEF SP!k, SearchRequest
<1>4. QED
  BY <1>1, <1>2, <1>3, PathsFound DEF PathsSound
\* What the ranking holds from its start on.
RankTypes ==
    /\ ranks \in [Passing -> Nat] /\ dominated_count \in [Passing -> Nat]
    /\ pareto_optimal \subseteq Passing
    /\ remaining \subseteq Passing /\ non_dominated \subseteq remaining
    /\ current_rank \in Nat \ {0}
    /\ ranking_status \in {"count", "front", "rank", "sort", "done"}

RankInv ==
    IF ranking_status = "idle"
    THEN /\ routes = <<>> /\ result = <<>>
         /\ ranks = <<>> /\ pareto_optimal = {} /\ non_dominated = {} /\ current_rank = 1
    ELSE /\ search_status = "done"
         /\ routes = AllRoutes
         /\ RankTypes

NoWeightNegative ==
    LET w == internal_request.weight
    IN  w.cost >= 0 /\ w.time >= 0 /\ w.carbon >= 0 /\ w.labor >= 0

\* What the ranking puts first, of what was built from the paths.
Precedes(i, j) ==
    LET a == Built[i]  b == Built[j]  w == internal_request.weight
    IN  /\ w.cost > 0 => a.cost <= b.cost
        /\ w.time > 0 => a.time <= b.time
        /\ w.carbon > 0 => a.carbon <= b.carbon
        /\ w.labor > 0 => a.labor >= b.labor
        /\ \/ w.cost > 0 /\ a.cost < b.cost
           \/ w.time > 0 /\ a.time < b.time
           \/ w.carbon > 0 /\ a.carbon < b.carbon
           \/ w.labor > 0 /\ a.labor > b.labor
           \/ i < j

\* Some of the passing routes, none twice, and where no weight is negative none
\* that a later one precedes.
ResultInv ==
    ranking_status = "done" =>
        /\ result \in Seq(Passing)
        /\ Len(result) <= internal_request.max_routes
        /\ \A a, b \in DOMAIN result : a < b =>
              /\ result[a] # result[b]
              /\ NoWeightNegative => ~Precedes(result[b], result[a])

LEMMA PassingFinite ==
    ASSUME call \in Calls, PathsSound
    PROVE  /\ IsFiniteSet(Passing)
           /\ \A S \in SUBSET Passing : IsFiniteSet(S) /\ Ranking!Cardinality(S) \in Nat
<1>1. Passing \subseteq 1..Len(paths) /\ Len(paths) \in Nat
  BY BuiltFacts DEF Passing
<1>2. IsFiniteSet(Passing)
  <2>1. IsFiniteSet(1..Len(paths))
    BY <1>1, FS_Interval
  <2>2. QED
    BY <1>1, <2>1, FS_Subset
<1>3. \A S : Ranking!Cardinality(S) = Cardinality(S)
  BY DEF Ranking!Cardinality, Cardinality, Ranking!IsFiniteSet, IsFiniteSet
<1>4. QED
  BY <1>2, <1>3, FS_Subset, FS_CardinalityType

LEMMA RankingStarts ==
    ASSUME call \in Calls, SearchInv, RankInv, BuildRoutes
    PROVE  RankInv' /\ ResultInv'
<1>1. /\ PathsSound
      /\ call' = call /\ paths' = paths /\ search_status' = "done"
      /\ routes' = AllRoutes
      /\ remaining' = Ranking!Kept'
  BY SearchGivesPaths DEF BuildRoutes, AllRoutes, searchVars
<1>2. /\ AllRoutes' = AllRoutes /\ Passing' = Passing /\ remaining' = Passing
  BY <1>1, RankingSeesNext
<1>3. RankTypes'
  BY <1>2 DEF BuildRoutes, RankInv, RankTypes
<1>4. QED
  BY <1>1, <1>2, <1>3 DEF RankInv, ResultInv, BuildRoutes

LEMMA RankingSteps ==
    ASSUME call \in Calls, SearchInv, RankInv, RankStep
    PROVE  /\ RankInv'
           /\ ranking_status \in {"count", "front", "rank", "sort"}
           /\ ranking_status' = "done" => Ranking!SortAndTruncate
<1>1. Ranking!Next /\ UNCHANGED <<call, searchVars, routes>>
  BY DEF RankStep
<1>2. ranking_status # "idle"
  <2>1. CASE Ranking!CountDominators \/ Ranking!FindFront \/ Ranking!NextFront
             \/ Ranking!RankingEnds \/ Ranking!SortAndTruncate
    BY <2>1 DEF Ranking!CountDominators, Ranking!FindFront, Ranking!NextFront,
       Ranking!RankingEnds, Ranking!SortAndTruncate
  <2>2. CASE \E i \in non_dominated : Ranking!RankOne(i)
    BY <2>2 DEF Ranking!RankOne
  <2>3. QED
    BY <1>1, <2>1, <2>2 DEF Ranking!Next
<1>3. /\ search_status = "done" /\ routes = AllRoutes /\ RankTypes /\ PathsSound
  BY <1>2, SearchGivesPaths DEF RankInv
<1>4. /\ AllRoutes' = AllRoutes /\ Passing' = Passing /\ Ranking!Kept = Passing
  BY <1>1, <1>3, RankingSees, RankingSeesNext DEF searchVars
<1> DEFINE Goal == /\ RankTypes' /\ ranking_status' # "idle"
                   /\ ranking_status \in {"count", "front", "rank", "sort"}
                   /\ ranking_status' = "done" => Ranking!SortAndTruncate
<1>5. Goal
  <2>1. CASE Ranking!CountDominators
    <3>1. \A j : Ranking!Dominators(Passing, j) \in SUBSET Passing
      BY DEF Ranking!Dominators
    <3>2. dominated_count' \in [Passing -> Nat]
      BY <1>3, <1>4, <2>1, <3>1, PassingFinite DEF Ranking!CountDominators
    <3>3. QED
      BY <1>3, <1>4, <2>1, <3>2 DEF Ranking!CountDominators, RankTypes
  <2>2. CASE Ranking!FindFront
    BY <1>3, <1>4, <2>2 DEF Ranking!FindFront, RankTypes
  <2>3. ASSUME NEW i \in non_dominated, Ranking!RankOne(i)
        PROVE  Goal
    <3>1. dominated_count' \in [Passing -> Nat]
      BY <1>3, <1>4, <2>3 DEF Ranking!RankOne, RankTypes
    <3>2. ranks' \in [Passing -> Nat]
      BY <1>3, <1>4, <2>3 DEF Ranking!RankOne, RankTypes
    <3>3. QED
      BY <1>3, <1>4, <2>3, <3>1, <3>2 DEF Ranking!RankOne, RankTypes
  <2>4. CASE Ranking!NextFront
    BY <1>3, <1>4, <2>4 DEF Ranking!NextFront, RankTypes
  <2>5. CASE Ranking!RankingEnds
    BY <1>3, <1>4, <2>5 DEF Ranking!RankingEnds, RankTypes
  <2>6. CASE Ranking!SortAndTruncate
    BY <1>3, <1>4, <2>6 DEF Ranking!SortAndTruncate, RankTypes
  <2>7. QED
    <3>1. CASE \E i \in non_dominated : Ranking!RankOne(i)
      BY <3>1, <2>3
    <3> HIDE DEF Goal
    <3>2. QED
      BY <1>1, <2>1, <2>2, <3>1, <2>4, <2>5, <2>6 DEF Ranking!Next
<1>6. QED
  BY <1>1, <1>3, <1>4, <1>5 DEF RankInv, searchVars

\* The final sort is the one the theorems about the ranking speak of.
LEMMA SameSort ==
    /\ \A S : RP!Cardinality(S) = Ranking!Cardinality(S) /\ Ranking!Cardinality(S) = Cardinality(S)
    /\ \A a, b : RP!dominates(a, b) <=> Ranking!dominates(a, b)
    /\ RP!Kept = Ranking!Kept
    /\ Ranking!SortAndTruncate <=> RP!SortAndTruncate
<1>1. \A S : RP!Cardinality(S) = Ranking!Cardinality(S) /\ Ranking!Cardinality(S) = Cardinality(S)
  BY DEF RP!Cardinality, Ranking!Cardinality, Cardinality,
         RP!IsFiniteSet, Ranking!IsFiniteSet, IsFiniteSet
<1>2. \A a, b : RP!dominates(a, b) <=> Ranking!dominates(a, b)
  BY DEF RP!dominates, Ranking!dominates
<1>3. RP!Kept = Ranking!Kept
  BY DEF RP!Kept, Ranking!Kept, RP!HardPassed, Ranking!HardPassed
<1>4. \A i, j : RP!SortedBefore(i, j) <=> Ranking!SortedBefore(i, j)
  <2>1. /\ RP!max_cost = Ranking!max_cost /\ RP!max_time = Ranking!max_time
        /\ RP!max_carbon = Ranking!max_carbon
    BY <1>3 DEF RP!max_cost, Ranking!max_cost, RP!max_time, Ranking!max_time,
       RP!max_carbon, Ranking!max_carbon, RP!Max, Ranking!Max
  <2>2. \A i : RP!weighted_score(i) = Ranking!weighted_score(i)
    BY <2>1 DEF RP!weighted_score, Ranking!weighted_score
  <2>3. QED
    BY <2>2 DEF RP!SortedBefore, Ranking!SortedBefore
<1>5. QED
  BY <1>1, <1>2, <1>3, <1>4 DEF RP!SortAndTruncate, Ranking!SortAndTruncate

LEMMA RankingSorts ==
    ASSUME call \in Calls, SearchInv, RankInv, RankStep, Ranking!SortAndTruncate
    PROVE  ResultInv'
<1>1. /\ PathsSound /\ routes = AllRoutes /\ RankTypes
      /\ call' = call /\ paths' = paths /\ routes' = AllRoutes
      /\ call.via = "http" => Deserializes
  <2>1. ranking_status = "sort" /\ UNCHANGED <<call, paths, routes>>
    BY DEF RankStep, Ranking!SortAndTruncate, searchVars
  <2>2. routes = AllRoutes /\ RankTypes /\ search_status = "done"
    BY <2>1 DEF RankInv
  <2>3. QED
    BY <2>1, <2>2, SearchGivesPaths DEF SearchInv
<1>2. /\ Candidates = Built /\ Ranking!Kept = Passing /\ RP!Kept = Passing
      /\ Candidates' = Built /\ Passing' = Passing /\ Built' = Built
  BY <1>1, RankingSees, RankingSeesNext
<1>3. internal_request' = internal_request /\ RankingRequest' = RankingRequest
  BY <1>1, SameCall
<1> DEFINE c == Cardinality(Passing)
           m == internal_request.max_routes
           n == IF c <= m THEN c ELSE m
<1>4. Ranking!Cardinality(Ranking!Kept) = c /\ RankingRequest.max_routes = m
  BY <1>2, SameSort DEF RankingRequest
<1>5. PICK sorted \in [1..Ranking!Cardinality(Ranking!Kept) -> Ranking!Kept] :
          /\ \A i \in Ranking!Kept : \E a \in DOMAIN sorted : sorted[a] = i
          /\ result' = [a \in {b \in DOMAIN sorted : b <= RankingRequest.max_routes} |-> sorted[a]]
  BY DEF Ranking!SortAndTruncate
<1>6. /\ sorted \in [1..c -> Passing]
      /\ \A i \in Passing : \E a \in DOMAIN sorted : sorted[a] = i
      /\ result' = [a \in {b \in DOMAIN sorted : b <= m} |-> sorted[a]]
  BY <1>4, <1>5, <1>2
<1>7. /\ c \in Nat /\ m \in Nat /\ n \in Nat /\ n <= m /\ n <= c
      /\ IsFiniteSet(Passing)
  <2>1. c \in Nat /\ IsFiniteSet(Passing)
    BY <1>1, PassingFinite, FS_CardinalityType
  <2>2. m \in Nat
    BY <1>1, RequestTypes
  <2>3. QED
    BY <2>1, <2>2
<1>8. \A a, b \in 1..c : sorted[a] = sorted[b] => a = b
  <2>1. IsFiniteSet(1..c) /\ Cardinality(1..c) = c
    BY <1>7, FS_Interval
  <2>2. sorted \in Surjection(1..c, Passing)
    BY <1>6 DEF Surjection
  <2>3. sorted \in Injection(1..c, Passing)
    BY <1>7, <2>1, <2>2, FS_SurjSameCardinalityImpliesInj
  <2>4. QED
    BY <2>3 DEF Injection, IsInjective
<1>9. /\ DOMAIN result' = 1..n
      /\ \A a \in 1..n : a \in 1..c /\ result'[a] = sorted[a] /\ result'[a] \in Passing
  <2> HIDE DEF c, m
  <2>1. {b \in 1..c : b <= m} = 1..n /\ 1..n \subseteq 1..c
    BY <1>7
  <2> HIDE DEF n
  <2>2. result' = [a \in 1..n |-> sorted[a]]
    BY <1>6, <2>1
  <2>3. \A a \in 1..n : sorted[a] \in Passing
    BY <1>6, <2>1
  <2>4. QED
    BY <2>1, <2>2, <2>3
<1>10. result' \in Seq(Passing) /\ Len(result') = n
  <2>1. result' = [a \in 1..n |-> result'[a]]
    BY <1>6, <1>9
  <2>2. result' \in [1..n -> Passing]
    BY <1>9, <2>1
  <2>3. QED
    BY <1>7, <2>2
<1>11. ASSUME NEW a \in 1..n, NEW b \in 1..n, a < b
      PROVE  result'[a] # result'[b]
  BY <1>7, <1>8, <1>9, <1>11
<1>12. ASSUME NoWeightNegative PROVE RP!DominatorsFirst'
  <2>1. RankingRequest \in Ranking!Request
    BY <1>1, <1>12, RankingRequestType DEF NoWeightNegative
  <2>2. RP!TypeOK
    BY <1>1, <1>2, <2>1, BuiltFacts DEF RP!TypeOK, RankTypes
  <2>3. QED
    BY <2>2, RP!SortKeepsDominators, RankAssumption, SameSort
<1>13. \A i, j : Precedes(j, i) <=> RP!Precedes(j, i)'
  <2>1. RankingRequest'.weight = internal_request.weight
    BY <1>3 DEF RankingRequest
  <2>2. QED
    BY <1>2, <2>1 DEF RP!Precedes, Precedes
<1>14. ASSUME NoWeightNegative, NEW a \in 1..n, NEW b \in 1..n, a < b,
              Precedes(result'[b], result'[a])
       PROVE  FALSE
  <2>1. PICK i \in Passing : i = result'[a]
    BY <1>9
  <2>2. PICK j \in Passing : j = result'[b]
    BY <1>9
  <2>3. (RP!Kept)' = Passing
    <3>1. \A r : RP!HardPassed(r)' <=> Ranking!HardPassed(r)'
      BY DEF RP!HardPassed, Ranking!HardPassed
    <3>2. (Ranking!Kept)' = Passing
      BY <1>1, RankingSeesNext
    <3>3. QED
      BY <3>1, <3>2 DEF RP!Kept, Ranking!Kept
  <2>4. RP!Precedes(j, i)'
    BY <1>13, <1>14, <2>1, <2>2
  <2>5. ranking_status' = "done"
    BY DEF Ranking!SortAndTruncate
  <2>6. \A x \in Passing : RP!Precedes(x, result[a])' =>
            \E d \in DOMAIN result' : d < a /\ result'[d] = x
    BY <1>9, <1>12, <1>14, <2>3, <2>5 DEF RP!DominatorsFirst
  <2>7. \E d \in DOMAIN result' : d < a /\ result'[d] = j
    BY <2>1, <2>4, <2>6
  <2>8. QED
    BY <1>7, <1>9, <1>11, <1>14, <2>2, <2>7
<1>15. \A i, j : Precedes(i, j)' <=> Precedes(i, j)
  BY <1>2, <1>3 DEF Precedes
<1>16. QED
  BY <1>2, <1>3, <1>9, <1>10, <1>11, <1>14, <1>15 DEF ResultInv, NoWeightNegative

-------------------------------------------------------------------------------
(***************************************************************************)
(* What is offered keeps what the client was promised.                     *)
(***************************************************************************)

\* The walks behind the routes of the answer.
Walks == [a \in DOMAIN result |-> paths[result[a]].path]

\* A call is well formed where it is parsed.
LEMMA WellFormedIsParsed == Client!WellFormed <=> (call.via = "http" => Deserializes)
BY SameTerms DEF Client!WellFormed, Client!Http, Client!Required, Deserializes, Field

\* What the request makes of the client's fields.
LEMMA FieldsKept ==
    ASSUME call \in Calls, call.via = "http" => Deserializes
    PROVE  /\ SearchRequest.origin = Client!Origin
           /\ SearchRequest.destination = Client!Destination
           /\ internal_request.pickup_after = Client!Pickup
           /\ internal_request.deliver_by = Client!Deadline
           /\ SearchRequest.excluded_carriers = Client!Value("excluded_carriers", {})
           /\ SearchRequest.allowed_modes = Client!Modes
           /\ LET w == internal_request.weight
              IN  /\ Client!Counts("cost_weight") <=> w.cost > 0
                  /\ Client!Counts("time_weight") <=> w.time > 0
                  /\ Client!Counts("carbon_weight") <=> w.carbon > 0
                  /\ Client!Counts("labor_weight") <=> w.labor > 0
           /\ Client!WeightsSensible => NoWeightNegative
<1> DEFINE W == internal_request.weight
           Weighed == /\ Client!Counts("cost_weight") <=> W.cost > 0
                      /\ Client!Counts("time_weight") <=> W.time > 0
                      /\ Client!Counts("carbon_weight") <=> W.carbon > 0
                      /\ Client!Counts("labor_weight") <=> W.labor > 0
                      /\ Client!WeightsSensible => NoWeightNegative
<1>1. CASE call.via = "http"
  <2>1. internal_request = HttpRequest /\ Client!Http
    BY <1>1 DEF internal_request, Client!Http
  <2>2. {"origin_code", "destination_code"} \subseteq DOMAIN call.body
    BY <1>1 DEF Deserializes
  <2>3. /\ SearchRequest.origin = Client!Origin
        /\ SearchRequest.destination = Client!Destination
    BY <2>1, <2>2 DEF SearchRequest, HttpRequest, Client!Origin, Client!Destination, Field
  <2>4. /\ internal_request.pickup_after = Client!Pickup
        /\ internal_request.deliver_by = Client!Deadline
        /\ SearchRequest.excluded_carriers = Client!Value("excluded_carriers", {})
    BY <2>1, SameTerms DEF SearchRequest, HttpRequest, Client!Pickup, Client!Deadline,
       pickup_after, deliver_by
  <2>5. SearchRequest.allowed_modes = Client!Modes
    BY <2>1, SameTerms DEF SearchRequest, HttpRequest, Client!Modes, allowed_modes
  <2>6. Weighed
    <3>1. \A f : /\ Field(f, 1) > 0 <=> Field(f, 4) > 0
                 /\ Field(f, 1) > 0 <=> Field(f, 3) > 0
                 /\ Field(f, 1) > 0 <=> Field(f, 2) > 0
                 /\ Field(f, 0) >= 0 => /\ Field(f, 4) >= 0 /\ Field(f, 3) >= 0
                                        /\ Field(f, 2) >= 0 /\ Field(f, 1) >= 0
      BY DEF Field
    <3>2. \A f : Client!Counts(f) <=> Field(f, 1) > 0
      BY <2>1, SameTerms DEF Client!Counts
    <3>3. Client!WeightsSensible =>
             /\ Field("cost_weight", 0) >= 0 /\ Field("time_weight", 0) >= 0
             /\ Field("carbon_weight", 0) >= 0 /\ Field("labor_weight", 0) >= 0
      BY SameTerms DEF Client!WeightsSensible
    <3>4. /\ W.cost = Field("cost_weight", 4) /\ W.time = Field("time_weight", 3)
          /\ W.carbon = Field("carbon_weight", 2) /\ W.labor = Field("labor_weight", 1)
      BY <2>1 DEF HttpRequest
    <3> HIDE DEF W
    <3>5. NoWeightNegative <=> W.cost >= 0 /\ W.time >= 0 /\ W.carbon >= 0 /\ W.labor >= 0
      BY DEF NoWeightNegative, W
    <3>6. QED
      BY <3>1, <3>2, <3>3, <3>4, <3>5
  <2>7. QED
    BY <2>3, <2>4, <2>5, <2>6
<1>2. CASE call.via # "http"
  <2>1. internal_request = GrpcRequest /\ ~Client!Http
    BY <1>2 DEF internal_request, Client!Http
  <2>2. /\ SearchRequest.origin = Client!Origin
        /\ SearchRequest.destination = Client!Destination
    BY <2>1, SameTerms DEF SearchRequest, GrpcRequest, Client!Origin, Client!Destination
  <2>3. /\ internal_request.pickup_after = Client!Pickup
        /\ internal_request.deliver_by = Client!Deadline
        /\ SearchRequest.excluded_carriers = Client!Value("excluded_carriers", {})
    BY <2>1, SameTerms DEF SearchRequest, GrpcRequest, Client!Pickup, Client!Deadline,
       pickup_after, deliver_by
  <2>4. SearchRequest.allowed_modes = Client!Modes
    BY <2>1, SameTerms DEF SearchRequest, GrpcRequest, Client!Modes, allowed_modes
  <2>5. Weighed
    <3>1. \A f : Client!Counts(f) <=> Field(f, 0) > 0
      BY <2>1, SameTerms DEF Client!Counts
    <3>2. Client!WeightsSensible =>
             /\ Field("cost_weight", 0) >= 0 /\ Field("time_weight", 0) >= 0
             /\ Field("carbon_weight", 0) >= 0 /\ Field("labor_weight", 0) >= 0
      BY SameTerms DEF Client!WeightsSensible
    <3>3. /\ W.cost = Field("cost_weight", 0) /\ W.time = Field("time_weight", 0)
          /\ W.carbon = Field("carbon_weight", 0) /\ W.labor = Field("labor_weight", 0)
      BY <2>1 DEF GrpcRequest
    <3> HIDE DEF W
    <3>4. NoWeightNegative <=> W.cost >= 0 /\ W.time >= 0 /\ W.carbon >= 0 /\ W.labor >= 0
      BY DEF NoWeightNegative, W
    <3>5. QED
      BY <3>1, <3>2, <3>3, <3>4
  <2>6. QED
    BY <2>2, <2>3, <2>4, <2>5
<1>3. QED
  BY <1>1, <1>2

\* A limit that is not negative is kept, by either protocol.
LEMMA LimitsKept ==
    ASSUME call \in Calls, call.via = "http" => Deserializes, NEW n \in Nat
    PROVE  /\ n <= internal_request.max_routes =>
                 Client!Within(n, "max_routes", IF Client!Http THEN 10 ELSE 0)
           /\ n <= SearchRequest.max_segments =>
                 Client!Within(n, "max_segments", IF Client!Http THEN 8 ELSE 0)
<1>1. \A m \in Nat : AsUsize(m) <= m
  <2>1. UsizeLimit \in Nat \ {0}
    BY OptimizerAssumption
  <2>2. QED
    BY <2>1 DEF AsUsize
<1>2. /\ \A u \in Int : Field("max_routes", u) \in Int /\ Field("max_segments", u) \in Int
  BY FieldTypes DEF NumberFields
<1>3. /\ internal_request.max_routes \in Nat /\ internal_request.max_segments \in Nat
      /\ SearchRequest.max_segments = internal_request.max_segments
  BY RequestTypes DEF SearchRequest
<1>4. CASE call.via = "http"
  <2>1. /\ internal_request.max_routes = Field("max_routes", 10)
        /\ internal_request.max_segments = Field("max_segments", 8)
    BY <1>4 DEF internal_request, HttpRequest
  <2>2. QED
    BY <1>3, <1>4, <2>1, SameTerms DEF Client!Within, Client!Http
<1>5. CASE call.via # "http"
  <2> DEFINE r == Field("max_routes", 0)  g == Field("max_segments", 0)
  <2>1. /\ internal_request.max_routes = AsUsize(r)
        /\ internal_request.max_segments = AsUsize(g)
    BY <1>5 DEF internal_request, GrpcRequest
  <2>2. r \in Int /\ g \in Int
    BY <1>2
  <2>3. /\ Client!Value("max_routes", IF Client!Http THEN 10 ELSE 0) = r
        /\ Client!Value("max_segments", IF Client!Http THEN 8 ELSE 0) = g
    BY <1>5, SameTerms DEF Client!Http
  <2> HIDE DEF r, g
  <2>4. QED
    BY <1>1, <1>3, <2>1, <2>2, <2>3 DEF Client!Within
<1>6. QED
  BY <1>4, <1>5

LEMMA WalksKeep ==
    ASSUME call \in Calls, SearchInv, RankInv, ResultInv, ranking_status = "done"
    PROVE  Client!Keeps(Walks)
<1>1. /\ PathsSound
      /\ call.via = "http" => Deserializes
      /\ \A i, j \in DOMAIN paths : i # j => paths[i].path # paths[j].path
  BY SearchGivesPaths DEF RankInv, SearchInv
<1>2. /\ result \in Seq(Passing) /\ Len(result) <= internal_request.max_routes
      /\ DOMAIN Walks = DOMAIN result /\ Len(Walks) = Len(result)
      /\ Len(result) \in Nat
      /\ \A a \in DOMAIN result : result[a] \in Passing
  <2>1. result \in Seq(Passing) /\ Len(result) <= internal_request.max_routes
    BY DEF ResultInv
  <2>2. DOMAIN result = 1..Len(result) /\ Len(result) \in Nat
    BY <2>1, LenProperties
  <2>3. QED
    BY <2>1, <2>2 DEF Walks
<1>3. ASSUME NEW a \in DOMAIN Walks
      PROVE  /\ Client!Connects(Walks[a]) /\ Client!Permitted(Walks[a])
             /\ Client!OnTime(Walks[a])
             /\ Client!Within(Len(Walks[a]), "max_segments", IF Client!Http THEN 8 ELSE 0)
  <2> DEFINE w == paths[result[a]].path
  <2>1. result[a] \in DOMAIN paths /\ result[a] \in Passing /\ Walks[a] = w
    BY <1>2 DEF Walks, Passing
  <2>2. /\ PathOf(w)
        /\ \A l \in 1..Len(w) : Edge[w[l]].carrier_wage_cents >= DefaultWage
        /\ Client!Transit(w) <= window
    BY <1>1, <2>1, BuiltFacts DEF PathsSound
  <2>3. Client!Schedule(w) \in Nat /\ Client!Transit(w) \in Nat
    BY <2>2, TotalsNat
  <2> HIDE DEF w
  <2>4. w \in Seq(Edges) /\ DOMAIN w = 1..Len(w) /\ Len(w) \in Nat
    BY <2>2, LenProperties DEF PathOf
  <2>5. Client!Connects(w)
    BY <1>1, <2>2, FieldsKept DEF PathOf, Client!Connects
  <2>6. Client!Permitted(w)
    BY <1>1, <2>2, <2>4, FieldsKept DEF PathOf, Client!Permitted
  <2>7. Client!OnTime(w)
    <3> DEFINE t == internal_request.deliver_by - internal_request.pickup_after
    <3>1. Client!Schedule(w) <= t
      BY <1>1, <2>2, WindowFacts DEF PathOf
    <3>2. t \in Int /\ window \in Int /\ (t >= 0 => window <= t)
      BY <1>1, WindowFacts
    <3>3. Client!Transit(w) <= t
      <4> HIDE DEF t
      <4>1. QED
        BY <2>2, <2>3, <3>1, <3>2
    <3>4. internal_request.pickup_after \in Int /\ internal_request.deliver_by \in Int
      BY <1>1, RequestTypes
    <3>5. QED
      BY <1>1, <2>3, <3>1, <3>3, <3>4, FieldsKept DEF Client!OnTime
  <2>8. Client!Within(Len(w), "max_segments", IF Client!Http THEN 8 ELSE 0)
    BY <1>1, <2>2, <2>4, LimitsKept DEF PathOf
  <2>9. QED
    BY <2>1, <2>5, <2>6, <2>7, <2>8
<1>4. ASSUME NEW a \in DOMAIN Walks, NEW b \in DOMAIN Walks, a < b
      PROVE  /\ Walks[a] # Walks[b]
             /\ Client!WeightsSensible => ~Client!Better(Walks[b], Walks[a])
  <2> DEFINE i == result[a]  j == result[b]
  <2>1. /\ i \in Passing /\ j \in Passing /\ i # j
        /\ NoWeightNegative => ~Precedes(j, i)
    BY <1>2, <1>4 DEF ResultInv
  <2>2. i \in DOMAIN paths /\ j \in DOMAIN paths
    BY <2>1 DEF Passing
  <2>3. Walks[a] = paths[i].path /\ Walks[b] = paths[j].path
    BY <1>2 DEF Walks
  <2> HIDE DEF i, j
  <2>4. Client!Better(paths[j].path, paths[i].path) => Precedes(j, i)
    <3> DEFINE v == paths[j].path  w == paths[i].path
    <3>1. /\ i \in Nat /\ j \in Nat /\ i # j
          /\ Client!Cost(v) \in Nat /\ Client!Cost(w) \in Nat
          /\ i < j => Client!Cost(w) <= Client!Cost(v)
      BY <1>1, <2>1, <2>2, BuiltFacts, TotalsNat DEF PathsSound
    <3>2. Client!Cost(v) < Client!Cost(w) => j < i
      BY <3>1
    <3>3. /\ Built[j].cost = Client!Cost(v) /\ Built[j].time = Client!Transit(v)
          /\ Built[j].carbon = Client!Carbon(v) /\ Built[j].labor = Client!Labor(v)
          /\ Built[i].cost = Client!Cost(w) /\ Built[i].time = Client!Transit(w)
          /\ Built[i].carbon = Client!Carbon(w) /\ Built[i].labor = Client!Labor(w)
      BY <1>1, <2>2, BuiltFacts
    <3>4. LET x == internal_request.weight
          IN  /\ Client!Counts("cost_weight") <=> x.cost > 0
              /\ Client!Counts("time_weight") <=> x.time > 0
              /\ Client!Counts("carbon_weight") <=> x.carbon > 0
              /\ Client!Counts("labor_weight") <=> x.labor > 0
      BY <1>1, FieldsKept
    <3> HIDE DEF v, w
    <3>5. Client!Better(v, w) => Precedes(j, i)
      BY <3>2, <3>3, <3>4 DEF Client!Better, Precedes
    <3>6. QED
      BY <3>5 DEF v, w
  <2>5. QED
    BY <1>1, <2>1, <2>2, <2>3, <2>4, FieldsKept
<1>5. Client!Within(Len(Walks), "max_routes", IF Client!Http THEN 10 ELSE 0)
  BY <1>1, <1>2, LimitsKept
<1>6. QED
  BY <1>3, <1>4, <1>5 DEF Client!Keeps

\* The answer to a call that was searched.
Offer == [status |-> "ok", candidates_evaluated |-> Len(paths),
          routes |-> [a \in DOMAIN result |-> OnWire(result[a])]]

\* What the wire carries of a route.
LEMMA WireFields ==
    ASSUME NEW i \in DOMAIN paths, PathsSound, routes = AllRoutes
    PROVE  LET w == paths[i].path  r == OnWire(i)
           IN  /\ DOMAIN r.segments = 1..Len(w) /\ Len(r.segments) = Len(w)
               /\ r.total_time_hours = Client!Transit(w)
               /\ \A l \in 1..Len(w) :
                     /\ r.segments[l].from_node = Segment(w, l).from_node
                     /\ r.segments[l].to_node = Edge[w[l]].to
                     /\ r.segments[l].mode = Edge[w[l]].mode
                     /\ r.segments[l].carrier_code = Edge[w[l]].carrier_code
                     /\ r.segments[l].cost_usd = calculate_cost(w[l], Field("weight_kg", 0))
                     /\ r.segments[l].transit_hours = Edge[w[l]].transit
                     /\ r.segments[l].carbon_kg = calculate_carbon(w[l], Field("weight_kg", 0))
                     /\ IF call.via = "http" THEN "carrier_wage_cents" \notin DOMAIN r.segments[l]
                        ELSE /\ "carrier_wage_cents" \in DOMAIN r.segments[l]
                             /\ r.segments[l].carrier_wage_cents = Edge[w[l]].carrier_wage_cents
<1> DEFINE w == paths[i].path
           r == OnWire(i)
           x == EvaluatedRoute(w)
           n == Len(w)
           unsent == {"labor_score"} \cup
                       IF call.via = "http" THEN {"carrier_wage_cents"} ELSE {}
<1>1. PathOf(w) /\ routes[i] = x
  BY DEF PathsSound, AllRoutes
<1>2. /\ DOMAIN x.segments = 1..n
      /\ \A l \in 1..n : x.segments[l] = Segment(w, l)
      /\ x.total_time_hours = Client!Transit(w)
  <2> HIDE DEF w, n
  <2>1. /\ DOMAIN path_to_route(w).segments = 1..Len(w)
        /\ \A l \in 1..Len(w) : path_to_route(w).segments[l] = Segment(w, l)
        /\ path_to_route(w).total_time_hours = Client!Transit(w)
    BY <1>1, RouteTotals
  <2>2. /\ x.segments = path_to_route(w).segments
        /\ x.total_time_hours = path_to_route(w).total_time_hours
    BY DEF EvaluatedRoute, path_to_route, CandidateRoute
  <2>3. QED
    BY <2>1, <2>2 DEF n
<1>3. /\ r.segments = [l \in DOMAIN x.segments |->
                         Restrict(x.segments[l], DOMAIN x.segments[l] \ unsent)]
      /\ r.total_time_hours = x.total_time_hours
  <2>1. routes[i] = [path_to_route(w) EXCEPT
                       !.constraint_results = x.constraint_results]
    BY <1>1 DEF EvaluatedRoute
  <2> HIDE DEF w
  <2>2. QED
    BY <1>1, <2>1 DEF OnWire, path_to_route, CandidateRoute
<1>4. n \in Nat
  BY <1>1, LenProperties DEF PathOf
<1> HIDE DEF w, r, x, n
<1>5. DOMAIN r.segments = 1..n /\ Len(r.segments) = n
  BY <1>2, <1>3, <1>4
<1>6. ASSUME NEW l \in 1..n
      PROVE  r.segments[l] = Restrict(Segment(w, l), DOMAIN Segment(w, l) \ unsent)
  BY <1>2, <1>3
<1>7. ASSUME NEW l
      PROVE  DOMAIN Segment(w, l) =
                {"from_node", "to_node", "mode", "carrier_code", "cost_usd", "transit_hours",
                 "carbon_kg", "carrier_wage_cents", "labor_score", "departure_time",
                 "arrival_time"}
  BY DEF Segment
<1>8. ASSUME NEW l \in 1..n
      PROVE  /\ r.segments[l].from_node = Segment(w, l).from_node
             /\ r.segments[l].to_node = Segment(w, l).to_node
             /\ r.segments[l].mode = Segment(w, l).mode
             /\ r.segments[l].carrier_code = Segment(w, l).carrier_code
             /\ r.segments[l].cost_usd = Segment(w, l).cost_usd
             /\ r.segments[l].transit_hours = Segment(w, l).transit_hours
             /\ r.segments[l].carbon_kg = Segment(w, l).carbon_kg
             /\ IF call.via = "http" THEN "carrier_wage_cents" \notin DOMAIN r.segments[l]
                ELSE /\ "carrier_wage_cents" \in DOMAIN r.segments[l]
                     /\ r.segments[l].carrier_wage_cents = Segment(w, l).carrier_wage_cents
  <2> DEFINE seg == Segment(w, l)
             s == r.segments[l]
  <2>1. s = [f \in DOMAIN seg \ unsent |-> seg[f]]
    BY <1>6 DEF Restrict
  <2>2. DOMAIN seg =
                {"from_node", "to_node", "mode", "carrier_code", "cost_usd", "transit_hours",
                 "carbon_kg", "carrier_wage_cents", "labor_score", "departure_time",
                 "arrival_time"}
    BY <1>7
  <2> HIDE DEF seg, s
  <2>3. CASE call.via = "http"
    BY <2>1, <2>2, <2>3 DEF seg, s
  <2>4. CASE call.via # "http"
    BY <2>1, <2>2, <2>4 DEF seg, s
  <2>5. QED
    BY <2>3, <2>4
<1>9. ASSUME NEW l \in 1..n
      PROVE  /\ Segment(w, l).to_node = Edge[w[l]].to
             /\ Segment(w, l).mode = Edge[w[l]].mode
             /\ Segment(w, l).carrier_code = Edge[w[l]].carrier_code
             /\ Segment(w, l).cost_usd = calculate_cost(w[l], Field("weight_kg", 0))
             /\ Segment(w, l).transit_hours = Edge[w[l]].transit
             /\ Segment(w, l).carbon_kg = calculate_carbon(w[l], Field("weight_kg", 0))
             /\ Segment(w, l).carrier_wage_cents = Edge[w[l]].carrier_wage_cents
  BY SegmentFields, SameTerms
<1>10. ASSUME NEW l \in 1..n
       PROVE  /\ r.segments[l].from_node = Segment(w, l).from_node
              /\ r.segments[l].to_node = Edge[w[l]].to
              /\ r.segments[l].mode = Edge[w[l]].mode
              /\ r.segments[l].carrier_code = Edge[w[l]].carrier_code
              /\ r.segments[l].cost_usd = calculate_cost(w[l], Field("weight_kg", 0))
              /\ r.segments[l].transit_hours = Edge[w[l]].transit
              /\ r.segments[l].carbon_kg = calculate_carbon(w[l], Field("weight_kg", 0))
              /\ IF call.via = "http" THEN "carrier_wage_cents" \notin DOMAIN r.segments[l]
                 ELSE /\ "carrier_wage_cents" \in DOMAIN r.segments[l]
                      /\ r.segments[l].carrier_wage_cents = Edge[w[l]].carrier_wage_cents
  BY <1>8, <1>9
<1>11. r.total_time_hours = Client!Transit(w)
  BY <1>2, <1>3
<1> HIDE DEF unsent
<1>12. QED
  BY <1>5, <1>10, <1>11 DEF w, r, n

\* A route on the wire tells the walk it was built from.
LEMMA OfferTells ==
    ASSUME call \in Calls, NEW i \in DOMAIN paths, PathsSound, routes = AllRoutes,
           call.via = "http" => Deserializes
    PROVE  Tells(OnWire(i), paths[i].path)
<1> DEFINE w == paths[i].path
           r == OnWire(i)
<1>1. PathOf(w)
  BY DEF PathsSound
<1>2. /\ DOMAIN r.segments = 1..Len(w) /\ Len(r.segments) = Len(w)
      /\ \A l \in 1..Len(w) :
            /\ r.segments[l].from_node = Segment(w, l).from_node
            /\ r.segments[l].to_node = Edge[w[l]].to
            /\ r.segments[l].mode = Edge[w[l]].mode
            /\ r.segments[l].carrier_code = Edge[w[l]].carrier_code
            /\ r.segments[l].cost_usd = calculate_cost(w[l], Field("weight_kg", 0))
            /\ r.segments[l].transit_hours = Edge[w[l]].transit
            /\ r.segments[l].carbon_kg = calculate_carbon(w[l], Field("weight_kg", 0))
  BY WireFields
<1>3. Segment(w, 1).from_node = SearchRequest.origin
  BY DEF Segment, SearchRequest
<1> HIDE DEF w, r
<1>4. DOMAIN w = 1..Len(w) /\ Len(w) \in Nat
  BY <1>1, LenProperties DEF PathOf
<1>5. ASSUME NEW l \in 1..Len(w)
      PROVE  Edge[w[l]].from = IF l = 1 THEN r.segments[l].from_node
                               ELSE r.segments[l - 1].to_node
  <2>1. CASE l = 1
    BY <1>1, <1>2, <1>3, <2>1 DEF PathOf
  <2>2. CASE l # 1
    <3>1. l - 1 \in 1..Len(w) - 1 /\ l - 1 \in 1..Len(w) /\ (l - 1) + 1 = l
      BY <1>4, <2>2
    <3>2. Edge[w[l - 1]].to = Edge[w[(l - 1) + 1]].from
      BY <1>1, <3>1 DEF PathOf
    <3>3. QED
      BY <1>2, <2>2, <3>1, <3>2
  <2>3. QED
    BY <2>1, <2>2
<1>6. QED
  BY <1>2, <1>4, <1>5 DEF Tells, w, r

-------------------------------------------------------------------------------
(***************************************************************************)
(* What the service says of a route it offered.                            *)
(***************************************************************************)

LEMMA PairCardinality ==
    ASSUME NEW x, NEW y
    PROVE  /\ IsFiniteSet({x, y}) /\ Cardinality({x, y}) <= 2
           /\ x # y => Cardinality({x, y}) = 2
<1>1. IsFiniteSet({x}) /\ Cardinality({x}) = 1
  BY FS_Singleton
<1>2. {x, y} = {x} \cup {y}
  OBVIOUS
<1>3. /\ IsFiniteSet({x} \cup {y})
      /\ Cardinality({x} \cup {y}) = IF y \in {x} THEN 1 ELSE 1 + 1
  BY <1>1, FS_AddElement
<1>4. QED
  BY <1>2, <1>3

\* Three results of different names: all passed if three did.
LEMMA ScoreCounts ==
    ASSUME NEW route, NEW w
    PROVE  LET results == evaluate_route(EmptyCache, route, w, <<>>)
           IN  AllHardPassed(results) <=> Cardinality({r \in results : r.passed}) = 3
<1> DEFINE s == [id |-> "sanction-check", is_hard |-> TRUE,
                 passed |-> check_sanction_constraint(EmptyCache, route)]
           g == [id |-> "wage-minimum", is_hard |-> TRUE,
                 passed |-> check_wage_constraint(EmptyCache, route)]
           t == [id |-> "time-window", is_hard |-> TRUE,
                 passed |-> check_time_constraint(route, w)]
           results == evaluate_route(EmptyCache, route, w, <<>>)
           P == {r \in results : r.passed}
<1>1. results = {s, g, t}
  BY DEF evaluate_route, HardResults
<1>2. /\ s # g /\ g # t /\ s # t
      /\ s.is_hard /\ g.is_hard /\ t.is_hard
  <2>1. s.id = "sanction-check" /\ g.id = "wage-minimum" /\ t.id = "time-window"
    OBVIOUS
  <2>2. s.is_hard = TRUE /\ g.is_hard = TRUE /\ t.is_hard = TRUE
    OBVIOUS
  <2> HIDE DEF s, g, t
  <2>3. s # g /\ g # t /\ s # t
    BY <2>1
  <2>4. QED
    BY <2>2, <2>3
<1> HIDE DEF s, g, t, results
<1>3. /\ IsFiniteSet({s, g, t}) /\ Cardinality({s, g, t}) = 3
      /\ \A x, y : IsFiniteSet({x, y}) /\ Cardinality({x, y}) <= 2
  <2>1. \A x, y : IsFiniteSet({x, y}) /\ Cardinality({x, y}) <= 2
    BY PairCardinality
  <2>2. {s, g, t} = {s, g} \cup {t} /\ t \notin {s, g}
    BY <1>2
  <2>3. IsFiniteSet({s, g}) /\ Cardinality({s, g}) = 2
    BY <1>2, PairCardinality
  <2>4. IsFiniteSet({s, g} \cup {t}) /\ Cardinality({s, g} \cup {t}) = 2 + 1
    BY <2>2, <2>3, FS_AddElement
  <2>5. IsFiniteSet({s, g, t}) /\ Cardinality({s, g, t}) = 3
    BY <2>2, <2>4
  <2>6. QED
    BY <2>1, <2>5
<1>4. AllHardPassed(results) <=> s.passed /\ g.passed /\ t.passed
  BY <1>1, <1>2 DEF AllHardPassed
<1>5. CASE s.passed /\ g.passed /\ t.passed
  <2>1. P = {s, g, t}
    BY <1>1, <1>5
  <2>2. QED
    BY <1>3, <1>4, <1>5, <2>1 DEF results
<1>6. CASE ~(s.passed /\ g.passed /\ t.passed)
  <2>1. P \subseteq {s, g} \/ P \subseteq {g, t} \/ P \subseteq {s, t}
    BY <1>1, <1>6
  <2>2. PICK x, y : P \subseteq {x, y}
    BY <2>1
  <2>3. IsFiniteSet({x, y}) /\ Cardinality({x, y}) <= 2
    BY <1>3
  <2> HIDE DEF P
  <2>4. /\ Cardinality(P) \in Nat /\ Cardinality({x, y}) \in Nat
        /\ Cardinality(P) <= Cardinality({x, y})
    BY <2>2, <2>3, FS_Subset, FS_CardinalityType
  <2>5. Cardinality(P) # 3
    BY <2>3, <2>4
  <2>6. QED
    BY <1>4, <1>6, <2>5 DEF P, results
<1>7. QED
  BY <1>5, <1>6

\* Of a route it offered the service knows the hours, and over gRPC the wages.
LEMMA OfferEvaluates ==
    ASSUME call \in Calls, PathsSound, routes = AllRoutes, NEW i \in Passing
    PROVE  LET route == OnWire(i)
               results == evaluate_route(EmptyCache, parse_proto_route(route), DefaultWindow, <<>>)
           IN  AllHardPassed(results) <=>
                  call.via = "grpc" /\ route.total_time_hours <= DefaultWindow
<1> DEFINE w == paths[i].path
           n == Len(w)
           route == OnWire(i)
           labor == (CountryMinWage * 5 * 8) \div 10
           segments == [l \in DOMAIN route.segments |-> ParsedSegment(route.segments[l], labor)]
           x == parse_proto_route(route)
<1>1. i \in DOMAIN paths /\ PathOf(w)
  BY DEF Passing, PathsSound
<1>2. /\ DOMAIN route.segments = 1..n
      /\ route.total_time_hours = Client!Transit(w)
      /\ \A l \in 1..n :
            /\ route.segments[l].transit_hours = Edge[w[l]].transit
            /\ IF call.via = "http"
               THEN "carrier_wage_cents" \notin DOMAIN route.segments[l]
               ELSE /\ "carrier_wage_cents" \in DOMAIN route.segments[l]
                    /\ route.segments[l].carrier_wage_cents = Edge[w[l]].carrier_wage_cents
  BY <1>1, WireFields
<1>3. \A l \in 1..n : Edge[w[l]].carrier_wage_cents >= DefaultWage
  BY <1>1, BuiltFacts
<1>4. DefaultWage \in Nat \ {0} /\ call.via \in {"http", "grpc"}
  BY OptimizerAssumption
<1>5. /\ x.segments = segments
      /\ x.total_time_hours = SumOf([l \in DOMAIN segments |-> segments[l].transit_hours])
  BY DEF parse_proto_route, CandidateRoute
<1> HIDE DEF route, x, w, labor
<1>6. ASSUME NEW l \in 1..n
      PROVE  /\ segments[l].transit_hours = Edge[w[l]].transit
             /\ segments[l].carrier_wage_cents =
                   IF call.via = "http" THEN 0 ELSE Edge[w[l]].carrier_wage_cents
  BY <1>2 DEF ParsedSegment
<1>7. n \in Nat \ {0} /\ DOMAIN w = 1..n
  BY <1>1, LenProperties, EmptySeq DEF PathOf
<1>8. DOMAIN segments = 1..n
  BY <1>2
<1> HIDE DEF segments
<1>9. x.total_time_hours = route.total_time_hours
  <2>1. [l \in DOMAIN segments |-> segments[l].transit_hours] =
           [l \in DOMAIN w |-> Edge[w[l]].transit]
    BY <1>6, <1>7, <1>8
  <2>2. QED
    BY <1>2, <1>5, <2>1, SameTerms DEF Client!Transit
<1>10. (\A l \in DOMAIN x.segments : x.segments[l].carrier_wage_cents >= DefaultWage)
          <=> call.via = "grpc"
  <2>1. CASE call.via = "http"
    <3>1. 1 \in DOMAIN x.segments /\ x.segments[1].carrier_wage_cents = 0
      BY <1>5, <1>6, <1>7, <1>8, <2>1
    <3>2. QED
      BY <1>4, <2>1, <3>1
  <2>2. CASE call.via # "http"
    BY <1>3, <1>4, <1>5, <1>6, <1>8, <2>2
  <2>3. QED
    BY <2>1, <2>2
<1>11. QED
  BY <1>9, <1>10, HardChecks, SoftDoNotCount DEF x, route

-------------------------------------------------------------------------------
(***************************************************************************)
(* The invariant of a call, and what follows from it.                      *)
(***************************************************************************)

\* The answer is still pending, or one of the three there are.
AnswerInv ==
    \/ answer = Pending
    \/ /\ answer = [Pending EXCEPT !.status = "refused"]
       /\ call.via = "http" /\ ~Deserializes
    \/ /\ answer = [Pending EXCEPT !.status = "ok"]
       /\ call.via = "http" => Deserializes
    \/ ranking_status = "done" /\ answer = Offer

CallInv ==
    /\ call \in Calls
    /\ SearchInv
    /\ RankInv
    /\ ResultInv
    /\ AnswerInv
    /\ EvaluationAgrees

LEMMA InitCallInv == Init => CallInv
<1> SUFFICES ASSUME Init PROVE CallInv
  OBVIOUS
<1>1. call \in Calls
  BY DEF Init
<1>2. SearchInv
  BY DEF Init, SearchInv
<1>3. RankInv /\ ResultInv
  BY DEF Init, RankInv, ResultInv
<1>4. AnswerInv
  BY DEF Init, AnswerInv
<1>5. EvaluationAgrees
  BY DEF Init, EvaluationAgrees, NotAsked
<1>6. QED
  BY <1>1, <1>2, <1>3, <1>4, <1>5 DEF CallInv

\* Where nothing of the ranking changes, its part of the invariant stays.
LEMMA RankingKept ==
    ASSUME CallInv, UNCHANGED <<call, searchVars, routes, rankingVars>>
    PROVE  RankInv' /\ ResultInv' /\ Offer' = Offer
<1>1. /\ call' = call /\ paths' = paths /\ search_status' = search_status
      /\ routes' = routes /\ dominated_count' = dominated_count /\ ranks' = ranks
      /\ pareto_optimal' = pareto_optimal /\ remaining' = remaining
      /\ non_dominated' = non_dominated /\ current_rank' = current_rank
      /\ ranking_status' = ranking_status /\ result' = result
  BY DEF searchVars, rankingVars
<1>2. AllRoutes' = AllRoutes /\ Built' = Built
  BY <1>1, SameRoutes DEF AllRoutes, Built, CandidateOf
<1>3. internal_request' = internal_request /\ window' = window
  BY <1>1, SameCall
<1>4. Passing' = Passing
  BY <1>1, <1>2, <1>3 DEF Passing
<1>5. RankInv'
  BY <1>1, <1>2, <1>4 DEF CallInv, RankInv, RankTypes
<1>6. ResultInv'
  BY <1>1, <1>2, <1>3, <1>4 DEF CallInv, ResultInv, NoWeightNegative, Precedes
<1>7. Offer' = Offer
  BY <1>1 DEF Offer, OnWire
<1>8. QED
  BY <1>5, <1>6, <1>7

\* An offer is final: neither the search nor the ranking goes on.
LEMMA WorkIsOver ==
    ASSUME CallInv, ranking_status = "done"
    PROVE  ~StartSearch /\ ~SearchStep /\ ~BuildRoutes /\ ~RankStep
<1>1. search_status = "done"
  BY DEF CallInv, RankInv
<1>2. ~StartSearch /\ ~BuildRoutes
  BY <1>1 DEF StartSearch, BuildRoutes
<1>3. ~SearchStep
  BY <1>1, SearchSteps DEF CallInv
<1>4. ~RankStep
  BY RankingSteps DEF CallInv
<1>5. QED
  BY <1>2, <1>3, <1>4

\* While the search and the ranking work, the answer is pending or does not
\* need them.
LEMMA AnswerKept ==
    ASSUME CallInv, call' = call, UNCHANGED <<answer, evaluation>>,
           ranking_status # "done"
    PROVE  AnswerInv' /\ EvaluationAgrees'
<1>1. Deserializes' <=> Deserializes
  BY SameCall
<1>2. DefaultWindow' = DefaultWindow
  OBVIOUS
<1>3. QED
  BY <1>1, <1>2 DEF CallInv, AnswerInv, EvaluationAgrees, Pending

\* What is evaluated was offered.
LEMMA EvaluationHolds ==
    ASSUME CallInv, NEW a \in DOMAIN answer.routes, EvaluateConstraints(answer.routes[a])
    PROVE  EvaluationAgrees'
<1> DEFINE route == answer.routes[a]
           results == evaluate_route(EmptyCache, parse_proto_route(route), DefaultWindow, <<>>)
<1>1. ranking_status = "done" /\ answer = Offer
  BY DEF CallInv, AnswerInv, Pending
<1>2. /\ PathsSound /\ routes = AllRoutes
      /\ result \in Seq(Passing)
  BY <1>1, SearchGivesPaths DEF CallInv, RankInv, SearchInv, ResultInv
<1>3. a \in DOMAIN result /\ route = OnWire(result[a])
  BY <1>1 DEF Offer
<1>4. result[a] \in Passing
  BY <1>2, <1>3, LenProperties, ElementOfSeq
<1>5. AllHardPassed(results) <=>
         call.via = "grpc" /\ route.total_time_hours <= DefaultWindow
  BY <1>2, <1>3, <1>4, OfferEvaluates DEF CallInv
<1>6. AllHardPassed(results) <=> Cardinality({r \in results : r.passed}) = 3
  BY ScoreCounts
<1>7. /\ evaluation'.route = route /\ call' = call
      /\ evaluation'.all_hard_passed <=> AllHardPassed(results)
      /\ evaluation'.overall_score = Cardinality({r \in results : r.passed})
  BY DEF EvaluateConstraints
<1> HIDE DEF results, route
<1>8. QED
  BY <1>5, <1>6, <1>7 DEF EvaluationAgrees

LEMMA NextCallInv == CallInv /\ [Next]_vars => CallInv'
<1> SUFFICES ASSUME CallInv, [Next]_vars PROVE CallInv'
  OBVIOUS
<1> USE DEF Serve
<1>1. CASE Refuse \/ UnknownNode \/ Answer \/ EvaluateNothing \/ UNCHANGED vars
            \/ \E a \in DOMAIN answer.routes : EvaluateConstraints(answer.routes[a])
  <2>1. UNCHANGED <<call, searchVars, routes, rankingVars>>
    BY <1>1 DEF Refuse, UnknownNode, Answer, EvaluateNothing, EvaluateConstraints, vars
  <2>2. SearchInv' /\ RankInv' /\ ResultInv' /\ Offer' = Offer /\ call' \in Calls
    BY <2>1, SearchVarsKept, RankingKept DEF CallInv
  <2>3. (Deserializes' <=> Deserializes) /\ ranking_status' = ranking_status /\ call' = call
    BY <2>1, SameCall DEF rankingVars
  <2>4. AnswerInv'
    <3>1. CASE Refuse
      BY <2>3, <3>1 DEF Refuse, AnswerInv, Pending
    <3>2. CASE UnknownNode
      BY <2>3, <3>2 DEF UnknownNode, Parsed, AnswerInv, Pending
    <3>3. CASE Answer
      BY <2>2, <2>3, <3>3 DEF Answer, AnswerInv, Offer
    <3>4. CASE answer' = answer
      BY <2>2, <2>3, <3>4 DEF CallInv, AnswerInv, Pending
    <3>5. QED
      BY <1>1, <3>1, <3>2, <3>3, <3>4 DEF EvaluateNothing, EvaluateConstraints, vars
  <2>5. EvaluationAgrees'
    <3>1. CASE evaluation' = evaluation
      BY <2>3, <3>1 DEF CallInv, EvaluationAgrees
    <3>2. CASE EvaluateNothing
      BY <3>2 DEF EvaluateNothing, EvaluationAgrees
    <3>3. CASE \E a \in DOMAIN answer.routes : EvaluateConstraints(answer.routes[a])
      BY <3>3, EvaluationHolds
    <3>4. QED
      BY <1>1, <3>1, <3>2, <3>3 DEF Refuse, UnknownNode, Answer, vars
  <2>6. QED
    BY <2>2, <2>4, <2>5 DEF CallInv
<1>2. CASE StartSearch
  <2>1. SearchInv'
    BY <1>2, SearchStarts DEF CallInv
  <2>2. ranking_status = "idle" /\ ranking_status' = "idle" /\ UNCHANGED <<routes, rankingVars>>
    BY <1>2 DEF StartSearch, CallInv, RankInv, rankingVars
  <2>3. RankInv' /\ ResultInv'
    BY <2>2 DEF CallInv, RankInv, ResultInv, rankingVars
  <2>4. AnswerInv' /\ EvaluationAgrees' /\ call' \in Calls
    BY <1>2, <2>2, AnswerKept DEF StartSearch, CallInv
  <2>5. QED
    BY <2>1, <2>3, <2>4 DEF CallInv
<1>3. CASE SearchStep
  <2>1. SearchInv' /\ search_status = "searching"
    BY <1>3, SearchSteps DEF CallInv
  <2>2. ranking_status = "idle" /\ ranking_status' = "idle" /\ UNCHANGED <<routes, rankingVars>>
    BY <1>3, <2>1 DEF SearchStep, CallInv, RankInv, rankingVars
  <2>3. RankInv' /\ ResultInv'
    BY <2>2 DEF CallInv, RankInv, ResultInv, rankingVars
  <2>4. AnswerInv' /\ EvaluationAgrees' /\ call' \in Calls
    BY <1>3, <2>2, AnswerKept DEF SearchStep, CallInv
  <2>5. QED
    BY <2>1, <2>3, <2>4 DEF CallInv
<1>4. CASE BuildRoutes
  <2>1. SearchInv' /\ call' \in Calls
    BY <1>4, SearchVarsKept DEF BuildRoutes, CallInv
  <2>2. RankInv' /\ ResultInv'
    BY <1>4, RankingStarts DEF CallInv
  <2>3. AnswerInv' /\ EvaluationAgrees'
    BY <1>4, AnswerKept DEF BuildRoutes, CallInv
  <2>4. QED
    BY <2>1, <2>2, <2>3 DEF CallInv
<1>5. CASE RankStep
  <2>1. SearchInv' /\ call' \in Calls
    BY <1>5, SearchVarsKept DEF RankStep, CallInv
  <2>2. RankInv' /\ ranking_status # "done" /\ (ranking_status' = "done" => Ranking!SortAndTruncate)
    BY <1>5, RankingSteps DEF CallInv
  <2>3. ResultInv'
    <3>1. CASE ranking_status' = "done"
      BY <1>5, <2>2, <3>1, RankingSorts DEF CallInv
    <3>2. CASE ranking_status' # "done"
      BY <3>2 DEF ResultInv
    <3>3. QED
      BY <3>1, <3>2
  <2>4. AnswerInv' /\ EvaluationAgrees'
    BY <1>5, <2>2, AnswerKept DEF RankStep, CallInv
  <2>5. QED
    BY <2>1, <2>2, <2>3, <2>4 DEF CallInv
<1>6. QED
  BY <1>1, <1>2, <1>3, <1>4, <1>5 DEF Next

LEMMA InvariantHolds == Spec => []CallInv
BY InitCallInv, NextCallInv, PTL DEF Spec

-------------------------------------------------------------------------------
(***************************************************************************)
(* A call of the service is a call of the abstract one.                    *)
(***************************************************************************)

\* The walks the client reads off an offer are those it was built from.
LEMMA ToldAreWalks ==
    CallInv /\ ranking_status = "done" /\ answer = Offer => ToldWalks = Walks
<1> SUFFICES ASSUME CallInv, ranking_status = "done", answer = Offer
             PROVE  ToldWalks = Walks
  OBVIOUS
<1>1. /\ PathsSound /\ routes = AllRoutes /\ result \in Seq(Passing)
      /\ call.via = "http" => Deserializes
  BY SearchGivesPaths DEF CallInv, RankInv, SearchInv, ResultInv
<1>2. DOMAIN answer.routes = DOMAIN result
  BY DEF Offer
<1>3. ASSUME NEW a \in DOMAIN result
      PROVE  Tells(answer.routes[a], paths[result[a]].path)
  <2>1. result[a] \in DOMAIN paths
    BY <1>1, LenProperties, ElementOfSeq DEF Passing
  <2>2. answer.routes[a] = OnWire(result[a])
    BY DEF Offer
  <2>3. QED
    BY <1>1, <2>1, <2>2, OfferTells DEF CallInv
<1>4. QED
  BY <1>2, <1>3 DEF ToldWalks, Walks

LEMMA InitCall == Init => Client!Init
BY DEF Init, Client!Init, Pending, ToldWalks

LEMMA StepCall ==
    CallInv /\ CallInv' /\ [Next]_vars => [Client!Next]_<<call, answer.status, ToldWalks>>
<1> SUFFICES ASSUME CallInv, CallInv', [Next]_vars
             PROVE  Client!Next \/ UNCHANGED <<call, answer.status, ToldWalks>>
  OBVIOUS
<1>1. CASE Refuse
  <2>1. answer = Pending /\ answer'.status = "refused" /\ answer'.routes = <<>> /\ call' = call
        /\ answer.status = "pending" /\ answer.routes = <<>>
    BY <1>1 DEF Refuse, Pending
  <2>2. ToldWalks' = ToldWalks
    BY <2>1 DEF ToldWalks
  <2>3. ~Client!WellFormed
    BY <1>1, WellFormedIsParsed DEF Refuse
  <2>4. QED
    BY <2>1, <2>2, <2>3 DEF Client!Next, Client!Refused
<1>2. CASE UnknownNode
  <2>1. answer'.status = "ok" /\ answer'.routes = <<>> /\ call' = call /\ answer.status = "pending"
    BY <1>2 DEF UnknownNode, Parsed, Pending
  <2>2. ToldWalks' = <<>>
    BY <2>1 DEF ToldWalks
  <2>3. Client!Keeps(<<>>)
    <3>1. 0 <= internal_request.max_routes
      BY <1>2, RequestTypes DEF UnknownNode, Parsed, CallInv
    <3>2. Client!Within(0, "max_routes", IF Client!Http THEN 10 ELSE 0)
      BY <1>2, <3>1, LimitsKept DEF UnknownNode, Parsed, CallInv
    <3>3. QED
      BY <3>2 DEF Client!Keeps
  <2>4. Client!WellFormed
    BY <1>2, WellFormedIsParsed DEF UnknownNode, Parsed
  <2>5. QED
    BY <2>1, <2>2, <2>3, <2>4 DEF Client!Next, Client!Answered
<1>3. CASE Answer
  <2>1. /\ answer' = Offer /\ ranking_status = "done" /\ answer.status = "pending"
        /\ UNCHANGED <<call, searchVars, routes, rankingVars>>
    BY <1>3 DEF Answer, Offer, Pending
  <2>2. answer' = Offer' /\ ranking_status' = "done" /\ Walks' = Walks
    BY <2>1, RankingKept DEF rankingVars, searchVars, Walks
  <2>3. ToldWalks' = Walks
    <3>1. CallInv' /\ (ranking_status = "done")' /\ (answer = Offer)' => (ToldWalks = Walks)'
      BY ToldAreWalks, PTL
    <3>2. QED
      BY <2>2, <3>1
  <2>4. Client!Keeps(Walks)
    BY <2>1, WalksKeep DEF CallInv
  <2>5. Client!WellFormed
    BY <2>1, WellFormedIsParsed DEF CallInv, RankInv, SearchInv
  <2>6. answer'.status = "ok" /\ call' = call
    BY <2>1 DEF Offer
  <2>7. QED
    BY <2>1, <2>3, <2>4, <2>5, <2>6 DEF Client!Next, Client!Answered
<1>4. CASE answer' = answer /\ call' = call
  <2>1. CASE answer.routes = <<>>
    BY <1>4, <2>1 DEF ToldWalks
  <2>2. CASE answer.routes # <<>>
    <3>1. ranking_status = "done" /\ answer = Offer
      BY <2>2 DEF CallInv, AnswerInv, Pending
    <3>2. UNCHANGED <<paths, result>>
      BY <3>1, WorkIsOver DEF Next, Serve, Refuse, UnknownNode, Answer, EvaluateConstraints,
         EvaluateNothing, searchVars, rankingVars, vars
    <3>3. ToldWalks' = ToldWalks
      BY <1>4, <3>2 DEF ToldWalks, Tells, Field
    <3>4. QED
      BY <1>4, <3>3
  <2>3. QED
    BY <2>1, <2>2
<1>5. QED
  BY <1>1, <1>2, <1>3, <1>4 DEF Next, Serve, StartSearch, SearchStep, BuildRoutes, RankStep,
     EvaluateConstraints, EvaluateNothing, vars

-------------------------------------------------------------------------------
(***************************************************************************)
(* The theorems.                                                           *)
(***************************************************************************)

(***************************************************************************)
(* The stages fit together: the search runs only for nodes of the graph,   *)
(* the ranking starts on the finished search and holds the candidates that *)
(* evaluate_route lets pass, and the answer counts at most three times as  *)
(* many candidates as routes were asked for.                               *)
(***************************************************************************)
THEOREM OptimizerTypeOK == Spec => []TypeOK
<1>1. CallInv => TypeOK
  <2> SUFFICES ASSUME CallInv PROVE TypeOK
    OBVIOUS
  <2>1. heap \subseteq Search!SearchState /\ paths \in Seq(Search!SearchState)
    <3>1. CASE search_status = "idle"
      BY <3>1 DEF CallInv, SearchInv
    <3>2. CASE search_status # "idle"
      BY <3>2, SameSearch DEF CallInv, SearchInv, SP!IInv, SP!TypeOK
    <3>3. QED
      BY <3>1, <3>2
  <2>2. CASE ranking_status = "idle"
    <3>1. /\ answer.status \in {"pending", "refused", "ok"}
          /\ answer.candidates_evaluated = 0
      BY <2>2 DEF CallInv, AnswerInv, Pending
    <3>2. QED
      BY <2>1, <2>2, <3>1 DEF CallInv, RankInv, TypeOK
  <2>3. CASE ranking_status # "idle"
    <3>1. /\ PathsSound /\ routes = AllRoutes /\ search_status = "done" /\ RankTypes
          /\ Len(paths) <= 3 * internal_request.max_routes
      BY <2>3, SearchGivesPaths DEF CallInv, RankInv
    <3>2. Retained = Passing
      BY <3>1, RankingSees DEF CallInv
    <3>3. /\ answer.status \in {"pending", "refused", "ok"}
          /\ answer.candidates_evaluated \in {0, Len(paths)}
      BY DEF CallInv, AnswerInv, Pending, Offer
    <3>4. answer.candidates_evaluated > 0 =>
             answer.candidates_evaluated <= 3 * internal_request.max_routes
      BY <3>1, <3>3
    <3>5. QED
      BY <2>1, <2>3, <3>1, <3>2, <3>3, <3>4 DEF CallInv, RankTypes, TypeOK
  <2>4. QED
    BY <2>2, <2>3
<1>2. QED
  BY <1>1, InvariantHolds, PTL

(***************************************************************************)
(* The service stands by what it offers: asked to evaluate a route of an   *)
(* answer it says that all hard constraints pass exactly if the route came *)
(* over gRPC, with its wages, and takes no longer than the default window. *)
(***************************************************************************)
THEOREM OptimizerEvaluationAgrees == Spec => []EvaluationAgrees
BY InvariantHolds, PTL DEF CallInv

(***************************************************************************)
(* Parsing, search, ranking and conversion together implement what         *)
(* OptimizeCall promises the client, for every network, every call and     *)
(* every order in which the search and the ranking work.                   *)
(***************************************************************************)
THEOREM OptimizerImplementsCall == Spec => ImplementsCall
<1>1. CallInv /\ CallInv' /\ [Next]_vars =>
         [Client!Next]_<<call, answer.status, ToldWalks>>
  BY StepCall
<1>2. QED
  BY <1>1, InitCall, InvariantHolds, PTL DEF Spec, ImplementsCall, Client!Spec
===============================================================================
