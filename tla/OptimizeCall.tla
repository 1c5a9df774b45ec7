------------------------------ MODULE OptimizeCall ------------------------------
(***************************************************************************)
(* What a client of the route optimizer is promised, whatever searches and *)
(* ranks behind it: a malformed call is refused, any other is answered     *)
(* once, with walks through the network that respect every field the       *)
(* client has set.  Fields are read as the client wrote them; module       *)
(* Optimizer shows that parsing, search and ranking together keep this.    *)
(*                                                                         *)
(* A call is [via, body]: the protocol and the fields that are set.        *)
(***************************************************************************)
EXTENDS TransportGraph, Sums

CONSTANTS
    Calls,           \* the calls a client may make
    LegalWage,       \* what a carrier pays at least, in cents
    StandardWindow,  \* the ticks to deliver in when no deadline is set
    LegScale         \* how finely means over legs are compared

VARIABLES
    call,
    outcome,         \* "pending", "refused" or "ok"
    offers           \* the walks offered, best first

Sets(f) == f \in DOMAIN call.body

Value(f, unset) == IF Sets(f) THEN call.body[f] ELSE unset

Http == call.via = "http"

\* The JSON of an HTTP call must have these fields; any gRPC message will do.
Required == {"shipment_id", "origin_code", "destination_code", "weight_kg", "volume_m3"}

WellFormed ==
    Http => /\ Required \subseteq DOMAIN call.body
            /\ Value("max_routes", 0) >= 0 /\ Value("max_segments", 0) >= 0

Origin == IF Http THEN call.body.origin_code ELSE Value("origin_port", "")

Destination == IF Http THEN call.body.destination_code ELSE Value("destination_port", "")

Pickup == Value("pickup_after", 0)

Deadline == Value("deliver_by", StandardWindow)

\* The modes asked for that exist.
Modes == {m \in TransportMode : m \in Value("allowed_modes", {})}

Cost(w) == SumOf([i \in DOMAIN w |-> calculate_cost(w[i], Value("weight_kg", 0))])

Transit(w) == SumOf([i \in DOMAIN w |-> Edge[w[i]].transit])

Carbon(w) == SumOf([i \in DOMAIN w |-> calculate_carbon(w[i], Value("weight_kg", 0))])

\* The mean over the legs.
Labor(w) == (LegScale * SumOf([i \in DOMAIN w |-> labor_score(w[i], 1500)])) \div Len(w)

\* The goods wait where they change from one mode to another.
Wait(w, i) ==
    IF i = 1 \/ Edge[w[i - 1]].mode = Edge[w[i]].mode THEN 0
    ELSE TransferTicks(Edge[w[i - 1]].mode, Edge[w[i]].mode)

\* The schedule moves by whole hours.
Schedule(w) == SumOf([i \in DOMAIN w |-> Wait(w, i) + WholeHours(Edge[w[i]].transit)])

Connects(w) ==
    /\ w # <<>>
    /\ Edge[w[1]].from = Origin /\ Edge[w[Len(w)]].to = Destination
    /\ \A i \in 1..Len(w) - 1 :
          Edge[w[i]].to = Edge[w[i + 1]].from /\ Edge[w[i]].to # Destination

Permitted(w) ==
    \A i \in DOMAIN w :
        /\ Edge[w[i]].active /\ ~Edge[w[i]].carrier_sanctioned
        /\ Edge[w[i]].carrier_wage_cents >= LegalWage
        /\ Edge[w[i]].carrier_code \notin Value("excluded_carriers", {})
        /\ Modes # {} => Edge[w[i]].mode \in Modes

\* By the schedule of whole hours and by the hours under way.
OnTime(w) ==
    /\ Pickup + Schedule(w) <= Deadline
    /\ Pickup + Transit(w) <= Deadline

\* A negative number in an int32 field bounds nothing.
Within(n, f, unset) == Value(f, unset) >= 0 => n <= Value(f, unset)

\* HTTP has defaults for the weights, gRPC has not.
Counts(f) == Value(f, IF Http THEN 1 ELSE 0) > 0

WeightsSensible ==
    \A f \in {"cost_weight", "time_weight", "carbon_weight", "labor_weight"} : Value(f, 0) >= 0

\* v is no worse than w in what counts, and better in some of it or cheaper.
Better(v, w) ==
    /\ Counts("cost_weight") => Cost(v) <= Cost(w)
    /\ Counts("time_weight") => Transit(v) <= Transit(w)
    /\ Counts("carbon_weight") => Carbon(v) <= Carbon(w)
    /\ Counts("labor_weight") => Labor(v) >= Labor(w)
    /\ \/ Cost(v) < Cost(w)
       \/ Counts("time_weight") /\ Transit(v) < Transit(w)
       \/ Counts("carbon_weight") /\ Carbon(v) < Carbon(w)
       \/ Counts("labor_weight") /\ Labor(v) > Labor(w)

Keeps(ws) ==
    /\ Within(Len(ws), "max_routes", IF Http THEN 10 ELSE 0)
    /\ \A i \in DOMAIN ws :
          /\ Connects(ws[i]) /\ Permitted(ws[i]) /\ OnTime(ws[i])
          /\ Within(Len(ws[i]), "max_segments", IF Http THEN 8 ELSE 0)
    /\ \A i, j \in DOMAIN ws : i < j =>
          /\ ws[i] # ws[j]
          /\ WeightsSensible => ~Better(ws[j], ws[i])
-------------------------------------------------------------------------------
Init == call \in Calls /\ outcome = "pending" /\ offers = <<>>

Refused ==
    /\ outcome = "pending" /\ ~WellFormed
    /\ outcome' = "refused"
    /\ UNCHANGED <<call, offers>>

Answered ==
    /\ outcome = "pending" /\ WellFormed
    /\ outcome' = "ok"
    /\ Keeps(offers')
    /\ UNCHANGED call

Next == Refused \/ Answered

Spec == Init /\ [][Next]_<<call, outcome, offers>>
===============================================================================
