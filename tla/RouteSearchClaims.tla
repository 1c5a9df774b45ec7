--------------------------- MODULE RouteSearchClaims ---------------------------
(***************************************************************************)
(* What the search is meant to achieve, stated against reference           *)
(* definitions that enumerate walks.  RouteSearchProofs proves the first   *)
(* three and that the loop ends; the last two are not achieved.            *)
(***************************************************************************)
EXTENDS RouteSearch, Sums

\* Every walk of at most max_segments edges that step can build from the
\* start and that meets the destination at its end and only there.
WalksBy(step(_)) ==
    LET layer[d \in 0..request.max_segments] ==
          IF d = 0 THEN {StartState}
          ELSE UNION {step(s) : s \in {t \in layer[d - 1] : ~AtDestination(t)}}
    IN  {s \in UNION {layer[d] : d \in 0..request.max_segments} : AtDestination(s)}

\* The walks that pass the filters and the search's own time constraint.
SearchWalks == WalksBy(Successors)

\* Time under way plus the transfers where the mode changes, not rounded.
travel_time(p) ==
    LET upto[i \in 0..Len(p)] ==
          IF i = 0 THEN 0
          ELSE upto[i - 1] + RouteTransfer(SubSeq(p, 1, i - 1), p[i]) + Edge[p[i]].transit
    IN  upto[Len(p)]

\* The walks that pass the filters and take no longer than the window.
OnTimeWalks ==
    {w \in WalksBy(LAMBDA s : {Extend(s, e) : e \in {f \in edges_from(s.node) : Admissible(f)}}) :
        travel_time(w.path) <= request.deliver_by}

\* The visit cap has refused an entry.
Capped == \E n \in Nodes : visited_counts[n] > k

(***************************************************************************)
(* When the cap refused nothing, the result is a set of k cheapest walks,  *)
(* or all of them when there are fewer than k.                             *)
(***************************************************************************)
TopK ==
    status = "done" /\ ~Capped =>
        /\ Found \subseteq SearchWalks
        /\ \A w \in SearchWalks \ Found :
              /\ Len(paths) = k
              /\ \A p \in Found : p.cost <= w.cost

(***************************************************************************)
(* The cap keeps the search polynomial where walks are exponentially many: *)
(* no edge is pushed more than k times, so pops and pending entries        *)
(* together stay within one start entry plus k entries for each edge.      *)
(***************************************************************************)
WorkBound ==
    SumOf(visited_counts) + Cardinality(heap) <= 1 + k * Cardinality(Edges)

\* What the segments of the route built from path p cost in all.
route_cost(p) == SumOf([i \in 1..Len(p) |-> calculate_cost(p[i], request.weight_kg)])

(***************************************************************************)
(* The arrival and the cost carried in a heap entry are those of the route *)
(* path_to_route builds from the path alone.                               *)
(***************************************************************************)
ScheduleIsRoutes ==
    \A s \in heap \cup Found :
        s.scheduled = arrivals(s.path)[Len(s.path)] /\ s.cost = route_cost(s.path)

\* The loop ends.
Termination == <>(status = "done")

-------------------------------------------------------------------------------
(***************************************************************************)
(* Stated by the code's comments and the README, and not achieved.         *)
(***************************************************************************)

(***************************************************************************)
(* "Allow visiting each node up to k times for k-shortest paths": if some  *)
(* walk passes every filter of the search, a request for routes gets one.  *)
(***************************************************************************)
FeasibleWalkOffered ==
    status = "done" /\ k > 0 /\ SearchWalks # {} => paths # <<>>

(***************************************************************************)
(* "Check time constraint": if some walk delivers within the window, a     *)
(* request for routes gets one.  The visit cap plays no part here.         *)
(***************************************************************************)
OnTimeWalkOffered ==
    status = "done" /\ k > 0 /\ ~Capped /\ OnTimeWalks # {} => paths # <<>>
===============================================================================
