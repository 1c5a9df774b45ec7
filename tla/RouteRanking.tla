------------------------------ MODULE RouteRanking ------------------------------
(***************************************************************************)
(* What Optimizer::optimize (rust-routing optimizer/mod.rs) does with the  *)
(* candidate routes of a search: drop those that fail a hard constraint,   *)
(* assign Pareto ranks front by front, order by weighted score, truncate.  *)
(*                                                                         *)
(* A route is its position in the list of candidates; retain() drops       *)
(* positions and keeps their order.  calculate_pareto_ranks walks through  *)
(* a HashSet, so it visits the routes of a front in any order: one action  *)
(* ranks one route.                                                        *)
(***************************************************************************)
EXTENDS Integers, Sequences, FiniteSets, FiniteSetsExt

CONSTANTS
    CandidateLists,  \* the lists of candidates a search may return
    Requests,        \* the parameters a request may carry
    TimeUnit,        \* one hour
    CarbonUnit,      \* one kilogram of carbon
    LaborScale,      \* a labor_score of 1.0
    DefaultWage      \* the minimum wage where the cache has none

\* Totals as recalculate_totals leaves them; wage is the lowest of the
\* segments' wages.
Candidate == [cost : Nat, time : Nat, carbon : Nat, labor : Nat, wage : Nat]

Weights == [cost : Nat, time : Nat, carbon : Nat, labor : Nat]

\* window is the delivery window in whole hours.
Request == [weight : Weights, window : Int, max_routes : Nat]

ASSUME RankingAssumption ==
    /\ CandidateLists \subseteq Seq(Candidate)
    /\ Requests \subseteq Request
    /\ TimeUnit \in Nat \ {0} /\ CarbonUnit \in Nat \ {0} /\ LaborScale \in Nat \ {0}

VARIABLES
    request,
    candidates,       \* in the order in which the search found them
    dominated_count,  \* by route: how many unranked routes dominate it
    ranks,            \* by route: its Pareto rank, 0 until it has one
    pareto_optimal,   \* the routes marked so
    remaining,        \* routes that have no rank yet
    non_dominated,    \* the part of the current front still to be ranked
    current_rank,
    status,           \* "count", "front", "rank", "sort", "done"
    result            \* the routes returned, best first

vars == <<request, candidates, dominated_count, ranks, pareto_optimal, remaining,
          non_dominated, current_rank, status, result>>

(***************************************************************************)
(* The hard constraints of evaluate_route, on an engine whose cache is     *)
(* empty: no carrier is sanctioned and every country has the default       *)
(* minimum wage.  The soft constraints are reported and decide nothing.    *)
(***************************************************************************)
HardPassed(c) == c.wage >= DefaultWage /\ c.time <= request.window

\* routes.retain(..)
Kept == {i \in 1..Len(candidates) : HardPassed(candidates[i])}

MutDominates(a, b) ==
    a.cost <= b.cost /\ a.time <= b.time /\ a.carbon <= b.carbon /\ a.labor >= b.labor

\* No worse in any objective and better in one; a higher labor score is better.
dominates(a, b) ==
    /\ a.cost <= b.cost /\ a.time <= b.time /\ a.carbon <= b.carbon /\ a.labor >= b.labor
    /\ \/ a.cost < b.cost \/ a.time < b.time
       \/ a.carbon < b.carbon \/ a.labor > b.labor

Dominators(S, j) == {i \in S : i # j /\ dominates(candidates[i], candidates[j])}

(***************************************************************************)
(* calculate_weighted_score over a common denominator.  Each objective is  *)
(* divided by its maximum over all routes, which for time and carbon is at *)
(* least 1.0; where every cost is 0 the cost term is 0, as a maximum of 1    *)
(* makes it.                                                               *)
(***************************************************************************)
max_cost == Max({1} \cup {candidates[i].cost : i \in Kept})
max_time == Max({TimeUnit} \cup {candidates[i].time : i \in Kept})
max_carbon == Max({CarbonUnit} \cup {candidates[i].carbon : i \in Kept})

MutWeightedScore(i) ==
    LET c == candidates[i]  w == request.weight
    IN  w.cost * (c.cost * (max_time * max_carbon * LaborScale))
      + w.time * (c.time * (max_cost * max_carbon * LaborScale))
      + w.carbon * (c.carbon * (max_cost * max_time * LaborScale))
      + w.labor * (c.labor * (max_cost * max_time * max_carbon))

weighted_score(i) ==
    LET c == candidates[i]  w == request.weight
    IN  w.cost * (c.cost * (max_time * max_carbon * LaborScale))
      + w.time * (c.time * (max_cost * max_carbon * LaborScale))
      + w.carbon * (c.carbon * (max_cost * max_time * LaborScale))
      + w.labor * ((LaborScale - c.labor) * (max_cost * max_time * max_carbon))

\* sort_by is stable: equal scores keep the order of the search.
SortedBefore(i, j) ==
    \/ weighted_score(i) < weighted_score(j)
    \/ weighted_score(i) = weighted_score(j) /\ i < j

-------------------------------------------------------------------------------
Init ==
    /\ request \in Requests
    /\ candidates \in CandidateLists
    /\ dominated_count = [i \in Kept |-> 0]
    /\ ranks = [i \in Kept |-> 0]
    /\ pareto_optimal = {}
    /\ remaining = Kept
    /\ non_dominated = {}
    /\ current_rank = 1
    /\ status = "count"
    /\ result = <<>>

MutCountDominators ==
    /\ status = "count"
    /\ dominated_count' = [j \in Kept |-> Cardinality({i \in Dominators(Kept, j) : i < j})]
    /\ status' = "front"
    /\ UNCHANGED <<request, candidates, ranks, pareto_optimal, remaining,
                   non_dominated, current_rank, result>>

\* The two nested loops: by how many others is each route dominated?
CountDominators ==
    /\ status = "count"
    /\ dominated_count' = [j \in Kept |-> Cardinality(Dominators(Kept, j))]
    /\ status' = "front"
    /\ UNCHANGED <<request, candidates, ranks, pareto_optimal, remaining,
                   non_dominated, current_rank, result>>

MutFindFront ==
    /\ status = "front" /\ remaining # {}
    /\ non_dominated' = {i \in Kept : dominated_count[i] = 0}
    /\ IF non_dominated' = {}
       THEN /\ ranks' = [i \in Kept |-> IF i \in remaining THEN current_rank ELSE ranks[i]]
            /\ status' = "sort"
       ELSE /\ status' = "rank"
            /\ UNCHANGED ranks
    /\ UNCHANGED <<request, candidates, dominated_count, pareto_optimal, remaining,
                   current_rank, result>>

\* Collect the next front.  Were there none (a cycle), all that remain would
\* get the rank and the loop would end.
FindFront ==
    /\ status = "front" /\ remaining # {}
    /\ non_dominated' = {i \in remaining : dominated_count[i] = 0}
    /\ IF non_dominated' = {}
       THEN /\ ranks' = [i \in Kept |-> IF i \in remaining THEN current_rank ELSE ranks[i]]
            /\ status' = "sort"
       ELSE /\ status' = "rank"
            /\ UNCHANGED ranks
    /\ UNCHANGED <<request, candidates, dominated_count, pareto_optimal, remaining,
                   current_rank, result>>

MutRankOne(i) ==
    /\ status = "rank" /\ i \in non_dominated
    /\ ranks' = [ranks EXCEPT ![i] = current_rank]
    /\ pareto_optimal' = IF current_rank = 1 THEN pareto_optimal \cup {i} ELSE pareto_optimal
    /\ remaining' = remaining \ {i}
    /\ dominated_count' =
          [j \in Kept |->
              IF dominates(candidates[i], candidates[j]) /\ dominated_count[j] > 0
              THEN dominated_count[j] - 1 ELSE dominated_count[j]]
    /\ non_dominated' = {j \in remaining' : dominated_count'[j] = 0}
    /\ UNCHANGED <<request, candidates, current_rank, status, result>>

\* Rank one route of the front and release those it dominates.
RankOne(i) ==
    /\ status = "rank" /\ i \in non_dominated
    /\ ranks' = [ranks EXCEPT ![i] = current_rank]
    /\ pareto_optimal' = IF current_rank = 1 THEN pareto_optimal \cup {i} ELSE pareto_optimal
    /\ remaining' = remaining \ {i}
    /\ non_dominated' = non_dominated \ {i}
    /\ dominated_count' =
          [j \in Kept |->
              IF /\ j \in remaining' /\ dominates(candidates[i], candidates[j])
                 /\ dominated_count[j] > 0
              THEN dominated_count[j] - 1 ELSE dominated_count[j]]
    /\ UNCHANGED <<request, candidates, current_rank, status, result>>

MutNextFront ==
    /\ status = "rank" /\ non_dominated = {} /\ remaining # {}
    /\ current_rank' = current_rank + 1
    /\ status' = "front"
    /\ UNCHANGED <<request, candidates, dominated_count, ranks, pareto_optimal,
                   remaining, non_dominated, result>>

NextFront ==
    /\ status = "rank" /\ non_dominated = {}
    /\ current_rank' = current_rank + 1
    /\ status' = "front"
    /\ UNCHANGED <<request, candidates, dominated_count, ranks, pareto_optimal,
                   remaining, non_dominated, result>>

RankingEnds ==
    /\ status = "front" /\ remaining = {}
    /\ status' = "sort"
    /\ UNCHANGED <<request, candidates, dominated_count, ranks, pareto_optimal,
                   remaining, non_dominated, current_rank, result>>

\* Sort by score and keep the first max_routes.
SortAndTruncate ==
    /\ status = "sort"
    /\ \E sorted \in [1..Cardinality(Kept) -> Kept] :
          /\ \A i \in Kept : \E a \in DOMAIN sorted : sorted[a] = i
          /\ \A a \in DOMAIN sorted : \A b \in DOMAIN sorted :
                a < b => SortedBefore(sorted[a], sorted[b])
          /\ result' = [a \in {b \in DOMAIN sorted : b <= request.max_routes} |-> sorted[a]]
    /\ status' = "done"
    /\ UNCHANGED <<request, candidates, dominated_count, ranks, pareto_optimal,
                   remaining, non_dominated, current_rank>>

Next ==
    \/ CountDominators
    \/ FindFront
    \/ \E i \in non_dominated : RankOne(i)
    \/ NextFront
    \/ RankingEnds
    \/ SortAndTruncate

\* One thread, nothing in it blocks.
Fairness == WF_vars(Next)

Spec == Init /\ [][Next]_vars /\ Fairness
-------------------------------------------------------------------------------
(***************************************************************************)
(* The loops only ever hold routes that passed the hard constraints, and   *)
(* the routes being ranked are among those that have no rank.              *)
(***************************************************************************)
TypeOK ==
    /\ request \in Requests
    /\ candidates \in CandidateLists
    /\ dominated_count \in [Kept -> Nat]
    /\ ranks \in [Kept -> Nat]
    /\ pareto_optimal \subseteq Kept
    /\ remaining \subseteq Kept
    /\ non_dominated \subseteq remaining
    /\ current_rank \in Nat \ {0}
    /\ status \in {"count", "front", "rank", "sort", "done"}

(***************************************************************************)
(* However the HashSet orders a front, dominated_count[j] stays the number *)
(* of unranked routes that dominate j: the decrements balance the first    *)
(* count exactly, and saturating_sub never saturates.                      *)
(***************************************************************************)
CountsExact ==
    status # "count" =>
        \A j \in remaining : dominated_count[j] = Cardinality(Dominators(remaining, j))

(***************************************************************************)
(* The fallback for cycles is never taken: while routes remain, one of     *)
(* them is dominated by no other.                                          *)
(***************************************************************************)
NoCycle ==
    status = "front" /\ remaining # {} => \E i \in remaining : dominated_count[i] = 0

(***************************************************************************)
(* Ranks are Pareto fronts: whoever dominates a ranked route has a smaller *)
(* rank, and a route below the first front is dominated by one of the      *)
(* front just above it.                                                    *)
(***************************************************************************)
RanksAreFronts ==
    \A j \in Kept \ remaining :
        /\ ranks[j] >= 1
        /\ \A i \in Dominators(Kept, j) : i \notin remaining /\ ranks[i] < ranks[j]
        /\ ranks[j] > 1 => \E i \in Dominators(Kept, j) : ranks[i] = ranks[j] - 1

(***************************************************************************)
(* pareto_optimal marks exactly the routes that no other route dominates,  *)
(* and these are the routes of rank 1.                                     *)
(***************************************************************************)
OptimalIsUndominated ==
    status \in {"sort", "done"} =>
        /\ pareto_optimal = {i \in Kept : Dominators(Kept, i) = {}}
        /\ pareto_optimal = {i \in Kept : ranks[i] = 1}

\* i is no worse than j in what the request weighs, and better or found earlier.
Precedes(i, j) ==
    LET a == candidates[i]  b == candidates[j]  w == request.weight
    IN  /\ w.cost > 0 => a.cost <= b.cost
        /\ w.time > 0 => a.time <= b.time
        /\ w.carbon > 0 => a.carbon <= b.carbon
        /\ w.labor > 0 => a.labor >= b.labor
        /\ \/ w.cost > 0 /\ a.cost < b.cost
           \/ w.time > 0 /\ a.time < b.time
           \/ w.carbon > 0 /\ a.carbon < b.carbon
           \/ w.labor > 0 /\ a.labor > b.labor
           \/ i < j

(***************************************************************************)
(* Truncation never drops a route in favour of one that is worse for the   *)
(* request: whatever precedes a returned route is returned, before it.     *)
(* With positive weights these are its dominators among others; with the   *)
(* zeros of a gRPC request that sets no weight, the routes found earlier.  *)
(***************************************************************************)
DominatorsFirst ==
    status = "done" =>
        \A b \in DOMAIN result : \A j \in Kept :
            Precedes(j, result[b]) => \E a \in DOMAIN result : a < b /\ result[a] = j

\* The call returns.
Termination == <>(status = "done")

-------------------------------------------------------------------------------
\* Ranked routes are of the current front or an earlier one.
Ranked ==
    /\ \A i \in Kept \ remaining :
          ranks[i] <= current_rank /\ (i \in pareto_optimal <=> ranks[i] = 1)
    /\ pareto_optimal \cap remaining = {}
    /\ status \in {"count", "front"} => \A i \in Kept \ remaining : ranks[i] < current_rank
    /\ status = "count" => remaining = Kept /\ current_rank = 1
    /\ status \in {"sort", "done"} => remaining = {}

\* The dominators of the front being ranked are all above it, one of them just
\* above; any other route without a rank has a dominator that is in this front
\* or has no rank either.
Fronts ==
    /\ status = "front" /\ current_rank > 1 =>
          \A j \in remaining : \E i \in Dominators(Kept, j) :
              i \in remaining \/ ranks[i] = current_rank - 1
    /\ status = "rank" =>
          /\ \A j \in remaining \ non_dominated : \E i \in Dominators(Kept, j) :
                i \in remaining \/ ranks[i] = current_rank
          /\ \A j \in non_dominated :
                /\ \A i \in Dominators(Kept, j) : i \notin remaining /\ ranks[i] < current_rank
                /\ current_rank > 1 => \E i \in Dominators(Kept, j) : ranks[i] = current_rank - 1

\* At most so many steps are still to come: for each route without a rank it is
\* ranked, and a front is found and left.
StepsLeft ==
    LET n == Cardinality(remaining)
    IN  CASE status = "count" -> 3 * n + 4
          [] status = "front" -> 3 * n + 3
          [] status = "rank" /\ non_dominated # {} -> 3 * n + 2
          [] status = "rank" /\ non_dominated = {} -> 3 * n + 4
          [] status = "sort" -> 1
          [] status = "done" -> 0

\* The invariant RouteRankingProofs shows to be inductive.
IInv ==
    /\ TypeOK
    /\ CountsExact
    /\ RanksAreFronts
    /\ Ranked
    /\ Fronts
================================================================================
