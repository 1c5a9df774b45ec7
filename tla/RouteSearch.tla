------------------------------ MODULE RouteSearch ------------------------------
(***************************************************************************)
(* Optimizer::find_k_shortest_paths (rust-routing optimizer/mod.rs) as a   *)
(* state machine: one step per iteration of the `while let` loop, one      *)
(* action per way an iteration can end.  A search runs for one request     *)
(* over one graph.  path_to_route, which times the paths the search        *)
(* returns by a clock of its own, is the operator arrivals at the end.     *)
(*                                                                         *)
(* SearchState.carbon_kg is left out: the search writes it and nothing     *)
(* reads it.                                                               *)
(***************************************************************************)
EXTENDS TransportGraph

CONSTANT Requests     \* the OptimizeRequests the search may be called with

VARIABLES
    request,          \* the request of this call
    heap,             \* the BinaryHeap; two entries never have the same path
    visited_counts,   \* pops so far, by node
    paths,            \* the states whose path was pushed to the result
    status            \* "searching" until the loop ends, then "done"

vars == <<request, heap, visited_counts, paths, status>>

\* pickup_after is the origin of the clock; deliver_by may lie before it.
OptimizeRequest ==
    [origin : Nodes, destination : Nodes, weight_kg : Nat, deliver_by : Int,
     max_routes : Nat, max_segments : Nat,
     allowed_modes : SUBSET TransportMode, excluded_carriers : SUBSET Carriers]

ASSUME RequestAssumption == Requests \subseteq OptimizeRequest

(***************************************************************************)
(* A heap entry.  `scheduled` is not in the code: it is the arrival that   *)
(* path_to_route computes for this path, carried along so that the two     *)
(* clocks can be compared.                                                 *)
(***************************************************************************)
SearchState ==
    [node : Nodes, path : Seq(Edges), cost : Nat,
     time_hours : Nat, current_time : Nat, scheduled : Nat]

\* "Find more than needed, filter later": the k the optimizer asks for.
k == request.max_routes * 3

StartState ==
    [node |-> request.origin, path |-> <<>>, cost |-> 0,
     time_hours |-> 0, current_time |-> 0, scheduled |-> 0]

\* The four filters on an edge; an empty mode list allows every mode.
Admissible(e) ==
    /\ Edge[e].active
    /\ request.allowed_modes = {} \/ Edge[e].mode \in request.allowed_modes
    /\ Edge[e].carrier_code \notin request.excluded_carriers
    /\ ~Edge[e].carrier_sanctioned

\* The transfer the search charges: after any earlier edge, of the same mode
\* or not.
SearchTransfer(path, e) ==
    IF path = <<>> THEN 0
    ELSE TransferTicks(Edge[path[Len(path)]].mode, Edge[e].mode)

\* The transfer path_to_route charges: only where the mode changes.
RouteTransfer(path, e) ==
    IF path = <<>> \/ Edge[path[Len(path)]].mode = Edge[e].mode THEN 0
    ELSE TransferTicks(Edge[path[Len(path)]].mode, Edge[e].mode)

MutExtend(s, e) ==
    [node         |-> Edge[e].to,
     path         |-> Append(s.path, e),
     cost         |-> s.cost + calculate_cost(e, request.weight_kg),
     time_hours   |-> Edge[e].transit,
     current_time |-> s.current_time + WholeHours(Edge[e].transit),
     scheduled    |-> s.scheduled + RouteTransfer(s.path, e)
                                  + WholeHours(Edge[e].transit)]

MutExtendCountdown(s, e) ==
    [node         |-> Edge[e].to,
     path         |-> Append(s.path, e),
     cost         |-> s.cost + calculate_cost(e, request.weight_kg),
     time_hours   |-> s.time_hours - Edge[e].transit,
     current_time |-> s.current_time,
     scheduled    |-> s.scheduled]

\* The entry pushed for edge e.  time_hours is already cumulative, and the
\* arrival adds all of it to the clock of the previous entry.
Extend(s, e) ==
    LET total_time == s.time_hours + Edge[e].transit + SearchTransfer(s.path, e)
    IN  [node         |-> Edge[e].to,
         path         |-> Append(s.path, e),
         cost         |-> s.cost + calculate_cost(e, request.weight_kg),
         time_hours   |-> total_time,
         current_time |-> s.current_time + WholeHours(total_time),
         scheduled    |-> s.scheduled + RouteTransfer(s.path, e)
                                      + WholeHours(Edge[e].transit)]

MutSuccessors(s) ==
    {t \in {Extend(s, e) : e \in {f \in edges_from(s.node) : Edge[f].active}} :
        t.current_time <= request.deliver_by}

Successors(s) ==
    {t \in {Extend(s, e) : e \in {f \in edges_from(s.node) : Admissible(f)}} :
        t.current_time <= request.deliver_by}

-------------------------------------------------------------------------------
Init ==
    /\ request \in Requests
    /\ heap = {StartState}
    /\ visited_counts = [n \in Nodes |-> 0]
    /\ paths = <<>>
    /\ status = "searching"

MutIsTop(s) == \A t \in heap : t.cost <= s.cost

\* SearchState::cmp reverses the costs, so that the max-heap pops a cheapest
\* entry; which one of several is the heap's own business.
IsTop(s) == \A t \in heap : s.cost <= t.cost

\* heap.pop() and the count of the visit, the prelude of every iteration.
Pop(s) ==
    /\ status = "searching"
    /\ IsTop(s)
    /\ visited_counts' = [visited_counts EXCEPT ![s.node] = @ + 1]
    /\ UNCHANGED request

MutOverVisited(s) == FALSE

\* `*count > k`, with the count already advanced.
OverVisited(s) == visited_counts[s.node] + 1 > k

AtDestination(s) == s.node = request.destination /\ s.path # <<>>

MutAtDepthLimitLate(s) == Len(s.path) > request.max_segments

MutAtDepthLimitEarly(s) == Len(s.path) + 1 >= request.max_segments

AtDepthLimit(s) == Len(s.path) >= request.max_segments

\* The node has been visited k times already.
SkipVisited(s) ==
    /\ Pop(s)
    /\ OverVisited(s)
    /\ heap' = heap \ {s}
    /\ UNCHANGED <<paths, status>>

\* The destination: keep the path, and break at the k-th.
EmitPath(s) ==
    /\ Pop(s)
    /\ ~OverVisited(s)
    /\ AtDestination(s)
    /\ heap' = heap \ {s}
    /\ paths' = Append(paths, s)
    /\ status' = IF Len(paths') >= k THEN "done" ELSE status

\* Too long to be extended.
SkipDeep(s) ==
    /\ Pop(s)
    /\ ~OverVisited(s)
    /\ ~AtDestination(s)
    /\ AtDepthLimit(s)
    /\ heap' = heap \ {s}
    /\ UNCHANGED <<paths, status>>

MutExpand(s) ==
    /\ Pop(s)
    /\ ~OverVisited(s)
    /\ ~AtDestination(s)
    /\ ~AtDepthLimit(s)
    /\ heap' = heap \cup Successors(s)
    /\ UNCHANGED <<paths, status>>

\* Push every neighbour that passes the filters and the time constraint.
Expand(s) ==
    /\ Pop(s)
    /\ ~OverVisited(s)
    /\ ~AtDestination(s)
    /\ ~AtDepthLimit(s)
    /\ heap' = (heap \ {s}) \cup Successors(s)
    /\ UNCHANGED <<paths, status>>

MutExhausted ==
    /\ status = "searching"
    /\ heap = {} /\ paths # <<>>
    /\ status' = "done"
    /\ UNCHANGED <<request, heap, visited_counts, paths>>

\* heap.pop() returns None: the loop ends.
Exhausted ==
    /\ status = "searching"
    /\ heap = {}
    /\ status' = "done"
    /\ UNCHANGED <<request, heap, visited_counts, paths>>

Next ==
    \/ \E s \in heap : SkipVisited(s) \/ EmitPath(s) \/ SkipDeep(s) \/ Expand(s)
    \/ Exhausted

\* One thread runs the loop and nothing in it blocks.
Fairness == WF_vars(Next)

Spec == Init /\ [][Next]_vars /\ Fairness
-------------------------------------------------------------------------------
MutArrivals(p) ==
    LET at[i \in 0..Len(p)] ==
          IF i = 0 THEN 0
          ELSE at[i - 1] + SearchTransfer(SubSeq(p, 1, i - 1), p[i])
                         + WholeHours(Edge[p[i]].transit)
    IN  at

(***************************************************************************)
(* path_to_route's clock: arrivals(p)[i] is the arrival_time of the i-th   *)
(* segment of the route built from path p.                                 *)
(***************************************************************************)
arrivals(p) ==
    LET at[i \in 0..Len(p)] ==
          IF i = 0 THEN 0
          ELSE at[i - 1] + RouteTransfer(SubSeq(p, 1, i - 1), p[i])
                         + WholeHours(Edge[p[i]].transit)
    IN  at
-------------------------------------------------------------------------------
(***************************************************************************)
(* The search keeps its types: costs and clocks never go negative, and the *)
(* result holds only complete entries.                                     *)
(***************************************************************************)
TypeOK ==
    /\ request \in Requests
    /\ heap \subseteq SearchState
    /\ visited_counts \in [Nodes -> Nat]
    /\ paths \in Seq(SearchState)
    /\ status \in {"searching", "done"}

\* A path the search may return: a walk of admissible edges from the origin
\* to where the entry stands, within the depth limit.
WellFormed(s) ==
    LET p == s.path
    IN  /\ Len(p) <= request.max_segments
        /\ \A i \in 1..Len(p) : Admissible(p[i])
        /\ \A i \in 1..Len(p) - 1 : Edge[p[i]].to = Edge[p[i + 1]].from
        /\ p # <<>> => /\ Edge[p[1]].from = request.origin
                       /\ Edge[p[Len(p)]].to = s.node
        /\ p = <<>> => s.node = request.origin

\* Only the last node of the path may be the destination.
EndsAtDestination(s) ==
    \A i \in 1..Len(s.path) - 1 : Edge[s.path[i]].to # request.destination

InWindow(s) == s.path # <<>> => s.current_time <= request.deliver_by

Found == {paths[i] : i \in 1..Len(paths)}

(***************************************************************************)
(* Every path handed to the rest of the optimizer is a non-empty chain of  *)
(* edges from the origin to the destination that touches the destination   *)
(* only at its end, uses no filtered edge, is within max_segments, and     *)
(* passed the time constraint.                                             *)
(***************************************************************************)
PathsAdmissible ==
    \A s \in Found :
        WellFormed(s) /\ AtDestination(s) /\ EndsAtDestination(s) /\ InWindow(s)

(***************************************************************************)
(* The schedule path_to_route reports for a returned path ends within the  *)
(* delivery window, although the window was checked on another clock.      *)
(***************************************************************************)
ScheduledInWindow == \A s \in Found : s.scheduled <= request.deliver_by

(***************************************************************************)
(* "k-shortest": paths come out in order of cost, and nothing still in the *)
(* heap is cheaper than a path already returned.                           *)
(***************************************************************************)
CheapestFirst ==
    \A i \in 1..Len(paths) :
        /\ \A j \in i..Len(paths) : paths[i].cost <= paths[j].cost
        /\ \A s \in heap : paths[i].cost <= s.cost

Begins(p, q) == Len(p) <= Len(q) /\ \A i \in 1..Len(p) : p[i] = q[i]

(***************************************************************************)
(* No walk is explored or returned twice: neither a heap entry nor a       *)
(* returned path begins another of them, and at most k paths are returned. *)
(***************************************************************************)
NoWalkTwice ==
    /\ Len(paths) <= k
    /\ \A i, j \in 1..Len(paths) : i # j => ~Begins(paths[i].path, paths[j].path)
    /\ \A s, t \in heap : s # t => ~Begins(s.path, t.path)
    /\ \A s \in heap, t \in Found : ~Begins(s.path, t.path) /\ ~Begins(t.path, s.path)

(***************************************************************************)
(* What the induction needs: what every heap entry satisfies, so that what  *)
(* is popped at the destination satisfies the properties above.            *)
(***************************************************************************)
HeapInv ==
    \A s \in heap :
        /\ WellFormed(s) /\ EndsAtDestination(s) /\ InWindow(s)
        /\ s.scheduled <= s.current_time

Unfinished == status = "searching" => paths = <<>> \/ Len(paths) < k

\* The invariant RouteSearchProofs shows to be inductive: the loop's own facts
\* together with the properties they carry.
IInv ==
    /\ TypeOK
    /\ HeapInv
    /\ Unfinished
    /\ PathsAdmissible
    /\ ScheduledInWindow
    /\ CheapestFirst
    /\ NoWalkTwice
===============================================================================
