--------------------------- MODULE RouteSearchProofs ---------------------------
(***************************************************************************)
(* The invariants of the route search and what follows from them, then the *)
(* claims that reach beyond one iteration: how much work it does, that the *)
(* two clocks are the ones they are taken for, and that what it returns is *)
(* cheapest; all for every network and request.                            *)
(***************************************************************************)
EXTENDS RouteSearchClaims, SumProofs

-------------------------------------------------------------------------------
(***************************************************************************)
(* Clocks.                                                                 *)
(***************************************************************************)

\* Rounding down to whole hours gives a number of ticks.
LEMMA WholeHoursNat ==
    ASSUME NEW t \in Nat
    PROVE  WholeHours(t) \in Nat
<1>1. TicksPerHour \in Nat /\ TicksPerHour > 0
  BY GraphAssumption
<1>2. t \div TicksPerHour \in Nat
  BY <1>1
<1>3. QED
  BY <1>1, <1>2 DEF WholeHours

\* The whole hours of y, and of y after a wait of h whole hours and anything
\* more, differ by at least that wait.
LEMMA WholeHoursShift ==
    ASSUME NEW x \in Nat, NEW y \in Nat, NEW h \in Nat
    PROVE  WholeHours(y) + h * TicksPerHour <= WholeHours(x + y + h * TicksPerHour)
<1> DEFINE c == TicksPerHour
<1> DEFINE q == y \div c
<1> DEFINE z == x + y + h * c
<1>1. c \in Nat /\ c > 0
  BY GraphAssumption
<1>2. q \in Nat /\ q * c <= y
  BY <1>1
<1>3. h * c \in Nat /\ z \in Nat
  BY <1>1
<1>4. (q + h) * c <= z
  BY <1>1, <1>2, <1>3
<1>5. q + h <= z \div c
  BY <1>1, <1>2, <1>3, <1>4
<1>6. (q + h) * c <= (z \div c) * c
  BY <1>1, <1>2, <1>3, <1>5
<1>7. QED
  BY <1>1, <1>2, <1>6 DEF WholeHours

\* Every pair of modes has a transfer time.
LEMMA TransferNat ==
    ASSUME NEW m1, NEW m2
    PROVE  /\ mode_transfer_hours(m1, m2) \in Nat
           /\ TransferTicks(m1, m2) \in Nat
<1>1. mode_transfer_hours(m1, m2) \in Nat
  BY DEF mode_transfer_hours
<1>2. QED
  BY <1>1, GraphAssumption DEF TransferTicks

-------------------------------------------------------------------------------
(***************************************************************************)
(* One edge more.                                                          *)
(***************************************************************************)

\* The weight and the end points of an edge have their types.
LEMMA EdgeType ==
    ASSUME NEW e \in Edges
    PROVE  /\ Edge[e].from \in Nodes /\ Edge[e].to \in Nodes
           /\ Edge[e].base_cost_usd \in Nat /\ Edge[e].cost_per_kg \in Nat
           /\ Edge[e].transit \in Nat
BY GraphAssumption DEF TransportEdge

\* So have the parameters of the request.
LEMMA RequestType ==
    ASSUME request \in Requests
    PROVE  /\ request.origin \in Nodes /\ request.destination \in Nodes
           /\ request.weight_kg \in Nat /\ request.deliver_by \in Int
           /\ request.max_routes \in Nat /\ request.max_segments \in Nat
           /\ k \in Nat
BY RequestAssumption DEF OptimizeRequest, k

\* The transfer path_to_route adds is a whole number of hours, and the one
\* the search adds is at least as long.
LEMMA TransferHours ==
    ASSUME NEW p \in Seq(Edges), NEW e \in Edges
    PROVE  /\ SearchTransfer(p, e) \in Nat
           /\ \E h \in Nat : /\ RouteTransfer(p, e) = h * TicksPerHour
                            /\ SearchTransfer(p, e) >= h * TicksPerHour
<1>1. TicksPerHour \in Nat
  BY GraphAssumption
<1>2. CASE p = <<>> \/ Edge[p[Len(p)]].mode = Edge[e].mode
  <2>1. RouteTransfer(p, e) = 0 * TicksPerHour
    BY <1>1, <1>2 DEF RouteTransfer
  <2>2. SearchTransfer(p, e) \in Nat
    BY TransferNat DEF SearchTransfer
  <2>3. SearchTransfer(p, e) >= 0 * TicksPerHour
    BY <1>1, <2>2
  <2>4. QED
    BY <2>1, <2>2, <2>3
<1>3. CASE ~(p = <<>> \/ Edge[p[Len(p)]].mode = Edge[e].mode)
  <2> DEFINE h == mode_transfer_hours(Edge[p[Len(p)]].mode, Edge[e].mode)
  <2>1. h \in Nat /\ h * TicksPerHour \in Nat
    BY TransferNat, <1>1
  <2>2. RouteTransfer(p, e) = h * TicksPerHour /\ SearchTransfer(p, e) = h * TicksPerHour
    BY <1>3 DEF RouteTransfer, SearchTransfer, TransferTicks
  <2>3. QED
    BY <2>1, <2>2
<1>4. QED
  BY <1>2, <1>3

\* An edge added to a heap entry gives a heap entry.
LEMMA ExtendType ==
    ASSUME request \in Requests, NEW s \in SearchState, NEW e \in Edges
    PROVE  Extend(s, e) \in SearchState
<1>1. calculate_cost(e, request.weight_kg) \in Nat
  BY EdgeType, RequestType DEF calculate_cost
<1>2. SearchTransfer(s.path, e) \in Nat
  BY TransferHours DEF SearchState
<1>3. RouteTransfer(s.path, e) \in Nat
  BY TransferNat DEF RouteTransfer
<1> DEFINE total == s.time_hours + Edge[e].transit + SearchTransfer(s.path, e)
<1>4. total \in Nat /\ WholeHours(total) \in Nat /\ WholeHours(Edge[e].transit) \in Nat
  <2>1. total \in Nat /\ Edge[e].transit \in Nat
    BY <1>2, EdgeType DEF SearchState
  <2> HIDE DEF total
  <2>2. QED
    BY <2>1, WholeHoursNat
<1>5. Append(s.path, e) \in Seq(Edges)
  BY DEF SearchState
<1>6. QED
  BY <1>1, <1>3, <1>4, <1>5, EdgeType DEF SearchState, Extend

\* The clock of the search moves at least as far as path_to_route's.
LEMMA ExtendClock ==
    ASSUME request \in Requests, NEW s \in SearchState, NEW e \in Edges,
           s.scheduled <= s.current_time
    PROVE  Extend(s, e).scheduled <= Extend(s, e).current_time
<1> DEFINE y == Edge[e].transit
<1> DEFINE total == s.time_hours + y + SearchTransfer(s.path, e)
<1>1. PICK h \in Nat : /\ RouteTransfer(s.path, e) = h * TicksPerHour
                       /\ SearchTransfer(s.path, e) >= h * TicksPerHour
  BY TransferHours DEF SearchState
<1>2. /\ s.time_hours \in Nat /\ s.scheduled \in Nat /\ s.current_time \in Nat
      /\ y \in Nat /\ SearchTransfer(s.path, e) \in Nat
  BY EdgeType, TransferHours DEF SearchState
<1> DEFINE w == h * TicksPerHour
<1>3. w \in Nat
  BY GraphAssumption
<1> DEFINE x == s.time_hours + (SearchTransfer(s.path, e) - w)
<1>4. x \in Nat /\ total = x + y + w
  BY <1>1, <1>2, <1>3
<1>5. WholeHours(y) + w <= WholeHours(total)
  BY <1>2, <1>4, WholeHoursShift
<1>6. WholeHours(y) \in Nat /\ WholeHours(total) \in Nat
  BY <1>2, <1>3, <1>4, WholeHoursNat
<1>7. /\ Extend(s, e).scheduled = s.scheduled + w + WholeHours(y)
      /\ Extend(s, e).current_time = s.current_time + WholeHours(total)
  BY <1>1 DEF Extend
<1>8. QED
  BY <1>2, <1>3, <1>5, <1>6, <1>7

\* The edge keeps a well-formed walk well-formed when it starts where the walk
\* ends, passes the filters, and the walk may still grow.
LEMMA ExtendWellFormed ==
    ASSUME request \in Requests, NEW s \in SearchState, NEW e \in Edges,
           WellFormed(s), EndsAtDestination(s),
           ~AtDestination(s), ~AtDepthLimit(s),
           Edge[e].from = s.node, Admissible(e)
    PROVE  WellFormed(Extend(s, e)) /\ EndsAtDestination(Extend(s, e))
<1> DEFINE p == s.path
           q == Append(p, e)
           n == Len(p)
<1>1. p \in Seq(Edges) /\ n \in Nat
  BY DEF SearchState
<1>2. /\ Len(q) = n + 1 /\ q[n + 1] = e /\ q # <<>>
      /\ \A i \in 1..n : q[i] = p[i]
  BY <1>1
<1>3. /\ Extend(s, e).path = q
      /\ Extend(s, e).node = Edge[e].to
  BY DEF Extend
<1>4. n + 1 <= request.max_segments
  BY <1>1, RequestType DEF AtDepthLimit
<1>5. \A i \in 1..n + 1 : Admissible(q[i])
  BY <1>1, <1>2 DEF WellFormed
<1>6. n >= 1 => Edge[p[n]].to = s.node /\ Edge[p[1]].from = request.origin
  BY <1>1 DEF WellFormed
<1>7. n = 0 => s.node = request.origin
  BY <1>1 DEF WellFormed
<1>8. \A i \in 1..n : Edge[q[i]].to = Edge[q[i + 1]].from
  <2>1. \A i \in 1..n - 1 : Edge[q[i]].to = Edge[q[i + 1]].from
    BY <1>1, <1>2 DEF WellFormed
  <2>2. n >= 1 => Edge[q[n]].to = Edge[q[n + 1]].from
    BY <1>1, <1>2, <1>6
  <2>3. QED
    BY <1>1, <2>1, <2>2
<1>9. Edge[q[1]].from = request.origin
  BY <1>1, <1>2, <1>6, <1>7
<1>10. WellFormed(Extend(s, e))
  BY <1>1, <1>2, <1>3, <1>4, <1>5, <1>8, <1>9 DEF WellFormed
<1>11. \A i \in 1..n : Edge[q[i]].to # request.destination
  <2>1. \A i \in 1..n - 1 : Edge[q[i]].to # request.destination
    BY <1>1, <1>2 DEF EndsAtDestination
  <2>2. n >= 1 => Edge[q[n]].to # request.destination
    BY <1>1, <1>2, <1>6 DEF AtDestination
  <2>3. QED
    BY <1>1, <2>1, <2>2
<1>12. EndsAtDestination(Extend(s, e))
  BY <1>1, <1>2, <1>3, <1>11 DEF EndsAtDestination
<1>13. QED
  BY <1>10, <1>12

\* What Expand pushes.
LEMMA SuccessorFacts ==
    ASSUME request \in Requests, NEW s \in SearchState, NEW t \in Successors(s),
           WellFormed(s), EndsAtDestination(s), s.scheduled <= s.current_time,
           ~AtDestination(s), ~AtDepthLimit(s)
    PROVE  /\ t \in SearchState
           /\ WellFormed(t) /\ EndsAtDestination(t) /\ InWindow(t)
           /\ t.scheduled <= t.current_time
           /\ s.cost <= t.cost
           /\ \E e \in Edges : t = Extend(s, e)
<1>1. PICK e \in Edges : /\ t = Extend(s, e) /\ Edge[e].from = s.node
                         /\ Admissible(e) /\ t.current_time <= request.deliver_by
  BY DEF Successors, edges_from
<1>2. t \in SearchState
  BY <1>1, ExtendType
<1>3. WellFormed(t) /\ EndsAtDestination(t)
  BY <1>1, ExtendWellFormed
<1>4. InWindow(t)
  BY <1>1 DEF InWindow
<1>5. t.scheduled <= t.current_time
  BY <1>1, ExtendClock
<1>6. s.cost <= t.cost
  <2>1. calculate_cost(e, request.weight_kg) \in Nat
    BY EdgeType, RequestType DEF calculate_cost
  <2>2. t.cost = s.cost + calculate_cost(e, request.weight_kg) /\ s.cost \in Nat
    BY <1>1 DEF Extend, SearchState
  <2>3. QED
    BY <2>1, <2>2
<1>7. QED
  BY <1>1, <1>2, <1>3, <1>4, <1>5, <1>6

-------------------------------------------------------------------------------
(***************************************************************************)
(* Paths that begin others.                                                *)
(***************************************************************************)

\* A path that begins neither before nor after another still does not when
\* one of the two grows, unless it grows into the other.
LEMMA BeginsAppend ==
    ASSUME NEW p \in Seq(Edges), NEW q \in Seq(Edges), NEW e \in Edges
    PROVE  /\ Begins(Append(p, e), q) => Begins(p, q)
           /\ Begins(q, Append(p, e)) => Begins(q, p) \/ Begins(p, q)
<1> DEFINE r == Append(p, e)
<1>1. /\ Len(p) \in Nat /\ Len(q) \in Nat /\ Len(r) = Len(p) + 1
      /\ \A i \in 1..Len(p) : r[i] = p[i]
  OBVIOUS
<1>2. Begins(r, q) => Begins(p, q)
  BY <1>1 DEF Begins
<1>3. ASSUME Begins(q, r), Len(q) <= Len(p)
      PROVE  Begins(q, p)
  BY <1>1, <1>3 DEF Begins
<1>4. ASSUME Begins(q, r), Len(q) > Len(p)
      PROVE  Begins(p, q)
  BY <1>1, <1>4 DEF Begins
<1>5. QED
  BY <1>1, <1>2, <1>3, <1>4

\* Two different edges after one path give paths neither of which begins the
\* other.
LEMMA BeginsSibling ==
    ASSUME NEW p \in Seq(Edges), NEW e \in Edges, NEW f \in Edges,
           Begins(Append(p, e), Append(p, f))
    PROVE  e = f
<1>1. /\ Len(p) \in Nat /\ Len(Append(p, e)) = Len(p) + 1
      /\ Append(p, e)[Len(p) + 1] = e /\ Append(p, f)[Len(p) + 1] = f
  OBVIOUS
<1>2. QED
  BY <1>1 DEF Begins

\* A path begins itself.
LEMMA BeginsItself ==
    ASSUME NEW p \in Seq(Edges)
    PROVE  Begins(p, p)
<1>1. Len(p) \in Nat
  OBVIOUS
<1>2. QED
  BY <1>1 DEF Begins

-------------------------------------------------------------------------------
(***************************************************************************)
(* One lemma for each thing an iteration can do.                           *)
(***************************************************************************)

\* k belongs to the call: it changes only with the request.
LEMMA SameK ==
    ASSUME request' = request
    PROVE  k' = k
BY DEF k

\* Leaving an entry out (SkipVisited, SkipDeep).
LEMMA DropInv ==
    ASSUME IInv, NEW s \in heap, Pop(s),
           heap' = heap \ {s}, UNCHANGED <<paths, status>>
    PROVE  IInv'
<1>1. request' = request /\ paths' = paths /\ status' = status /\ Found' = Found
  BY DEF Pop, Found
<1>2. TypeOK'
  BY <1>1 DEF IInv, TypeOK, Pop, SearchState
<1>3. HeapInv'
  BY <1>1 DEF IInv, HeapInv, WellFormed, Admissible, EndsAtDestination, InWindow
<1>4. Unfinished'
  BY <1>1, SameK DEF IInv, Unfinished
<1>5. PathsAdmissible'
  BY <1>1 DEF IInv, PathsAdmissible, AtDestination,
                       WellFormed, Admissible, EndsAtDestination, InWindow
<1>6. ScheduledInWindow'
  BY <1>1 DEF IInv, ScheduledInWindow
<1>7. CheapestFirst'
  BY <1>1 DEF IInv, CheapestFirst
<1>8. NoWalkTwice'
  BY <1>1, SameK DEF IInv, NoWalkTwice
<1>9. QED
  BY <1>2, <1>3, <1>4, <1>5, <1>6, <1>7, <1>8 DEF IInv

\* Moving a cheapest entry from the heap to the result.
LEMMA EmitInv ==
    ASSUME IInv, NEW s \in heap, EmitPath(s)
    PROVE  IInv'
<1> DEFINE n == Len(paths)
<1>1. request' = request /\ paths' = Append(paths, s) /\ heap' = heap \ {s}
  BY DEF EmitPath, Pop
<1>2. /\ s \in SearchState /\ paths \in Seq(SearchState) /\ n \in Nat
      /\ request \in Requests /\ k \in Nat
  BY RequestType DEF IInv, TypeOK
<1>3. /\ Len(paths') = n + 1 /\ paths'[n + 1] = s
      /\ \A i \in 1..n : paths'[i] = paths[i]
  BY <1>1, <1>2
<1>4. Found' = Found \cup {s}
  BY <1>2, <1>3 DEF Found
<1>5. s.path # <<>> /\ AtDestination(s)
  BY DEF EmitPath, AtDestination
<1>6. WellFormed(s) /\ EndsAtDestination(s) /\ InWindow(s) /\ s.scheduled <= s.current_time
  BY DEF IInv, HeapInv
<1>7. TypeOK'
  <2>1. paths' \in Seq(SearchState) /\ heap' \subseteq SearchState
    BY <1>1, <1>2 DEF IInv, TypeOK
  <2>2. visited_counts' \in [Nodes -> Nat]
    BY DEF EmitPath, Pop, IInv, TypeOK, SearchState
  <2>3. status' \in {"searching", "done"}
    BY DEF EmitPath, IInv, TypeOK
  <2>4. QED
    BY <1>1, <1>2, <2>1, <2>2, <2>3 DEF TypeOK
<1>8. HeapInv'
  BY <1>1 DEF IInv, HeapInv, WellFormed, Admissible, EndsAtDestination, InWindow
<1>9. Unfinished' /\ Len(paths') <= k
  <2>1. visited_counts[s.node] \in Nat /\ visited_counts[s.node] + 1 <= k
    BY <1>2 DEF EmitPath, OverVisited, IInv, TypeOK, SearchState
  <2>2. n + 1 <= k
    <3>1. CASE paths = <<>>
      BY <2>1, <1>2, <3>1
    <3>2. CASE paths # <<>>
      BY <3>2, <1>2 DEF EmitPath, Pop, IInv, Unfinished
    <3>3. QED
      BY <3>1, <3>2
  <2>3. status' = "searching" => n + 1 < k
    BY <2>2, <1>2, <1>3 DEF EmitPath
  <2>4. k' = k
    BY <1>1, SameK
  <2>5. QED
    BY <2>2, <2>3, <2>4, <1>3 DEF Unfinished
<1>10. PathsAdmissible'
  BY <1>1, <1>4, <1>5, <1>6 DEF IInv, PathsAdmissible, AtDestination,
                       WellFormed, Admissible, EndsAtDestination, InWindow
<1>11. ScheduledInWindow'
  <2>1. s.scheduled <= request.deliver_by
    BY <1>2, <1>5, <1>6, RequestType DEF InWindow, SearchState
  <2>2. QED
    BY <1>1, <1>4, <2>1 DEF IInv, ScheduledInWindow
<1>12. CheapestFirst'
  <2>1. \A i \in 1..n : paths[i].cost <= s.cost
    BY DEF IInv, CheapestFirst
  <2>2. \A t \in heap : s.cost <= t.cost
    BY DEF EmitPath, Pop, IsTop
  <2>3. s.cost <= s.cost
    BY <2>2
  <2>4. \A i \in 1..n : \A j \in i..n : paths[i].cost <= paths[j].cost
    BY DEF IInv, CheapestFirst
  <2>5. ASSUME NEW i \in 1..n + 1, NEW j \in i..n + 1
        PROVE  paths'[i].cost <= paths'[j].cost
    <3>1. CASE j = n + 1 /\ i = n + 1
      BY <1>3, <2>3, <3>1
    <3>2. CASE j = n + 1 /\ i # n + 1
      BY <1>2, <1>3, <2>1, <3>2
    <3>3. CASE j # n + 1
      BY <1>2, <1>3, <2>4, <3>3
    <3>4. QED
      BY <3>1, <3>2, <3>3
  <2>6. ASSUME NEW i \in 1..n + 1, NEW t \in heap'
        PROVE  paths'[i].cost <= t.cost
    <3>1. CASE i = n + 1
      BY <1>1, <1>3, <2>2, <3>1
    <3>2. CASE i # n + 1
      BY <1>1, <1>2, <1>3, <3>2 DEF IInv, CheapestFirst
    <3>3. QED
      BY <3>1, <3>2
  <2>7. QED
    BY <1>3, <2>5, <2>6 DEF CheapestFirst
<1>13. NoWalkTwice'
  <2>1. \A i \in 1..n : ~Begins(s.path, paths[i].path) /\ ~Begins(paths[i].path, s.path)
    BY DEF IInv, NoWalkTwice, Found
  <2>2. ASSUME NEW i \in 1..n + 1, NEW j \in 1..n + 1, i # j
        PROVE  ~Begins(paths'[i].path, paths'[j].path)
    <3>1. CASE i = n + 1
      BY <1>2, <1>3, <2>1, <2>2, <3>1
    <3>2. CASE j = n + 1
      BY <1>2, <1>3, <2>1, <2>2, <3>2
    <3>3. CASE i # n + 1 /\ j # n + 1
      BY <1>2, <1>3, <2>2, <3>3 DEF IInv, NoWalkTwice
    <3>4. QED
      BY <3>1, <3>2, <3>3
  <2>3. \A t, u \in heap' : t # u => ~Begins(t.path, u.path)
    BY <1>1 DEF IInv, NoWalkTwice
  <2>4. \A t \in heap', u \in Found' : ~Begins(t.path, u.path) /\ ~Begins(u.path, t.path)
    BY <1>1, <1>4 DEF IInv, NoWalkTwice
  <2>5. Len(paths') <= k'
    BY <1>1, <1>9, SameK
  <2>6. QED
    BY <1>3, <2>2, <2>3, <2>4, <2>5 DEF NoWalkTwice
<1>14. QED
  BY <1>7, <1>8, <1>9, <1>10, <1>11, <1>12, <1>13 DEF IInv

\* Replacing a cheapest entry by its successors.
LEMMA ExpandInv ==
    ASSUME IInv, NEW s \in heap, Expand(s)
    PROVE  IInv'
<1>1. /\ request' = request /\ paths' = paths /\ status' = status /\ Found' = Found
      /\ heap' = (heap \ {s}) \cup Successors(s)
  BY DEF Expand, Pop, Found
<1>2. /\ s \in SearchState /\ request \in Requests
      /\ heap \subseteq SearchState /\ Found \subseteq SearchState
  BY DEF IInv, TypeOK, Found
<1>3. /\ WellFormed(s) /\ EndsAtDestination(s) /\ s.scheduled <= s.current_time
      /\ ~AtDestination(s) /\ ~AtDepthLimit(s)
  BY DEF Expand, IInv, HeapInv
<1>4. ASSUME NEW t \in Successors(s)
      PROVE  /\ t \in SearchState
             /\ WellFormed(t) /\ EndsAtDestination(t) /\ InWindow(t)
             /\ t.scheduled <= t.current_time
             /\ s.cost <= t.cost
             /\ \E e \in Edges : t = Extend(s, e)
  BY <1>2, <1>3, SuccessorFacts
<1>5. TypeOK'
  <2>1. heap' \subseteq SearchState
    BY <1>1, <1>2, <1>4
  <2>2. visited_counts' \in [Nodes -> Nat]
    BY DEF Expand, Pop, IInv, TypeOK, SearchState
  <2>3. QED
    BY <1>1, <2>1, <2>2 DEF IInv, TypeOK
<1>6. HeapInv'
  BY <1>1, <1>4 DEF IInv, HeapInv, WellFormed, Admissible, EndsAtDestination, InWindow
<1>7. Unfinished'
  BY <1>1, SameK DEF IInv, Unfinished
<1>8. PathsAdmissible'
  BY <1>1 DEF IInv, PathsAdmissible, AtDestination,
                       WellFormed, Admissible, EndsAtDestination, InWindow
<1>9. ScheduledInWindow'
  BY <1>1 DEF IInv, ScheduledInWindow
<1>10. CheapestFirst'
  <2>1. ASSUME NEW i \in 1..Len(paths), NEW t \in Successors(s)
        PROVE  paths[i].cost <= t.cost
    <3>1. paths[i].cost <= s.cost /\ s.cost <= t.cost
      BY <1>4 DEF IInv, CheapestFirst
    <3>2. paths[i].cost \in Nat /\ s.cost \in Nat /\ t.cost \in Nat
      BY <1>2, <1>4 DEF Found, SearchState
    <3>3. QED
      BY <3>1, <3>2
  <2>2. QED
    BY <1>1, <2>1 DEF IInv, CheapestFirst
<1>11. NoWalkTwice'
  \* Whatever a new path begins, or is begun by, the popped path already was.
  <2>1. ASSUME NEW t \in Successors(s), NEW u \in SearchState,
               ~Begins(s.path, u.path), ~Begins(u.path, s.path)
        PROVE  ~Begins(t.path, u.path) /\ ~Begins(u.path, t.path)
    <3>1. PICK e \in Edges : t.path = Append(s.path, e)
      BY <1>4 DEF Extend
    <3>2. s.path \in Seq(Edges) /\ u.path \in Seq(Edges)
      BY <1>2 DEF SearchState
    <3>3. QED
      BY <2>1, <3>1, <3>2, BeginsAppend
  <2>2. ASSUME NEW t \in Successors(s), NEW u \in Successors(s), t # u
        PROVE  ~Begins(t.path, u.path)
    <3>1. PICK e \in Edges : t = Extend(s, e)
      BY <1>4
    <3>2. PICK f \in Edges : u = Extend(s, f)
      BY <1>4
    <3>3. /\ e # f /\ s.path \in Seq(Edges)
          /\ t.path = Append(s.path, e) /\ u.path = Append(s.path, f)
      BY <1>2, <2>2, <3>1, <3>2 DEF Extend, SearchState
    <3>4. QED
      BY <3>3, BeginsSibling
  <2>3. \A t \in heap \ {s} : ~Begins(s.path, t.path) /\ ~Begins(t.path, s.path)
    BY DEF IInv, NoWalkTwice
  <2>4. \A t \in Found : ~Begins(s.path, t.path) /\ ~Begins(t.path, s.path)
    BY DEF IInv, NoWalkTwice
  <2>5. ASSUME NEW t \in heap', NEW u \in heap', t # u
        PROVE  ~Begins(t.path, u.path)
    <3>1. CASE t \in heap \ {s} /\ u \in heap \ {s}
      BY <2>5, <3>1 DEF IInv, NoWalkTwice
    <3>2. CASE t \in Successors(s) /\ u \in heap \ {s}
      BY <1>2, <2>1, <2>3, <3>2
    <3>3. CASE t \in heap \ {s} /\ u \in Successors(s)
      BY <1>2, <2>1, <2>3, <3>3
    <3>4. CASE t \in Successors(s) /\ u \in Successors(s)
      BY <2>2, <2>5, <3>4
    <3>5. QED
      BY <1>1, <3>1, <3>2, <3>3, <3>4
  <2>6. ASSUME NEW t \in heap', NEW u \in Found
        PROVE  ~Begins(t.path, u.path) /\ ~Begins(u.path, t.path)
    <3>1. CASE t \in heap
      BY <3>1 DEF IInv, NoWalkTwice
    <3>2. CASE t \in Successors(s)
      BY <1>2, <2>1, <2>4, <3>2
    <3>3. QED
      BY <1>1, <3>1, <3>2
  <2>7. /\ Len(paths') <= k'
        /\ \A i, j \in 1..Len(paths') : i # j => ~Begins(paths'[i].path, paths'[j].path)
    BY <1>1, SameK DEF IInv, NoWalkTwice
  <2>8. QED
    BY <1>1, <2>5, <2>6, <2>7 DEF NoWalkTwice
<1>12. QED
  BY <1>5, <1>6, <1>7, <1>8, <1>9, <1>10, <1>11 DEF IInv

-------------------------------------------------------------------------------
(***************************************************************************)
(* The theorems.                                                           *)
(***************************************************************************)

\* The search starts in the invariant.
LEMMA InitIInv == Init => IInv
<1> SUFFICES ASSUME Init
             PROVE  IInv
  OBVIOUS
<1>1. request \in Requests /\ k \in Nat /\ request.origin \in Nodes
      /\ request.max_segments \in Nat
  BY RequestType DEF Init
<1>2. StartState \in SearchState
  BY <1>1 DEF StartState, SearchState
<1>3. heap = {StartState} /\ paths = <<>> /\ Found = {}
  BY DEF Init, Found
<1>4. TypeOK
  BY <1>1, <1>2, <1>3 DEF Init, TypeOK
<1>5. WellFormed(StartState) /\ EndsAtDestination(StartState) /\ InWindow(StartState)
  BY <1>1 DEF StartState, WellFormed, EndsAtDestination, InWindow
<1>6. HeapInv
  BY <1>3, <1>5 DEF HeapInv, StartState
<1>7. Unfinished /\ PathsAdmissible /\ ScheduledInWindow /\ CheapestFirst
  BY <1>3 DEF Unfinished, PathsAdmissible, ScheduledInWindow, CheapestFirst
<1>8. NoWalkTwice
  BY <1>1, <1>3 DEF NoWalkTwice
<1>9. QED
  BY <1>4, <1>6, <1>7, <1>8 DEF IInv

\* Every iteration keeps it.
LEMMA NextIInv == IInv /\ [Next]_vars => IInv'
<1> SUFFICES ASSUME IInv, [Next]_vars
             PROVE  IInv'
  OBVIOUS
<1>1. ASSUME NEW s \in heap, SkipVisited(s)
      PROVE  IInv'
  BY <1>1, DropInv DEF SkipVisited
<1>2. ASSUME NEW s \in heap, EmitPath(s)
      PROVE  IInv'
  BY <1>2, EmitInv
<1>3. ASSUME NEW s \in heap, SkipDeep(s)
      PROVE  IInv'
  BY <1>3, DropInv DEF SkipDeep
<1>4. ASSUME NEW s \in heap, Expand(s)
      PROVE  IInv'
  BY <1>4, ExpandInv
<1>5. CASE Exhausted \/ UNCHANGED vars
  <2>1. /\ request' = request /\ heap' = heap /\ paths' = paths
        /\ visited_counts' = visited_counts /\ Found' = Found
        /\ status' = status \/ status' = "done"
    BY <1>5 DEF Exhausted, vars, Found
  <2>2. TypeOK'
    BY <2>1 DEF IInv, TypeOK
  <2>3. HeapInv' /\ PathsAdmissible'
    BY <2>1 DEF IInv, HeapInv, PathsAdmissible, AtDestination,
                          WellFormed, Admissible, EndsAtDestination, InWindow
  <2>4. Unfinished' /\ NoWalkTwice'
    BY <2>1, SameK DEF IInv, Unfinished, NoWalkTwice
  <2>5. ScheduledInWindow' /\ CheapestFirst'
    BY <2>1 DEF IInv, ScheduledInWindow, CheapestFirst
  <2>6. QED
    BY <2>2, <2>3, <2>4, <2>5 DEF IInv
<1>6. QED
  BY <1>1, <1>2, <1>3, <1>4, <1>5 DEF Next

(***************************************************************************)
(* The loop of find_k_shortest_paths keeps its invariant, whatever the     *)
(* network, the request and the order in which the heap breaks ties.       *)
(***************************************************************************)
THEOREM SearchInvariant == Spec => []IInv
BY InitIInv, NextIInv, PTL DEF Spec

\* Costs and clocks stay natural numbers: nothing in the loop turns back.
THEOREM SearchTypeOK == Spec => []TypeOK
BY SearchInvariant, PTL DEF IInv

(***************************************************************************)
(* What the search returns respects the request: a chain of unfiltered     *)
(* edges from origin to destination, within the depth limit and the        *)
(* search's time constraint.                                               *)
(***************************************************************************)
THEOREM SearchPathsAdmissible == Spec => []PathsAdmissible
BY SearchInvariant, PTL DEF IInv

(***************************************************************************)
(* The schedule path_to_route gives a returned path meets the delivery     *)
(* window: the clock the search checks runs ahead of the one it reports,   *)
(* because whole hours taken of a sum are at least those taken of a part.  *)
(***************************************************************************)
THEOREM SearchScheduledInWindow == Spec => []ScheduledInWindow
BY SearchInvariant, PTL DEF IInv

(***************************************************************************)
(* Paths come out in order of cost: an extension costs no less than what   *)
(* it extends, so nothing cheaper can enter the heap later.                *)
(***************************************************************************)
THEOREM SearchCheapestFirst == Spec => []CheapestFirst
BY SearchInvariant, PTL DEF IInv

(***************************************************************************)
(* The walks in the heap and the result are pairwise incomparable, so none *)
(* is explored or returned twice; and at most k are returned.              *)
(***************************************************************************)
THEOREM SearchNoWalkTwice == Spec => []NoWalkTwice
BY SearchInvariant, PTL DEF IInv

-------------------------------------------------------------------------------
(***************************************************************************)
(* The clock of path_to_route.                                             *)
(***************************************************************************)

\* What the i-th edge of path p adds to the clock.
LegTicks(p) ==
    [i \in 1..Len(p) |->
        RouteTransfer(SubSeq(p, 1, i - 1), p[i]) + WholeHours(Edge[p[i]].transit)]

\* Transfers and whole hours are numbers of ticks.
LEMMA LegNat ==
    ASSUME NEW p \in Seq(Edges), NEW i \in 1..Len(p)
    PROVE  /\ RouteTransfer(SubSeq(p, 1, i - 1), p[i]) \in Nat
           /\ WholeHours(Edge[p[i]].transit) \in Nat
<1>1. p[i] \in Edges
  BY ElementOfSeq
<1>2. RouteTransfer(SubSeq(p, 1, i - 1), p[i]) \in Nat
  BY TransferNat DEF RouteTransfer
<1>3. QED
  BY <1>1, <1>2, EdgeType, WholeHoursNat

LEMMA LegTicksType ==
    ASSUME NEW p \in Seq(Edges)
    PROVE  LegTicks(p) \in [1..Len(p) -> Nat]
BY LegNat DEF LegTicks

\* arrivals(p) adds up the legs.
LEMMA ArrivalsSum ==
    ASSUME NEW p \in Seq(Edges)
    PROVE  \A i \in 0..Len(p) : arrivals(p)[i] = SumOf(Upto(LegTicks(p), i))
<1> DEFINE n == Len(p)
           d == LegTicks(p)
           a == [i \in 1..n |-> RouteTransfer(SubSeq(p, 1, i - 1), p[i])]
           b == [i \in 1..n |-> WholeHours(Edge[p[i]].transit)]
<1>1. n \in Nat /\ d \in [1..n -> Nat]
  BY LegTicksType, LenProperties
<1>2. Joins(d, a, b, n)
  BY LegNat DEF LegTicks, Joins
<1>3. arrivals(p) = CHOOSE f : Accumulates(f, a, b, n)
  <2>1. \A f : Accumulates(f, a, b, n) <=>
              f = [i \in 0..n |-> IF i = 0 THEN 0
                      ELSE f[i - 1] + RouteTransfer(SubSeq(p, 1, i - 1), p[i])
                                    + WholeHours(Edge[p[i]].transit)]
    <3>1. \A i \in 1..n : /\ a[i] = RouteTransfer(SubSeq(p, 1, i - 1), p[i])
                          /\ b[i] = WholeHours(Edge[p[i]].transit)
      OBVIOUS
    <3> HIDE DEF a, b
    <3>2. \A i \in 0..n : i # 0 => i \in 1..n
      BY <1>1
    <3>3. QED
      BY <3>1, <3>2 DEF Accumulates
  <2> HIDE DEF a, b
  <2>2. QED
    BY <2>1 DEF arrivals
<1> HIDE DEF a, b, d, n
<1>4. Accumulates(arrivals(p), a, b, n)
  BY <1>1, <1>2, <1>3, RunningTotalExists
<1>5. \A i \in 0..n : arrivals(p)[i] = SumOf(Upto(d, i))
  BY <1>1, <1>2, <1>4, RunningTotal
<1>6. QED
  BY <1>5 DEF d, n

\* The arrival at the end of p is the sum of all legs.
LEMMA LastArrival ==
    ASSUME NEW p \in Seq(Edges)
    PROVE  arrivals(p)[Len(p)] = SumOf(LegTicks(p))
<1>1. Len(p) \in Nat /\ Len(p) \in 0..Len(p)
  BY LenProperties
<1>2. Upto(LegTicks(p), Len(p)) = LegTicks(p)
  BY <1>1, LegTicksType, UptoSum
<1>3. QED
  BY <1>1, <1>2, ArrivalsSum

\* One edge more adds its leg and leaves the earlier legs alone.
LEMMA LegTicksAppend ==
    ASSUME NEW p \in Seq(Edges), NEW e \in Edges
    PROVE  SumOf(LegTicks(Append(p, e))) =
              SumOf(LegTicks(p)) + (RouteTransfer(p, e) + WholeHours(Edge[e].transit))
<1> DEFINE q == Append(p, e)
           n == Len(p)
<1>1. /\ n \in Nat /\ q \in Seq(Edges) /\ Len(q) = n + 1 /\ q[n + 1] = e
      /\ \A i \in 1..n : q[i] = p[i]
  BY LenProperties, AppendProperties
<1>2. ASSUME NEW m \in 0..n
      PROVE  SubSeq(q, 1, m) = SubSeq(p, 1, m)
  <2>1. \A i \in 1..m : q[i] \in Edges /\ p[i] \in Edges /\ q[i] = p[i]
    BY <1>1, ElementOfSeq
  <2>2. /\ SubSeq(q, 1, m) \in Seq(Edges) /\ SubSeq(p, 1, m) \in Seq(Edges)
        /\ Len(SubSeq(q, 1, m)) = m /\ Len(SubSeq(p, 1, m)) = m
        /\ \A i \in 1..m : SubSeq(q, 1, m)[i] = q[i] /\ SubSeq(p, 1, m)[i] = p[i]
    BY <2>1, SubSeqProperties
  <2>3. QED
    BY <2>1, <2>2, SeqEqual
<1>3. SubSeq(q, 1, n) = p
  BY <1>1, <1>2, SubSeqFull
<1>4. LegTicks(q)[n + 1] = RouteTransfer(p, e) + WholeHours(Edge[e].transit)
  <2>1. n + 1 \in 1..Len(q) /\ (n + 1) - 1 = n
    BY <1>1
  <2>2. LegTicks(q)[n + 1] = RouteTransfer(SubSeq(q, 1, (n + 1) - 1), q[n + 1])
                               + WholeHours(Edge[q[n + 1]].transit)
    BY <2>1 DEF LegTicks
  <2>3. QED
    BY <1>1, <1>3, <2>1, <2>2
<1>5. ASSUME NEW i \in 1..n
      PROVE  LegTicks(q)[i] = LegTicks(p)[i]
  <2>1. i \in 1..Len(q) /\ i \in 1..Len(p) /\ i - 1 \in 0..n /\ q[i] = p[i]
    BY <1>1
  <2>2. SubSeq(q, 1, i - 1) = SubSeq(p, 1, i - 1)
    BY <1>2, <2>1
  <2> HIDE DEF q, n
  <2>3. QED
    BY <2>1, <2>2 DEF LegTicks
<1>6. LegTicks(p) \in [1..n -> Nat] /\ LegTicks(q) \in [1..n + 1 -> Nat]
  BY <1>1, LegTicksType
<1> HIDE DEF q, n
<1>7. SumOf(LegTicks(q)) = SumOf(LegTicks(p)) + LegTicks(q)[n + 1]
  BY <1>1, <1>5, <1>6, SumGrow
<1>8. QED
  BY <1>4, <1>7 DEF q

LEMMA CostNat ==
    ASSUME request \in Requests, NEW e \in Edges
    PROVE  calculate_cost(e, request.weight_kg) \in Nat
BY EdgeType, RequestType DEF calculate_cost

\* One edge more adds its cost.
LEMMA CostAppend ==
    ASSUME request \in Requests, NEW p \in Seq(Edges), NEW e \in Edges
    PROVE  route_cost(Append(p, e)) =
              route_cost(p) + calculate_cost(e, request.weight_kg)
<1> DEFINE q == Append(p, e)
           n == Len(p)
           f == [i \in 1..n |-> calculate_cost(p[i], request.weight_kg)]
           g == [i \in 1..n + 1 |-> calculate_cost(q[i], request.weight_kg)]
<1>1. /\ n \in Nat /\ q \in Seq(Edges) /\ Len(q) = n + 1 /\ q[n + 1] = e
      /\ \A i \in 1..n : q[i] = p[i]
  BY LenProperties, AppendProperties
<1>2. /\ \A i \in 1..n : p[i] \in Edges
      /\ \A i \in 1..n + 1 : q[i] \in Edges
  BY <1>1, ElementOfSeq
<1>3. f \in [1..n -> Nat] /\ g \in [1..n + 1 -> Nat]
  BY <1>2, CostNat
<1>4. \A i \in 1..n : g[i] = f[i]
  BY <1>1
<1>5. g[n + 1] = calculate_cost(e, request.weight_kg)
  BY <1>1
<1>6. route_cost(p) = SumOf(f) /\ route_cost(q) = SumOf(g)
  BY <1>1 DEF route_cost
<1> HIDE DEF f, g, q, n
<1>7. SumOf(g) = SumOf(f) + g[n + 1]
  BY <1>1, <1>3, <1>4, SumGrow
<1>8. QED
  BY <1>5, <1>6, <1>7 DEF q

-------------------------------------------------------------------------------
(***************************************************************************)
(* ScheduleIsRoutes.                                                       *)
(***************************************************************************)

\* What the iterations do to the heap and the result: entries are popped, come
\* out at the destination, or are extended by an edge.
LEMMA StepEntries ==
    ASSUME IInv, [Next]_vars
    PROVE  /\ request' = request
           /\ \A t \in (heap \cup Found)' :
                 \/ t \in heap \cup Found
                 \/ \E s \in heap : \E e \in Edges :
                       t = Extend(s, e) /\ Expand(s) /\ t \in Successors(s)
<1>1. paths \in Seq(SearchState) /\ heap \subseteq SearchState
  BY DEF IInv, TypeOK
<1>2. ASSUME NEW s \in heap, SkipVisited(s) \/ SkipDeep(s)
      PROVE  request' = request /\ heap' \subseteq heap /\ Found' = Found
  BY <1>2 DEF SkipVisited, SkipDeep, Pop, Found
<1>3. ASSUME NEW s \in heap, EmitPath(s)
      PROVE  request' = request /\ heap' \subseteq heap /\ Found' = Found \cup {s}
  <2>1. request' = request /\ heap' \subseteq heap /\ paths' = Append(paths, s)
    BY <1>3 DEF EmitPath, Pop
  <2>2. /\ Len(paths') = Len(paths) + 1 /\ paths'[Len(paths) + 1] = s
        /\ Len(paths) \in Nat /\ \A i \in 1..Len(paths) : paths'[i] = paths[i]
    BY <1>1, <2>1, AppendProperties, LenProperties
  <2>3. QED
    BY <2>1, <2>2 DEF Found
<1>4. ASSUME NEW s \in heap, Expand(s)
      PROVE  /\ request' = request /\ heap' \subseteq heap \cup Successors(s) /\ Found' = Found
             /\ \A t \in Successors(s) : \E e \in Edges : t = Extend(s, e)
  BY <1>4 DEF Expand, Pop, Found, Successors, edges_from
<1>5. ASSUME Exhausted \/ UNCHANGED vars
      PROVE  request' = request /\ heap' = heap /\ Found' = Found
  BY <1>5 DEF Exhausted, vars, Found
<1>6. QED
  BY <1>2, <1>3, <1>4, <1>5 DEF Next

\* An extension keeps the schedule and the cost.
LEMMA ScheduleStep ==
    ASSUME IInv, ScheduleIsRoutes, [Next]_vars
    PROVE  ScheduleIsRoutes'
<1>1. ASSUME NEW s \in heap \cup Found
      PROVE  /\ s \in SearchState /\ s.scheduled = SumOf(LegTicks(s.path))
             /\ s.cost = route_cost(s.path)
  <2>1. s \in SearchState
    BY DEF IInv, TypeOK, Found
  <2>2. QED
    BY <2>1, LastArrival DEF ScheduleIsRoutes, SearchState
<1>2. ASSUME NEW s \in heap, NEW e \in Edges
      PROVE  /\ Extend(s, e).path \in Seq(Edges)
             /\ Extend(s, e).scheduled = SumOf(LegTicks(Extend(s, e).path))
             /\ Extend(s, e).cost = route_cost(Extend(s, e).path)
  <2>1. s.path \in Seq(Edges) /\ s.scheduled \in Nat /\ request \in Requests
    BY <1>1 DEF SearchState, IInv, TypeOK
  <2>2. RouteTransfer(s.path, e) \in Nat /\ WholeHours(Edge[e].transit) \in Nat
    BY TransferNat, EdgeType, WholeHoursNat DEF RouteTransfer
  <2>3. /\ Extend(s, e).path = Append(s.path, e)
        /\ Extend(s, e).scheduled
              = s.scheduled + (RouteTransfer(s.path, e) + WholeHours(Edge[e].transit))
        /\ Extend(s, e).cost = s.cost + calculate_cost(e, request.weight_kg)
    BY <2>1, <2>2 DEF Extend
  <2>4. QED
    BY <1>1, <2>1, <2>3, LegTicksAppend, CostAppend, AppendProperties
<1>3. ASSUME NEW t \in (heap \cup Found)'
      PROVE  t.scheduled = arrivals(t.path)[Len(t.path)] /\ t.cost = route_cost(t.path)
  <2>1. CASE t \in heap \cup Found
    BY <1>1, <2>1, LastArrival DEF SearchState
  <2>2. CASE t \notin heap \cup Found
    <3>1. PICK s \in heap, e \in Edges : t = Extend(s, e)
      BY <2>2, StepEntries
    <3>2. QED
      BY <1>2, <3>1, LastArrival
  <2>3. QED
    BY <2>1, <2>2
<1>4. \A p : route_cost(p)' = route_cost(p)
  BY StepEntries DEF route_cost
<1>5. QED
  BY <1>3, <1>4 DEF ScheduleIsRoutes

\* Nothing has been travelled or paid at the start.
LEMMA ScheduleInit == Init => ScheduleIsRoutes
<1> SUFFICES ASSUME Init
             PROVE  ScheduleIsRoutes
  OBVIOUS
<1>1. /\ heap \cup Found = {StartState} /\ StartState.path = <<>>
      /\ StartState.scheduled = 0 /\ StartState.cost = 0
  BY DEF Init, Found, StartState
<1>2. <<>> \in Seq(Edges) /\ DOMAIN LegTicks(<<>>) = {}
  BY DEF LegTicks
<1>3. arrivals(<<>>)[Len(<<>>)] = 0
  BY <1>2, LastArrival, SumEmpty
<1>4. route_cost(<<>>) = 0
  <2>1. DOMAIN [i \in 1..Len(<<>>) |-> calculate_cost(<<>>[i], request.weight_kg)] = {}
    OBVIOUS
  <2>2. QED
    BY <2>1, SumEmpty DEF route_cost
<1>5. QED
  BY <1>1, <1>3, <1>4 DEF ScheduleIsRoutes

(***************************************************************************)
(* The schedule and the cost the search carries along are those            *)
(* path_to_route computes from the path alone, so that                     *)
(* SearchScheduledInWindow and SearchCheapestFirst speak of the arrivals   *)
(* and costs the answer reports.                                           *)
(***************************************************************************)
THEOREM SearchScheduleIsRoutes == Spec => []ScheduleIsRoutes
<1>1. IInv /\ ScheduleIsRoutes /\ [Next]_vars => ScheduleIsRoutes'
  BY ScheduleStep
<1>2. QED
  BY <1>1, ScheduleInit, SearchInvariant, PTL DEF Spec

-------------------------------------------------------------------------------
(***************************************************************************)
(* WorkBound.                                                              *)
(***************************************************************************)

\* The turns in which edge e may have been pushed: a node is expanded at most
\* once per visit and at most k times.
Pushed == {t \in Edges \X (1..k) : t[2] <= visited_counts[Edge[t[1]].from]}

\* Every entry that was pushed, the start included, is popped or pending.
WorkInv ==
    /\ IsFiniteSet(heap)
    /\ SumOf(visited_counts) + Cardinality(heap) <= 1 + Cardinality(Pushed)

\* There are at most n turns for each edge.
LEMMA TurnsFinite ==
    ASSUME NEW n \in Nat, NEW P \in SUBSET (Edges \X (1..n))
    PROVE  /\ IsFiniteSet(P)
           /\ Cardinality(P) \in Nat
           /\ Cardinality(P) <= n * Cardinality(Edges)
<1> DEFINE Q == Edges \X (1..n)
<1>1. IsFiniteSet(1..n) /\ Cardinality(1..n) = n
  BY FS_Interval
<1>2. IsFiniteSet(Edges) /\ Cardinality(Edges) \in Nat
  BY GraphAssumption, FS_CardinalityType
<1>3. IsFiniteSet(Q) /\ Cardinality(Q) = Cardinality(Edges) * Cardinality(1..n)
  BY <1>1, <1>2, FS_Product
<1> HIDE DEF Q
<1>4. IsFiniteSet(P) /\ Cardinality(P) <= Cardinality(Q)
  BY <1>3, FS_Subset DEF Q
<1>5. Cardinality(Edges) * Cardinality(1..n) = n * Cardinality(Edges)
  BY <1>1, <1>2
<1>6. QED
  BY <1>3, <1>4, <1>5, FS_CardinalityType

\* The turns of a call.
LEMMA PushedFinite ==
    ASSUME IInv
    PROVE  /\ IsFiniteSet(Pushed)
           /\ Cardinality(Pushed) \in Nat
           /\ Cardinality(Pushed) <= k * Cardinality(Edges)
<1>1. k \in Nat
  BY RequestType DEF IInv, TypeOK
<1>2. Pushed \in SUBSET (Edges \X (1..k))
  BY DEF Pushed
<1>3. QED
  BY <1>1, <1>2, TurnsFinite

\* The turns after a step that keeps k.
LEMMA PushedFiniteNext ==
    ASSUME IInv, k' = k
    PROVE  IsFiniteSet(Pushed') /\ Cardinality(Pushed') \in Nat
<1>1. k \in Nat
  BY RequestType DEF IInv, TypeOK
<1>2. Pushed' \in SUBSET (Edges \X (1..k))
  BY DEF Pushed
<1>3. QED
  BY <1>1, <1>2, TurnsFinite

\* A visit is counted, and no turn is forgotten.
LEMMA PopCounts ==
    ASSUME IInv, NEW s \in heap, Pop(s)
    PROVE  /\ SumOf(visited_counts) \in Nat
           /\ SumOf(visited_counts') = SumOf(visited_counts) + 1
           /\ Pushed \subseteq Pushed'
           /\ k' = k
<1>1. s.node \in Nodes /\ visited_counts \in [Nodes -> Nat] /\ IsFiniteSet(Nodes)
  BY GraphAssumption DEF IInv, TypeOK, SearchState
<1>2. visited_counts' = [visited_counts EXCEPT ![s.node] = visited_counts[s.node] + 1]
  BY DEF Pop
<1>3. SumOf(visited_counts) \in Nat
  BY <1>1, SumIsNat
<1>4. visited_counts[s.node] \in Nat
  BY <1>1
<1>5. SumOf(visited_counts') = SumOf(visited_counts) - visited_counts[s.node]
                                  + visited_counts'[s.node]
  <2>1. /\ visited_counts' \in [Nodes -> Nat]
        /\ \A n \in Nodes \ {s.node} : visited_counts'[n] = visited_counts[n]
    BY <1>1, <1>2, <1>4
  <2>2. QED
    BY <1>1, <2>1, SumUpdate
<1>6. k' = k
  BY SameK DEF Pop
<1>7. ASSUME NEW t \in Pushed
      PROVE  t \in Pushed'
  <2>1. t \in Edges \X (1..k) /\ t[2] <= visited_counts[Edge[t[1]].from]
    BY DEF Pushed
  <2>2. t[1] \in Edges /\ t[2] \in 1..k /\ k \in Nat
    BY <2>1, RequestType DEF IInv, TypeOK
  <2>3. Edge[t[1]].from \in Nodes
    BY <2>2, EdgeType
  <2>4. t[2] <= visited_counts'[Edge[t[1]].from]
    BY <1>1, <1>2, <2>1, <2>2, <2>3
  <2>5. QED
    BY <1>6, <2>1, <2>4 DEF Pushed
<1>8. QED
  BY <1>1, <1>2, <1>3, <1>4, <1>5, <1>6, <1>7

\* Leaving an entry out, or moving it to the result.
LEMMA WorkPop ==
    ASSUME IInv, WorkInv, NEW s \in heap, Pop(s), heap' = heap \ {s}
    PROVE  WorkInv'
<1>1. IsFiniteSet(heap') /\ Cardinality(heap') = Cardinality(heap) - 1
  BY FS_RemoveElement DEF WorkInv
<1>2. Cardinality(heap) \in Nat /\ Cardinality(Pushed) \in Nat
  BY FS_CardinalityType, PushedFinite DEF WorkInv
<1>3. IsFiniteSet(Pushed') /\ Cardinality(Pushed') \in Nat
  BY PopCounts, PushedFiniteNext
<1>4. Cardinality(Pushed) <= Cardinality(Pushed')
  BY <1>3, PopCounts, FS_Subset
<1>5. QED
  BY <1>1, <1>2, <1>3, <1>4, PopCounts DEF WorkInv

\* Pushing the successors: a turn of its own for each edge they follow.
LEMMA WorkExpand ==
    ASSUME IInv, WorkInv, NEW s \in heap, Expand(s)
    PROVE  WorkInv'
<1> DEFINE n == s.node
           v == visited_counts[n] + 1
           E == edges_from(n)
           D == E \X {v}
           H == heap \ {s}
           N == Successors(s)
<1>1. Pop(s) /\ heap' = H \cup N /\ ~OverVisited(s)
  BY DEF Expand
<1>2. /\ n \in Nodes /\ visited_counts \in [Nodes -> Nat] /\ v \in Nat \ {0}
      /\ k \in Nat /\ v <= k /\ visited_counts' = [visited_counts EXCEPT ![n] = v]
  BY <1>1, RequestType DEF IInv, TypeOK, SearchState, OverVisited, Pop
<1>3. IsFiniteSet(E) /\ E \subseteq Edges /\ Cardinality(E) \in Nat
  <2>1. E \in SUBSET Edges
    BY DEF edges_from
  <2>2. QED
    BY <2>1, GraphAssumption, FS_Subset, FS_CardinalityType
<1>4. IsFiniteSet(N) /\ Cardinality(N) <= Cardinality(E) /\ Cardinality(N) \in Nat
  <2> DEFINE M == {e \in E : Extend(s, e) \in N}
             f == [e \in M |-> Extend(s, e)]
  <2>1. M \in SUBSET E
    OBVIOUS
  <2>2. IsFiniteSet(M) /\ Cardinality(M) <= Cardinality(E) /\ Cardinality(M) \in Nat
    BY <1>3, <2>1, FS_Subset, FS_CardinalityType
  <2>3. \A t \in N : \E e \in M : t = Extend(s, e)
    BY DEF Successors
  <2>4. f \in Surjection(M, N)
    BY <2>3 DEF Surjection
  <2> HIDE DEF E, M, N, f
  <2>5. IsFiniteSet(N) /\ Cardinality(N) <= Cardinality(M)
    BY <2>2, <2>4, FS_Surjection
  <2>6. QED
    BY <1>3, <2>2, <2>5, FS_CardinalityType
<1>5. IsFiniteSet(D) /\ Cardinality(D) = Cardinality(E)
  <2>1. IsFiniteSet({v}) /\ Cardinality({v}) = 1
    BY FS_Singleton
  <2>2. Cardinality(D) = Cardinality(E) * 1 /\ IsFiniteSet(D)
    BY <1>3, <2>1, FS_Product
  <2>3. QED
    BY <1>3, <2>2
<1>6. Pushed \cap D = {}
  <2>1. ASSUME NEW t \in D
        PROVE  t \notin Pushed
    <3>1. Edge[t[1]].from = n /\ t[2] = v
      BY DEF edges_from
    <3>2. QED
      BY <1>2, <3>1 DEF Pushed
  <2>2. QED
    BY <2>1
<1>7. Pushed \cup D \subseteq Pushed'
  <2>1. ASSUME NEW t \in D
        PROVE  t \in Pushed'
    <3>1. t \in Edges \X (1..k) /\ Edge[t[1]].from = n /\ t[2] = v
      BY <1>2, <1>3 DEF edges_from
    <3>2. visited_counts'[n] = v /\ v <= v
      BY <1>2
    <3>3. k' = k
      BY <1>1, PopCounts
    <3>4. QED
      BY <3>1, <3>2, <3>3 DEF Pushed
  <2>2. QED
    BY <1>1, <2>1, PopCounts
<1> HIDE DEF D, E, N
<1>8. /\ IsFiniteSet(Pushed) /\ Cardinality(Pushed) \in Nat
      /\ IsFiniteSet(Pushed') /\ Cardinality(Pushed') \in Nat
  BY <1>1, PushedFinite, PopCounts, PushedFiniteNext
<1>9. Cardinality(Pushed) + Cardinality(E) <= Cardinality(Pushed')
  <2>1. Cardinality(Pushed \cup D) = Cardinality(Pushed) + Cardinality(D) - Cardinality({})
    BY <1>5, <1>6, <1>8, FS_Union
  <2>2. Cardinality({}) = 0
    BY FS_EmptySet
  <2>3. Cardinality(Pushed \cup D) <= Cardinality(Pushed')
    BY <1>7, <1>8, FS_Subset
  <2>4. QED
    BY <1>3, <1>5, <1>8, <2>1, <2>2, <2>3
<1>10. /\ IsFiniteSet(H) /\ Cardinality(H) = Cardinality(heap) - 1
       /\ Cardinality(heap) \in Nat /\ Cardinality(H) \in Nat
  BY FS_RemoveElement, FS_CardinalityType DEF WorkInv
<1> HIDE DEF H
<1>11. IsFiniteSet(heap') /\ Cardinality(heap') <= Cardinality(H) + Cardinality(N)
  <2>1. /\ IsFiniteSet(heap')
        /\ Cardinality(heap') = Cardinality(H) + Cardinality(N) - Cardinality(H \cap N)
    BY <1>1, <1>4, <1>10, FS_Union
  <2>2. Cardinality(H \cap N) \in Nat
    BY <1>4, <1>10, FS_Intersection, FS_CardinalityType
  <2>3. QED
    BY <1>4, <1>10, <2>1, <2>2
<1>12. Cardinality(heap') \in Nat
  BY <1>11, FS_CardinalityType
<1>13. /\ SumOf(visited_counts) \in Nat
       /\ SumOf(visited_counts') = SumOf(visited_counts) + 1
  BY <1>1, PopCounts
<1>14. QED
  BY <1>3, <1>4, <1>8, <1>9, <1>10, <1>11, <1>12, <1>13 DEF WorkInv

\* The bound holds at the start.
LEMMA WorkInit == Init => WorkInv
<1> SUFFICES ASSUME Init
             PROVE  WorkInv
  OBVIOUS
<1>1. IInv
  BY InitIInv
<1>2. IsFiniteSet(heap) /\ Cardinality(heap) = 1
  BY FS_Singleton DEF Init
<1>3. SumOf(visited_counts) = 0
  BY GraphAssumption, SumZero DEF Init
<1>4. QED
  BY <1>1, <1>2, <1>3, PushedFinite DEF WorkInv

\* Every iteration keeps it.
LEMMA WorkNext == IInv /\ WorkInv /\ [Next]_vars => WorkInv'
<1> SUFFICES ASSUME IInv, WorkInv, [Next]_vars
             PROVE  WorkInv'
  OBVIOUS
<1>1. ASSUME NEW s \in heap, SkipVisited(s) \/ EmitPath(s) \/ SkipDeep(s)
      PROVE  WorkInv'
  BY <1>1, WorkPop DEF SkipVisited, EmitPath, SkipDeep
<1>2. ASSUME NEW s \in heap, Expand(s)
      PROVE  WorkInv'
  BY <1>2, WorkExpand
<1>3. CASE Exhausted \/ UNCHANGED vars
  <2>1. heap' = heap /\ visited_counts' = visited_counts /\ k' = k
    BY <1>3, SameK DEF Exhausted, vars
  <2>2. QED
    BY <2>1 DEF WorkInv, Pushed
<1>4. QED
  BY <1>1, <1>2, <1>3 DEF Next

(***************************************************************************)
(* The visit cap bounds the work by the size of the network: what was      *)
(* pushed is the start and at most k entries for each edge, and every      *)
(* entry is popped once.                                                   *)
(***************************************************************************)
THEOREM SearchWorkBound == Spec => []WorkBound
<1>1. IInv /\ WorkInv => WorkBound
  <2> SUFFICES ASSUME IInv, WorkInv
               PROVE  WorkBound
    OBVIOUS
  <2>1. SumOf(visited_counts) + Cardinality(heap) <= 1 + k * Cardinality(Edges)
    <3>1. /\ Cardinality(heap) \in Nat /\ k \in Nat /\ Cardinality(Edges) \in Nat
          /\ SumOf(visited_counts) \in Nat
      <4>1. visited_counts \in [Nodes -> Nat] /\ IsFiniteSet(Nodes) /\ IsFiniteSet(Edges)
        BY GraphAssumption DEF IInv, TypeOK
      <4>2. QED
        BY <4>1, SumIsNat, FS_CardinalityType, RequestType DEF WorkInv, IInv, TypeOK
    <3>2. k * Cardinality(Edges) \in Nat
      BY <3>1
    <3>3. QED
      BY <3>1, <3>2, PushedFinite DEF WorkInv
  <2>2. QED
    BY <2>1 DEF WorkBound
<1>2. QED
  BY <1>1, WorkInit, WorkNext, SearchInvariant, PTL DEF Spec

-------------------------------------------------------------------------------
(***************************************************************************)
(* TopK: the walks SearchWalks enumerates, as chains of entries.           *)
(***************************************************************************)

\* f[d] is the set of walks of d edges.
LayersUpTo(f, n) ==
    f = [d \in 0..n |->
            IF d = 0 THEN {StartState}
            ELSE UNION {Successors(s) : s \in {t \in f[d - 1] : ~AtDestination(t)}}]

Layers == CHOOSE f : LayersUpTo(f, request.max_segments)

\* The entries on the way to c[d], each pushed when the one before is expanded.
Chain(c, d) ==
    /\ c \in [0..d -> SearchState]
    /\ c[0] = StartState
    /\ \A i \in 1..d : ~AtDestination(c[i - 1]) /\ c[i] \in Successors(c[i - 1])

\* Layers can be built to any depth.
LEMMA LayersExist ==
    ASSUME NEW n \in Nat
    PROVE  \E f : LayersUpTo(f, n)
<1> DEFINE T == {m \in Nat : ~\E f : LayersUpTo(f, m)}
<1>1. SUFFICES ASSUME T # {}
               PROVE  FALSE
  OBVIOUS
<1>2. PICK m \in T : \A i \in T : m <= i
  <2>1. T \subseteq Nat
    OBVIOUS
  <2> HIDE DEF T
  <2>2. QED
    BY <1>1, <2>1, LeastNat
<1> DEFINE next(A) == UNION {Successors(s) : s \in {t \in A : ~AtDestination(t)}}
<1>3. CASE m = 0
  <2> DEFINE f == [d \in 0..0 |-> {StartState}]
  <2>1. LayersUpTo(f, 0)
    BY DEF LayersUpTo
  <2>2. QED
    BY <1>3, <2>1
<1>4. CASE m # 0
  <2> DEFINE l == m - 1
  <2>1. l \in Nat /\ l < m /\ m \in Nat
    BY <1>4
  <2>2. PICK f : LayersUpTo(f, l)
    BY <1>2, <2>1
  <2> DEFINE g == [d \in 0..m |-> IF d = m THEN next(f[l]) ELSE f[d]]
  <2>3. ASSUME NEW d \in 0..m
        PROVE  g[d] = IF d = 0 THEN {StartState} ELSE next(g[d - 1])
    <3>1. CASE d = m
      <4>1. d - 1 = l /\ l \in 0..m /\ l # m /\ d # 0
        BY <1>4, <2>1, <3>1
      <4>2. g[d] = next(f[l]) /\ g[l] = f[l]
        BY <3>1, <4>1
      <4> HIDE DEF g, next, l
      <4>3. QED
        BY <4>1, <4>2
    <3>2. CASE d # m
      <4>1. d \in 0..l /\ (d # 0 => d - 1 \in 0..m /\ d - 1 # m)
        BY <2>1, <3>2
      <4>2. f[d] = IF d = 0 THEN {StartState} ELSE next(f[d - 1])
        BY <2>2, <4>1 DEF LayersUpTo
      <4>3. g[d] = f[d] /\ (d # 0 => g[d - 1] = f[d - 1])
        BY <3>2, <4>1
      <4> HIDE DEF g, next, l
      <4>4. QED
        BY <4>2, <4>3
    <3>3. QED
      BY <3>1, <3>2
  <2>4. g = [d \in 0..m |-> g[d]]
    OBVIOUS
  <2> HIDE DEF g
  <2>5. LayersUpTo(g, m)
    BY <2>3, <2>4 DEF LayersUpTo
  <2>6. QED
    BY <2>5
<1>5. QED
  BY <1>3, <1>4

\* What the layers of a request are, and what SearchWalks takes of them.
LEMMA LayersFacts ==
    ASSUME request \in Requests
    PROVE  /\ Layers[0] = {StartState}
           /\ \A d \in 1..request.max_segments :
                 Layers[d] = UNION {Successors(s) : s \in {t \in Layers[d - 1] : ~AtDestination(t)}}
           /\ \A w : w \in SearchWalks <=>
                 AtDestination(w) /\ \E d \in 0..request.max_segments : w \in Layers[d]
<1> DEFINE n == request.max_segments
<1>1. n \in Nat
  BY RequestType
<1>2. LayersUpTo(Layers, n)
  BY <1>1, LayersExist DEF Layers
<1>3. SearchWalks = {s \in UNION {Layers[d] : d \in 0..n} : AtDestination(s)}
  BY DEF SearchWalks, WalksBy, Layers, LayersUpTo
<1> HIDE DEF n
<1>4. Layers[0] = {StartState}
  BY <1>1, <1>2 DEF LayersUpTo
<1>5. ASSUME NEW d \in 1..n
      PROVE  Layers[d] = UNION {Successors(s) : s \in {t \in Layers[d - 1] : ~AtDestination(t)}}
  <2>1. d \in 0..n /\ d # 0
    BY <1>1
  <2>2. QED
    BY <1>2, <2>1 DEF LayersUpTo
<1>6. \A w : w \in SearchWalks <=> AtDestination(w) /\ \E d \in 0..n : w \in Layers[d]
  BY <1>3
<1>7. QED
  BY <1>4, <1>5, <1>6 DEF n

\* Every walk of a layer is the end of a chain.
LEMMA LayerChains ==
    ASSUME request \in Requests, NEW d \in 0..request.max_segments, NEW w \in Layers[d]
    PROVE  \E c : Chain(c, d) /\ c[d] = w
<1> DEFINE n == request.max_segments
           T == {i \in 0..n : \E v \in Layers[i] : ~\E c : Chain(c, i) /\ c[i] = v}
<1>1. SUFFICES ASSUME T # {}
               PROVE  FALSE
  OBVIOUS
<1>2. n \in Nat
  BY RequestType
<1>3. PICK m \in T : \A i \in T : m <= i
  <2>1. T \subseteq Nat
    OBVIOUS
  <2> HIDE DEF T
  <2>2. QED
    BY <1>1, <2>1, LeastNat
<1>4. PICK v \in Layers[m] : ~\E c : Chain(c, m) /\ c[m] = v
  OBVIOUS
<1>5. m \in 0..n
  OBVIOUS
<1>6. CASE m = 0
  <2> DEFINE c == [i \in 0..0 |-> StartState]
  <2>1. StartState \in SearchState
    BY RequestType DEF StartState, SearchState
  <2>2. Chain(c, 0) /\ c[0] = StartState
    BY <2>1 DEF Chain
  <2>3. v = StartState
    BY <1>4, <1>6, LayersFacts
  <2>4. QED
    BY <1>4, <1>6, <2>2, <2>3
<1>7. CASE m # 0
  <2> DEFINE l == m - 1
  <2>1. l \in 0..n /\ l < m /\ m \in 1..n /\ m \in Nat
    BY <1>2, <1>5, <1>7
  <2>2. PICK u \in Layers[l] : ~AtDestination(u) /\ v \in Successors(u)
    BY <1>4, <2>1, LayersFacts
  <2>3. l \notin T
    BY <1>3, <2>1
  <2>4. PICK c : Chain(c, l) /\ c[l] = u
    BY <2>1, <2>2, <2>3
  <2> DEFINE b == [i \in 0..m |-> IF i = m THEN v ELSE c[i]]
  <2> HIDE DEF T
  <2>5. u \in SearchState /\ v \in SearchState
    <3>1. u \in SearchState
      BY <2>1, <2>4 DEF Chain
    <3>2. QED
      BY <2>2, <3>1, ExtendType DEF Successors, edges_from
  <2>6. b \in [0..m -> SearchState]
    <3>1. \A i \in 0..m : i # m => i \in 0..l
      BY <2>1
    <3>2. QED
      BY <2>4, <2>5, <3>1 DEF Chain
  <2>7. b[m] = v /\ b[0] = StartState
    BY <1>7, <2>1, <2>4 DEF Chain
  <2>8. ASSUME NEW i \in 1..m
        PROVE  ~AtDestination(b[i - 1]) /\ b[i] \in Successors(b[i - 1])
    <3>1. CASE i = m
      <4>1. b[i] = v /\ b[i - 1] = u
        BY <2>1, <2>4, <3>1
      <4>2. QED
        BY <2>2, <4>1
    <3>2. CASE i # m
      <4>1. i \in 1..l /\ b[i] = c[i] /\ b[i - 1] = c[i - 1]
        BY <2>1, <3>2
      <4>2. QED
        BY <2>4, <4>1 DEF Chain
    <3>3. QED
      BY <3>1, <3>2
  <2>9. Chain(b, m)
    BY <2>6, <2>7, <2>8 DEF Chain
  <2>10. QED
    BY <1>4, <2>7, <2>9
<1>8. QED
  BY <1>6, <1>7

\* Along a chain paths grow by one edge and costs do not fall.
LEMMA ChainFacts ==
    ASSUME request \in Requests, NEW d \in Nat, NEW c, Chain(c, d)
    PROVE  \A i \in 0..d : Len(c[i].path) = i /\ c[i].cost <= c[d].cost
<1>1. ASSUME NEW i \in 1..d
      PROVE  /\ c[i - 1] \in SearchState /\ c[i] \in SearchState
             /\ Len(c[i].path) = Len(c[i - 1].path) + 1
             /\ c[i - 1].cost <= c[i].cost
  <2> DEFINE s == c[i - 1]
  <2>1. s \in SearchState /\ c[i] \in SearchState /\ c[i] \in Successors(s)
    BY DEF Chain
  <2>2. PICK e \in Edges : c[i] = Extend(s, e)
    BY <2>1 DEF Successors, edges_from
  <2>3. calculate_cost(e, request.weight_kg) \in Nat
    BY EdgeType, RequestType DEF calculate_cost
  <2>4. s.path \in Seq(Edges) /\ s.cost \in Nat
    BY <2>1 DEF SearchState
  <2> HIDE DEF s
  <2>5. /\ c[i].path = Append(s.path, e)
        /\ c[i].cost = s.cost + calculate_cost(e, request.weight_kg)
    BY <2>2 DEF Extend
  <2>6. QED
    BY <2>1, <2>3, <2>4, <2>5, AppendProperties DEF s
<1>2. \A i \in 0..d : c[i] \in SearchState
  BY DEF Chain
<1>3. ASSUME NEW j \in 0..d
      PROVE  Len(c[j].path) = j
  <2> DEFINE T == {i \in 0..d : Len(c[i].path) # i}
  <2>1. SUFFICES ASSUME T # {}
                 PROVE  FALSE
    OBVIOUS
  <2>2. PICK m \in T : \A i \in T : m <= i
    <3>1. T \subseteq Nat
      OBVIOUS
    <3> HIDE DEF T
    <3>2. QED
      BY <2>1, <3>1, LeastNat
  <2>3. CASE m = 0
    BY <2>3 DEF Chain, StartState
  <2>4. CASE m # 0
    <3>1. m \in 1..d /\ m - 1 \in 0..d /\ m - 1 < m
      BY <2>4
    <3>2. Len(c[m - 1].path) = m - 1
      BY <2>2, <3>1
    <3>3. QED
      BY <1>1, <3>1, <3>2
  <2>5. QED
    BY <2>3, <2>4
<1>4. ASSUME NEW j \in 0..d
      PROVE  c[j].cost <= c[d].cost
  <2> DEFINE T == {i \in 0..d : ~(c[d - i].cost <= c[d].cost)}
  <2>1. SUFFICES ASSUME T # {}
                 PROVE  FALSE
    <3>1. d - j \in 0..d /\ d - (d - j) = j
      OBVIOUS
    <3>2. QED
      BY <3>1
  <2>2. PICK m \in T : \A i \in T : m <= i
    <3>1. T \subseteq Nat
      OBVIOUS
    <3> HIDE DEF T
    <3>2. QED
      BY <2>1, <3>1, LeastNat
  <2>3. c[d].cost \in Nat
    BY <1>2 DEF SearchState
  <2>4. m # 0
    BY <2>2, <2>3
  <2> DEFINE x == d - m
             l == m - 1
  <2>5. /\ x \in 0..d /\ x + 1 \in 1..d /\ l \in 0..d /\ l < m
        /\ d - l = x + 1 /\ (x + 1) - 1 = x
    BY <2>4
  <2>6. c[x + 1].cost <= c[d].cost
    BY <2>2, <2>5
  <2>7. ~(c[x].cost <= c[d].cost)
    OBVIOUS
  <2> HIDE DEF x, l, T
  <2>8. c[x].cost <= c[x + 1].cost
    BY <1>1, <2>5
  <2>9. c[x].cost \in Nat /\ c[x + 1].cost \in Nat
    BY <1>1, <2>5 DEF SearchState
  <2>10. QED
    BY <2>3, <2>6, <2>7, <2>8, <2>9
<1>5. QED
  BY <1>3, <1>4

-------------------------------------------------------------------------------
\* An entry is a walk of as many edges as its path has.
InLayers == \A s \in heap \cup Found : s \in Layers[Len(s.path)]

\* While the cap has refused nothing, every walk to the destination has been
\* returned or is the continuation of an entry that is pending.
Cover ==
    ~Capped =>
        \A d \in 0..request.max_segments : \A c \in [0..d -> SearchState] :
            Chain(c, d) /\ AtDestination(c[d]) =>
                (\E i \in 0..d : c[i] \in heap) \/ c[d] \in Found

\* The loop ends when the heap is empty or the k-th path is found.
Ending == status = "done" => heap = {} \/ Len(paths) >= k

TopKInv == InLayers /\ Cover /\ Ending

\* The enumeration belongs to the call: it changes only with the request.
LEMMA SameWalks ==
    ASSUME request' = request
    PROVE  /\ Layers' = Layers
           /\ \A c, d : Chain(c, d)' <=> Chain(c, d)
           /\ \A s : AtDestination(s)' <=> AtDestination(s)
<1>1. /\ StartState' = StartState
      /\ \A s : Successors(s)' = Successors(s)
      /\ \A s : AtDestination(s)' <=> AtDestination(s)
  BY DEF StartState, Successors, Extend, Admissible, AtDestination
<1>2. \A f, n : LayersUpTo(f, n)' <=> LayersUpTo(f, n)
  BY <1>1 DEF LayersUpTo
<1>3. Layers' = Layers
  BY <1>2 DEF Layers
<1>4. \A c, d : Chain(c, d)' <=> Chain(c, d)
  BY <1>1 DEF Chain
<1>5. QED
  BY <1>1, <1>3, <1>4

\* What Expand pushes is in the next layer.
LEMMA InLayersStep ==
    ASSUME IInv, InLayers, [Next]_vars
    PROVE  InLayers'
<1>1. request' = request /\ request \in Requests
  BY StepEntries DEF IInv, TypeOK
<1>2. ASSUME NEW t \in (heap \cup Found)', t \notin heap \cup Found
      PROVE  t \in Layers[Len(t.path)]
  <2>1. PICK s \in heap, e \in Edges : t = Extend(s, e) /\ Expand(s) /\ t \in Successors(s)
    BY <1>2, StepEntries
  <2>2. s \in SearchState /\ s \in Layers[Len(s.path)]
    BY DEF IInv, TypeOK, InLayers
  <2>3. ~AtDestination(s) /\ Len(s.path) < request.max_segments
    <3>1. Len(s.path) \in Nat /\ request.max_segments \in Nat
      BY <1>1, <2>2, RequestType, LenProperties DEF SearchState
    <3>2. QED
      BY <2>1, <3>1 DEF Expand, AtDepthLimit
  <2> DEFINE d == Len(s.path) + 1
  <2>4. /\ d \in 1..request.max_segments /\ d - 1 = Len(s.path)
        /\ Len(t.path) = d
    <3>1. s.path \in Seq(Edges) /\ t.path = Append(s.path, e)
      BY <2>1, <2>2 DEF SearchState, Extend
    <3>2. Len(s.path) \in Nat /\ request.max_segments \in Nat /\ Len(t.path) = Len(s.path) + 1
      BY <1>1, <3>1, RequestType, LenProperties, AppendProperties
    <3>3. QED
      BY <2>3, <3>2
  <2> HIDE DEF d
  <2>5. s \in {u \in Layers[d - 1] : ~AtDestination(u)}
    BY <2>2, <2>3, <2>4
  <2>6. t \in UNION {Successors(u) : u \in {v \in Layers[d - 1] : ~AtDestination(v)}}
    BY <2>1, <2>5
  <2>7. QED
    BY <1>1, <2>4, <2>6, LayersFacts
<1>3. ASSUME NEW t \in (heap \cup Found)'
      PROVE  t \in Layers'[Len(t.path)]
  BY <1>1, <1>2, SameWalks DEF InLayers
<1>4. QED
  BY <1>3 DEF InLayers

\* Visits are only added.
LEMMA CappedStays ==
    ASSUME IInv, [Next]_vars, Capped
    PROVE  Capped'
<1>1. PICK n \in Nodes : visited_counts[n] > k
  BY DEF Capped
<1>2. visited_counts \in [Nodes -> Nat] /\ k \in Nat
  BY RequestType DEF IInv, TypeOK
<1>3. k' = k
  BY StepEntries, SameK
<1>4. visited_counts'[n] >= visited_counts[n]
  <2>1. ASSUME NEW s \in heap, Pop(s)
        PROVE  visited_counts'[n] >= visited_counts[n]
    <3>1. s.node \in Nodes
      BY DEF IInv, TypeOK, SearchState
    <3>2. QED
      BY <1>2, <2>1, <3>1 DEF Pop
  <2>2. CASE visited_counts' = visited_counts
    BY <1>2, <2>2
  <2>3. QED
    BY <2>1, <2>2 DEF Next, SkipVisited, EmitPath, SkipDeep, Expand, Exhausted, vars
<1>5. visited_counts'[n] > k'
  <2>1. visited_counts'[n] \in Nat
    <3>1. IInv'
      BY NextIInv
    <3>2. QED
      BY <3>1 DEF IInv, TypeOK
  <2>2. QED
    BY <1>1, <1>2, <1>3, <1>4, <2>1
<1>6. QED
  BY <1>5 DEF Capped

\* Popping an entry of a chain returns its end or pushes its next entry,
\* unless the cap refuses it.
LEMMA CoverStep ==
    ASSUME IInv, Cover, [Next]_vars
    PROVE  Cover'
<1>1. request' = request /\ request \in Requests /\ request.max_segments \in Nat
  BY StepEntries, RequestType DEF IInv, TypeOK
<1>2. SUFFICES ASSUME ~Capped',
                      NEW d \in 0..request.max_segments, NEW c \in [0..d -> SearchState],
                      Chain(c, d), AtDestination(c[d])
               PROVE  (\E i \in 0..d : c[i] \in heap') \/ c[d] \in Found'
  BY <1>1, SameWalks DEF Cover
<1>3. (\E i \in 0..d : c[i] \in heap) \/ c[d] \in Found
  BY <1>2, CappedStays DEF Cover
<1>4. paths \in Seq(SearchState) /\ d \in Nat
  BY <1>1 DEF IInv, TypeOK
<1>5. Found \subseteq Found'
  <2>1. paths' = paths \/ \E s \in heap : s \in SearchState /\ paths' = Append(paths, s)
    BY DEF Next, SkipVisited, EmitPath, SkipDeep, Expand, Exhausted, vars, IInv, TypeOK
  <2>2. CASE paths' = paths
    BY <2>2 DEF Found
  <2>3. ASSUME NEW s \in SearchState, paths' = Append(paths, s)
        PROVE  Found \subseteq Found'
    <3>1. /\ Len(paths') = Len(paths) + 1 /\ Len(paths) \in Nat
          /\ \A i \in 1..Len(paths) : paths'[i] = paths[i]
      BY <1>4, <2>3, AppendProperties, LenProperties
    <3>2. QED
      BY <3>1 DEF Found
  <2>4. QED
    BY <2>1, <2>2, <2>3
<1>6. ASSUME NEW i \in 0..d, c[i] \in heap, Pop(c[i]),
             \/ SkipVisited(c[i]) \/ EmitPath(c[i])
             \/ SkipDeep(c[i]) \/ Expand(c[i])
      PROVE  (\E j \in 0..d : c[j] \in heap') \/ c[d] \in Found'
  <2> DEFINE s == c[i]
  <2>1. s \in SearchState /\ s.node \in Nodes
    BY <1>6 DEF IInv, TypeOK, SearchState
  <2>2. ~OverVisited(s)
    <3>1. visited_counts \in [Nodes -> Nat] /\ k' = k
      BY <1>1, SameK DEF IInv, TypeOK
    <3>2. visited_counts'[s.node] = visited_counts[s.node] + 1
      BY <1>6, <2>1, <3>1 DEF Pop
    <3>3. QED
      BY <1>2, <2>1, <3>1, <3>2 DEF OverVisited, Capped
  <2>3. Len(s.path) = i
    BY <1>1, <1>2, <1>4, ChainFacts
  <2>4. i # d => i + 1 \in 1..d /\ (i + 1) - 1 = i
    BY <1>4
  <2>5. CASE EmitPath(s)
    <3>1. AtDestination(s)
      BY <2>5 DEF EmitPath
    <3>2. i = d
      BY <1>2, <2>4, <3>1 DEF Chain
    <3>3. paths' = Append(paths, s)
      BY <2>5 DEF EmitPath
    <3>4. Len(paths') = Len(paths) + 1 /\ paths'[Len(paths) + 1] = s /\ Len(paths) \in Nat
      BY <1>4, <2>1, <3>3, AppendProperties, LenProperties
    <3>5. s \in Found'
      BY <3>4 DEF Found
    <3>6. QED
      BY <3>2, <3>5
  <2>6. CASE SkipDeep(s) \/ Expand(s)
    <3>1. ~AtDestination(s)
      BY <2>6 DEF SkipDeep, Expand
    <3>2. i # d
      BY <1>2, <3>1
    <3>3. ~AtDepthLimit(s)
      BY <1>1, <1>4, <2>3, <2>4, <3>2 DEF AtDepthLimit
    <3>4. Expand(s)
      BY <2>6, <3>3 DEF SkipDeep
    <3>5. c[i + 1] \in Successors(s)
      BY <1>2, <2>4, <3>2 DEF Chain
    <3>6. c[i + 1] \in heap' /\ i + 1 \in 0..d
      BY <1>4, <2>4, <3>2, <3>4, <3>5 DEF Expand
    <3>7. QED
      BY <3>6
  <2>7. QED
    BY <1>6, <2>2, <2>5, <2>6 DEF SkipVisited
<1>7. ASSUME NEW i \in 0..d, c[i] \in heap
      PROVE  (\E j \in 0..d : c[j] \in heap') \/ c[d] \in Found'
  <2>1. CASE c[i] \in heap'
    BY <2>1
  <2>2. CASE c[i] \notin heap'
    <3>1. \/ SkipVisited(c[i]) \/ EmitPath(c[i])
          \/ SkipDeep(c[i]) \/ Expand(c[i])
      BY <1>7, <2>2 DEF Next, SkipVisited, EmitPath, SkipDeep, Expand, Exhausted, vars
    <3>2. Pop(c[i])
      BY <3>1 DEF SkipVisited, EmitPath, SkipDeep, Expand
    <3>3. QED
      BY <1>6, <1>7, <3>1, <3>2
  <2>3. QED
    BY <2>1, <2>2
<1>8. QED
  BY <1>3, <1>5, <1>7

\* Only the k-th path and an empty heap end the loop.
LEMMA EndingStep ==
    ASSUME IInv, Ending, [Next]_vars
    PROVE  Ending'
<1>1. k' = k
  BY StepEntries, SameK
<1>2. ASSUME NEW s \in heap, SkipVisited(s) \/ EmitPath(s) \/ SkipDeep(s) \/ Expand(s)
      PROVE  Ending'
  BY <1>1, <1>2 DEF SkipVisited, EmitPath, SkipDeep, Expand, Pop, Ending
<1>3. CASE Exhausted \/ UNCHANGED vars
  BY <1>1, <1>3 DEF Exhausted, vars, Ending
<1>4. QED
  BY <1>2, <1>3 DEF Next

\* The search starts with the walk of no edge.
LEMMA TopKInit == Init => TopKInv
<1> SUFFICES ASSUME Init
             PROVE  TopKInv
  OBVIOUS
<1>1. heap = {StartState} /\ Found = {} /\ request \in Requests /\ status = "searching"
  BY DEF Init, Found
<1>2. InLayers
  <2>1. Len(StartState.path) = 0
    BY DEF StartState
  <2>2. QED
    BY <1>1, <2>1, LayersFacts DEF InLayers
<1>3. Cover
  <2>1. ASSUME NEW d \in 0..request.max_segments, NEW c, Chain(c, d)
        PROVE  \E i \in 0..d : c[i] \in heap
    <3>1. 0 \in 0..d
      BY <1>1, RequestType
    <3>2. QED
      BY <1>1, <2>1, <3>1 DEF Chain
  <2>2. QED
    BY <2>1 DEF Cover
<1>4. Ending
  BY <1>1 DEF Ending
<1>5. QED
  BY <1>2, <1>3, <1>4 DEF TopKInv

\* At the end, a walk that was not returned continues an entry that costs no
\* less than any path returned.
LEMMA TopKHolds == IInv /\ TopKInv => TopK
<1> SUFFICES ASSUME IInv, TopKInv, status = "done", ~Capped
             PROVE  /\ Found \subseteq SearchWalks
                    /\ \A w \in SearchWalks \ Found :
                          Len(paths) = k /\ \A p \in Found : p.cost <= w.cost
  BY DEF TopK
<1>1. request \in Requests /\ request.max_segments \in Nat /\ k \in Nat
  BY RequestType DEF IInv, TypeOK
<1>2. ASSUME NEW s \in Found
      PROVE  s \in SearchWalks
  <2>1. AtDestination(s) /\ Len(s.path) <= request.max_segments
    BY DEF IInv, PathsAdmissible, WellFormed
  <2>2. s \in SearchState /\ s \in Layers[Len(s.path)]
    BY DEF IInv, TypeOK, Found, TopKInv, InLayers
  <2>3. Len(s.path) \in Nat
    BY <2>2, LenProperties DEF SearchState
  <2>4. Len(s.path) \in 0..request.max_segments
    BY <1>1, <2>1, <2>3
  <2>5. QED
    BY <1>1, <2>1, <2>2, <2>4, LayersFacts
<1>3. ASSUME NEW w \in SearchWalks, w \notin Found
      PROVE  Len(paths) = k /\ \A p \in Found : p.cost <= w.cost
  <2>1. AtDestination(w) /\ \E d \in 0..request.max_segments : w \in Layers[d]
    BY <1>1, LayersFacts
  <2>2. PICK d \in 0..request.max_segments : w \in Layers[d]
    BY <2>1
  <2>3. PICK c : Chain(c, d) /\ c[d] = w
    BY <1>1, <2>2, LayerChains
  <2>4. c \in [0..d -> SearchState] /\ d \in Nat
    BY <1>1, <2>3 DEF Chain
  <2>5. PICK i \in 0..d : c[i] \in heap
    BY <1>3, <2>1, <2>3, <2>4 DEF TopKInv, Cover
  <2>6. Len(paths) = k
    <3>1. Len(paths) >= k /\ Len(paths) <= k
      BY <2>5 DEF TopKInv, Ending, IInv, NoWalkTwice
    <3>2. Len(paths) \in Nat
      BY LenProperties DEF IInv, TypeOK
    <3>3. QED
      BY <1>1, <3>1, <3>2
  <2>7. ASSUME NEW p \in Found
        PROVE  p.cost <= w.cost
    <3>1. p.cost <= c[i].cost
      BY <2>5 DEF IInv, CheapestFirst, Found
    <3>2. c[i].cost <= c[d].cost
      BY <1>1, <2>3, <2>4, ChainFacts
    <3>3. p.cost \in Nat /\ c[i].cost \in Nat /\ c[d].cost \in Nat
      <4>1. p \in SearchState /\ c[i] \in SearchState /\ c[d] \in SearchState
        BY <2>4 DEF IInv, TypeOK, Found
      <4>2. QED
        BY <4>1 DEF SearchState
    <3>4. QED
      BY <2>3, <3>1, <3>2, <3>3
  <2>8. QED
    BY <2>6, <2>7
<1>4. QED
  BY <1>2, <1>3

(***************************************************************************)
(* k-shortest: when the visit cap refused nothing, the result is a set of  *)
(* k cheapest walks, or every walk when there are fewer than k.            *)
(***************************************************************************)
THEOREM SearchTopK == Spec => []TopK
<1>1. IInv /\ TopKInv /\ [Next]_vars => TopKInv'
  BY InLayersStep, CoverStep, EndingStep DEF TopKInv
<1>2. QED
  BY <1>1, TopKInit, TopKHolds, SearchInvariant, PTL DEF Spec
================================================================================
