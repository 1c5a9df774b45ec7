# A TLA+ model of VEDS

VEDS (Voyage Enterprise Decision System) plans multimodal freight routes: a Rust
service searches a transport network for routes and ranks them, a Deno API keeps
shipments and routes in SurrealDB, a Julia dashboard shows them. This directory
models the parts that hold state or decide something, checks them with TLC on small
instances and proves the main invariants with TLAPS for all instances.

Paths below are relative to the repository; `main.ts` is `src/deno-api/src/main.ts`,
and `optimizer/mod.rs`, `main.rs` and so on are under `src/rust-routing/src/`.

## The system

| part | state | operations | module |
|---|---|---|---|
| route search, `find_k_shortest_paths` | heap, visit counts, paths found | one loop per request | `RouteSearch` |
| route ranking, the rest of `optimize` | routes, domination counts, ranks | filter, rank, score, sort, truncate | `RouteRanking` |
| one call, `main.rs`, `grpc/` | request, routes, answer | optimize over HTTP and gRPC, `evaluate_constraints` | `Optimizer`, which implements `OptimizeCall` |
| graph service, `main.rs`, `db/`, `grpc/` | the graph behind a `tokio::sync::RwLock` | startup load, periodic reload, reload requests, optimize and status requests | `GraphService`, which implements `GraphStore` |
| shipment API, `main.ts` | records in SurrealDB | create, optimize, select; each several statements | `ShipmentApi` |
| constraint engine, `constraints/mod.rs` | cache of sanctions and wages (always empty in use) | `evaluate_route` | `ConstraintEngine` |
| constraint DSL, `Constraint.res` | none | evaluate a list of constraints on a route | `ConstraintDSL` |
| process startup and health, both `main` functions | how far each process is, `connected` flags | connect, load, bind, serve, health, calls of the optimizer | `Startup` |
| tracker, ReScript handlers, charts, maps, schemas, seeds | none, or sample data | | not modelled |

How they interact. A client posts to the Deno API; `handleOptimizeRoutes` reads the
shipment, calls the optimizer over HTTP, stores the routes it gets and marks the
shipment planned. In the optimizer a handler takes the read lock on the graph, runs
search and ranking without an await, and answers. Loads read nodes and edges from
SurrealDB and replace the graph under the write lock. The database is shared by all of
them; nothing uses a transaction. The API and the optimizer otherwise share nothing.

At this commit the two sides disagree on the names of the request fields (camelCase in
`main.ts:189`, snake_case in `HttpOptimizeRequest`, `main.rs:198`), so the optimizer refuses
the API's requests with 422. The run `optimizer` has such a call among its calls
(`DenoBody`): it is refused as malformed, which is all `OptimizeCall` can promise it. An
answer would not be understood either, for the same reason. `ShipmentApi` lets the optimizer
answer with an error or with routes, which is what the interface declared in `main.ts`
promises.

### What is hard, and what makes each part correct

- **Search.** Paths may revisit nodes, so only the visit cap and the length limit bound
  it; two clocks time the same path with different rounding; the heap leaves ties open.
  Correct: what is returned is admissible, on time, cheapest first, without repetition,
  and complete where the cap did not interfere.
- **Ranking.** A `HashSet` is walked while the counts behind it change. Correct: ranks
  are the Pareto fronts in every order, and truncation never prefers a worse route.
- **Graph service.** Loads overlap, fail and are cancelled; a load is two queries of a
  database that changes. Correct: the lock is used properly, readers see one graph, and
  what is served is as consistent as two queries can make it, and finally fresh.
- **One call.** Two protocols with different defaults, conversions that lose fields, numbers
  that wrap, dates that are dropped silently; then two algorithms that each use part of the
  request. Correct: the answer keeps every field the client set, as the client wrote it.
- **Startup.** Two processes and three databases come up in any order, fail half-way and are
  started again. Correct: a process serves everything or ends, and only for a cause that
  warrants it; calls recover.
- **Shipment API.** Handlers interleave at every await; each statement can fail, or run
  after its caller gave up. Correct: success means what it says.
- **Constraint DSL.** Two evaluators, one for a route and one for a segment of it, share the
  expressions, and what one does not handle falls back to the other with the segment lost.
  Correct: an expression evaluates to what its constructors say.

`PROJECT.json` lists the hazards line by line with the properties that cover each.

## Modules

### TransportGraph, RouteSearch, RouteSearchClaims

`TransportGraph` has the network as constants: the graph is fixed while a handler holds
the read lock. Hours are counted in ticks so that truncation to whole hours shows.

`RouteSearch` has one step per iteration of the `while let` loop and one action per way
an iteration ends: `SkipVisited` (`*count > k`), `EmitPath`, `SkipDeep`
(`max_segments`), `Expand`, and `Exhausted` when the heap is empty. `Extend` is the code
as it is: `time_hours` is cumulative and is added to a clock that already holds the
earlier legs. Entries carry one field the code lacks, `scheduled`, the arrival that
`path_to_route` computes for the same path; `arrivals` is that clock by itself,
`route_cost` the route's total cost, and `ScheduleIsRoutes` checks that both agree with what
the search carries along. The carbon total, never read by the
search, is left out. The heap is a set: no two entries have the same path, which
`NoWalkTwice` checks.

`RouteSearchClaims` compares the result with all walks, enumerated (`TopK`), bounds the
work (`WorkBound`), and holds two claims the code does not meet (see findings).

### RouteRanking

Takes over at the candidates. A route is its position in the list of candidates; `Kept`
is what `retain` leaves. `CountDominators` is the pair of loops, `FindFront` one round of
the `while`, `RankOne(i)` one iteration of the inner loop for any route of the front (the
hash set's order), `NextFront`/`RankingEnds` its ends, `SortAndTruncate` the scores, the
stable sort and `truncate`. Scores are compared as exact rationals over a common
denominator: rounding of `f64` is not modelled. The hard checks are those of an engine
with an empty cache, the only engine the handlers create (`main.rs:349`, `grpc/mod.rs:56`).
The score loop at `optimizer/mod.rs:242` borrows the routes mutably and immutably at once;
its evident meaning is modelled.

### GraphService

Tasks are `startup`, the reload task `reloader`, the reload requests `Operators` and the
optimize and status requests `Readers`; `pc` says where each is. The lock is tokio's: first
come first served, readers together (`Compatible`, `Grant`). `QueryNodes` and `QueryEdges`
are the two queries of a load; `nv` and `ev` record which contents of the database they
saw. `dbUp` says whether queries succeed, that is, whether the database answers and its rows
deserialize (`db/mod.rs:104`, `139`). `LoadFails` is any error of a load, `Cancel` a client that disconnects, `WriteDb` and
`DbUpDown` the database and its other clients.

`GraphStore` is what requests may rely on, without locks, loads and failures: a graph that
changes only while nobody works on it, and that two queries of the database, one after the
other, could have shown. `Store` is the refinement mapping: the graph without the two version
numbers, and the readers among the holders of the lock. The property `ImplementsStore` checks
it, `ServiceImplementsStore` proves it.

### ConstraintEngine, Optimizer, OptimizeCall

`ConstraintEngine` is `evaluate_route`, its three hard and three optional checks, on a cache;
the handlers only ever make an empty one. `check_wage_constraint` looks the wage up under the
node, although the cache is keyed by country: with an empty cache this cannot show.

`Optimizer` follows one call from the fields on the wire: `HttpRequest` and `GrpcRequest` are
the two parsers, with their own defaults and `as usize`; `SearchRequest` is what the search
reads of the request. A cost limit that no `Decimal` holds becomes `Decimal::MAX` over gRPC
(`grpc/mod.rs:217`) and no limit over HTTP (`main.rs:334`); `limits` takes it as it is, and no
property depends on it, since soft limits restrict nothing. The search and the ranking are instances of `RouteSearch` and
`RouteRanking`, whose steps are the actions `SearchStep` and `RankStep`; between them
`BuildRoutes` is `path_to_route`, `evaluate_route` and `retain`: `CandidateRoute` is a route of
given segments with the totals of `recalculate_totals`, and `EvaluatedRoute` adds the results.
`UnknownNode` and `Refuse` are the early ends. `OnWire` drops what an answer does not carry, `parse_proto_route` fills it in
again, and `EvaluateConstraints` has the service evaluate a route it has offered.
`OptimizerAssumption` lets every number of a call have either sign, except the weight of the
goods: `src/db/schemas/surrealdb.surql` asserts that it is positive, and the service, which does
not check it, would price a negative weight below zero. `Sums` has the one way totals are taken,
for the routes and for `OptimizeCall`.

`OptimizeCall` states the same call from the client's side, in one step: a malformed call is
refused, any other answered with walks that start and end where asked, use permitted legs,
meet deadline and length, are distinct, and of which none is worse than a later one: in what the
call's weights count, or, where that is equal, in cost (`Better`). That holds for weights of zero as
well, which gRPC has where the client sets none: then only the cost decides. Costs, hours, carbon and labor of a walk are its own sums over the legs, and a
walk is in time by both clocks: by the schedule, which moves by whole hours and waits where the
mode changes (`Schedule`), and by the hours under way (`Transit`). It reads the call's fields as
the client wrote them, so a field the optimizer loses, swaps or counts from the wrong instant on
the way shows. The mapping (`ToldWalks`) gives it, for each offer, the path the offer was built
from, provided the route in the answer tells that walk (`Tells`): the nodes, modes, carriers,
hours, costs and carbon of its legs, in order. An offer that tells anything else is mapped to the
empty walk, which `OptimizeCall` refuses. Nodes are read along `to_node`: `from_node` of a later
leg is a carrier code in this code (`optimizer/mod.rs:406`) and of no use. What a client might
expect and does not get is written there too: numbers below zero bound nothing, unset gRPC
numbers are zero, a deadline that cannot be read is the standard one, modes that do not exist
are ignored, and soft limits restrict nothing.

Times are ticks from the instant of the call; the two readings of the clock in the parsers are
one instant. `max_routes * 3` of a wrapped number wraps again, to a number as large: the model
has it unbounded, as a release build does (a debug build panics).

### Startup

`optimizer` and `api` say how far each `main` function is. The optimizer is the release build its
`Dockerfile` makes, where a panic of any task aborts the process (`Cargo.toml:78`).
`StartOptimizer` reads the environment (`config`) and ends if something is missing or unreadable;
`ConnectRedis` needs Dragonfly, `LoadGraph` nothing. Then three things happen in any order:
`StartReloader` (whose timer panics on an interval of zero), `BindHttp` (a task of its own, whose
`unwrap` panics when the port is taken) and `BindGrpc` (whose error ends `main`). `Connect` is one of the four connects of the API in
their one `try` block, which sets the `connected` flag that `/health` reports. `CallOptimizer` and
`Reply` are a request at the optimizer. Databases come and go, other processes take and free
ports, the operator may change the environment of an optimizer that is down (`Reconfigure`), and
either process may crash at any point and be started again, or not. What the optimizer does
once it serves is `GraphService`.

### ShipmentApi

One action per statement. `CreateArrives`/`CreateShipment`;
`OptimizeArrives`/`LookUp`/`AwaitOptimizer`/`StoreRoute`/`PlanShipment`;
`SelectArrives`/`DeselectAll`/`SelectChosen`/`PlanShipment`. `CallFails` is the `catch` of a
handler. `LoseAnswer` makes a handler fail while its statement is still to run: the
statement applies later, or never. A crash of the API process is the loss of every answer
at once, and a retry is another request. Ids are random, so a new one is in no record and
in no request. `status = 'accepted'` and `selected = true` are always written together and are
one field. That a statement on a missing record is rejected comes from the assertions in
`src/db/schemas/surrealdb.surql`. `raced` is history: the selects that overlapped another.

### ConstraintDSL

`Evaluate` and `EvaluateWithSegment` are the functions `evaluate` and `evaluateWithSegment`,
case by case, on the whole route (`at = 0`) or with the context's route cut down to one segment
(`ContextRoute`, `Segments`); each takes the verdicts on the parts of the expression, and
`Verdicts` is the recursion that ties them together. The expressions are those that the constant
`Depth` gives a depth: a set closed under parts (`ConstraintAssumption`), that is, any set of
finite trees. The templates are operators that build constraints; `EvaluateConstraint` is one step
of `evaluateConstraints`. `Meanings` is the reference: one definition (`Holding`) for routes and
segments, from the comments on the constructors. `Plain` delimits the expressions on which both
agree, which `VerdictsMean` checks. Outside it the code differs: at a segment, `Between` and `Exists` of segment and
carrier fields are false, `InSet` of route and carrier fields is false and `NotInSet` true,
`segmentCount` is 1, and a nested quantifier ranges over the one segment. Of the templates
all are plain. Strings are their places in the order of strings, floats whole numbers, and
averages are compared without dividing; the rounding of `float` is not modelled. Nothing in
the repository calls the evaluator yet: `evaluateConstraintsHandler` (`Handlers.res:314`)
answers with a constant.

## Runs

| run | module | states | shows |
|---|---|---|---|
| `search` | `MCRouteSearch` | 45,100 | the nine properties of the search |
| `search_cap` | `MCRouteSearch` | violation | the visit cap loses a feasible walk |
| `search_window` | `MCRouteSearch` | violation | the search's clock refuses a walk that is in time |
| `ranking` | `MCRouteRanking` | 63,318 | ranks, counts and truncation in every order |
| `graph_service` | `MCGraphService` | 198,672 | the lock, freshness, and that the readers see a `GraphStore` |
| `optimizer` | `MCOptimizer` | 10,058 | every call keeps the promises of `OptimizeCall`; offers and evaluations agree |
| `startup` | `MCStartup` | 32,016 | what serves, why it ends, what health says, whether calls recover |
| `api` | `MCShipmentApi` | 924,779 | what success guarantees under interleaving and failure |
| `api_race` | `MCShipmentApi` | violation | two selects leave two routes selected |
| `api_foreign` | `MCShipmentApi` | violation | a route of another shipment is selected |
| `constraints` | `MCConstraintDSL` | 160,407 | the evaluators against one meaning, the templates |
| `constraints_carriers` | `MCConstraintDSL` | violation | a list of carriers to avoid refuses none |

Bounds, and why they suffice.

- `search`: 4 nodes, 11 edges with every reason to be filtered, parallel edges and a cycle;
  1,200 requests with `max_routes` 0 to 2 (k = 0, 3, 6), `max_segments` 0 to 4, windows from
  closed to ample, and half hours so that truncation bites. Every action fires, the cap
  refuses entries in some requests and none in others.
- `ranking`: no candidate, three of eleven kinds, or four of five: equal routes, chains of
  three fronts, routes failing each hard check; weights as the HTTP defaults, one weight
  only, and all zero (a gRPC request that sets none).
- `graph_service`: two nodes, one edge, one reload request, two readers, one write by
  others (`MaxWrites`). Two loaders suffice for one to overtake the other, two readers for
  readers to share the lock while a writer waits between them.
- `optimizer`: 300 calls. Over each protocol 18 settings (weights, limits of zero, negative
  limits, modes that exist or not, carriers, soft limits, weights of the goods) times 8 windows
  (deadline in the past, tight, ample, unset; pickups late and early), and calls that lack
  fields or name an unknown node; a network of seven edges with walks that trade cost, time and
  labor, one sanctioned, one below the wage (by one cent), one at it, one longer than the
  standard window. That window is 15 hours in place of 720 (`DefaultHours`), 2^64 is 1,000
  (`UsizeLimit`), and labor scores are over a common multiple of the numbers of legs (`LegScale`,
  2, since walks have at most two legs; longer ones are in `search`).
- `startup`: two requests, both processes, all databases, ports and kinds of environment.
- `api`: three requests, two shipments, three routes, at most two routes per answer
  (`MaxRoutes`). Two requests overlap and a third comes before or after; permutations of
  requests, shipments and routes are symmetric and no property is temporal.

- `constraints`: comparisons, sets, ranges and totals over twelve fields (present and absent,
  of routes, segments, carriers and shipments) and five types of value, combined up to
  quantifiers in quantifiers; routes of none to two of three legs; every pair of templates.
  Each case of the evaluators meets a field it has and one it lacks.

Five runs stop by design, when the call has returned or all requests were answered, and
say `CHECK_DEADLOCK FALSE`. `graph_service` and `startup` are checked for deadlock.

Fairness. `RouteSearch` and `RouteRanking` are one thread that never blocks: weak fairness
of `Next`. In `GraphService` tasks that can run are run by tokio, the interval ticks, and a
database that is up answers; nothing is assumed of requests, writes, failures and
disconnections. A query that hangs for ever, against which the code has no timeout, is
thereby excluded; an error of a query is not, but `EventuallyFresh` assumes that there are none
from some moment on (`<>[]dbUp`), neither for want of the database nor for a row that does not
deserialize. `Optimizer` has weak fairness of `Serve`, the handler that runs without an await
once it has the lock; clients ask for evaluations as they like. In `Startup` a process that runs
goes on and a fetch comes back, if only with an error; nothing is assumed of starts, restarts,
crashes, databases, ports and environments, so `CallsRecover` says what happens if the optimizer stays
reachable, and not that it does. `ShipmentApi` and `ConstraintDSL` state safety only.

## Findings

- `search_cap` (`optimizer/mod.rs:294`): entries at the length limit use up a node's visits,
  so that a request with a feasible walk gets no route.
- `search_window` (`optimizer/mod.rs:353`): elapsed time is added again with every leg and a
  transfer is charged within one mode: routes that deliver in time are refused. The error is
  on one side only: `ScheduledInWindow` proves that what is returned is in time.
- `api_race` (`main.ts:585`): two requests deselect, then both select.
- `api_foreign` (`main.ts:591`): the route is not checked to be the shipment's.
- `constraints_carriers` (`Constraint.res:512`): sets are tested of segment fields only, so that
  `notInSet(carrierField("code"), ...)` lets every carrier through. The template
  `noSanctionedCarriers` uses the segment's field and is not affected.

## Proofs

Each invariant is proved from an inductive one: `Spec => []IInv` (`CallInv` for `Optimizer`), and
from it each listed theorem, for every value of the constants that the module's assumption allows.
Every invariant and every action property of the runs is proved.

| module | proves about | rests on |
|---|---|---|
| `RouteSearchProofs` | `RouteSearch`, `RouteSearchClaims` | `SumProofs` |
| `RouteRankingProofs` | `RouteRanking` | |
| `OptimizerProofs` | `Optimizer`, that it implements `OptimizeCall` | the two above, `SumProofs` |
| `GraphServiceProofs` | `GraphService`, that it implements `GraphStore` | |
| `ShipmentApiProofs` | `ShipmentApi` | |
| `Startup`, at its end | `Startup` | |
| `ConstraintDSLProofs` | `ConstraintDSL` | `SumProofs` |
| `SumProofs` | sums over finite sets, sequences and functions | |

- **Search**, from `GraphAssumption` (finitely many edges, non-negative costs and times) and
  `RequestAssumption`. `PathsAdmissible` is not inductive: what is returned was in the heap
  before, so `HeapInv` states it of every heap entry. `ScheduledInWindow` needs
  `scheduled <= current_time` for each entry: the search's clock is never ahead of the
  route's, because truncating a sum loses no more than truncating its parts. `CheapestFirst`
  rests on costs being non-negative; `NoWalkTwice` on popping the entry one extends.
  `ScheduleIsRoutes` makes that schedule, and the cost the heap is ordered by, the ones
  `path_to_route` reports: both are sums over the legs, and each step of the search appends one leg. `WorkBound` counts the turns in which an edge
  can have been pushed (`Pushed`): a node is expanded at most once per visit and at most k times.
  For `TopK` a walk is a chain of entries, each pushed when the one before is expanded. `Cover`
  says that while the cap refused nothing, every chain to the destination has an entry in the
  heap or its end among the results; costs do not fall along a chain, and the loop ends with k
  paths or an empty heap (`Ending`). The converse, that results are walks, is `InLayers`.
- **Ranking**, from `RankingAssumption`. `CountsExact` says what `dominated_count` means at
  every moment. `Ranked` and `Fronts` add the state of the current front. `NoCycle` follows
  since domination is a strict order on a finite set, so some remaining route is minimal;
  hence the cycle fallback is dead code. `DominatorsFirst` is arithmetic, for all weights that are
  not negative: a route that is no worse in what is weighed has no greater score, and with an equal
  score the stable sort leaves the one found earlier first (`PrecedesSortsBefore`). `RankingProgress` counts the steps that are
  left (`StepsLeft`): at most 3n + 4 for n routes, one fewer at least with each step.
- **Sums**, with no assumption: `SumOf` is a fold, by its definition a function that is chosen and of
  which nothing is known until it is shown to exist (`SumExists`). Then a sum of integers can be taken apart at any
  element, restricted to where it is not zero (`SumSupport`), grown by one, appended to, read as a
  running total, and counts ones (`SumOnes`). What is by nature an induction on the number of
  terms is an argument by a least counterexample, the smallest number or set for which the statement fails.
- **Optimizer**, from `OptimizerAssumption` and `GraphAssumption`. The proof modules of the search
  and of the ranking are instances (`SP`, `RP`) with the request and the candidates of this call, so
  that their step lemmas are used and not repeated; what they assume is shown of the parsed request.
  `CallInv` has a part for each stage: `SearchInv` (the invariants of the search, once it runs),
  `RankInv` (those of the ranking, on exactly the routes built from the paths), `ResultInv` and
  `AnswerInv`. `OptimizerImplementsCall` maps the three ways a call can end to `Refused` and
  `Answered` and all else to stutters; its core is `WalksKeep`. Ends, permitted legs and the number
  of legs come from the search; wages and the hours under way from `HardChecks`, since the ranking
  keeps what `evaluate_route` lets pass; the schedule from `ScheduledInWindow`. Distinctness
  is `NoWalkTwice` carried through the sort, which repeats no candidate, and that no offer is worse
  than a later one is `SortKeepsDominators` together with `CheapestFirst`, by which of two routes the
  one found earlier is not the dearer; the totals of the routes are the client's sums
  (`RouteTotals`). A limit that is not negative never grows on the way, and a negative one,
  which wraps around, bounds nothing (`LimitsKept`). `OfferTells` shows that what `OnWire` sends is what `Tells`
  reads. `OfferEvaluates` follows an offer back through `parse_proto_route` and `evaluate_route`.
- **Graph service**, from `ServiceAssumption`. `StartupLock` says who holds the lock before
  the servers are up, `LoadsInv` what each load has read so far, which is what `Install` then
  puts behind the lock. `GraphStableUnderReaders` is an action property from `LockSafe`.
  `ServiceImplementsStore` is the refinement: of the actions, `Install` maps to `Replace`, which
  `LockSafe` lets happen only without readers and `LoadsInv` only with a `View` of the history
  (`SteadyIsView`); taking the lock, responding and granting it map to `Begin` and `End`, and all
  else, cancellation and failure included, to stutters or writes of others.
- **Startup**, with no assumption. `HealthOfStart` is not inductive: `ConnectsInOrder` says what is
  connected while the API still connects. `StartupExits` is the safety half of `OptimizerServes`: the
  optimizer ends by itself only for its environment, for Dragonfly before its load, or for a port
  whose server is not up yet. `StartupRecovers` is the half of `CallsRecover` that needs no fairness:
  while the optimizer serves, no step of anyone fails a request that waits for it.
- **Constraint DSL**, from `ConstraintAssumption`. `Verdicts`, `Meanings` and `Plains` are recursive
  functions on expressions, that is, functions chosen to satisfy an equation, of which nothing is
  known until there is one that does. `Recursion` shows that a step which looks only at the parts of
  an expression defines a function: for each depth one exists that follows the step so far
  (`FollowerExists`), any two agree as far as both do (`FollowersAgree`). `VerdictsRecur`,
  `MeaningsRecur` and `PlainsRecur` apply it. `PlainMeansWhatItSays` then takes a shallowest
  expression for which evaluators and meaning differ: its parts agree, on the route and at each
  segment, and so does it, operator by operator (`SameOnRoute`, `SameAtSegments`); a sum over all
  segments, where other fields add zero, is the one over the legs that have the number (`TotalIs`).
  `Judged` carries this to the results, and `FullScore` to the score, a sum of zeros and ones.
  The templates are evaluated one by one. `CarrierListExcludesNothing` is the finding of
  `constraints_carriers` for every route and list.
- **Shipment API**, from `ApiAssumption`. The properties speak of finished requests, so each
  needs its counterpart for requests under way: `Offers` (an offered route is stored or still
  to be stored), `Ids` (a route still to be stored has no record and is in one answer),
  `SelectionDue` (after the last deselect a select is still to come), and `Rivals`: selects in
  progress that touch the same shipment are both in `raced`, so one that is not has the
  selection of its shipment to itself between its statements. `NeverTwo` adds that, as long as no two
  overlapped on a shipment and none named another's route, it never has two selected routes,
  wherever requests failed (`NeverTwoStays`). A select that a late statement of another overtakes
  counts as overlapping.

Only model-checked: liveness (`Termination`, `WaitersServed`, `EventuallyFresh`,
`EveryCallAnswered`, `ApiServes`, the first half of `OptimizerServes` and, of `CallsRecover`, that a
request once sent is answered), since the prover does not handle fairness. Where a loop ends because
it runs out of work, that it does is proved without fairness: `WorkBound` and `RankingProgress`.

## Not modelled

- `load_constraints_from_dragonfly`, `with_cache` and `update_cache`, which nothing calls; the
  scores of the soft constraints, which decide nothing; names, ids and texts of answers.
- Of the API: the handlers that only read, and the two that insert a position or a constraint in a
  single statement that no other handler decides by; the table of paths and handlers.
- The real-time tracker (`RealTimeTracker.jl`): its subscription to events is a placeholder, only
  its own sample data moves positions, and `docker-compose.yml` defers the dashboard to V2.
- The ReScript handlers, which answer with sample data; charts and maps; schemas and seeds beyond
  the assertions named above; deployment files.

## What could follow

When the code fills the constraint cache, `ConstraintEngine` takes it as it is, and the lookup of
wages by node becomes a property that fails. When the API speaks the optimizer's field names,
`Optimizer` can stand for the optimizer in `ShipmentApi`. When something calls the evaluator of
`ConstraintDSL`, the expressions it is given can be compared with `Plain`, the ones that mean what
they say; and once sets are tested of carriers' fields, `CarrierListExcludesNothing` must fail.
