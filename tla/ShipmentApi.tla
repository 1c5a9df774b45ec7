------------------------------- MODULE ShipmentApi -------------------------------
(***************************************************************************)
(* The handlers of the Deno API that change shipments and routes           *)
(* (deno-api main.ts): handleCreateShipment, handleOptimizeRoutes and      *)
(* handleSelectRoute.  Each is a sequence of statements sent to SurrealDB, *)
(* one HTTP call each and in no transaction; the handlers of concurrent    *)
(* requests interleave at every await.                                     *)
(*                                                                         *)
(* A statement is applied atomically or rejected.  Its answer can be lost  *)
(* while it is still to be executed: the handler then fails, the statement *)
(* runs later.  A crash of the API process is the loss of every answer.    *)
(***************************************************************************)
EXTENDS Naturals, Sequences, FiniteSets

CONSTANTS
    Requests,   \* the requests clients may send
    Shipments,  \* record ids of shipments
    Routes,     \* record ids of routes
    MaxRoutes,  \* bound: routes in one answer of the optimizer
    None

ASSUME ApiAssumption ==
    /\ MaxRoutes \in Nat
    /\ None \notin Shipments \cup Routes

VARIABLES
    shipment,  \* by id: its status, "none" if there is no record
    route,     \* by id: its record, NoRoute if there is none
    req,       \* what each request asks for
    pc,        \* the statement each request awaits
    todo,      \* the routes handleOptimizeRoutes has yet to store
    lost,      \* requests whose answer is lost: the statement is still to run
    raced      \* history: selects that overlapped another for the same routes

vars == <<shipment, route, req, pc, todo, lost, raced>>

\* status "accepted" and selected = true are always set together.
RouteRecord == [shipment : Shipments, status : {"proposed", "accepted"}]

NoRoute == [shipment |-> None, status |-> "none"]

\* offered: the routes the optimizer answered with.
NoRequest == [kind |-> "none", shipment |-> None, route |-> None, offered |-> {}]

Request ==
    [kind : {"create", "optimize", "select"}, shipment : Shipments,
     route : Routes \cup {None}, offered : SUBSET Routes]

Selected(s) == {r \in Routes : route[r].shipment = s /\ route[r].status = "accepted"}

\* Statements, and calls, a request can be waiting for.
Awaiting == {"lookup", "optimizing", "storing", "planning", "creating", "deselecting", "selecting"}

Selects(q) == req[q].kind = "select"

InProgress(q) == pc[q] \in Awaiting

\* The shipments whose selection a select request changes.
Touches(s, r) == {s, route[r].shipment} \ {None}

\* Ids are random: a new one is in no record and in no request.
FreshShipments ==
    {s \in Shipments : shipment[s] = "none" /\ \A q \in Requests : req[q].shipment # s}

FreshRoutes ==
    {r \in Routes : /\ route[r] = NoRoute
                    /\ \A q \in Requests : req[q].route # r /\ r \notin req[q].offered}

\* Clients name a record that exists, or an id that never will.
NamedShipments == FreshShipments \cup {s \in Shipments : shipment[s] # "none"}

NamedRoutes == FreshRoutes \cup {r \in Routes : route[r] # NoRoute}

-------------------------------------------------------------------------------
\* The API starts on a database that may hold shipments and proposed routes.
Init ==
    /\ shipment \in [Shipments -> {"none", "pending"}]
    /\ route \in [Routes -> {NoRoute}
                            \cup [shipment : {s \in Shipments : shipment[s] # "none"},
                                  status : {"proposed"}]]
    /\ req = [q \in Requests |-> NoRequest]
    /\ pc = [q \in Requests |-> "idle"]
    /\ todo = [q \in Requests |-> <<>>]
    /\ lost = {}
    /\ raced = {}

\* The handler goes on to its next await, unless its answer was lost.
Continue(q, next) == pc' = [pc EXCEPT ![q] = IF q \in lost THEN "failed" ELSE next]

(***************************************************************************)
(* handleCreateShipment, past validation of the body.                      *)
(***************************************************************************)
CreateArrives(q) ==
    /\ pc[q] = "idle"
    /\ \E s \in FreshShipments :
          req' = [req EXCEPT ![q] = [NoRequest EXCEPT !.kind = "create", !.shipment = s]]
    /\ pc' = [pc EXCEPT ![q] = "creating"]
    /\ UNCHANGED <<shipment, route, todo, lost, raced>>

CreateShipment(q) ==
    /\ pc[q] = "creating"
    /\ shipment' = [shipment EXCEPT ![req[q].shipment] = "pending"]
    /\ Continue(q, "done")
    /\ UNCHANGED <<route, req, todo, lost, raced>>

(***************************************************************************)
(* handleOptimizeRoutes.  The shipment is looked up only if the body does  *)
(* not name both ports.                                                    *)
(***************************************************************************)
OptimizeArrives(q) ==
    /\ pc[q] = "idle"
    /\ \E s \in NamedShipments :
          req' = [req EXCEPT ![q] = [NoRequest EXCEPT !.kind = "optimize", !.shipment = s]]
    /\ \E first \in {"lookup", "optimizing"} : pc' = [pc EXCEPT ![q] = first]
    /\ UNCHANGED <<shipment, route, todo, lost, raced>>

\* Without a record a port is '', for which the optimizer has no route.
LookUp(q) ==
    /\ pc[q] = "lookup"
    /\ Continue(q, IF shipment[req[q].shipment] = "none" THEN "done" ELSE "optimizing")
    /\ UNCHANGED <<shipment, route, req, todo, lost, raced>>

MutAwaitOptimizer(q) ==
    /\ pc[q] = "optimizing" /\ q \notin lost
    /\ \E n \in 0..MaxRoutes : \E rs \in [1..n -> FreshRoutes] :
          /\ \A i \in 1..n : \A j \in 1..n : i # j => rs[i] # rs[j]
          /\ req' = [req EXCEPT ![q].offered = {rs[i] : i \in 1..n}]
          /\ todo' = [todo EXCEPT ![q] = rs]
          /\ pc' = [pc EXCEPT ![q] = IF n = 0 THEN "planning" ELSE "storing"]
    /\ UNCHANGED <<shipment, route, lost, raced>>

\* The optimizer answers with routes under new ids.  An error of its own is
\* passed on as an answer without routes.
AwaitOptimizer(q) ==
    /\ pc[q] = "optimizing" /\ q \notin lost
    /\ \E n \in 0..MaxRoutes : \E rs \in [1..n -> FreshRoutes] :
          /\ \A i \in 1..n : \A j \in 1..n : i # j => rs[i] # rs[j]
          /\ req' = [req EXCEPT ![q].offered = {rs[i] : i \in 1..n}]
          /\ todo' = [todo EXCEPT ![q] = rs]
          /\ pc' = [pc EXCEPT ![q] = IF n = 0 THEN "done" ELSE "storing"]
    /\ UNCHANGED <<shipment, route, lost, raced>>

MutStoreRoute(q) ==
    /\ pc[q] = "storing" /\ todo[q] # <<>>
    /\ route' = [route EXCEPT ![Head(todo[q])] =
                   [shipment |-> req[q].shipment, status |-> "proposed"]]
    /\ todo' = [todo EXCEPT ![q] = Tail(@)]
    /\ Continue(q, "storing")
    /\ UNCHANGED <<shipment, req, lost, raced>>

\* One CREATE route; the link to its shipment is not checked.
StoreRoute(q) ==
    /\ pc[q] = "storing"
    /\ route' = [route EXCEPT ![Head(todo[q])] =
                   [shipment |-> req[q].shipment, status |-> "proposed"]]
    /\ todo' = [todo EXCEPT ![q] = Tail(@)]
    /\ Continue(q, IF Len(todo[q]) = 1 THEN "planning" ELSE "storing")
    /\ UNCHANGED <<shipment, req, lost, raced>>

\* UPDATE shipment:.. SET status = 'planned', the last statement of two
\* handlers.  On an id without a record the table's assertions reject it.
PlanShipment(q) ==
    /\ pc[q] = "planning"
    /\ shipment[req[q].shipment] # "none"
    /\ shipment' = [shipment EXCEPT ![req[q].shipment] = "planned"]
    /\ Continue(q, "done")
    /\ UNCHANGED <<route, req, todo, lost, raced>>

(***************************************************************************)
(* handleSelectRoute.  Nothing checks that the route is the shipment's.    *)
(***************************************************************************)
SelectArrives(q) ==
    /\ pc[q] = "idle"
    /\ \E s \in NamedShipments : \E r \in NamedRoutes :
          LET rivals == {p \in Requests : /\ Selects(p) /\ InProgress(p)
                                          /\ Touches(s, r) \cap
                                             Touches(req[p].shipment, req[p].route) # {}}
          IN  /\ req' = [req EXCEPT ![q] = [NoRequest EXCEPT !.kind = "select",
                                                             !.shipment = s, !.route = r]]
              /\ raced' = IF rivals = {} THEN raced ELSE raced \cup rivals \cup {q}
    /\ pc' = [pc EXCEPT ![q] = "deselecting"]
    /\ UNCHANGED <<shipment, route, todo, lost>>

MutDeselectAll(q) ==
    /\ pc[q] = "deselecting"
    /\ route' = [r \in Routes |->
                   IF route[r] # NoRoute
                   THEN [route[r] EXCEPT !.status = "proposed"] ELSE route[r]]
    /\ Continue(q, "selecting")
    /\ UNCHANGED <<shipment, req, todo, lost, raced>>

\* UPDATE route .. WHERE shipment = ..
DeselectAll(q) ==
    /\ pc[q] = "deselecting"
    /\ route' = [r \in Routes |->
                   IF route[r].shipment = req[q].shipment
                   THEN [route[r] EXCEPT !.status = "proposed"] ELSE route[r]]
    /\ Continue(q, "selecting")
    /\ UNCHANGED <<shipment, req, todo, lost, raced>>

\* UPDATE route:..  On an id without a record the table's assertions reject it.
SelectChosen(q) ==
    /\ pc[q] = "selecting"
    /\ route[req[q].route] # NoRoute
    /\ route' = [route EXCEPT ![req[q].route].status = "accepted"]
    /\ Continue(q, "planning")
    /\ UNCHANGED <<shipment, req, todo, lost, raced>>

MutCallFails(q) ==
    /\ InProgress(q)
    /\ pc' = [pc EXCEPT ![q] = IF @ = "storing" THEN "planning" ELSE "failed"]
    /\ UNCHANGED <<shipment, route, req, todo, lost, raced>>

\* A call is rejected or cannot be made: the handler answers 500.
CallFails(q) ==
    /\ InProgress(q)
    /\ pc' = [pc EXCEPT ![q] = "failed"]
    /\ UNCHANGED <<shipment, route, req, todo, lost, raced>>

\* The answer to a statement will not arrive, but the statement may yet run.
LoseAnswer(q) ==
    /\ InProgress(q) /\ q \notin lost
    /\ lost' = lost \cup {q}
    /\ UNCHANGED <<shipment, route, req, pc, todo, raced>>

Next ==
    \E q \in Requests :
        \/ CreateArrives(q) \/ CreateShipment(q)
        \/ OptimizeArrives(q) \/ LookUp(q) \/ AwaitOptimizer(q) \/ StoreRoute(q)
        \/ SelectArrives(q) \/ DeselectAll(q) \/ SelectChosen(q)
        \/ PlanShipment(q)
        \/ CallFails(q) \/ LoseAnswer(q)

Spec == Init /\ [][Next]_vars
-------------------------------------------------------------------------------
(***************************************************************************)
(* Every handler is at an await of its own, and handleOptimizeRoutes       *)
(* stores routes only while it has some left.                              *)
(***************************************************************************)
Places(kind) ==
    CASE kind = "none" -> {"idle"}
      [] kind = "create" -> {"creating", "done", "failed"}
      [] kind = "optimize" -> {"lookup", "optimizing", "storing", "planning", "done", "failed"}
      [] OTHER -> {"deselecting", "selecting", "planning", "done", "failed"}

TypeOK ==
    /\ shipment \in [Shipments -> {"none", "pending", "planned"}]
    /\ route \in [Routes -> RouteRecord \cup {NoRoute}]
    /\ req \in [Requests -> Request \cup {NoRequest}]
    /\ pc \in [Requests -> {"idle", "done", "failed"} \cup Awaiting]
    /\ todo \in [Requests -> Seq(Routes)]
    /\ \A q \in Requests :
          /\ pc[q] \in Places(req[q].kind)
          /\ pc[q] = "storing" => todo[q] # <<>>
          /\ Selects(q) => req[q].route \in Routes
    /\ lost \subseteq Requests /\ raced \subseteq Requests

(***************************************************************************)
(* Every route in the answer of a successful handleOptimizeRoutes is       *)
(* stored for its shipment, whatever other requests and failures did.      *)
(***************************************************************************)
RepliedRoutesStored ==
    \A q \in Requests : req[q].kind = "optimize" /\ pc[q] \in {"planning", "done"} =>
        \A r \in req[q].offered : route[r].shipment = req[q].shipment

(***************************************************************************)
(* A planned shipment has a route, except where a select request named a   *)
(* route of another shipment for it.                                       *)
(***************************************************************************)
ForeignSelect(q) == Selects(q) /\ route[req[q].route].shipment # req[q].shipment

PlannedHasRoute ==
    \A s \in Shipments : shipment[s] = "planned" =>
        \/ \E r \in Routes : route[r].shipment = s
        \/ \E q \in Requests : ForeignSelect(q) /\ req[q].shipment = s

\* Nothing but selects of its own routes, one after another, touched s.
InTurn(s) ==
    \A q \in Requests : Selects(q) /\ s \in Touches(req[q].shipment, req[q].route) =>
        q \notin raced /\ ~ForeignSelect(q)

(***************************************************************************)
(* A select request that overlaps no other leaves its route as the only    *)
(* selected one of its shipment, also if earlier requests failed halfway.  *)
(* And while no two overlap, no shipment ever has two selected routes, not *)
(* even between two statements, wherever a request failed or was cut off.  *)
(***************************************************************************)
ChosenAlone ==
    \A q \in Requests :
        Selects(q) /\ ~ForeignSelect(q) /\ q \notin raced /\ pc[q] = "planning" =>
            Selected(req[q].shipment) = {req[q].route}

NeverTwo ==
    \A s \in Shipments : InTurn(s) => \A i \in Selected(s) : \A j \in Selected(s) : i = j

SelectAlone == ChosenAlone /\ NeverTwo

(***************************************************************************)
(* However select requests interleave, a shipment whose requests all       *)
(* succeeded has a selected route: only a failure loses the selection.     *)
(***************************************************************************)
SelectedUnlessFailed ==
    \A s \in Shipments :
        LET selects == {q \in Requests : Selects(q) /\ req[q].shipment = s}
        IN  selects # {} /\ (\A q \in selects : pc[q] = "done" /\ ~ForeignSelect(q))
                => Selected(s) # {}

(***************************************************************************)
(* handleSelectRoute deselects all routes of the shipment and selects the  *)
(* chosen one: once every request was answered with success, and each      *)
(* named a route of its shipment, at most one route is selected.           *)
(***************************************************************************)
OneRouteSelected ==
    (\A q \in Requests : pc[q] \in {"idle", "done"} /\ ~ForeignSelect(q)) =>
        \A s \in Shipments : Cardinality(Selected(s)) <= 1

(***************************************************************************)
(* A request that overlaps no other, for a shipment there is, selects the  *)
(* route it names for the shipment it names, as its answer says.           *)
(***************************************************************************)
RouteSelectedIsTrue ==
    \A q \in Requests :
        /\ Selects(q) /\ q \notin raced /\ pc[q] = "planning"
        /\ shipment[req[q].shipment] # "none"
        => Selected(req[q].shipment) = {req[q].route}
-------------------------------------------------------------------------------
(***************************************************************************)
(* What the induction needs.  A route still to be stored has no record yet *)
(* and is in one answer only; the route a select request names is the same *)
(* record for good, or never one.                                          *)
(***************************************************************************)
Ids ==
    /\ \A p \in Requests : \A q \in Requests :
          p # q => req[p].offered \cap req[q].offered = {}
    /\ \A q \in Requests : Selects(q) =>
          \/ route[req[q].route] # NoRoute
          \/ \A p \in Requests : req[q].route \notin req[p].offered
    /\ \A q \in Requests : pc[q] = "storing" =>
          \A i \in 1..Len(todo[q]) :
              /\ todo[q][i] \in req[q].offered /\ route[todo[q][i]] = NoRoute
              /\ \A j \in 1..Len(todo[q]) : i # j => todo[q][i] # todo[q][j]

\* An answer's routes are stored or still to be stored.
Offers ==
    \A q \in Requests :
        /\ pc[q] \in {"lookup", "optimizing"} => req[q].offered = {}
        /\ req[q].kind = "optimize" /\ pc[q] \in {"storing", "planning"} => req[q].offered # {}
        /\ pc[q] = "storing" => \A r \in req[q].offered :
              \/ route[r].shipment = req[q].shipment
              \/ \E i \in 1..Len(todo[q]) : todo[q][i] = r

\* Overlapping selects for the same routes are in raced; one that is not has
\* the selection to itself between its statements.
Rivals ==
    /\ \A p \in Requests : \A q \in Requests :
          /\ p # q /\ Selects(p) /\ Selects(q) /\ InProgress(p) /\ InProgress(q)
          /\ Touches(req[p].shipment, req[p].route)
             \cap Touches(req[q].shipment, req[q].route) # {}
          => p \in raced /\ q \in raced
    /\ \A q \in Requests : Selects(q) /\ pc[q] \in {"planning", "done"} =>
          route[req[q].route] # NoRoute
    /\ \A q \in Requests :
          Selects(q) /\ ~ForeignSelect(q) /\ q \notin raced /\ pc[q] = "selecting" =>
              Selected(req[q].shipment) = {}

\* After the last deselect a select is still to come, or has come.
SelectionDue ==
    \A s \in Shipments :
        LET selects == {q \in Requests : Selects(q) /\ req[q].shipment = s}
        IN  /\ selects # {}
            /\ \A q \in selects : pc[q] \in {"selecting", "planning", "done"} /\ ~ForeignSelect(q)
            => (\E q \in selects : pc[q] = "selecting") \/ Selected(s) # {}

\* The invariant ShipmentApiProofs shows to be inductive.
IInv ==
    /\ TypeOK
    /\ Ids
    /\ Offers
    /\ RepliedRoutesStored
    /\ PlannedHasRoute
    /\ Rivals
    /\ ChosenAlone
    /\ NeverTwo
    /\ SelectionDue
================================================================================
