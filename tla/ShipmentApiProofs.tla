---------------------------- MODULE ShipmentApiProofs ----------------------------
(***************************************************************************)
(* Proofs about ShipmentApi, for any requests, shipments and routes.  IInv *)
(* is inductive: the steps that change neither routes nor requests are     *)
(* treated together, then the arrivals, then one lemma for each step that  *)
(* changes a route.                                                        *)
(***************************************************************************)
EXTENDS ShipmentApi, TLAPS

LEMMA InitIInv == Init => IInv
<1> SUFFICES ASSUME Init
             PROVE  IInv
  OBVIOUS
<1>1. /\ \A q \in Requests : req[q] = NoRequest /\ pc[q] = "idle" /\ todo[q] = <<>>
      /\ \A q \in Requests : ~Selects(q)
  BY DEF Init, Selects, NoRequest
<1>2. TypeOK
  <2>1. route \in [Routes -> RouteRecord \cup {NoRoute}]
    BY DEF Init, RouteRecord
  <2> QED
    BY <1>1, <2>1 DEF Init, TypeOK, Places, NoRequest, Selects
<1>3. Ids /\ Offers /\ RepliedRoutesStored
  BY <1>1 DEF Ids, Offers, RepliedRoutesStored, NoRequest
<1>4. PlannedHasRoute
  BY DEF Init, PlannedHasRoute
<1>5. Rivals /\ ChosenAlone /\ NeverTwo
  BY <1>1 DEF Rivals, ChosenAlone, Init, NeverTwo, Selected, NoRoute
<1>6. SelectionDue
  BY <1>1 DEF SelectionDue
<1> QED
  BY <1>2, <1>3, <1>4, <1>5, <1>6 DEF IInv

\* Where the statement after this one is awaited, or the handler has ended.
LEMMA Continues ==
    ASSUME TypeOK, NEW q \in Requests, NEW next \in {"done"} \cup Awaiting, Continue(q, next)
    PROVE  /\ pc' \in [Requests -> {"idle", "done", "failed"} \cup Awaiting]
           /\ \A p \in Requests : p # q => pc'[p] = pc[p]
           /\ pc'[q] = "failed" \/ (pc'[q] = next /\ q \notin lost)
BY DEF TypeOK, Continue

\* A step that leaves the select requests there are, and the owners of the
\* routes they name, as they were selects no second route where it selects none.
LEMMA NeverTwoStays ==
    ASSUME NeverTwo, raced \subseteq raced',
           \A p \in Requests : Selects(p) =>
               /\ Selects(p)' /\ req'[p] = req[p]
               /\ route'[req[p].route].shipment = route[req[p].route].shipment,
           \A s \in Shipments : InTurn(s) =>
               \/ Selected(s)' \subseteq Selected(s)
               \/ \A i \in Selected(s)' : \A j \in Selected(s)' : i = j
    PROVE  NeverTwo'
<1> SUFFICES ASSUME NEW s \in Shipments, InTurn(s)'
             PROVE  \A i \in Selected(s)' : \A j \in Selected(s)' : i = j
  BY DEF NeverTwo
<1>1. InTurn(s)
  <2> SUFFICES ASSUME NEW p \in Requests, Selects(p),
                      s \in Touches(req[p].shipment, req[p].route)
               PROVE  p \notin raced /\ ~ForeignSelect(p)
    BY DEF InTurn
  <2>1. s \in Touches(req[p].shipment, req[p].route)'
    BY DEF Touches
  <2>2. p \notin raced' /\ ~ForeignSelect(p)'
    BY <2>1 DEF InTurn
  <2> QED
    BY <2>2 DEF ForeignSelect
<1> QED
  BY <1>1 DEF NeverTwo

-------------------------------------------------------------------------------
(***************************************************************************)
(* A step of q that changes neither routes nor requests, and ends the      *)
(* handler or takes a lookup to the optimizer.                             *)
(***************************************************************************)
LEMMA QuietStep ==
    ASSUME IInv, NEW q \in Requests, UNCHANGED <<route, req, todo, raced>>,
           lost' \subseteq Requests,
           shipment' \in [Shipments -> {"none", "pending", "planned"}],
           PlannedHasRoute',
           pc' \in [Requests -> {"idle", "done", "failed"} \cup Awaiting],
           \A p \in Requests : p # q => pc'[p] = pc[p],
           \/ pc'[q] = pc[q]
           \/ pc'[q] = "failed" /\ pc[q] \in Awaiting
           \/ pc'[q] = "done" /\ pc[q] \in {"creating", "lookup", "planning"}
           \/ pc'[q] = "optimizing" /\ pc[q] = "lookup"
    PROVE  IInv'
<1>1. /\ \A p \in Requests : Selects(p)' = Selects(p)
      /\ \A p \in Requests : ForeignSelect(p)' = ForeignSelect(p)
      /\ \A s \in Shipments : Selected(s)' = Selected(s)
  BY DEF Selects, ForeignSelect, Selected
<1>2. \A p \in Requests : InProgress(p)' => InProgress(p)
  BY DEF InProgress, Awaiting
<1>3. TypeOK'
  <2>1. \A p \in Requests : pc'[p] \in Places(req[p].kind)
    BY DEF IInv, TypeOK, Places, Awaiting, Request, NoRequest
  <2>2. \A p \in Requests : pc'[p] = "storing" => pc[p] = "storing"
    OBVIOUS
  <2> QED
    BY <1>1, <2>1, <2>2 DEF IInv, TypeOK
<1>4. Ids'
  BY <1>1 DEF IInv, Ids
<1>5. Offers'
  BY DEF IInv, Offers
<1>6. RepliedRoutesStored'
  <2>1. pc[q] = "lookup" => req[q].offered = {}
    BY DEF IInv, Offers
  <2>2. pc[q] = "creating" => req[q].kind # "optimize"
    BY DEF IInv, TypeOK, Places
  <2> QED
    BY <2>1, <2>2 DEF IInv, RepliedRoutesStored
<1>7. Rivals'
  <2>1. \A p \in Requests : Selects(p) /\ pc'[p] \in {"planning", "done"} =>
            pc[p] \in {"planning", "done"}
    BY DEF IInv, TypeOK, Places, Selects
  <2>2. \A s, r : Touches(s, r)' = Touches(s, r)
    BY DEF Touches
  <2>3. \A p \in Requests : pc'[p] = "selecting" => pc[p] = "selecting"
    OBVIOUS
  <2>4. \A p \in Requests : Selects(p) => req[p].shipment \in Shipments
    BY DEF IInv, TypeOK, Selects, Request, NoRequest
  <2> QED
    BY <1>1, <1>2, <2>1, <2>2, <2>3, <2>4 DEF IInv, Rivals
<1>8. ChosenAlone'
  <2>1. \A p \in Requests : Selects(p) => req[p].shipment \in Shipments
    BY DEF IInv, TypeOK, Selects, Request, NoRequest
  <2> QED
    BY <1>1, <2>1 DEF IInv, ChosenAlone
<1>9. SelectionDue'
  <2> SUFFICES ASSUME NEW s \in Shipments,
                      NEW q0 \in Requests, Selects(q0), req[q0].shipment = s,
                      \A p \in Requests : Selects(p) /\ req[p].shipment = s =>
                          pc'[p] \in {"selecting", "planning", "done"} /\ ~ForeignSelect(p)
               PROVE  \/ \E p \in Requests : Selects(p) /\ req[p].shipment = s /\ pc'[p] = "selecting"
                      \/ Selected(s) # {}
    BY <1>1 DEF SelectionDue
  <2>1. \A p \in Requests : Selects(p) /\ req[p].shipment = s =>
            pc[p] \in {"selecting", "planning", "done"} /\ (pc[p] = "selecting" => pc'[p] = "selecting")
    BY DEF IInv, TypeOK, Places, Selects
  <2> QED
    BY <2>1 DEF IInv, SelectionDue
<1>10. NeverTwo'
  BY <1>1, NeverTwoStays DEF IInv
<1> QED
  BY <1>3, <1>4, <1>5, <1>6, <1>7, <1>8, <1>9, <1>10 DEF IInv
LEMMA CreateShipmentInv ==
    ASSUME IInv, NEW q \in Requests, CreateShipment(q)
    PROVE  IInv'
<1>1. TypeOK /\ pc[q] = "creating" /\ UNCHANGED <<route, req, todo, lost, raced>>
  BY DEF CreateShipment, IInv
<1>2. /\ pc' \in [Requests -> {"idle", "done", "failed"} \cup Awaiting]
      /\ \A p \in Requests : p # q => pc'[p] = pc[p]
      /\ pc'[q] \in {"failed", "done"}
  BY <1>1, Continues DEF CreateShipment
<1>3. /\ shipment' \in [Shipments -> {"none", "pending", "planned"}]
      /\ \A s \in Shipments : shipment'[s] = "planned" => shipment[s] = "planned"
  BY <1>1 DEF CreateShipment, TypeOK
<1>4. PlannedHasRoute'
  BY <1>1, <1>3 DEF IInv, PlannedHasRoute, ForeignSelect, Selects
<1> QED
  BY <1>1, <1>2, <1>3, <1>4, QuietStep DEF TypeOK, Awaiting

LEMMA LookUpInv ==
    ASSUME IInv, NEW q \in Requests, LookUp(q)
    PROVE  IInv'
<1>1. TypeOK /\ pc[q] = "lookup" /\ UNCHANGED <<shipment, route, req, todo, lost, raced>>
  BY DEF LookUp, IInv
<1>2. /\ pc' \in [Requests -> {"idle", "done", "failed"} \cup Awaiting]
      /\ \A p \in Requests : p # q => pc'[p] = pc[p]
      /\ pc'[q] \in {"failed", "done", "optimizing"}
  <2> DEFINE next == IF shipment[req[q].shipment] = "none" THEN "done" ELSE "optimizing"
  <2>1. next \in {"done", "optimizing"} /\ next \in {"done"} \cup Awaiting /\ Continue(q, next)
    BY DEF LookUp, Awaiting
  <2> HIDE DEF next
  <2> QED
    BY <1>1, <2>1, Continues
<1>3. PlannedHasRoute'
  BY <1>1 DEF IInv, PlannedHasRoute, ForeignSelect, Selects
<1> QED
  BY <1>1, <1>2, <1>3, QuietStep DEF TypeOK, Awaiting

LEMMA CallFailsInv ==
    ASSUME IInv, NEW q \in Requests, CallFails(q)
    PROVE  IInv'
<1>1. TypeOK /\ pc[q] \in Awaiting /\ UNCHANGED <<shipment, route, req, todo, lost, raced>>
  BY DEF CallFails, IInv, InProgress
<1>2. PlannedHasRoute'
  BY <1>1 DEF IInv, PlannedHasRoute, ForeignSelect, Selects
<1> QED
  BY <1>1, <1>2, QuietStep DEF TypeOK, CallFails

LEMMA LoseAnswerInv ==
    ASSUME IInv, NEW q \in Requests, LoseAnswer(q)
    PROVE  IInv'
<1>1. TypeOK /\ UNCHANGED <<shipment, route, req, pc, todo, raced>> /\ lost' = lost \cup {q}
  BY DEF LoseAnswer, IInv
<1>2. PlannedHasRoute'
  BY <1>1 DEF IInv, PlannedHasRoute, ForeignSelect, Selects
<1> QED
  BY <1>1, <1>2, QuietStep DEF TypeOK

\* The shipment that becomes planned has a route: one that was offered, or the
\* one selected.
LEMMA PlanShipmentInv ==
    ASSUME IInv, NEW q \in Requests, PlanShipment(q)
    PROVE  IInv'
<1> DEFINE s0 == req[q].shipment
<1>1. /\ TypeOK /\ pc[q] = "planning" /\ UNCHANGED <<route, req, todo, lost, raced>>
      /\ shipment' = [shipment EXCEPT ![s0] = "planned"]
  BY DEF PlanShipment, IInv
<1>2. /\ pc' \in [Requests -> {"idle", "done", "failed"} \cup Awaiting]
      /\ \A p \in Requests : p # q => pc'[p] = pc[p]
      /\ pc'[q] \in {"failed", "done"}
  BY <1>1, Continues DEF PlanShipment
<1>3. /\ req[q].kind \in {"optimize", "select"} /\ s0 \in Shipments
      /\ req[q].kind = "select" => req[q].route \in Routes
      /\ req[q].offered \subseteq Routes
  <2>1. pc[q] \in Places(req[q].kind) /\ req[q] \in Request \cup {NoRequest}
        /\ (Selects(q) => req[q].route \in Routes)
    BY <1>1 DEF TypeOK
  <2>2. req[q].kind \notin {"none", "create"}
    BY <1>1, <2>1 DEF Places
  <2>3. req[q] \in Request
    BY <2>1, <2>2 DEF NoRequest
  <2> QED
    BY <2>1, <2>2, <2>3 DEF Request, Selects
<1>4. \/ \E r \in Routes : route[r].shipment = s0
      \/ ForeignSelect(q)
  <2>1. CASE req[q].kind = "optimize"
    <3>1. PICK r \in req[q].offered : TRUE
      BY <1>1, <2>1 DEF IInv, Offers
    <3>2. r \in Routes /\ route[r].shipment = s0
      BY <1>1, <1>3, <2>1 DEF IInv, RepliedRoutesStored
    <3> QED
      BY <3>2
  <2>2. CASE req[q].kind = "select"
    BY <1>3, <2>2 DEF ForeignSelect, Selects
  <2> QED
    BY <1>3, <2>1, <2>2
<1>5. /\ shipment' \in [Shipments -> {"none", "pending", "planned"}]
      /\ \A s \in Shipments : s # s0 => shipment'[s] = shipment[s]
  BY <1>1, <1>3 DEF TypeOK
<1>6. PlannedHasRoute'
  BY <1>1, <1>4, <1>5 DEF IInv, PlannedHasRoute, ForeignSelect, Selects
<1> QED
  BY <1>1, <1>2, <1>5, <1>6, QuietStep DEF TypeOK

-------------------------------------------------------------------------------
(***************************************************************************)
(* A request arrives.  Its first call is awaited and it has no answer yet. *)
(***************************************************************************)
LEMMA Arrival ==
    ASSUME IInv, NEW q \in Requests, pc[q] = "idle",
           UNCHANGED <<shipment, route, todo, lost>>,
           NEW n \in Request, req' = [req EXCEPT ![q] = n], n.offered = {},
           NEW first \in Awaiting, first \in Places(n.kind) \ {"storing", "planning"},
           pc' = [pc EXCEPT ![q] = first],
           raced' \subseteq Requests, raced \subseteq raced',
           n.kind = "select" => n.route \in NamedRoutes /\ first = "deselecting",
           n.kind # "select" => raced' = raced
    PROVE  /\ TypeOK' /\ Ids' /\ Offers' /\ RepliedRoutesStored' /\ PlannedHasRoute'
           /\ ChosenAlone' /\ NeverTwo' /\ SelectionDue'
           /\ n.kind # "select" => Rivals'
<1>1. /\ TypeOK /\ req \in [Requests -> Request \cup {NoRequest}]
      /\ pc \in [Requests -> {"idle", "done", "failed"} \cup Awaiting]
  BY DEF IInv, TypeOK
<1>2. /\ req[q] = NoRequest
  BY <1>1 DEF TypeOK, Places, Request, NoRequest
<1>3. /\ req'[q] = n /\ pc'[q] = first
      /\ \A p \in Requests : p # q => req'[p] = req[p] /\ pc'[p] = pc[p]
      /\ \A p \in Requests : req'[p].offered = req[p].offered
  BY <1>1, <1>2 DEF NoRequest
<1>4. first \notin {"idle", "done", "failed", "storing", "planning"}
  BY DEF Awaiting
<1>5. NamedRoutes \subseteq Routes
  BY DEF NamedRoutes, FreshRoutes
<1>6. TypeOK'
  <2>1. req' \in [Requests -> Request \cup {NoRequest}]
        /\ pc' \in [Requests -> {"idle", "done", "failed"} \cup Awaiting]
    BY <1>1
  <2>2. \A p \in Requests : /\ pc'[p] \in Places(req'[p].kind)
                            /\ pc'[p] = "storing" => todo[p] # <<>>
                            /\ req'[p].kind = "select" => req'[p].route \in Routes
    BY <1>1, <1>3, <1>4, <1>5 DEF TypeOK, Selects
  <2> QED
    BY <1>1, <2>1, <2>2 DEF TypeOK, Selects
<1>7. Ids'
  <2>1. \A p \in Requests : req'[p].kind = "select" =>
           \/ route[req'[p].route] # NoRoute
           \/ \A p2 \in Requests : req'[p].route \notin req[p2].offered
    BY <1>3 DEF IInv, Ids, Selects, NamedRoutes, FreshRoutes
  <2> QED
    BY <1>3, <1>4, <2>1 DEF IInv, Ids, Selects
<1>8. Offers'
  BY <1>2, <1>3, <1>4 DEF IInv, Offers
<1>9. RepliedRoutesStored'
  BY <1>3, <1>4 DEF IInv, RepliedRoutesStored
<1>10. PlannedHasRoute'
  BY <1>2, <1>3 DEF IInv, PlannedHasRoute, ForeignSelect, Selects, NoRequest
<1>11. ChosenAlone'
  <2>1. \A s : Selected(s)' = Selected(s)
    BY DEF Selected
  <2> QED
    BY <1>3, <1>4, <2>1 DEF IInv, ChosenAlone, ForeignSelect, Selects
<1>12. SelectionDue'
  <2> SUFFICES ASSUME NEW s \in Shipments,
                      NEW q0 \in Requests, Selects(q0)', req'[q0].shipment = s,
                      \A p \in Requests : Selects(p)' /\ req'[p].shipment = s =>
                          pc'[p] \in {"selecting", "planning", "done"} /\ ~ForeignSelect(p)'
               PROVE  \/ \E p \in Requests : Selects(p)' /\ req'[p].shipment = s /\ pc'[p] = "selecting"
                      \/ Selected(s)' # {}
    BY DEF SelectionDue
  <2>1. q0 # q
    BY <1>3 DEF Selects
  <2>2. \A p \in Requests : Selects(p) /\ req[p].shipment = s =>
            p # q /\ pc[p] \in {"selecting", "planning", "done"} /\ ~ForeignSelect(p)
    BY <1>2, <1>3 DEF Selects, ForeignSelect, NoRequest
  <2>3. Selects(q0) /\ req[q0].shipment = s
    BY <1>3, <2>1 DEF Selects
  <2>4. \/ \E p \in Requests : Selects(p) /\ req[p].shipment = s /\ pc[p] = "selecting"
        \/ Selected(s) # {}
    BY <2>2, <2>3 DEF IInv, SelectionDue
  <2> QED
    BY <1>3, <2>2, <2>4 DEF Selects, Selected
<1>13. ASSUME n.kind # "select"
       PROVE  Rivals'
  <2>1. \A s : Selected(s)' = Selected(s)
    BY DEF Selected
  <2>2. \A s, r : Touches(s, r)' = Touches(s, r)
    BY DEF Touches
  <2>3. \A p \in Requests : Selects(p)' => p # q /\ Selects(p)
    BY <1>3, <1>13 DEF Selects
  <2> QED
    BY <1>3, <1>13, <2>1, <2>2, <2>3 DEF IInv, Rivals, ForeignSelect, Selects, InProgress
<1>14. NeverTwo'
  <2>1. \A s : Selected(s)' = Selected(s)
    BY DEF Selected
  <2>2. \A p \in Requests : Selects(p) => Selects(p)' /\ req'[p] = req[p]
    BY <1>2, <1>3 DEF Selects, NoRequest
  <2> QED
    BY <2>1, <2>2, NeverTwoStays DEF IInv
<1> QED
  BY <1>6, <1>7, <1>8, <1>9, <1>10, <1>11, <1>12, <1>13, <1>14
LEMMA CreateArrivesInv ==
    ASSUME IInv, NEW q \in Requests, CreateArrives(q)
    PROVE  IInv'
<1>1. PICK s \in FreshShipments :
          req' = [req EXCEPT ![q] = [NoRequest EXCEPT !.kind = "create", !.shipment = s]]
  BY DEF CreateArrives
<1> DEFINE n == [NoRequest EXCEPT !.kind = "create", !.shipment = s]
<1>2. n \in Request /\ n.kind = "create" /\ n.offered = {}
  BY DEF FreshShipments, NoRequest, Request
<1>3. /\ pc[q] = "idle" /\ UNCHANGED <<shipment, route, todo, lost, raced>>
      /\ pc' = [pc EXCEPT ![q] = "creating"]
      /\ raced \subseteq Requests
      /\ "creating" \in Awaiting /\ "creating" \in Places("create") \ {"storing", "planning"}
  BY DEF CreateArrives, IInv, TypeOK, Awaiting, Places
<1>4. req' = [req EXCEPT ![q] = n]
  BY <1>1
<1> HIDE DEF n
<1> QED
  BY <1>2, <1>3, <1>4, Arrival DEF IInv

LEMMA OptimizeArrivesInv ==
    ASSUME IInv, NEW q \in Requests, OptimizeArrives(q)
    PROVE  IInv'
<1>1. PICK s \in NamedShipments :
          req' = [req EXCEPT ![q] = [NoRequest EXCEPT !.kind = "optimize", !.shipment = s]]
  BY DEF OptimizeArrives
<1> DEFINE n == [NoRequest EXCEPT !.kind = "optimize", !.shipment = s]
<1>2. n \in Request /\ n.kind = "optimize" /\ n.offered = {}
  BY DEF NamedShipments, FreshShipments, NoRequest, Request
<1>3. PICK first \in {"lookup", "optimizing"} : pc' = [pc EXCEPT ![q] = first]
  BY DEF OptimizeArrives
<1>4. /\ pc[q] = "idle" /\ UNCHANGED <<shipment, route, todo, lost, raced>>
      /\ raced \subseteq Requests
      /\ first \in Awaiting /\ first \in Places("optimize") \ {"storing", "planning"}
  BY DEF OptimizeArrives, IInv, TypeOK, Awaiting, Places
<1>5. req' = [req EXCEPT ![q] = n]
  BY <1>1
<1> HIDE DEF n
<1> QED
  BY <1>2, <1>3, <1>4, <1>5, Arrival DEF IInv

\* The newcomer and all it overlaps with go into raced together.
LEMMA SelectArrivesInv ==
    ASSUME IInv, NEW q \in Requests, SelectArrives(q)
    PROVE  IInv'
<1> DEFINE rivals(s, r) ==
             {p \in Requests : /\ Selects(p) /\ InProgress(p)
                               /\ Touches(s, r) \cap
                                  Touches(req[p].shipment, req[p].route) # {}}
<1>1. PICK s \in NamedShipments, r \in NamedRoutes :
          /\ req' = [req EXCEPT ![q] = [NoRequest EXCEPT !.kind = "select",
                                                         !.shipment = s, !.route = r]]
          /\ raced' = IF rivals(s, r) = {} THEN raced ELSE raced \cup rivals(s, r) \cup {q}
  BY DEF SelectArrives
<1> DEFINE n == [NoRequest EXCEPT !.kind = "select", !.shipment = s, !.route = r]
<1>2. /\ n \in Request /\ n.kind = "select" /\ n.offered = {}
      /\ n.shipment = s /\ n.route = r /\ r \in Routes
  BY DEF NamedShipments, FreshShipments, NamedRoutes, FreshRoutes, NoRequest, Request
<1>3. /\ pc[q] = "idle" /\ UNCHANGED <<shipment, route, todo, lost>>
      /\ pc' = [pc EXCEPT ![q] = "deselecting"]
      /\ raced \subseteq raced' /\ raced' \subseteq Requests
      /\ "deselecting" \in Awaiting /\ "deselecting" \in Places("select") \ {"storing", "planning"}
  BY <1>1 DEF SelectArrives, IInv, TypeOK, Awaiting, Places
<1>4. req' = [req EXCEPT ![q] = n]
  BY <1>1
<1>5. /\ req' [q] = n /\ pc'[q] = "deselecting"
      /\ \A p \in Requests : p # q => req'[p] = req[p] /\ pc'[p] = pc[p]
  BY <1>3, <1>4 DEF IInv, TypeOK
<1>6. /\ TypeOK' /\ Ids' /\ Offers' /\ RepliedRoutesStored' /\ PlannedHasRoute'
      /\ ChosenAlone' /\ NeverTwo' /\ SelectionDue'
  <2> HIDE DEF n, rivals
  <2> QED
    BY <1>1, <1>2, <1>3, <1>4, Arrival
<1>7. Rivals'
  <2>3. \A p \in Requests : p # q =>
           /\ Selects(p)' = Selects(p) /\ InProgress(p)' = InProgress(p)
           /\ ForeignSelect(p)' = ForeignSelect(p)
    BY <1>3, <1>5 DEF Selects, InProgress, ForeignSelect
  <2>4. \A p \in Requests :
          /\ p # q /\ Selects(p) /\ InProgress(p)
          /\ Touches(s, r) \cap Touches(req[p].shipment, req[p].route) # {}
          => p \in raced' /\ q \in raced'
    BY <1>1
  <2>5. ASSUME NEW p1 \in Requests, NEW p2 \in Requests, p1 # p2,
               Selects(p1)', Selects(p2)', InProgress(p1)', InProgress(p2)',
               Touches(req[p1].shipment, req[p1].route)'
               \cap Touches(req[p2].shipment, req[p2].route)' # {}
        PROVE  p1 \in raced' /\ p2 \in raced'
    <3> DEFINE own(p) == Touches(req[p].shipment, req[p].route)
    <3>0. /\ Touches(req[q].shipment, req[q].route)' = Touches(s, r)
          /\ \A p \in Requests :
                p # q => Touches(req[p].shipment, req[p].route)' = own(p)
      <4> HIDE DEF n
      <4> QED
        BY <1>2, <1>3, <1>5 DEF Touches
    <3>1. CASE p1 = q
      <4>1. Touches(s, r) \cap own(p2) # {}
        BY <2>5, <3>0, <3>1
      <4> QED
        BY <2>3, <2>4, <2>5, <3>1, <4>1
    <3>2. CASE p2 = q
      <4>1. Touches(s, r) \cap own(p1) # {}
        BY <2>5, <3>0, <3>2
      <4> QED
        BY <2>3, <2>4, <2>5, <3>2, <4>1
    <3>3. CASE p1 # q /\ p2 # q
      <4>1. p1 \in raced /\ p2 \in raced
        BY <2>3, <2>5, <3>0, <3>3 DEF IInv, Rivals
      <4> QED
        BY <1>3, <4>1
    <3> QED
      BY <3>1, <3>2, <3>3
  <2>6. \A p \in Requests : Selects(p)' /\ pc'[p] \in {"planning", "done"} =>
           route'[req'[p].route] # NoRoute
    BY <1>3, <1>5, <2>3 DEF IInv, Rivals
  <2>7. \A p \in Requests :
           Selects(p)' /\ ~ForeignSelect(p)' /\ p \notin raced' /\ pc'[p] = "selecting" =>
              Selected(req[p].shipment)' = {}
    <3>1. \A p \in Requests : p # q => Selected(req[p].shipment)' = Selected(req[p].shipment)
      BY <1>3, <1>5 DEF Selected
    <3> QED
      BY <1>3, <1>5, <2>3, <3>1 DEF IInv, Rivals
  <2> QED
    BY <2>5, <2>6, <2>7 DEF Rivals
<1> QED
  BY <1>6, <1>7 DEF IInv
-------------------------------------------------------------------------------
(***************************************************************************)
(* The optimizer answers with ids that are in no record and no request.    *)
(***************************************************************************)
LEMMA AwaitOptimizerInv ==
    ASSUME IInv, NEW q \in Requests, AwaitOptimizer(q)
    PROVE  IInv'
<1>0. PICK n \in 0..MaxRoutes : \E rs \in [1..n -> FreshRoutes] :
          /\ \A i \in 1..n : \A j \in 1..n : i # j => rs[i] # rs[j]
          /\ req' = [req EXCEPT ![q].offered = {rs[i] : i \in 1..n}]
          /\ todo' = [todo EXCEPT ![q] = rs]
          /\ pc' = [pc EXCEPT ![q] = IF n = 0 THEN "done" ELSE "storing"]
  BY DEF AwaitOptimizer
<1>1. PICK rs \in [1..n -> FreshRoutes] :
          /\ \A i \in 1..n : \A j \in 1..n : i # j => rs[i] # rs[j]
          /\ req' = [req EXCEPT ![q].offered = {rs[i] : i \in 1..n}]
          /\ todo' = [todo EXCEPT ![q] = rs]
          /\ pc' = [pc EXCEPT ![q] = IF n = 0 THEN "done" ELSE "storing"]
  BY <1>0
<1> DEFINE new == {rs[i] : i \in 1..n}
<1>2. /\ TypeOK /\ pc[q] = "optimizing" /\ UNCHANGED <<shipment, route, lost, raced>>
      /\ n \in Nat /\ new \subseteq FreshRoutes /\ FreshRoutes \subseteq Routes
      /\ rs \in Seq(Routes) /\ Len(rs) = n
  BY <1>1, ApiAssumption DEF AwaitOptimizer, IInv, FreshRoutes
<1>3. req[q] \in Request /\ req[q].kind = "optimize"
  <2>1. pc[q] \in Places(req[q].kind) /\ req[q] \in Request \cup {NoRequest}
    BY <1>2 DEF TypeOK
  <2> QED
    BY <1>2, <2>1 DEF Places, Request, NoRequest
<1>4. /\ req'[q] \in Request /\ req'[q].offered = new /\ req'[q].kind = "optimize"
      /\ req'[q].shipment = req[q].shipment
      /\ pc'[q] = (IF n = 0 THEN "done" ELSE "storing") /\ todo'[q] = rs
      /\ \A p \in Requests : p # q => req'[p] = req[p] /\ pc'[p] = pc[p] /\ todo'[p] = todo[p]
  <2> HIDE DEF new
  <2>1. req' = [req EXCEPT ![q].offered = new]
    BY <1>1 DEF new
  <2>2. /\ req \in [Requests -> Request \cup {NoRequest}]
        /\ pc \in [Requests -> {"idle", "done", "failed"} \cup Awaiting]
        /\ todo \in [Requests -> Seq(Routes)] /\ new \subseteq Routes
    BY <1>2 DEF TypeOK
  <2>3. req'[q] = [req[q] EXCEPT !.offered = new] /\ \A p \in Requests : p # q => req'[p] = req[p]
    BY <2>1, <2>2
  <2>4. /\ req'[q] \in Request /\ req'[q].offered = new /\ req'[q].kind = "optimize"
        /\ req'[q].shipment = req[q].shipment
    BY <1>3, <2>2, <2>3 DEF Request
  <2>5. /\ todo'[q] = rs /\ \A p \in Requests : p # q => todo'[p] = todo[p]
    BY <1>1, <2>2
  <2>6. /\ pc'[q] = (IF n = 0 THEN "done" ELSE "storing")
        /\ \A p \in Requests : p # q => pc'[p] = pc[p]
    BY <1>1, <2>2
  <2> QED
    BY <2>3, <2>4, <2>5, <2>6
<1>5. req[q].offered = {}
  BY <1>2 DEF IInv, Offers
<1> HIDE DEF new
<1>6. \A p \in Requests : Selects(p)' = Selects(p) /\ (Selects(p) => p # q)
  BY <1>3, <1>4 DEF Selects
<1>7. TypeOK'
  <2>1. /\ req' \in [Requests -> Request \cup {NoRequest}]
        /\ pc' \in [Requests -> {"idle", "done", "failed"} \cup Awaiting]
        /\ todo' \in [Requests -> Seq(Routes)]
    BY <1>1, <1>2, <1>4 DEF TypeOK, Awaiting
  <2>2. \A p \in Requests : /\ pc'[p] \in Places(req'[p].kind)
                            /\ pc'[p] = "storing" => todo'[p] # <<>>
                            /\ Selects(p)' => req'[p].route \in Routes
    BY <1>2, <1>4, <1>6 DEF TypeOK, Places
  <2> QED
    BY <1>2, <2>1, <2>2 DEF TypeOK
<1>8. Ids'
  <2>1. \A p \in Requests : p # q => new \cap req[p].offered = {}
    BY <1>2 DEF FreshRoutes
  <2>2. \A p \in Requests : \A p2 \in Requests :
           p # p2 => req'[p].offered \cap req'[p2].offered = {}
    BY <1>4, <2>1 DEF IInv, Ids
  <2>3. \A p \in Requests : Selects(p) => req[p].route \notin new
    BY <1>2 DEF FreshRoutes
  <2>4. \A p \in Requests : Selects(p)' =>
           \/ route'[req'[p].route] # NoRoute
           \/ \A p2 \in Requests : req'[p].route \notin req'[p2].offered
    BY <1>2, <1>4, <1>6, <2>3 DEF IInv, Ids
  <2>5. \A i \in 1..Len(rs) :
           /\ rs[i] \in new /\ route[rs[i]] = NoRoute
           /\ \A j \in 1..Len(rs) : i # j => rs[i] # rs[j]
    BY <1>1, <1>2 DEF new, FreshRoutes
  <2>6. \A p \in Requests : pc'[p] = "storing" =>
           \A i \in 1..Len(todo'[p]) :
              /\ todo'[p][i] \in req'[p].offered /\ route'[todo'[p][i]] = NoRoute
              /\ \A j \in 1..Len(todo'[p]) : i # j => todo'[p][i] # todo'[p][j]
    BY <1>2, <1>4, <2>5 DEF IInv, Ids
  <2> QED
    BY <2>2, <2>4, <2>6 DEF Ids
<1>9. Offers'
  <2>1. n # 0 => new # {}
    <3>1. n # 0 => rs[1] \in new
      BY <1>2 DEF new
    <3> QED
      BY <3>1
  <2>2. \A r \in new : \E i \in 1..Len(rs) : rs[i] = r
    BY <1>2 DEF new
  <2> QED
    BY <1>2, <1>4, <2>1, <2>2 DEF IInv, Offers
<1>10. RepliedRoutesStored'
  <2>1. n = 0 => new = {}
    BY DEF new
  <2> QED
    BY <1>2, <1>4, <2>1 DEF IInv, RepliedRoutesStored
<1>11. \A p \in Requests : /\ ForeignSelect(p)' = ForeignSelect(p)
                           /\ Selects(p) => req'[p] = req[p] /\ pc'[p] = pc[p]
  BY <1>2, <1>4, <1>6 DEF ForeignSelect
<1>12. \A p \in Requests : Selects(p) =>
          /\ Selected(req[p].shipment)' = Selected(req[p].shipment)
          /\ Touches(req[p].shipment, req[p].route)' = Touches(req[p].shipment, req[p].route)
  BY <1>2, <1>11 DEF Selected, Touches
<1>13. PlannedHasRoute'
  BY <1>2, <1>6, <1>11 DEF IInv, PlannedHasRoute, ForeignSelect
<1>14. Rivals'
  BY <1>2, <1>6, <1>11, <1>12 DEF IInv, Rivals, InProgress
<1>15. ChosenAlone'
  BY <1>2, <1>6, <1>11, <1>12 DEF IInv, ChosenAlone
<1>16. SelectionDue'
  <2>1. \A s : Selected(s)' = Selected(s)
    BY <1>2 DEF Selected
  <2> SUFFICES ASSUME NEW s \in Shipments,
                      NEW q0 \in Requests, Selects(q0), req[q0].shipment = s,
                      \A p \in Requests : Selects(p) /\ req[p].shipment = s =>
                          pc[p] \in {"selecting", "planning", "done"} /\ ~ForeignSelect(p)
               PROVE  \/ \E p \in Requests : Selects(p) /\ req[p].shipment = s /\ pc[p] = "selecting"
                      \/ Selected(s) # {}
    BY <1>6, <1>11, <2>1 DEF SelectionDue
  <2> QED
    BY DEF IInv, SelectionDue
<1>17. NeverTwo'
  <2>1. \A s : Selected(s)' = Selected(s)
    BY <1>2 DEF Selected
  <2> QED
    BY <1>2, <1>6, <1>11, <2>1, NeverTwoStays DEF IInv
<1> QED
  BY <1>7, <1>8, <1>9, <1>10, <1>13, <1>14, <1>15, <1>16, <1>17 DEF IInv

-------------------------------------------------------------------------------
\* A request that has arrived names a shipment, and a select a route.
LEMMA Arrived ==
    ASSUME TypeOK, NEW p \in Requests, pc[p] # "idle"
    PROVE  /\ req[p] \in Request /\ req[p].shipment \in Shipments /\ req[p].shipment # None
           /\ req[p].offered \subseteq Routes
           /\ pc[p] \in Places(req[p].kind)
           /\ req[p].kind = "select" => Selects(p) /\ req[p].route \in Routes
<1>1. /\ pc[p] \in Places(req[p].kind) /\ req[p] \in Request \cup {NoRequest}
      /\ Selects(p) => req[p].route \in Routes
  BY DEF TypeOK
<1>2. req[p] \in Request
  BY <1>1 DEF Places, NoRequest
<1> QED
  BY <1>1, <1>2, ApiAssumption DEF Request, Selects

(***************************************************************************)
(* A step of q that stores a route an answer offered, or marks routes as   *)
(* selected or not.  A route there is stays its shipment's, so what a      *)
(* select request names does not change under it.                          *)
(***************************************************************************)
LEMMA OwnersStay ==
    ASSUME IInv, NEW q \in Requests, UNCHANGED <<shipment, req, lost, raced>>,
           \A r \in Routes : route[r] # NoRoute =>
               route'[r] # NoRoute /\ route'[r].shipment = route[r].shipment,
           \A r \in Routes : route[r] = NoRoute /\ (\A p \in Requests : r \notin req[p].offered)
               => route'[r] = NoRoute,
           InProgress(q),
           \A p \in Requests : p # q => pc'[p] = pc[p]
    PROVE  /\ \A p \in Requests : Selects(p)' = Selects(p)
           /\ \A p \in Requests : ForeignSelect(p)' = ForeignSelect(p)
           /\ \A p \in Requests : Selects(p) =>
                 route'[req[p].route].shipment = route[req[p].route].shipment
           /\ PlannedHasRoute'
           /\ \A p \in Requests : Selects(p) =>
                 \/ route'[req[p].route] # NoRoute
                 \/ \A p2 \in Requests : req[p].route \notin req[p2].offered
           /\ \A p \in Requests : \A p2 \in Requests :
                 /\ p # p2 /\ Selects(p)' /\ Selects(p2)' /\ InProgress(p)' /\ InProgress(p2)'
                 /\ Touches(req[p].shipment, req[p].route)'
                    \cap Touches(req[p2].shipment, req[p2].route)' # {}
                 => p \in raced' /\ p2 \in raced'
<1>1. TypeOK /\ Ids
  BY DEF IInv
<1>2. \A p \in Requests : Selects(p)' = Selects(p)
  BY DEF Selects
<1>3. \A p \in Requests : Selects(p) =>
         /\ req[p].route \in Routes
         /\ route'[req[p].route].shipment = route[req[p].route].shipment
         /\ \/ route'[req[p].route] # NoRoute
            \/ \A p2 \in Requests : req[p].route \notin req[p2].offered
  BY <1>1 DEF TypeOK, Ids
<1>4. \A p \in Requests : ForeignSelect(p)' = ForeignSelect(p)
  BY <1>2, <1>3 DEF ForeignSelect
<1>5. PlannedHasRoute'
  <2> SUFFICES ASSUME NEW s \in Shipments, shipment[s] = "planned"
               PROVE  \/ \E r \in Routes : route'[r].shipment = s
                      \/ \E p \in Requests : ForeignSelect(p) /\ req[p].shipment = s
    BY <1>4 DEF PlannedHasRoute
  <2>1. CASE \E r \in Routes : route[r].shipment = s
    <3>1. PICK r \in Routes : route[r].shipment = s
      BY <2>1
    <3>2. route[r] # NoRoute
      BY <3>1, ApiAssumption DEF NoRoute
    <3> QED
      BY <3>1, <3>2
  <2> QED
    BY <2>1 DEF IInv, PlannedHasRoute
<1>6. \A p \in Requests : Selects(p) =>
         Touches(req[p].shipment, req[p].route)' = Touches(req[p].shipment, req[p].route)
  BY <1>3 DEF Touches
<1>7. \A p \in Requests : InProgress(p)' => InProgress(p)
  BY DEF InProgress
<1> QED
  BY <1>2, <1>3, <1>4, <1>5, <1>6, <1>7 DEF IInv, Rivals

(***************************************************************************)
(* One CREATE route: the route is selected by nothing and no other answer  *)
(* holds it.                                                               *)
(***************************************************************************)
LEMMA StoreRouteInv ==
    ASSUME IInv, NEW q \in Requests, StoreRoute(q)
    PROVE  IInv'
<1> DEFINE h == Head(todo[q])
           rec == [shipment |-> req[q].shipment, status |-> "proposed"]
           next == IF Len(todo[q]) = 1 THEN "planning" ELSE "storing"
<1>1. /\ TypeOK /\ pc[q] = "storing" /\ UNCHANGED <<shipment, req, lost, raced>>
      /\ route' = [route EXCEPT ![h] = rec] /\ todo' = [todo EXCEPT ![q] = Tail(@)]
      /\ Continue(q, next)
  BY DEF StoreRoute, IInv
<1>2. /\ req[q].kind = "optimize" /\ req[q].shipment \in Shipments
      /\ req[q].shipment # None /\ req[q].offered \subseteq Routes
      /\ ~Selects(q)
  BY <1>1, Arrived DEF Places, Selects, Request
<1>3. /\ todo[q] \in Seq(Routes) /\ todo[q] # <<>> /\ Len(todo[q]) \in Nat \ {0}
      /\ h = todo[q][1] /\ h \in Routes /\ h \in req[q].offered /\ route[h] = NoRoute
  <2>1. todo[q] \in Seq(Routes) /\ todo[q] # <<>>
    BY <1>1 DEF TypeOK
  <2>2. Len(todo[q]) \in Nat \ {0} /\ h = todo[q][1] /\ h \in Routes
    BY <2>1
  <2> QED
    BY <1>1, <2>1, <2>2 DEF IInv, Ids
<1>4. /\ todo'[q] \in Seq(Routes) /\ Len(todo'[q]) = Len(todo[q]) - 1
      /\ \A i \in 1..Len(todo'[q]) : todo'[q][i] = todo[q][i + 1]
      /\ \A p \in Requests : p # q => todo'[p] = todo[p]
      /\ todo' \in [Requests -> Seq(Routes)]
  <2>1. todo'[q] = Tail(todo[q]) /\ \A p \in Requests : p # q => todo'[p] = todo[p]
    BY <1>1 DEF TypeOK
  <2>2. todo'[q] \in Seq(Routes) /\ todo' \in [Requests -> Seq(Routes)]
    BY <1>1, <1>3, <2>1 DEF TypeOK
  <2> QED
    BY <1>3, <2>1, <2>2
<1>5. /\ pc' \in [Requests -> {"idle", "done", "failed"} \cup Awaiting]
      /\ \A p \in Requests : p # q => pc'[p] = pc[p]
      /\ pc'[q] = "failed" \/ pc'[q] = next
  <2>1. next \in Awaiting
    BY DEF Awaiting
  <2> HIDE DEF next
  <2> QED
    BY <1>1, <2>1, Continues
<1>6. /\ rec \in RouteRecord /\ rec # NoRoute
      /\ route' \in [Routes -> RouteRecord \cup {NoRoute}]
      /\ route'[h] = rec /\ \A r \in Routes : r # h => route'[r] = route[r]
  <2>1. rec \in RouteRecord /\ rec # NoRoute
    BY <1>2 DEF RouteRecord, NoRoute
  <2> HIDE DEF rec, h
  <2> QED
    BY <1>1, <1>3, <2>1 DEF TypeOK
<1>7. \A r \in Routes : route[r] # NoRoute => r # h /\ route'[r] = route[r]
  BY <1>3, <1>6
<1>8. /\ \A p \in Requests : Selects(p)' = Selects(p)
      /\ \A p \in Requests : ForeignSelect(p)' = ForeignSelect(p)
      /\ \A p \in Requests : Selects(p) =>
            route'[req[p].route].shipment = route[req[p].route].shipment
      /\ PlannedHasRoute'
      /\ \A p \in Requests : Selects(p) =>
            \/ route'[req[p].route] # NoRoute
            \/ \A p2 \in Requests : req[p].route \notin req[p2].offered
      /\ \A p \in Requests : \A p2 \in Requests :
            /\ p # p2 /\ Selects(p)' /\ Selects(p2)' /\ InProgress(p)' /\ InProgress(p2)'
            /\ Touches(req[p].shipment, req[p].route)'
               \cap Touches(req[p2].shipment, req[p2].route)' # {}
            => p \in raced' /\ p2 \in raced'
  <2>1. InProgress(q)
    BY <1>1 DEF InProgress, Awaiting
  <2>2. \A r \in Routes : route[r] # NoRoute =>
           route'[r] # NoRoute /\ route'[r].shipment = route[r].shipment
    BY <1>7
  <2>3. \A r \in Routes : route[r] = NoRoute /\ (\A p \in Requests : r \notin req[p].offered)
           => route'[r] = NoRoute
    BY <1>3, <1>6
  <2> QED
    BY <1>1, <1>5, <2>1, <2>2, <2>3, OwnersStay
<1>9. \A r \in Routes : route'[r].status = "accepted" \/ route[r].status = "accepted"
                            => route'[r] = route[r]
  <2>1. route'[h].status # "accepted" /\ route[h].status # "accepted"
    BY <1>3, <1>6 DEF NoRoute
  <2> HIDE DEF h, rec
  <2> QED
    BY <1>3, <1>6, <2>1
<1> HIDE DEF h, rec
<1>10. TypeOK'
  <2>1. \A p \in Requests : /\ pc'[p] \in Places(req[p].kind)
                            /\ pc'[p] = "storing" => todo'[p] # <<>>
    <3>1. pc'[q] \in Places(req[q].kind) /\ (pc'[q] = "storing" => todo'[q] # <<>>)
      <4>1. pc'[q] \in {"failed", "planning", "storing"} /\ (pc'[q] = "storing" => Len(todo[q]) # 1)
        BY <1>5
      <4>2. Len(todo[q]) # 1 => Len(todo'[q]) > 0
        <5>1. Len(todo[q]) \in Nat \ {0}
          BY <1>3
        <5>2. Len(todo'[q]) = Len(todo[q]) - 1
          BY <1>4
        <5>3. \A n \in Nat \ {0} : n # 1 => n - 1 > 0
          OBVIOUS
        <5> QED
          BY <5>1, <5>2, <5>3
      <4>3. Len(todo'[q]) > 0 => todo'[q] # <<>>
        OBVIOUS
      <4> QED
        BY <1>2, <4>1, <4>2, <4>3 DEF Places
    <3> QED
      BY <1>1, <1>4, <1>5, <3>1 DEF TypeOK
  <2> QED
    BY <1>1, <1>4, <1>5, <1>6, <1>8, <2>1 DEF TypeOK
<1>11. \A p \in Requests : p # q => h \notin req[p].offered
  BY <1>3 DEF IInv, Ids
<1>12. Ids'
  <2>1. ASSUME NEW p \in Requests, pc'[p] = "storing", NEW i \in 1..Len(todo'[p])
        PROVE  /\ todo'[p][i] \in req[p].offered /\ route'[todo'[p][i]] = NoRoute
               /\ \A j \in 1..Len(todo'[p]) : i # j => todo'[p][i] # todo'[p][j]
    <3>1. CASE p = q
      <4>1. /\ i + 1 \in 1..Len(todo[q]) /\ i + 1 # 1 /\ 1 \in 1..Len(todo[q])
            /\ todo'[q][i] = todo[q][i + 1]
            /\ \A j \in 1..Len(todo'[q]) : /\ j + 1 \in 1..Len(todo[q])
                                           /\ todo'[q][j] = todo[q][j + 1]
                                           /\ i # j => i + 1 # j + 1
        BY <1>3, <1>4, <2>1, <3>1
      <4>2. /\ todo[q][i + 1] \in req[q].offered /\ route[todo[q][i + 1]] = NoRoute
            /\ \A j \in 1..Len(todo[q]) : i + 1 # j => todo[q][i + 1] # todo[q][j]
        BY <1>1, <4>1 DEF IInv, Ids
      <4>3. todo[q][i + 1] # h /\ todo[q][i + 1] \in Routes
        BY <1>2, <1>3, <4>1, <4>2
      <4> QED
        BY <1>6, <3>1, <4>1, <4>2, <4>3
    <3>2. CASE p # q
      <4>1. pc[p] = "storing" /\ todo'[p] = todo[p]
        BY <1>4, <1>5, <2>1, <3>2
      <4>2. /\ todo[p][i] \in req[p].offered /\ route[todo[p][i]] = NoRoute
            /\ \A j \in 1..Len(todo[p]) : i # j => todo[p][i] # todo[p][j]
        BY <2>1, <4>1 DEF IInv, Ids
      <4>3. todo[p][i] # h /\ todo[p][i] \in Routes
        BY <1>1, <1>11, <3>2, <4>1, <4>2, Arrived
      <4> QED
        BY <1>6, <4>1, <4>2, <4>3
    <3> QED
      BY <3>1, <3>2
  <2>2. /\ \A p \in Requests : \A p2 \in Requests :
              p # p2 => req'[p].offered \cap req'[p2].offered = {}
        /\ \A p \in Requests : Selects(p)' =>
              \/ route'[req'[p].route] # NoRoute
              \/ \A p2 \in Requests : req'[p].route \notin req'[p2].offered
    BY <1>1, <1>8 DEF IInv, Ids
  <2>3. \A p \in Requests : pc'[p] = "storing" =>
           \A i \in 1..Len(todo'[p]) :
              /\ todo'[p][i] \in req'[p].offered /\ route'[todo'[p][i]] = NoRoute
              /\ \A j \in 1..Len(todo'[p]) : i # j => todo'[p][i] # todo'[p][j]
    BY <1>1, <2>1
  <2> QED
    BY <2>2, <2>3 DEF Ids
<1>13. \A p \in Requests : \A r \in req[p].offered :
          pc[p] # "idle" /\ route[r].shipment = req[p].shipment =>
              route'[r].shipment = req[p].shipment
  <2> SUFFICES ASSUME NEW p \in Requests, NEW r \in req[p].offered,
                      pc[p] # "idle", route[r].shipment = req[p].shipment
               PROVE  route'[r].shipment = req[p].shipment
    OBVIOUS
  <2>1. r \in Routes /\ req[p].shipment # None
    BY <1>1, Arrived
  <2>2. route[r] # NoRoute
    BY <2>1 DEF NoRoute
  <2> QED
    BY <1>7, <2>1, <2>2
<1>14. \A r \in req[q].offered :
          \/ route'[r].shipment = req[q].shipment
          \/ \E i \in 1..Len(todo'[q]) : todo'[q][i] = r
  <2> SUFFICES ASSUME NEW r \in req[q].offered
               PROVE  \/ route'[r].shipment = req[q].shipment
                      \/ \E i \in 1..Len(todo'[q]) : todo'[q][i] = r
    OBVIOUS
  <2>1. CASE route[r].shipment = req[q].shipment
    BY <1>1, <1>13, <2>1
  <2>2. CASE \E i \in 1..Len(todo[q]) : todo[q][i] = r
    <3>1. PICK i \in 1..Len(todo[q]) : todo[q][i] = r
      BY <2>2
    <3>2. CASE i = 1
      BY <1>3, <1>6, <3>1, <3>2 DEF rec
    <3>3. CASE i # 1
      <4>1. i - 1 \in 1..Len(todo'[q]) /\ (i - 1) + 1 = i
        BY <1>3, <1>4, <3>3
      <4>2. todo'[q][i - 1] = todo[q][i]
        BY <1>4, <4>1
      <4> QED
        BY <3>1, <4>1, <4>2
    <3> QED
      BY <3>2, <3>3
  <2> QED
    BY <1>1, <2>1, <2>2 DEF IInv, Offers
<1>15. Offers'
  <2>1. \A p \in Requests : p # q /\ pc[p] = "storing" => \A r \in req[p].offered :
           \/ route'[r].shipment = req[p].shipment
           \/ \E i \in 1..Len(todo'[p]) : todo'[p][i] = r
    BY <1>4, <1>13 DEF IInv, Offers
  <2>2. /\ req[q].offered # {} /\ pc'[q] \notin {"lookup", "optimizing"}
    BY <1>1, <1>2, <1>5 DEF IInv, Offers
  <2>3. \A p \in Requests :
           /\ pc'[p] \in {"lookup", "optimizing"} => req[p].offered = {}
           /\ req[p].kind = "optimize" /\ pc'[p] \in {"storing", "planning"}
              => req[p].offered # {}
    BY <1>5, <2>2 DEF IInv, Offers
  <2>4. \A p \in Requests : pc'[p] = "storing" => \A r \in req[p].offered :
           \/ route'[r].shipment = req[p].shipment
           \/ \E i \in 1..Len(todo'[p]) : todo'[p][i] = r
    BY <1>5, <1>14, <2>1
  <2> QED
    BY <1>1, <2>3, <2>4 DEF Offers
<1>16. RepliedRoutesStored'
  <2>1. pc'[q] = "planning" => \A r \in req[q].offered : route'[r].shipment = req[q].shipment
    BY <1>3, <1>4, <1>5, <1>14
  <2>2. \A p \in Requests : p # q => pc'[p] = pc[p]
    BY <1>5
  <2>3. pc'[q] # "done"
    BY <1>5
  <2> QED
    BY <1>1, <1>13, <2>1, <2>2, <2>3 DEF IInv, RepliedRoutesStored
<1>17. \A p \in Requests : Selects(p) => p # q /\ pc'[p] = pc[p]
  BY <1>2, <1>5
<1>18. Rivals'
  <2>1. \A p \in Requests : Selects(p)' /\ pc'[p] \in {"planning", "done"} =>
           route'[req[p].route] # NoRoute
    <3>1. \A p \in Requests : Selects(p) => req[p].route \in Routes
      BY <1>1 DEF TypeOK
    <3> QED
      BY <1>7, <1>8, <1>17, <3>1 DEF IInv, Rivals
  <2>2. \A p \in Requests :
           Selects(p)' /\ ~ForeignSelect(p)' /\ p \notin raced' /\ pc'[p] = "selecting" =>
              Selected(req[p].shipment)' = {}
    <3>1. \A p \in Requests : Selected(req[p].shipment)' = Selected(req[p].shipment)
      BY <1>1, <1>9 DEF Selected
    <3> QED
      BY <1>1, <1>8, <1>17, <3>1 DEF IInv, Rivals
  <2> QED
    BY <1>1, <1>8, <2>1, <2>2 DEF Rivals
<1>19. ChosenAlone'
  <2>1. \A p \in Requests : Selected(req[p].shipment)' = Selected(req[p].shipment)
    BY <1>1, <1>9 DEF Selected
  <2> QED
    BY <1>1, <1>8, <1>17, <2>1 DEF IInv, ChosenAlone
<1>20. SelectionDue'
  <2> SUFFICES ASSUME NEW s \in Shipments,
                      NEW q0 \in Requests, Selects(q0), req[q0].shipment = s,
                      \A p \in Requests : Selects(p) /\ req[p].shipment = s =>
                          pc[p] \in {"selecting", "planning", "done"} /\ ~ForeignSelect(p)
               PROVE  \/ \E p \in Requests : Selects(p) /\ req[p].shipment = s /\ pc[p] = "selecting"
                      \/ Selected(s) # {}
    BY <1>1, <1>8, <1>9, <1>17 DEF SelectionDue, Selected
  <2> QED
    BY DEF IInv, SelectionDue
<1>21. NeverTwo'
  <2>1. \A s : Selected(s)' = Selected(s)
    BY <1>9 DEF Selected
  <2> QED
    BY <1>1, <1>8, <2>1, NeverTwoStays DEF IInv
<1> QED
  BY <1>8, <1>10, <1>12, <1>15, <1>16, <1>18, <1>19, <1>20, <1>21 DEF IInv

-------------------------------------------------------------------------------
(***************************************************************************)
(* A step of a select request: routes are marked, none changes hands.      *)
(***************************************************************************)
LEMMA SelectStep ==
    ASSUME IInv, NEW q \in Requests, pc[q] \in {"deselecting", "selecting"},
           UNCHANGED <<shipment, req, todo, lost, raced>>,
           route' \in [Routes -> RouteRecord \cup {NoRoute}],
           \A r \in Routes : route'[r].shipment = route[r].shipment,
           pc' \in [Requests -> {"idle", "done", "failed"} \cup Awaiting],
           \A p \in Requests : p # q => pc'[p] = pc[p],
           pc'[q] \in {"selecting", "planning", "failed"}
    PROVE  /\ TypeOK' /\ Ids' /\ Offers' /\ RepliedRoutesStored' /\ PlannedHasRoute'
           /\ Selects(q) /\ req[q].route \in Routes /\ req[q].shipment \in Shipments
           /\ \A r \in Routes : route[r] = NoRoute <=> route'[r] = NoRoute
           /\ \A p \in Requests : Selects(p)' = Selects(p)
           /\ \A p \in Requests : ForeignSelect(p)' = ForeignSelect(p)
           /\ \A p \in Requests : \A p2 \in Requests :
                 /\ p # p2 /\ Selects(p)' /\ Selects(p2)' /\ InProgress(p)' /\ InProgress(p2)'
                 /\ Touches(req[p].shipment, req[p].route)'
                    \cap Touches(req[p2].shipment, req[p2].route)' # {}
                 => p \in raced' /\ p2 \in raced'
<1>1. TypeOK /\ pc[q] # "idle" /\ InProgress(q)
  BY DEF IInv, InProgress, Awaiting
<1>2. /\ req[q].kind = "select" /\ Selects(q) /\ req[q].route \in Routes
      /\ req[q].shipment \in Shipments
  <2>1. req[q].kind = "select"
    BY <1>1, Arrived DEF Places, Request
  <2> QED
    BY <1>1, <2>1, Arrived
<1>3. \A r \in Routes : route[r] = NoRoute <=> route'[r] = NoRoute
  <2>1. \A rec \in RouteRecord \cup {NoRoute} : rec = NoRoute <=> rec.shipment = None
    BY ApiAssumption DEF RouteRecord, NoRoute
  <2> QED
    BY <1>1, <2>1 DEF TypeOK
<1>4. /\ \A p \in Requests : Selects(p)' = Selects(p)
      /\ \A p \in Requests : ForeignSelect(p)' = ForeignSelect(p)
      /\ PlannedHasRoute'
      /\ \A p \in Requests : Selects(p) =>
            \/ route'[req[p].route] # NoRoute
            \/ \A p2 \in Requests : req[p].route \notin req[p2].offered
      /\ \A p \in Requests : \A p2 \in Requests :
            /\ p # p2 /\ Selects(p)' /\ Selects(p2)' /\ InProgress(p)' /\ InProgress(p2)'
            /\ Touches(req[p].shipment, req[p].route)'
               \cap Touches(req[p2].shipment, req[p2].route)' # {}
            => p \in raced' /\ p2 \in raced'
  BY <1>1, <1>3, OwnersStay
<1>5. TypeOK'
  <2>1. \A p \in Requests : /\ pc'[p] \in Places(req[p].kind)
                            /\ pc'[p] = "storing" => todo'[p] # <<>>
    BY <1>1, <1>2 DEF TypeOK, Places
  <2> QED
    BY <1>1, <1>4, <2>1 DEF TypeOK
<1>6. \A p \in Requests : pc'[p] = "storing" => p # q /\ pc[p] = "storing"
  OBVIOUS
<1>7. \A p \in Requests : pc[p] # "idle" => req[p].offered \subseteq Routes
  BY <1>1, Arrived
<1>8. Ids'
  <2>1. ASSUME NEW p \in Requests, pc'[p] = "storing", NEW i \in 1..Len(todo[p])
        PROVE  /\ todo[p][i] \in req[p].offered /\ route'[todo[p][i]] = NoRoute
               /\ \A j \in 1..Len(todo[p]) : i # j => todo[p][i] # todo[p][j]
    <3>1. /\ todo[p][i] \in req[p].offered /\ route[todo[p][i]] = NoRoute
          /\ \A j \in 1..Len(todo[p]) : i # j => todo[p][i] # todo[p][j]
      BY <1>6, <2>1 DEF IInv, Ids
    <3> QED
      BY <1>3, <1>6, <1>7, <2>1, <3>1
  <2> QED
    BY <1>4, <2>1 DEF IInv, Ids
<1>9. Offers'
  <2>1. \A p \in Requests : pc'[p] = "storing" => \A r \in req[p].offered :
           \/ route'[r].shipment = req[p].shipment
           \/ \E i \in 1..Len(todo[p]) : todo[p][i] = r
    BY <1>6, <1>7 DEF IInv, Offers
  <2> QED
    BY <1>2, <2>1 DEF IInv, Offers
<1>10. RepliedRoutesStored'
  <2>1. \A p \in Requests : req[p].kind = "optimize" => p # q
    BY <1>2
  <2> QED
    BY <1>7, <2>1 DEF IInv, RepliedRoutesStored
<1> QED
  BY <1>2, <1>3, <1>4, <1>5, <1>8, <1>9, <1>10

LEMMA DeselectAllInv ==
    ASSUME IInv, NEW q \in Requests, DeselectAll(q)
    PROVE  IInv'
<1> DEFINE s0 == req[q].shipment
<1>1. /\ TypeOK /\ pc[q] = "deselecting" /\ UNCHANGED <<shipment, req, todo, lost, raced>>
      /\ route' = [r \in Routes |-> IF route[r].shipment = s0
                                     THEN [route[r] EXCEPT !.status = "proposed"] ELSE route[r]]
  BY DEF DeselectAll, IInv
<1>2. /\ pc' \in [Requests -> {"idle", "done", "failed"} \cup Awaiting]
      /\ \A p \in Requests : p # q => pc'[p] = pc[p]
      /\ pc'[q] \in {"failed", "selecting"}
  <2>1. "selecting" \in Awaiting
    BY DEF Awaiting
  <2> QED
    BY <1>1, <2>1, Continues DEF DeselectAll
<1>3. s0 \in Shipments /\ s0 # None
  BY <1>1, Arrived
<1>4. \A r \in Routes : /\ route'[r] \in RouteRecord \cup {NoRoute}
                        /\ route'[r].shipment = route[r].shipment
                        /\ route[r].shipment = s0 => route'[r].status = "proposed"
                        /\ route[r].shipment # s0 => route'[r] = route[r]
  <2> SUFFICES ASSUME NEW r \in Routes
               PROVE  /\ route'[r] \in RouteRecord \cup {NoRoute}
                      /\ route'[r].shipment = route[r].shipment
                      /\ route[r].shipment = s0 => route'[r].status = "proposed"
                      /\ route[r].shipment # s0 => route'[r] = route[r]
    OBVIOUS
  <2> HIDE DEF s0
  <2>1. route[r] \in RouteRecord \cup {NoRoute}
    BY <1>1 DEF TypeOK
  <2>2. CASE route[r].shipment = s0
    <3>1. route[r] \in RouteRecord
      BY <1>3, <2>1, <2>2 DEF NoRoute
    <3>2. route'[r] = [route[r] EXCEPT !.status = "proposed"]
      BY <1>1, <2>2
    <3> QED
      BY <2>2, <3>1, <3>2 DEF RouteRecord
  <2>3. CASE route[r].shipment # s0
    BY <1>1, <2>1, <2>3
  <2> QED
    BY <2>2, <2>3
<1>5. /\ TypeOK' /\ Ids' /\ Offers' /\ RepliedRoutesStored' /\ PlannedHasRoute'
      /\ Selects(q) /\ req[q].route \in Routes
      /\ \A r \in Routes : route[r] = NoRoute <=> route'[r] = NoRoute
      /\ \A p \in Requests : Selects(p)' = Selects(p)
      /\ \A p \in Requests : ForeignSelect(p)' = ForeignSelect(p)
      /\ \A p \in Requests : \A p2 \in Requests :
            /\ p # p2 /\ Selects(p)' /\ Selects(p2)' /\ InProgress(p)' /\ InProgress(p2)'
            /\ Touches(req[p].shipment, req[p].route)'
               \cap Touches(req[p2].shipment, req[p2].route)' # {}
            => p \in raced' /\ p2 \in raced'
  <2>1. route' \in [Routes -> RouteRecord \cup {NoRoute}]
    BY <1>1, <1>4
  <2> QED
    BY <1>1, <1>2, <1>4, <2>1, SelectStep
\* Between its own statements another select shares no shipment with q, or raced.
<1>7. \A p \in Requests : /\ p # q /\ Selects(p) /\ p \notin raced
                          /\ pc[p] \in {"selecting", "planning"}
                          => req[p].shipment # s0
  <2> SUFFICES ASSUME NEW p \in Requests, p # q, Selects(p),
                      pc[p] \in {"selecting", "planning"}, req[p].shipment = s0
               PROVE  p \in raced
    OBVIOUS
  <2>1. InProgress(p) /\ InProgress(q)
    BY <1>1 DEF InProgress, Awaiting
  <2>2. s0 \in Touches(req[p].shipment, req[p].route) \cap Touches(req[q].shipment, req[q].route)
    BY <1>3 DEF Touches
  <2> QED
    BY <1>5, <2>1, <2>2 DEF IInv, Rivals
<1>8. Rivals'
  <2>1. \A p \in Requests : Selects(p)' /\ pc'[p] \in {"planning", "done"} =>
           route'[req[p].route] # NoRoute
    <3>1. \A p \in Requests : Selects(p) => req[p].route \in Routes
      BY <1>1 DEF TypeOK
    <3> QED
      BY <1>2, <1>5, <3>1 DEF IInv, Rivals
  <2>2. \A p \in Requests :
           Selects(p)' /\ ~ForeignSelect(p)' /\ p \notin raced' /\ pc'[p] = "selecting" =>
              Selected(req[p].shipment)' = {}
    <3>1. Selected(req[q].shipment)' = {}
      BY <1>1, <1>4 DEF Selected
    <3>2. ASSUME NEW p \in Requests, p # q,
                 Selects(p)', ~ForeignSelect(p)', p \notin raced', pc'[p] = "selecting"
          PROVE  Selected(req[p].shipment)' = {}
      <4>1. req[p].shipment # s0 /\ Selected(req[p].shipment) = {}
        BY <1>1, <1>2, <1>5, <1>7, <3>2 DEF IInv, Rivals
      <4>2. Selected(req[p].shipment)' = Selected(req[p].shipment)
        BY <1>1, <1>4, <4>1 DEF Selected
      <4> QED
        BY <4>1, <4>2
    <3> QED
      BY <3>1, <3>2
  <2> QED
    BY <1>1, <1>5, <2>1, <2>2 DEF Rivals
<1>9. ChosenAlone'
  <2> SUFFICES ASSUME NEW p \in Requests, Selects(p)', ~ForeignSelect(p)', p \notin raced',
                      pc'[p] = "planning"
               PROVE  Selected(req[p].shipment)' = {req[p].route}
    BY <1>1 DEF ChosenAlone
  <2>1. p # q /\ Selects(p) /\ ~ForeignSelect(p) /\ p \notin raced /\ pc[p] = "planning"
    BY <1>1, <1>2, <1>5
  <2>2. req[p].shipment # s0 /\ Selected(req[p].shipment) = {req[p].route}
    BY <1>7, <2>1 DEF IInv, ChosenAlone
  <2>3. Selected(req[p].shipment)' = Selected(req[p].shipment)
    BY <1>1, <1>4, <2>2 DEF Selected
  <2> QED
    BY <2>2, <2>3
<1>10. SelectionDue'
  <2> SUFFICES ASSUME NEW s \in Shipments,
                      NEW q0 \in Requests, Selects(q0), req[q0].shipment = s,
                      \A p \in Requests : Selects(p) /\ req[p].shipment = s =>
                          pc'[p] \in {"selecting", "planning", "done"} /\ ~ForeignSelect(p)
               PROVE  \/ \E p \in Requests : Selects(p) /\ req[p].shipment = s /\ pc'[p] = "selecting"
                      \/ Selected(s)' # {}
    BY <1>1, <1>5 DEF SelectionDue
  <2>1. CASE s = s0
    BY <1>2, <1>5, <2>1
  <2>2. CASE s # s0
    <3>1. \A p \in Requests : Selects(p) /\ req[p].shipment = s => pc'[p] = pc[p]
      BY <1>2, <2>2
    <3>2. Selected(s)' = Selected(s)
      BY <1>4, <2>2 DEF Selected
    <3> QED
      BY <3>1, <3>2 DEF IInv, SelectionDue
  <2> QED
    BY <2>1, <2>2
<1>11. NeverTwo'
  <2>1. \A s : Selected(s)' \subseteq Selected(s)
    BY <1>4 DEF Selected
  <2>2. \A p \in Requests : Selects(p) => req[p].route \in Routes
    BY <1>1 DEF TypeOK
  <2> QED
    BY <1>1, <1>4, <1>5, <2>1, <2>2, NeverTwoStays DEF IInv
<1> QED
  BY <1>5, <1>8, <1>9, <1>10, <1>11 DEF IInv

\* The chosen route is selected; no other select relies on the selection of
\* its owner, unless it raced.
LEMMA SelectChosenInv ==
    ASSUME IInv, NEW q \in Requests, SelectChosen(q)
    PROVE  IInv'
<1> DEFINE r0 == req[q].route
           owner == route[r0].shipment
<1>1. /\ TypeOK /\ pc[q] = "selecting" /\ UNCHANGED <<shipment, req, todo, lost, raced>>
      /\ route[r0] # NoRoute
      /\ route' = [route EXCEPT ![r0].status = "accepted"]
  BY DEF SelectChosen, IInv
<1>2. /\ pc' \in [Requests -> {"idle", "done", "failed"} \cup Awaiting]
      /\ \A p \in Requests : p # q => pc'[p] = pc[p]
      /\ pc'[q] \in {"failed", "planning"}
  <2>1. "planning" \in Awaiting
    BY DEF Awaiting
  <2> QED
    BY <1>1, <2>1, Continues DEF SelectChosen
<1>3. r0 \in Routes /\ Selects(q)
  <2>1. req[q].kind = "select"
    BY <1>1, Arrived DEF Places, Request
  <2> QED
    BY <1>1, <2>1, Arrived
<1>4. /\ route' \in [Routes -> RouteRecord \cup {NoRoute}]
      /\ route'[r0].shipment = owner /\ route'[r0].status = "accepted"
      /\ route'[r0] # NoRoute /\ owner # None /\ owner \in Shipments
      /\ \A r \in Routes : r # r0 => route'[r] = route[r]
  <2>1. route[r0] \in RouteRecord
    BY <1>1, <1>3 DEF TypeOK
  <2>2. route'[r0] = [route[r0] EXCEPT !.status = "accepted"]
        /\ \A r \in Routes : r # r0 => route'[r] = route[r]
    BY <1>1, <1>3 DEF TypeOK
  <2>3. route'[r0] \in RouteRecord /\ route'[r0].shipment = owner
        /\ route'[r0].status = "accepted" /\ owner \in Shipments
    BY <2>1, <2>2 DEF RouteRecord
  <2> HIDE DEF r0, owner
  <2>4. route'[r0] # NoRoute /\ owner # None
    BY <2>3, ApiAssumption DEF NoRoute
  <2> QED
    BY <1>1, <1>3, <2>2, <2>3, <2>4 DEF TypeOK
<1>5. /\ TypeOK' /\ Ids' /\ Offers' /\ RepliedRoutesStored' /\ PlannedHasRoute'
      /\ \A r \in Routes : route[r] = NoRoute <=> route'[r] = NoRoute
      /\ \A p \in Requests : Selects(p)' = Selects(p)
      /\ \A p \in Requests : ForeignSelect(p)' = ForeignSelect(p)
      /\ \A p \in Requests : \A p2 \in Requests :
            /\ p # p2 /\ Selects(p)' /\ Selects(p2)' /\ InProgress(p)' /\ InProgress(p2)'
            /\ Touches(req[p].shipment, req[p].route)'
               \cap Touches(req[p2].shipment, req[p2].route)' # {}
            => p \in raced' /\ p2 \in raced'
  <2>1. \A r \in Routes : route'[r].shipment = route[r].shipment
    BY <1>4
  <2> QED
    BY <1>1, <1>2, <1>4, <2>1, SelectStep
<1>7. \A p \in Requests : /\ p # q /\ Selects(p) /\ p \notin raced
                          /\ pc[p] \in {"selecting", "planning"}
                          => req[p].shipment # owner
  <2> SUFFICES ASSUME NEW p \in Requests, p # q, Selects(p),
                      pc[p] \in {"selecting", "planning"}, req[p].shipment = owner
               PROVE  p \in raced
    OBVIOUS
  <2>1. InProgress(p) /\ InProgress(q)
    BY <1>1 DEF InProgress, Awaiting
  <2>2. owner \in Touches(req[p].shipment, req[p].route) \cap Touches(req[q].shipment, req[q].route)
    BY <1>4 DEF Touches
  <2> QED
    BY <1>3, <2>1, <2>2 DEF IInv, Rivals
<1>8. Rivals'
  <2>1. \A p \in Requests : Selects(p)' /\ pc'[p] \in {"planning", "done"} =>
           route'[req[p].route] # NoRoute
    <3>1. \A p \in Requests : Selects(p) => req[p].route \in Routes
      BY <1>1 DEF TypeOK
    <3> QED
      BY <1>1, <1>2, <1>5, <3>1 DEF IInv, Rivals
  <2>2. ASSUME NEW p \in Requests,
               Selects(p)', ~ForeignSelect(p)', p \notin raced', pc'[p] = "selecting"
        PROVE  Selected(req[p].shipment)' = {}
    <3>1. p # q /\ req[p].shipment # owner /\ Selected(req[p].shipment) = {}
      BY <1>1, <1>2, <1>5, <1>7, <2>2 DEF IInv, Rivals
    <3>2. Selected(req[p].shipment)' = Selected(req[p].shipment)
      BY <1>1, <1>3, <1>4, <3>1 DEF Selected
    <3> QED
      BY <3>1, <3>2
  <2> QED
    BY <1>1, <1>5, <2>1, <2>2 DEF Rivals
<1>9. ChosenAlone'
  <2> SUFFICES ASSUME NEW p \in Requests, Selects(p)', ~ForeignSelect(p)', p \notin raced',
                      pc'[p] = "planning"
               PROVE  Selected(req[p].shipment)' = {req[p].route}
    BY <1>1 DEF ChosenAlone
  <2>1. Selects(p) /\ ~ForeignSelect(p) /\ p \notin raced
    BY <1>1, <1>5
  <2>2. CASE p = q
    <3>1. Selected(req[q].shipment) = {} /\ req[q].shipment = owner
      BY <1>1, <2>1, <2>2 DEF IInv, Rivals, ForeignSelect
    <3>2. Selected(req[q].shipment)' = {r0}
      BY <1>1, <1>3, <1>4, <3>1 DEF Selected
    <3> QED
      BY <1>1, <2>2, <3>2
  <2>3. CASE p # q
    <3>1. req[p].shipment # owner /\ Selected(req[p].shipment) = {req[p].route}
      BY <1>2, <1>7, <2>1, <2>3 DEF IInv, ChosenAlone
    <3>2. Selected(req[p].shipment)' = Selected(req[p].shipment)
      BY <1>1, <1>3, <1>4, <3>1 DEF Selected
    <3> QED
      BY <3>1, <3>2
  <2> QED
    BY <2>2, <2>3
<1>10. SelectionDue'
  <2> SUFFICES ASSUME NEW s \in Shipments,
                      NEW q0 \in Requests, Selects(q0), req[q0].shipment = s,
                      \A p \in Requests : Selects(p) /\ req[p].shipment = s =>
                          pc'[p] \in {"selecting", "planning", "done"} /\ ~ForeignSelect(p)
               PROVE  \/ \E p \in Requests : Selects(p) /\ req[p].shipment = s /\ pc'[p] = "selecting"
                      \/ Selected(s)' # {}
    BY <1>1, <1>5 DEF SelectionDue
  <2>1. CASE s = req[q].shipment
    <3>1. owner = s
      BY <1>3, <2>1 DEF ForeignSelect
    <3> QED
      BY <1>3, <1>4, <3>1 DEF Selected
  <2>2. CASE s # req[q].shipment
    <3>1. \A p \in Requests : Selects(p) /\ req[p].shipment = s => p # q /\ pc'[p] = pc[p]
      BY <1>2, <2>2
    <3>2. Selected(s) \subseteq Selected(s)'
      BY <1>3, <1>4 DEF Selected
    <3> QED
      BY <3>1, <3>2 DEF IInv, SelectionDue
  <2> QED
    BY <2>1, <2>2
<1>11. NeverTwo'
  <2>1. \A p \in Requests : Selects(p) => req[p].route \in Routes
    BY <1>1 DEF TypeOK
  <2>2. ASSUME NEW s \in Shipments, InTurn(s), s = owner
        PROVE  \A i \in Selected(s)' : \A j \in Selected(s)' : i = j
    <3>1. owner \in Touches(req[q].shipment, req[q].route)
      BY <1>4 DEF Touches
    <3>2. q \notin raced /\ ~ForeignSelect(q)
      BY <1>3, <2>2, <3>1 DEF InTurn
    <3>3. req[q].shipment = owner /\ Selected(s) = {}
      BY <1>1, <1>3, <2>2, <3>2 DEF IInv, Rivals, ForeignSelect
    <3>4. \A i \in Selected(s)' : i = r0
      BY <1>4, <3>3 DEF Selected
    <3> QED
      BY <3>4
  <2>3. \A s \in Shipments : s # owner => Selected(s)' \subseteq Selected(s)
    BY <1>3, <1>4 DEF Selected
  <2>4. \A r \in Routes : route'[r].shipment = route[r].shipment
    BY <1>4
  <2> QED
    BY <1>1, <1>5, <2>1, <2>2, <2>3, <2>4, NeverTwoStays DEF IInv
<1> QED
  BY <1>5, <1>8, <1>9, <1>10, <1>11 DEF IInv

-------------------------------------------------------------------------------
LEMMA StutterInv ==
    ASSUME IInv, UNCHANGED vars
    PROVE  IInv'
<1>1. UNCHANGED <<shipment, route, req, pc, todo, lost, raced>>
  BY DEF vars
<1>2. /\ \A p \in Requests : Selects(p)' = Selects(p) /\ ForeignSelect(p)' = ForeignSelect(p)
      /\ \A p \in Requests : InProgress(p)' = InProgress(p)
      /\ \A s : Selected(s)' = Selected(s)
      /\ \A s, r : Touches(s, r)' = Touches(s, r)
  BY <1>1 DEF Selects, ForeignSelect, InProgress, Selected, Touches
<1>3. TypeOK' /\ Ids' /\ Offers' /\ RepliedRoutesStored'
  BY <1>1, <1>2 DEF IInv, TypeOK, Ids, Offers, RepliedRoutesStored
<1>4. PlannedHasRoute' /\ SelectionDue'
  BY <1>1, <1>2 DEF IInv, PlannedHasRoute, SelectionDue
<1>5. Rivals' /\ ChosenAlone'
  <2>1. \A p \in Requests :
           /\ Selected(req[p].shipment)' = Selected(req[p].shipment)
           /\ Touches(req[p].shipment, req[p].route)' = Touches(req[p].shipment, req[p].route)
    BY <1>1 DEF Selected, Touches
  <2> QED
    BY <1>1, <1>2, <2>1 DEF IInv, Rivals, ChosenAlone
<1>6. NeverTwo'
  BY <1>1, <1>2, NeverTwoStays DEF IInv
<1> QED
  BY <1>3, <1>4, <1>5, <1>6 DEF IInv

LEMMA NextInv == IInv /\ [Next]_vars => IInv'
<1> SUFFICES ASSUME IInv, [Next]_vars
             PROVE  IInv'
  OBVIOUS
<1>1. ASSUME NEW q \in Requests, CreateArrives(q) \/ CreateShipment(q)
      PROVE  IInv'
  BY <1>1, CreateArrivesInv, CreateShipmentInv
<1>2. ASSUME NEW q \in Requests,
             OptimizeArrives(q) \/ LookUp(q) \/ AwaitOptimizer(q) \/ StoreRoute(q)
      PROVE  IInv'
  BY <1>2, OptimizeArrivesInv, LookUpInv, AwaitOptimizerInv, StoreRouteInv
<1>3. ASSUME NEW q \in Requests, SelectArrives(q) \/ DeselectAll(q) \/ SelectChosen(q)
      PROVE  IInv'
  BY <1>3, SelectArrivesInv, DeselectAllInv, SelectChosenInv
<1>4. ASSUME NEW q \in Requests, PlanShipment(q) \/ CallFails(q) \/ LoseAnswer(q)
      PROVE  IInv'
  BY <1>4, PlanShipmentInv, CallFailsInv, LoseAnswerInv
<1>5. CASE UNCHANGED vars
  BY <1>5, StutterInv
<1> QED
  BY <1>1, <1>2, <1>3, <1>4, <1>5 DEF Next

\* Every interleaving of the three handlers keeps IInv: what the database and
\* the requests under way hold together stays consistent as Ids, Offers, Rivals
\* and SelectionDue say, for any number of requests, shipments and routes.
THEOREM ApiInvariant == Spec => []IInv
<1>1. Init => IInv
  BY InitIInv
<1>2. IInv /\ [Next]_vars => IInv'
  BY NextInv
<1> QED
  BY <1>1, <1>2, PTL DEF Spec

\* No handler is ever at an await of another, or about to store from an empty
\* list of routes.
THEOREM ApiTypeOK == Spec => []TypeOK
<1>1. IInv => TypeOK
  BY DEF IInv
<1> QED
  BY <1>1, ApiInvariant, PTL

\* handleOptimizeRoutes, answering with success, has stored every route of its
\* answer under the shipment it was asked for, and nothing undoes that.
THEOREM ApiRepliedRoutesStored == Spec => []RepliedRoutesStored
<1>1. IInv => RepliedRoutesStored
  BY DEF IInv
<1> QED
  BY <1>1, ApiInvariant, PTL

\* No interleaving, failure or lost answer leaves a shipment 'planned' without
\* a route, unless handleSelectRoute was asked for a route of another shipment.
THEOREM ApiPlannedHasRoute == Spec => []PlannedHasRoute
<1>1. IInv => PlannedHasRoute
  BY DEF IInv
<1> QED
  BY <1>1, ApiInvariant, PTL

\* handleSelectRoute, when it overlaps no other select of the same routes,
\* ends with its route as the only one selected; and requests that follow one
\* another never leave two routes selected, at whatever statement one failed.
THEOREM ApiSelectAlone == Spec => []SelectAlone
<1>1. IInv => SelectAlone
  BY DEF IInv, SelectAlone
<1> QED
  BY <1>1, ApiInvariant, PTL

\* Interleaved selects that all succeed never lose the selection: the last
\* statement to deselect is followed by one that selects.
THEOREM ApiSelectedUnlessFailed == Spec => []SelectedUnlessFailed
<1>1. IInv => SelectedUnlessFailed
  <2> SUFFICES ASSUME IInv, NEW s \in Shipments,
                      {q \in Requests : Selects(q) /\ req[q].shipment = s} # {},
                      \A q \in Requests : Selects(q) /\ req[q].shipment = s =>
                          pc[q] = "done" /\ ~ForeignSelect(q)
               PROVE  Selected(s) # {}
    BY DEF SelectedUnlessFailed
  <2> QED
    BY DEF IInv, SelectionDue
<1> QED
  BY <1>1, ApiInvariant, PTL
================================================================================
