------------------------------ MODULE ConstraintDSL ------------------------------
(***************************************************************************)
(* The constraint language of Constraint.res: its expressions, the two     *)
(* functions that evaluate them (on a route, and on one segment of it),    *)
(* the built-in templates, and the evaluation of a list of constraints.    *)
(*                                                                         *)
(* A value is its type and a number.  Only the order of strings matters:   *)
(* a string is its place in that order.  Floats are whole numbers, and an  *)
(* average is compared before it is divided.                               *)
(***************************************************************************)
EXTENDS Sequences, FiniteSets, Sums

CONSTANTS
    Depth,     \* by expression, their parts included: how deep it is nested
    Batches,   \* lists of constraints to be evaluated
    RouteSet,  \* routes to evaluate them on
    Arguments  \* numbers the templates are given

VARIABLES
    constraints,  \* the list under evaluation
    route,
    results       \* the results so far, in the order of the constraints

vars == <<constraints, route, results>>
-------------------------------------------------------------------------------
(***************************************************************************)
(* Values, fields and comparisons.                                         *)
(***************************************************************************)
VInt(n) == [type |-> "int", is |-> n]
VFloat(x) == [type |-> "float", is |-> x]
VString(s) == [type |-> "string", is |-> s]
VBool(b) == [type |-> "bool", is |-> IF b THEN 1 ELSE 0]
VNull == [type |-> "null", is |-> 0]

Value == [type : {"int", "float", "string", "bool", "null"}, is : Int]

\* The option None: the context has no such field.
Missing == [type |-> "none", is |-> 0]

Numeric(v) == v.type \in {"int", "float"}

RouteFloats ==
    {"totalCostUsd", "totalCarbonKg", "totalTransitHours", "totalDistanceKm",
     "laborScore", "constraintScore"}

SegmentFloats == {"distanceKm", "costUsd", "transitHours", "carbonKg", "laborScore"}

Segment ==
    [SegmentFloats \cup {"carrierWageCents", "sequence", "carrierCode", "mode"} -> Int]

\* paretoOptimal and the rest cannot be referred to.
Route == [floats : [RouteFloats -> Int], paretoRank : Int, segments : Seq(Segment)]

GetRouteFieldValue(rt, name) ==
    CASE name \in RouteFloats -> VFloat(rt.floats[name])
      [] name = "paretoRank" -> VInt(rt.paretoRank)
      [] name = "segmentCount" -> VInt(Len(rt.segments))
      [] OTHER -> Missing

GetSegmentFieldValue(seg, name) ==
    CASE name \in SegmentFloats -> VFloat(seg[name])
      [] name \in {"carrierWageCents", "sequence"} -> VInt(seg[name])
      [] name \in {"carrierCode", "mode"} -> VString(seg[name])
      [] OTHER -> Missing

\* Carrier data are not looked up: rating and union are placeholders.
CarrierFieldValue(seg, name) ==
    CASE name = "code" -> VString(seg["carrierCode"])
      [] name = "safetyRating" -> VInt(3)
      [] name = "unionized" -> VBool(FALSE)
      [] OTHER -> Missing

Comparison == {"Eq", "Ne", "Lt", "Lte", "Gt", "Gte"}

Holds(a, cmp, b) ==
    CASE cmp = "Eq" -> a = b
      [] cmp = "Ne" -> a # b
      [] cmp = "Lt" -> a < b
      [] cmp = "Lte" -> a <= b
      [] cmp = "Gt" -> a > b
      [] cmp = "Gte" -> a >= b

MutCompareValues(v1, cmp, v2) ==
    /\ \/ Numeric(v1) /\ Numeric(v2)
       \/ v1.type = "string" /\ v2.type = "string"
       \/ v1.type = "bool" /\ v2.type = "bool" /\ cmp \in {"Eq", "Ne"}
    /\ Holds(v1.is, IF cmp = "Lte" THEN "Lt" ELSE cmp, v2.is)

\* Values of different types, nulls and arrays never compare, not even as Ne.
CompareValues(v1, cmp, v2) ==
    /\ \/ Numeric(v1) /\ Numeric(v2)
       \/ v1.type = "string" /\ v2.type = "string"
       \/ v1.type = "bool" /\ v2.type = "bool" /\ cmp \in {"Eq", "Ne"}
    /\ Holds(v1.is, cmp, v2.is)

MutValueInSet(v, values) == \A w \in values : CompareValues(v, "Eq", w)

ValueInSet(v, values) == \E w \in values : CompareValues(v, "Eq", w)
-------------------------------------------------------------------------------
(***************************************************************************)
(* Expressions.  f is a field: of route, segment, carrier or shipment.     *)
(***************************************************************************)
Field(owner, name) == [of |-> owner, name |-> name]

FieldRef == [of : {"route", "segment", "carrier", "shipment"}, name : STRING]

Compare(f, cmp, v) == [op |-> "compare", field |-> f, cmp |-> cmp, value |-> v]
AndOf(a, b) == [op |-> "and", left |-> a, right |-> b]
OrOf(a, b) == [op |-> "or", left |-> a, right |-> b]
NotOf(e) == [op |-> "not", arg |-> e]
AllOf(e) == [op |-> "all", arg |-> e]
AnyOf(e) == [op |-> "any", arg |-> e]
Count(e, cmp, v) == [op |-> "count", arg |-> e, cmp |-> cmp, value |-> v]
Sum(f, cmp, v) == [op |-> "sum", field |-> f, cmp |-> cmp, value |-> v]
Avg(f, cmp, v) == [op |-> "avg", field |-> f, cmp |-> cmp, value |-> v]
InSet(f, values) == [op |-> "inSet", field |-> f, values |-> values]
NotInSet(f, values) == [op |-> "notInSet", field |-> f, values |-> values]
Between(f, low, high) == [op |-> "between", field |-> f, low |-> low, high |-> high]
Exists(f) == [op |-> "exists", field |-> f]
Literal(b) == [op |-> "literal", holds |-> b]

Expressions == DOMAIN Depth

Parts(e) ==
    CASE e.op \in {"and", "or"} -> {e.left, e.right}
      [] e.op \in {"not", "all", "any", "count"} -> {e.arg}
      [] OTHER -> {}

\* What the type expr demands, as far as evaluation depends on it.
IsExpression(e) ==
    /\ e.op \in {"compare", "and", "or", "not", "all", "any", "count", "sum", "avg",
                 "inSet", "notInSet", "between", "exists", "literal"}
    /\ e.op = "literal" => e.holds \in BOOLEAN
    /\ e.op \in {"compare", "sum", "avg", "inSet", "notInSet", "between", "exists"} =>
          e.field \in FieldRef
    /\ e.op \in {"compare", "count", "sum", "avg"} => e.cmp \in Comparison /\ e.value \in Value

\* Expressions are finite trees.
ASSUME ConstraintAssumption ==
    /\ Depth \in [Expressions -> Nat]
    /\ \A e \in Expressions :
          /\ IsExpression(e)
          /\ \A part \in Parts(e) : part \in Expressions /\ Depth[part] < Depth[e]
    /\ \A batch \in Batches :
          batch \in Seq([id : STRING, isHard : BOOLEAN, expression : Expressions])
    /\ RouteSet \subseteq Route
-------------------------------------------------------------------------------
(***************************************************************************)
(* Evaluation, in a context whose route is the whole route, at = 0, or is  *)
(* cut down to segment at of it.  verdict[p][i] is the verdict on a part p *)
(* of the expression: evaluate's on the whole route, i = 0, and            *)
(* evaluateWithSegment's on segment i.                                     *)
(***************************************************************************)
\* {...ctx, route: {...ctx.route, segments: [segment]}}
ContextRoute(rt, at) == [rt EXCEPT !.segments = IF at = 0 THEN @ ELSE <<@[at]>>]

\* The segments of the context's route.
Segments(rt, at) == IF at = 0 THEN DOMAIN rt.segments ELSE {at}

\* The i-th segment's share in a sum or an average.
Amount(f, rt, i) ==
    IF f.of = "segment" THEN GetSegmentFieldValue(rt.segments[i], f.name) ELSE Missing

Counted(f, rt, at) == {i \in Segments(rt, at) : Numeric(Amount(f, rt, i))}

Total(f, rt, at) ==
    SumOf([i \in Segments(rt, at) |-> IF i \in Counted(f, rt, at) THEN Amount(f, rt, i).is ELSE 0])

\* total / number compared to v, without the division; no number averages 0.
CompareAverage(total, number, cmp, v) ==
    CompareValues(VFloat(total), cmp, [v EXCEPT !.is = @ * IF number = 0 THEN 1 ELSE number])

\* An expression on the context's route; nothing knows a segment here.
Evaluate(verdict, e, rt, at) ==
    LET value == IF e.field.of = "route"
                 THEN GetRouteFieldValue(ContextRoute(rt, at), e.field.name) ELSE Missing
        matching == {i \in Segments(rt, at) : verdict[e.arg][i]}
    IN  CASE e.op = "literal" -> e.holds
          [] e.op = "compare" -> CompareValues(value, e.cmp, e.value)
          [] e.op = "and" -> verdict[e.left][at] /\ verdict[e.right][at]
          [] e.op = "or" -> verdict[e.left][at] \/ verdict[e.right][at]
          [] e.op = "not" -> ~verdict[e.arg][at]
          [] e.op = "all" -> matching = Segments(rt, at)
          [] e.op = "any" -> matching # {}
          [] e.op = "count" -> CompareValues(VInt(Cardinality(matching)), e.cmp, e.value)
          [] e.op = "sum" -> CompareValues(VFloat(Total(e.field, rt, at)), e.cmp, e.value)
          [] e.op = "avg" -> CompareAverage(Total(e.field, rt, at),
                                            Cardinality(Counted(e.field, rt, at)), e.cmp, e.value)
          [] e.op = "inSet" -> ValueInSet(value, e.values)
          [] e.op = "notInSet" -> ~ValueInSet(value, e.values)
          [] e.op = "between" -> /\ CompareValues(value, "Gte", e.low)
                                 /\ CompareValues(value, "Lte", e.high)
          [] e.op = "exists" -> value # Missing

\* On segment at: what is not listed is evaluated on the route of the context,
\* where segment and carrier fields are missing.
EvaluateWithSegment(verdict, e, rt, at) ==
    LET seg == rt.segments[at]
        value == CASE e.field.of = "route" -> GetRouteFieldValue(ContextRoute(rt, at), e.field.name)
                   [] e.field.of = "segment" -> GetSegmentFieldValue(seg, e.field.name)
                   [] e.field.of = "carrier" -> CarrierFieldValue(seg, e.field.name)
                   [] OTHER -> Missing
        isIn == e.field.of = "segment" /\ ValueInSet(value, e.values)
    IN  CASE e.op = "compare" -> CompareValues(value, e.cmp, e.value)
          [] e.op = "inSet" -> isIn
          [] e.op = "notInSet" -> ~isIn
          [] e.op = "and" -> verdict[e.left][at] /\ verdict[e.right][at]
          [] e.op = "or" -> verdict[e.left][at] \/ verdict[e.right][at]
          [] e.op = "not" -> ~verdict[e.arg][at]
          [] OTHER -> Evaluate(verdict, e, rt, at)

\* The two functions call each other on the parts of an expression.
Verdicts(rt) ==
    LET verdict[e \in Expressions] ==
          [at \in 0..Len(rt.segments) |->
              IF at = 0 THEN Evaluate(verdict, e, rt, 0) ELSE EvaluateWithSegment(verdict, e, rt, at)]
    IN  verdict
-------------------------------------------------------------------------------
(***************************************************************************)
(* Built-in templates, with the numbers or sets they are given.            *)
(***************************************************************************)
Hard(id, e) == [id |-> id, isHard |-> TRUE, expression |-> e]
Soft(id, e) == [id |-> id, isHard |-> FALSE, expression |-> e]

MinWage(cents) ==
    Hard("min-wage", AllOf(Compare(Field("segment", "carrierWageCents"), "Gte", VInt(cents))))
NoSanctionedCarriers(codes) ==
    Hard("no-sanctioned-carriers",
         AllOf(NotInSet(Field("segment", "carrierCode"), {VString(c) : c \in codes})))
CarbonBudget(kg) ==
    Soft("carbon-budget", Compare(Field("route", "totalCarbonKg"), "Lte", VFloat(kg)))
CostBudget(usd) ==
    Soft("cost-budget", Compare(Field("route", "totalCostUsd"), "Lte", VFloat(usd)))
TimeWindow(hours) ==
    Hard("time-window", Compare(Field("route", "totalTransitHours"), "Lte", VFloat(hours)))
MinSafetyRating(rating) ==
    Soft("min-safety-rating", AllOf(Compare(Field("carrier", "safetyRating"), "Gte", VInt(rating))))
UnionPreference ==
    Soft("union-preference", AnyOf(Compare(Field("carrier", "unionized"), "Eq", VBool(TRUE))))
MaxSegments(max) ==
    Soft("max-segments", Compare(Field("route", "segmentCount"), "Lte", VInt(max)))
MinLaborScore(score) ==
    Soft("min-labor-score", Compare(Field("route", "laborScore"), "Gte", VFloat(score)))
AllowedModes(modes) ==
    Hard("allowed-modes", AllOf(InSet(Field("segment", "mode"), {VString(m) : m \in modes})))
-------------------------------------------------------------------------------
(***************************************************************************)
(* evaluateConstraints: the constraints in order, a result for each.       *)
(***************************************************************************)
Init ==
    /\ constraints \in Batches
    /\ route \in RouteSet
    /\ results = <<>>

MutEvaluateConstraint ==
    /\ Len(results) < Len(constraints)
    /\ LET c == constraints[Len(results) + 1]
           passed == Verdicts(route)[c.expression][0]
       IN  results' = Append(results, [passed |-> passed, isHard |-> c.isHard,
                                       score |-> IF passed THEN 100 ELSE 0])
    /\ UNCHANGED <<constraints, route>>

EvaluateConstraint ==
    /\ Len(results) < Len(constraints)
    /\ LET c == constraints[Len(results) + 1]
           passed == Verdicts(route)[c.expression][0]
       IN  results' = Append(results, [passed |-> passed, isHard |-> c.isHard,
                                       score |-> IF passed THEN 1 ELSE 0])
    /\ UNCHANGED <<constraints, route>>

Spec == Init /\ [][EvaluateConstraint]_vars

AllHardConstraintsPassed(rs) == \A i \in DOMAIN rs : ~rs[i].isHard \/ rs[i].passed

\* The score as a fraction; that of no results is 1.
OverallScore(rs) ==
    IF rs = <<>> THEN [num |-> 1, den |-> 1]
    ELSE [num |-> SumOf([i \in DOMAIN rs |-> rs[i].score]), den |-> Len(rs)]
-------------------------------------------------------------------------------
(***************************************************************************)
(* What an expression means, by the comments on its constructors: one      *)
(* definition for routes and segments.  at is the segment a quantifier is  *)
(* at, 0 outside quantifiers; quantifiers range over the whole route.      *)
(***************************************************************************)
FieldAt(f, rt, at) ==
    CASE f.of = "route" -> GetRouteFieldValue(rt, f.name)
      [] f.of = "segment" /\ at # 0 -> GetSegmentFieldValue(rt.segments[at], f.name)
      [] f.of = "carrier" /\ at # 0 -> CarrierFieldValue(rt.segments[at], f.name)
      [] OTHER -> Missing

\* Legs where f is a number.
LegsWith(f, rt) == {i \in DOMAIN rt.segments : f.of = "segment" /\ Numeric(FieldAt(f, rt, i))}

TotalOf(f, rt) == SumOf([i \in LegsWith(f, rt) |-> FieldAt(f, rt, i).is])

\* meaning[p] says of the parts p of e where they hold.
Holding(meaning, e, rt, at) ==
    LET legs == DOMAIN rt.segments
        value == FieldAt(e.field, rt, at)
        number == Cardinality(LegsWith(e.field, rt))
    IN  CASE e.op = "literal" -> e.holds
          [] e.op = "not" -> ~meaning[e.arg][at]
          [] e.op = "and" -> meaning[e.left][at] /\ meaning[e.right][at]
          [] e.op = "or" -> meaning[e.left][at] \/ meaning[e.right][at]
          [] e.op = "all" -> \A i \in legs : meaning[e.arg][i]
          [] e.op = "any" -> \E i \in legs : meaning[e.arg][i]
          [] e.op = "count" ->
               CompareValues(VInt(Cardinality({i \in legs : meaning[e.arg][i]})), e.cmp, e.value)
          [] e.op = "sum" -> CompareValues(VFloat(TotalOf(e.field, rt)), e.cmp, e.value)
          [] e.op = "avg" -> /\ Numeric(e.value)
                             /\ Holds(TotalOf(e.field, rt), e.cmp,
                                      e.value.is * (IF number = 0 THEN 1 ELSE number))
          [] e.op = "compare" -> CompareValues(value, e.cmp, e.value)
          [] e.op = "inSet" -> \E v \in e.values : CompareValues(value, "Eq", v)
          [] e.op = "notInSet" -> \A v \in e.values : ~CompareValues(value, "Eq", v)
          [] e.op = "between" -> CompareValues(value, "Gte", e.low) /\ CompareValues(value, "Lte", e.high)
          [] e.op = "exists" -> value # Missing

Meanings(rt) ==
    LET meaning[e \in Expressions] ==
          [at \in 0..Len(rt.segments) |-> Holding(meaning, e, rt, at)]
    IN  meaning

\* The expressions that mean what they say: at a segment, ranges and existence
\* only of route fields, sets only of segment fields, and neither the number of
\* segments nor another quantifier.  A shipment field is always missing.
IsPlain(plain, e, atSegment) ==
    CASE e.op = "literal" -> TRUE
      [] e.op = "not" -> plain[e.arg][atSegment]
      [] e.op \in {"and", "or"} -> plain[e.left][atSegment] /\ plain[e.right][atSegment]
      [] e.op \in {"all", "any", "count"} -> ~atSegment /\ plain[e.arg][TRUE]
      [] e.op \in {"sum", "avg"} -> ~atSegment
      [] e.op \in {"compare", "inSet", "notInSet", "between", "exists"} ->
            atSegment =>
                /\ e.field # Field("route", "segmentCount")
                /\ e.op \in {"inSet", "notInSet"} => e.field.of \in {"segment", "shipment"}
                /\ e.op \in {"between", "exists"} => e.field.of \in {"route", "shipment"}

Plains ==
    LET plain[e \in Expressions] == [atSegment \in BOOLEAN |-> IsPlain(plain, e, atSegment)]
    IN  plain

Plain(e) == Plains[e][FALSE]

Meant(i) == Meanings(route)[constraints[i].expression][0]
-------------------------------------------------------------------------------
\* Results are of the form scores and the gate are computed from.
TypeOK ==
    /\ results \in Seq([passed : BOOLEAN, isHard : BOOLEAN, score : {0, 1}])
    /\ Len(results) <= Len(constraints)

(***************************************************************************)
(* A plain expression evaluates to what it means, however it is nested:    *)
(* the two evaluators and the fall-back between them amount to one         *)
(* meaning.  So the gate opens exactly for routes that satisfy the hard    *)
(* constraints, and the score is full for those that satisfy all.          *)
(***************************************************************************)
VerdictsMean ==
    LET score == OverallScore(results)
        done == DOMAIN results
        plain == {i \in done : Plain(constraints[i].expression)}
    IN  /\ \A i \in plain : results[i].passed <=> Meant(i)
        /\ plain = done =>
              /\ AllHardConstraintsPassed(results) <=> \A i \in done : constraints[i].isHard => Meant(i)
              /\ score.num = score.den <=> \A i \in done : Meant(i)

(***************************************************************************)
(* The built-in templates hold of exactly the routes their descriptions    *)
(* say; the ratings and unions of carriers are placeholders and left out.  *)
(***************************************************************************)
TemplatesMean ==
    \A i \in DOMAIN results : \A n \in Arguments : \A set \in SUBSET Arguments :
        LET c == constraints[i]
            verdict(is) == results[i].passed <=> is
            legs == {route.segments[j] : j \in DOMAIN route.segments}
        IN  /\ c = MinWage(n) => verdict(\A s \in legs : s["carrierWageCents"] >= n)
            /\ c = NoSanctionedCarriers(set) => verdict(\A s \in legs : s["carrierCode"] \notin set)
            /\ c = AllowedModes(set) => verdict(\A s \in legs : s["mode"] \in set)
            /\ c = CarbonBudget(n) => verdict(route.floats["totalCarbonKg"] <= n)
            /\ c = CostBudget(n) => verdict(route.floats["totalCostUsd"] <= n)
            /\ c = TimeWindow(n) => verdict(route.floats["totalTransitHours"] <= n)
            /\ c = MinLaborScore(n) => verdict(route.floats["laborScore"] >= n)
            /\ c = MaxSegments(n) => verdict(Len(route.segments) <= n)

(***************************************************************************)
(* NotInSet: "Field value not in set", also of a carrier's field.          *)
(***************************************************************************)
NotInSetMeans ==
    \A i \in DOMAIN results :
        LET e == constraints[i].expression
        IN  e.op = "all" /\ e.arg.op = "notInSet" /\ e.arg.field.of = "carrier"
                => (results[i].passed <=> Meant(i))

\* Each result is its constraint's, judged on the whole route.
Judged ==
    \A i \in DOMAIN results :
        /\ results[i].passed = Verdicts(route)[constraints[i].expression][0]
        /\ results[i].isHard = constraints[i].isHard
        /\ results[i].score = IF results[i].passed THEN 1 ELSE 0

\* The invariant ConstraintDSLProofs shows to be inductive.
IInv == constraints \in Batches /\ route \in RouteSet /\ TypeOK /\ Judged
================================================================================
