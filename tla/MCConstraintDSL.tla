----------------------------- MODULE MCConstraintDSL -----------------------------
(***************************************************************************)
(* Small expressions over every kind of field, routes of none to two legs, *)
(* and the templates, alone and in lists.                                  *)
(***************************************************************************)
EXTENDS ConstraintDSL, FiniteSetsExt

Leg(code, wage, hours) ==
    [distanceKm |-> 1, costUsd |-> 2, transitHours |-> hours, carbonKg |-> 1, laborScore |-> 2,
     carrierWageCents |-> wage, sequence |-> 1, carrierCode |-> code, mode |-> 3 - code]

MCLegs == {Leg(1, 1, 3), Leg(2, 3, 1), Leg(1, 2, 2)}

MCRoutes ==
    [floats : {[totalCostUsd |-> 2, totalCarbonKg |-> 3, totalTransitHours |-> 1,
                totalDistanceKm |-> 4, laborScore |-> 2, constraintScore |-> 0]},
     paretoRank : {1},
     segments : UNION {[1..n -> MCLegs] : n \in 0..2}]

MCArguments == 1..3

MCFields ==
    {Field("route", "totalCostUsd"), Field("route", "segmentCount"), Field("route", "paretoRank"),
     Field("route", "modes"), Field("segment", "carrierWageCents"),
     Field("segment", "transitHours"), Field("segment", "carrierCode"), Field("segment", "weight"),
     Field("carrier", "code"), Field("carrier", "safetyRating"), Field("carrier", "unionized"),
     Field("shipment", "weight")}

MCValues == {VInt(2), VFloat(1), VString(1), VBool(FALSE), VNull}

Comparisons == {Compare(f, cmp, v) : f \in MCFields, cmp \in {"Ne", "Lt", "Gte"}, v \in MCValues}

FieldTests ==
    {InSet(f, {VInt(2), VString(1)}) : f \in MCFields}
    \cup {NotInSet(f, {VInt(2), VString(1)}) : f \in MCFields}
    \cup {Between(f, VInt(1), VInt(2)) : f \in MCFields}
    \cup {Exists(f) : f \in MCFields}
    \cup {Literal(TRUE)}

Totals ==
    {Sum(f, cmp, v) : f \in MCFields, cmp \in {"Eq", "Lte"}, v \in {VInt(3), VFloat(2)}}
    \cup {Avg(f, cmp, v) : f \in MCFields, cmp \in {"Eq", "Gt"}, v \in {VInt(2), VFloat(1)}}

Atoms == Comparisons \cup FieldTests

\* A few tests to combine with.
Others ==
    {Compare(Field("segment", "carrierWageCents"), "Gt", VInt(1)), Exists(Field("route", "modes")),
     InSet(Field("segment", "carrierCode"), {VString(2)})}

Combined == {AndOf(NotOf(a), b) : a \in Atoms, b \in Others} \cup {OrOf(b, a) : a \in Atoms, b \in Others}

Tested ==
    Atoms \cup Totals \cup Combined
    \cup {AllOf(a) : a \in Atoms \cup Combined \cup Totals}
    \cup {AnyOf(a) : a \in Atoms}
    \cup {Count(a, "Eq", VInt(1)) : a \in Atoms}
    \cup {AllOf(OrOf(AnyOf(a), b)) : a \in FieldTests, b \in Others}

MCTemplates ==
    {UnionPreference} \cup
    UNION {{MinWage(n), CarbonBudget(n), CostBudget(n), TimeWindow(n), MinSafetyRating(n),
            MaxSegments(n), MinLaborScore(n)} : n \in MCArguments}
    \cup UNION {{NoSanctionedCarriers(s), AllowedModes(s)} : s \in SUBSET MCArguments}

\* Everything a tested expression or a template is made of.
MCExpressions ==
    Tested \cup Others \cup {c.expression : c \in MCTemplates}
    \cup UNION {Parts(c.expression) : c \in MCTemplates}
    \cup {NotOf(a) : a \in Atoms}
    \cup {AnyOf(a) : a \in FieldTests}
    \cup {OrOf(AnyOf(a), b) : a \in FieldTests, b \in Others}

RECURSIVE Nesting(_)
Nesting(e) == Max({0} \cup {1 + Nesting(part) : part \in Parts(e)})

MCDepth == [e \in MCExpressions |-> Nesting(e)]

MCBatches ==
    {<<>>}
    \cup {<<Soft("expression", e)>> : e \in Tested}
    \cup {<<c, d>> : c \in MCTemplates, d \in MCTemplates}
================================================================================
