-------------------------- MODULE ConstraintDSLProofs --------------------------
(***************************************************************************)
(* What the evaluators of the constraint language compute, for expressions *)
(* of every shape, lists of every length and routes of any number of legs. *)
(***************************************************************************)
EXTENDS ConstraintDSL, SumProofs

-------------------------------------------------------------------------------
(***************************************************************************)
(* Recursion over expressions.                                             *)
(***************************************************************************)

\* Among any expressions is one with none of them among its parts.
LEMMA Shallowest ==
    ASSUME NEW T, T \subseteq Expressions, T # {}
    PROVE  \E e \in T : \A part \in Parts(e) : part \in Expressions /\ part \notin T
<1> DEFINE N == {Depth[e] : e \in T}
<1>1. N \subseteq Nat /\ N # {}
  BY ConstraintAssumption
<1>2. PICK n \in N : \A m \in N : n <= m
  <2> HIDE DEF N
  <2>1. QED
    BY <1>1, LeastNat
<1>3. PICK e \in T : Depth[e] = n
  OBVIOUS
<1>4. ASSUME NEW part \in Parts(e)
      PROVE  part \in Expressions /\ part \notin T
  <2>1. part \in Expressions /\ Depth[part] < Depth[e]
    BY <1>4, ConstraintAssumption
  <2>2. ASSUME part \in T
        PROVE  FALSE
    <3>1. n <= Depth[part] /\ Depth[part] \in Nat /\ n \in Nat
      BY <1>1, <1>2, <2>2
    <3>2. QED
      BY <1>3, <2>1, <3>1
  <2>3. QED
    BY <2>1, <2>2
<1>5. QED
  BY <1>4

\* The step that computes the value of an expression from g looks at no more
\* of g than the values of its parts.
LooksAtParts(step, V) ==
    \A e \in Expressions : \A g, h \in [Expressions -> V] :
        (\A part \in Parts(e) : g[part] = h[part]) => step[<<e, g>>] = step[<<e, h>>]

\* g is what the step says of the expressions nested less than n deep.
Follows(g, step, V, n) ==
    /\ g \in [Expressions -> V]
    /\ \A e \in Expressions : Depth[e] < n => g[e] = step[<<e, g>>]

\* Two that follow the step agree as far as both do.
LEMMA FollowersAgree ==
    ASSUME NEW V, NEW step, LooksAtParts(step, V), NEW m \in Nat, NEW n \in Nat,
           NEW g, Follows(g, step, V, m), NEW h, Follows(h, step, V, n),
           NEW x \in Expressions, Depth[x] < m, Depth[x] < n
    PROVE  g[x] = h[x]
<1> DEFINE T == {e \in Expressions : Depth[e] < m /\ Depth[e] < n /\ g[e] # h[e]}
<1>1. SUFFICES ASSUME T # {}
               PROVE  FALSE
  OBVIOUS
<1>2. PICK e \in T : \A part \in Parts(e) : part \in Expressions /\ part \notin T
  <2>1. T \subseteq Expressions
    OBVIOUS
  <2> HIDE DEF T
  <2>2. QED
    BY <1>1, <2>1, Shallowest
<1>3. e \in Expressions /\ Depth[e] < m /\ Depth[e] < n /\ g[e] # h[e]
  BY <1>2
<1>4. ASSUME NEW part \in Parts(e)
      PROVE  g[part] = h[part]
  <2>1. Depth[part] < Depth[e] /\ Depth[e] \in Nat /\ Depth[part] \in Nat
    BY <1>3, <1>4, ConstraintAssumption
  <2>2. Depth[part] < m /\ Depth[part] < n
    BY <1>3, <2>1
  <2>3. QED
    BY <1>2, <2>2
<1>5. g[e] = step[<<e, g>>] /\ h[e] = step[<<e, h>>]
  BY <1>3 DEF Follows
<1>6. step[<<e, g>>] = step[<<e, h>>]
  BY <1>3, <1>4 DEF LooksAtParts, Follows
<1>7. QED
  BY <1>3, <1>5, <1>6

\* However deep, some function follows the step.
LEMMA FollowerExists ==
    ASSUME NEW V, V # {}, NEW step \in [Expressions \X [Expressions -> V] -> V],
           LooksAtParts(step, V), NEW n \in Nat
    PROVE  \E g : Follows(g, step, V, n)
<1> DEFINE T == {m \in Nat : ~\E g : Follows(g, step, V, m)}
<1>1. SUFFICES ASSUME T # {}
               PROVE  FALSE
  OBVIOUS
<1>2. PICK m \in T : \A l \in T : m <= l
  <2>1. T \subseteq Nat
    OBVIOUS
  <2> HIDE DEF T
  <2>2. QED
    BY <1>1, <2>1, LeastNat
<1>3. m # 0
  <2>1. PICK d \in V : TRUE
    OBVIOUS
  <2>2. Follows([e \in Expressions |-> d], step, V, 0)
    BY ConstraintAssumption DEF Follows
  <2>3. QED
    BY <1>2, <2>2
<1> DEFINE l == m - 1
<1>4. l \in Nat /\ l \notin T /\ m = l + 1
  BY <1>2, <1>3
<1>5. PICK g : Follows(g, step, V, l)
  BY <1>4
<1> DEFINE h == [e \in Expressions |-> step[<<e, g>>]]
<1>6. h \in [Expressions -> V] /\ g \in [Expressions -> V]
  BY <1>5 DEF Follows
<1>7. ASSUME NEW e \in Expressions, Depth[e] < m
      PROVE  h[e] = step[<<e, h>>]
  <2>1. ASSUME NEW part \in Parts(e)
        PROVE  g[part] = h[part]
    <3>1. /\ part \in Expressions /\ Depth[part] < Depth[e]
          /\ Depth[e] \in Nat /\ Depth[part] \in Nat
      BY <2>1, ConstraintAssumption
    <3>2. Depth[part] < l
      BY <1>4, <1>7, <3>1
    <3>3. QED
      BY <1>5, <3>1, <3>2 DEF Follows
  <2> HIDE DEF h
  <2>2. step[<<e, g>>] = step[<<e, h>>]
    BY <1>6, <2>1 DEF LooksAtParts
  <2>3. QED
    BY <2>2 DEF h
<1> HIDE DEF h
<1>8. Follows(h, step, V, m)
  BY <1>6, <1>7 DEF Follows
<1>9. QED
  BY <1>2, <1>8

\* A step that looks at parts only defines a function.
LEMMA Recursion ==
    ASSUME NEW V, V # {}, NEW step \in [Expressions \X [Expressions -> V] -> V],
           LooksAtParts(step, V)
    PROVE  \E f \in [Expressions -> V] : \A e \in Expressions : f[e] = step[<<e, f>>]
<1> DEFINE follower(n) == CHOOSE g : Follows(g, step, V, n)
           f == [e \in Expressions |-> follower(Depth[e] + 1)[e]]
<1>1. \A n \in Nat : Follows(follower(n), step, V, n)
  BY FollowerExists
<1> HIDE DEF follower
<1>2. \A e \in Expressions : Depth[e] \in Nat /\ Depth[e] + 1 \in Nat
  BY ConstraintAssumption
<1>3. f \in [Expressions -> V]
  BY <1>1, <1>2 DEF Follows
<1>4. ASSUME NEW e \in Expressions
      PROVE  f[e] = step[<<e, f>>]
  <2> DEFINE g == follower(Depth[e] + 1)
  <2>1. Follows(g, step, V, Depth[e] + 1)
    BY <1>1, <1>2
  <2>2. ASSUME NEW part \in Parts(e)
        PROVE  g[part] = f[part]
    <3> DEFINE q == follower(Depth[part] + 1)
    <3>1. part \in Expressions /\ Depth[part] < Depth[e]
      BY <2>2, ConstraintAssumption
    <3>2. Follows(q, step, V, Depth[part] + 1) /\ f[part] = q[part]
      BY <1>1, <1>2, <3>1
    <3>3. Depth[part] < Depth[part] + 1 /\ Depth[part] < Depth[e] + 1
      BY <1>2, <3>1
    <3> HIDE DEF g, q, f
    <3>4. g[part] = q[part]
      BY <1>2, <2>1, <3>1, <3>2, <3>3, FollowersAgree
    <3>5. QED
      BY <3>2, <3>4
  <2>3. g \in [Expressions -> V] /\ g[e] = step[<<e, g>>] /\ f[e] = g[e]
    <3>1. Depth[e] < Depth[e] + 1 /\ f[e] = g[e]
      BY <1>2
    <3> HIDE DEF g, f
    <3>2. QED
      BY <2>1, <3>1 DEF Follows
  <2> HIDE DEF g, f
  <2>4. step[<<e, g>>] = step[<<e, f>>]
    BY <1>3, <2>2, <2>3 DEF LooksAtParts
  <2>5. QED
    BY <2>3, <2>4
<1> HIDE DEF f
<1>5. QED
  BY <1>3, <1>4

-------------------------------------------------------------------------------
(***************************************************************************)
(* The three recursive definitions have the values their steps say.        *)
(***************************************************************************)

\* What is said of an expression on a route, as a whole and at its segments.
SaidOf(rt) == [0..Len(rt.segments) -> BOOLEAN]

\* The steps of Verdicts, Meanings and Plains, at one expression.
VerdictStep(rt, g, e) ==
    [at \in 0..Len(rt.segments) |->
        IF at = 0 THEN Evaluate(g, e, rt, 0) ELSE EvaluateWithSegment(g, e, rt, at)]
MeaningStep(rt, g, e) == [at \in 0..Len(rt.segments) |-> Holding(g, e, rt, at)]
PlainStep(g, e) == [atSegment \in BOOLEAN |-> IsPlain(g, e, atSegment)]

\* The whole route and its segments.
LEMMA Places ==
    ASSUME NEW rt \in Route
    PROVE  /\ Len(rt.segments) \in Nat
           /\ DOMAIN rt.segments = 1..Len(rt.segments)
           /\ \A at \in 0..Len(rt.segments) :
                  /\ Segments(rt, at) \subseteq 1..Len(rt.segments)
                  /\ at # 0 => at \in 1..Len(rt.segments)
<1>1. rt.segments \in Seq(Segment)
  BY DEF Route
<1> DEFINE n == Len(rt.segments)
<1>2. n \in Nat /\ DOMAIN rt.segments = 1..n
  BY <1>1, LenProperties
<1>3. QED
  BY <1>2 DEF Segments

\* A comparison is true or false.
LEMMA ComparisonIs ==
    ASSUME NEW v, NEW cmp, NEW w
    PROVE  CompareValues(v, cmp, w) \in BOOLEAN
BY DEF CompareValues

\* Evaluation on a route needs no more than the values of the parts.
LEMMA EvaluateIs ==
    ASSUME NEW rt \in Route, NEW e \in Expressions, NEW at \in 0..Len(rt.segments),
           NEW g, \A part \in Parts(e) : g[part] \in SaidOf(rt)
    PROVE  Evaluate(g, e, rt, at) \in BOOLEAN
<1>1. IsExpression(e)
  BY ConstraintAssumption
<1>2. CASE e.op \in {"and", "or"}
  <2>1. g[e.left] \in SaidOf(rt) /\ g[e.right] \in SaidOf(rt)
    BY <1>2 DEF Parts
  <2>2. QED
    BY <1>2, <2>1 DEF Evaluate, SaidOf
<1>3. CASE e.op = "not"
  BY <1>3 DEF Evaluate
<1>4. CASE e.op \in {"compare", "count", "sum", "avg"}
  BY <1>4, ComparisonIs DEF Evaluate, CompareAverage
<1>5. CASE e.op \in {"all", "any", "inSet", "notInSet", "between", "exists", "literal"}
  BY <1>1, <1>5 DEF Evaluate, IsExpression, ValueInSet
<1>6. QED
  BY <1>1, <1>2, <1>3, <1>4, <1>5 DEF IsExpression

LEMMA EvaluateLooks ==
    ASSUME NEW rt \in Route, NEW e \in Expressions, NEW at \in 0..Len(rt.segments),
           NEW g, NEW h, \A part \in Parts(e) : g[part] = h[part]
    PROVE  Evaluate(g, e, rt, at) = Evaluate(h, e, rt, at)
<1>1. IsExpression(e)
  BY ConstraintAssumption
<1>2. CASE e.op \in {"and", "or"}
  <2>1. g[e.left] = h[e.left] /\ g[e.right] = h[e.right]
    BY <1>2 DEF Parts
  <2>2. QED
    BY <1>2, <2>1 DEF Evaluate
<1>3. CASE e.op \in {"not", "all", "any", "count"}
  <2>1. g[e.arg] = h[e.arg]
    BY <1>3 DEF Parts
  <2>2. QED
    BY <1>3, <2>1 DEF Evaluate
<1>4. CASE e.op \in {"compare", "sum", "avg", "inSet", "notInSet", "between", "exists", "literal"}
  BY <1>4 DEF Evaluate
<1>5. QED
  BY <1>1, <1>2, <1>3, <1>4 DEF IsExpression

\* So does evaluation at a segment.
LEMMA EvaluateWithSegmentIs ==
    ASSUME NEW rt \in Route, NEW e \in Expressions, NEW at \in 0..Len(rt.segments),
           NEW g, \A part \in Parts(e) : g[part] \in SaidOf(rt)
    PROVE  EvaluateWithSegment(g, e, rt, at) \in BOOLEAN
<1>1. Evaluate(g, e, rt, at) \in BOOLEAN
  BY EvaluateIs
<1>2. CASE e.op \in {"and", "or"}
  <2>1. g[e.left] \in SaidOf(rt) /\ g[e.right] \in SaidOf(rt)
    BY <1>2 DEF Parts
  <2>2. QED
    BY <1>2, <2>1 DEF EvaluateWithSegment, SaidOf
<1>3. CASE e.op = "compare"
  BY <1>3, ComparisonIs DEF EvaluateWithSegment
<1>4. CASE e.op \in {"inSet", "notInSet", "not"}
  BY <1>4 DEF EvaluateWithSegment
<1>5. CASE e.op \notin {"and", "or", "compare", "inSet", "notInSet", "not"}
  BY <1>1, <1>5 DEF EvaluateWithSegment
<1>6. QED
  BY <1>2, <1>3, <1>4, <1>5

LEMMA EvaluateWithSegmentLooks ==
    ASSUME NEW rt \in Route, NEW e \in Expressions, NEW at \in 0..Len(rt.segments),
           NEW g, NEW h, \A part \in Parts(e) : g[part] = h[part]
    PROVE  EvaluateWithSegment(g, e, rt, at) = EvaluateWithSegment(h, e, rt, at)
<1>1. Evaluate(g, e, rt, at) = Evaluate(h, e, rt, at)
  BY EvaluateLooks
<1>2. CASE e.op \in {"and", "or"}
  <2>1. g[e.left] = h[e.left] /\ g[e.right] = h[e.right]
    BY <1>2 DEF Parts
  <2>2. QED
    BY <1>2, <2>1 DEF EvaluateWithSegment
<1>3. CASE e.op = "not"
  <2>1. g[e.arg] = h[e.arg]
    BY <1>3 DEF Parts
  <2>2. QED
    BY <1>3, <2>1 DEF EvaluateWithSegment
<1>4. CASE e.op \in {"compare", "inSet", "notInSet"}
  BY <1>4 DEF EvaluateWithSegment
<1>5. CASE e.op \notin {"and", "or", "not", "compare", "inSet", "notInSet"}
  BY <1>1, <1>5 DEF EvaluateWithSegment
<1>6. QED
  BY <1>2, <1>3, <1>4, <1>5

\* The meaning of an expression needs no more than those of its parts.
LEMMA HoldingIs ==
    ASSUME NEW rt \in Route, NEW e \in Expressions, NEW at \in 0..Len(rt.segments),
           NEW g, \A part \in Parts(e) : g[part] \in SaidOf(rt)
    PROVE  Holding(g, e, rt, at) \in BOOLEAN
<1>1. IsExpression(e)
  BY ConstraintAssumption
<1>2. CASE e.op \in {"and", "or"}
  <2>1. g[e.left] \in SaidOf(rt) /\ g[e.right] \in SaidOf(rt)
    BY <1>2 DEF Parts
  <2>2. QED
    BY <1>2, <2>1 DEF Holding, SaidOf
<1>3. CASE e.op \in {"compare", "count", "sum"}
  BY <1>3, ComparisonIs DEF Holding
<1>4. CASE e.op \in {"all", "any", "inSet", "notInSet"}
  BY <1>4 DEF Holding
<1>5. CASE e.op \in {"not", "avg", "between", "exists", "literal"}
  BY <1>1, <1>5 DEF Holding, IsExpression
<1>6. QED
  BY <1>1, <1>2, <1>3, <1>4, <1>5 DEF IsExpression

LEMMA HoldingLooks ==
    ASSUME NEW rt \in Route, NEW e \in Expressions, NEW at \in 0..Len(rt.segments),
           NEW g, NEW h, \A part \in Parts(e) : g[part] = h[part]
    PROVE  Holding(g, e, rt, at) = Holding(h, e, rt, at)
<1>1. IsExpression(e)
  BY ConstraintAssumption
<1>2. CASE e.op \in {"and", "or"}
  <2>1. g[e.left] = h[e.left] /\ g[e.right] = h[e.right]
    BY <1>2 DEF Parts
  <2>2. QED
    BY <1>2, <2>1 DEF Holding
<1>3. CASE e.op \in {"not", "all", "any", "count"}
  <2>1. g[e.arg] = h[e.arg]
    BY <1>3 DEF Parts
  <2>2. QED
    BY <1>3, <2>1 DEF Holding
<1>4. CASE e.op \in {"compare", "sum", "avg", "inSet", "notInSet", "between", "exists", "literal"}
  BY <1>4 DEF Holding
<1>5. QED
  BY <1>1, <1>2, <1>3, <1>4 DEF IsExpression

\* So does whether it is plain.
LEMMA IsPlainIs ==
    ASSUME NEW e \in Expressions, NEW atSegment \in BOOLEAN,
           NEW g, \A part \in Parts(e) : g[part] \in [BOOLEAN -> BOOLEAN]
    PROVE  IsPlain(g, e, atSegment) \in BOOLEAN
<1>1. IsExpression(e)
  BY ConstraintAssumption
<1>2. CASE e.op \in {"and", "or"}
  <2>1. g[e.left] \in [BOOLEAN -> BOOLEAN] /\ g[e.right] \in [BOOLEAN -> BOOLEAN]
    BY <1>2 DEF Parts
  <2>2. QED
    BY <1>2, <2>1 DEF IsPlain
<1>3. CASE e.op = "not"
  <2>1. g[e.arg] \in [BOOLEAN -> BOOLEAN]
    BY <1>3 DEF Parts
  <2>2. QED
    BY <1>3, <2>1 DEF IsPlain
<1>4. CASE e.op \in {"all", "any", "count", "sum", "avg", "literal",
                     "compare", "inSet", "notInSet", "between", "exists"}
  BY <1>4 DEF IsPlain
<1>5. QED
  BY <1>1, <1>2, <1>3, <1>4 DEF IsExpression

LEMMA IsPlainLooks ==
    ASSUME NEW e \in Expressions, NEW atSegment \in BOOLEAN,
           NEW g, NEW h, \A part \in Parts(e) : g[part] = h[part]
    PROVE  IsPlain(g, e, atSegment) = IsPlain(h, e, atSegment)
<1>1. IsExpression(e)
  BY ConstraintAssumption
<1>2. CASE e.op \in {"and", "or"}
  <2>1. g[e.left] = h[e.left] /\ g[e.right] = h[e.right]
    BY <1>2 DEF Parts
  <2>2. QED
    BY <1>2, <2>1 DEF IsPlain
<1>3. CASE e.op \in {"not", "all", "any", "count"}
  <2>1. g[e.arg] = h[e.arg]
    BY <1>3 DEF Parts
  <2>2. QED
    BY <1>3, <2>1 DEF IsPlain
<1>4. CASE e.op \in {"compare", "sum", "avg", "inSet", "notInSet", "between", "exists", "literal"}
  BY <1>4 DEF IsPlain
<1>5. QED
  BY <1>1, <1>2, <1>3, <1>4 DEF IsExpression

\* Of the functions that a step allows none has values outside V, if the step
\* has none on parts with values in V.
LEMMA ValuesIn ==
    ASSUME NEW V, NEW f,
           \A e \in Expressions : (\A part \in Parts(e) : f[part] \in V) => f[e] \in V
    PROVE  \A e \in Expressions : f[e] \in V
<1> DEFINE T == {e \in Expressions : f[e] \notin V}
<1>1. SUFFICES ASSUME T # {}
               PROVE  FALSE
  OBVIOUS
<1>2. PICK e \in T : \A part \in Parts(e) : part \in Expressions /\ part \notin T
  <2>1. T \subseteq Expressions
    OBVIOUS
  <2> HIDE DEF T
  <2>2. QED
    BY <1>1, <2>1, Shallowest
<1>3. QED
  BY <1>2

\* Verdicts(rt) has the values evaluation says it has.
LEMMA VerdictsRecur ==
    ASSUME NEW rt \in Route
    PROVE  /\ Verdicts(rt) \in [Expressions -> SaidOf(rt)]
           /\ \A e \in Expressions : Verdicts(rt)[e] = VerdictStep(rt, Verdicts(rt), e)
<1> DEFINE V == SaidOf(rt)
           step == [s \in Expressions \X [Expressions -> V] |-> VerdictStep(rt, s[2], s[1])]
           Is(f) == f = [e \in Expressions |-> VerdictStep(rt, f, e)]
<1>1. V # {}
  <2>1. [at \in 0..Len(rt.segments) |-> TRUE] \in V
    BY DEF SaidOf
  <2>2. QED
    BY <2>1
<1>2. ASSUME NEW e \in Expressions, NEW g, \A part \in Parts(e) : g[part] \in V
      PROVE  VerdictStep(rt, g, e) \in V
  <2>1. \A at \in 0..Len(rt.segments) :
           Evaluate(g, e, rt, at) \in BOOLEAN /\ EvaluateWithSegment(g, e, rt, at) \in BOOLEAN
    BY <1>2, EvaluateIs, EvaluateWithSegmentIs
  <2>2. QED
    BY <2>1 DEF VerdictStep, SaidOf
<1>3. ASSUME NEW e \in Expressions, NEW g, NEW h, \A part \in Parts(e) : g[part] = h[part]
      PROVE  VerdictStep(rt, g, e) = VerdictStep(rt, h, e)
  <2>1. \A at \in 0..Len(rt.segments) :
           /\ Evaluate(g, e, rt, at) = Evaluate(h, e, rt, at)
           /\ EvaluateWithSegment(g, e, rt, at) = EvaluateWithSegment(h, e, rt, at)
    BY <1>3, EvaluateLooks, EvaluateWithSegmentLooks
  <2>2. QED
    BY <2>1, Places DEF VerdictStep
<1> HIDE DEF V
<1>4. step \in [Expressions \X [Expressions -> V] -> V]
  <2>1. \A e \in Expressions : \A g \in [Expressions -> V] : VerdictStep(rt, g, e) \in V
    BY <1>2, ConstraintAssumption
  <2>2. QED
    BY <2>1
<1>5. LooksAtParts(step, V)
  BY <1>3 DEF LooksAtParts
<1>6. \E f : Is(f)
  <2> HIDE DEF step
  <2>1. PICK f \in [Expressions -> V] : \A e \in Expressions : f[e] = step[<<e, f>>]
    BY <1>1, <1>4, <1>5, Recursion
  <2>2. \A e \in Expressions : f[e] = VerdictStep(rt, f, e)
    BY <2>1 DEF step
  <2>3. QED
    BY <2>2
<1>7. Verdicts(rt) = CHOOSE f : Is(f)
  BY DEF Verdicts, VerdictStep
<1> DEFINE f == Verdicts(rt)
<1>8. Is(f)
  BY <1>6, <1>7
<1> HIDE DEF f
<1>9. \A e \in Expressions : f[e] = VerdictStep(rt, f, e)
  BY <1>8
<1>10. \A e \in Expressions : f[e] \in V
  BY <1>2, <1>9, ValuesIn
<1>11. f \in [Expressions -> V]
  BY <1>8, <1>10
<1>12. QED
  BY <1>9, <1>11 DEF f, V

\* So has Meanings(rt) those the meaning of expressions says it has.
LEMMA MeaningsRecur ==
    ASSUME NEW rt \in Route
    PROVE  /\ Meanings(rt) \in [Expressions -> SaidOf(rt)]
           /\ \A e \in Expressions : Meanings(rt)[e] = MeaningStep(rt, Meanings(rt), e)
<1> DEFINE V == SaidOf(rt)
           step == [s \in Expressions \X [Expressions -> V] |-> MeaningStep(rt, s[2], s[1])]
           Is(f) == f = [e \in Expressions |-> MeaningStep(rt, f, e)]
<1>1. V # {}
  <2>1. [at \in 0..Len(rt.segments) |-> TRUE] \in V
    BY DEF SaidOf
  <2>2. QED
    BY <2>1
<1>2. ASSUME NEW e \in Expressions, NEW g, \A part \in Parts(e) : g[part] \in V
      PROVE  MeaningStep(rt, g, e) \in V
  BY <1>2, HoldingIs DEF MeaningStep, SaidOf
<1>3. ASSUME NEW e \in Expressions, NEW g, NEW h, \A part \in Parts(e) : g[part] = h[part]
      PROVE  MeaningStep(rt, g, e) = MeaningStep(rt, h, e)
  BY <1>3, HoldingLooks DEF MeaningStep
<1> HIDE DEF V
<1>4. step \in [Expressions \X [Expressions -> V] -> V]
  <2>1. \A e \in Expressions : \A g \in [Expressions -> V] : MeaningStep(rt, g, e) \in V
    BY <1>2, ConstraintAssumption
  <2>2. QED
    BY <2>1
<1>5. LooksAtParts(step, V)
  BY <1>3 DEF LooksAtParts
<1>6. \E f : Is(f)
  <2> HIDE DEF step
  <2>1. PICK f \in [Expressions -> V] : \A e \in Expressions : f[e] = step[<<e, f>>]
    BY <1>1, <1>4, <1>5, Recursion
  <2>2. \A e \in Expressions : f[e] = MeaningStep(rt, f, e)
    BY <2>1 DEF step
  <2>3. QED
    BY <2>2
<1>7. Meanings(rt) = CHOOSE f : Is(f)
  BY DEF Meanings, MeaningStep
<1> DEFINE f == Meanings(rt)
<1>8. Is(f)
  BY <1>6, <1>7
<1> HIDE DEF f
<1>9. \A e \in Expressions : f[e] = MeaningStep(rt, f, e)
  BY <1>8
<1>10. \A e \in Expressions : f[e] \in V
  BY <1>2, <1>9, ValuesIn
<1>11. f \in [Expressions -> V]
  BY <1>8, <1>10
<1>12. QED
  BY <1>9, <1>11 DEF f, V

\* And Plains those the definition of a plain expression says.
LEMMA PlainsRecur ==
    /\ Plains \in [Expressions -> [BOOLEAN -> BOOLEAN]]
    /\ \A e \in Expressions : Plains[e] = PlainStep(Plains, e)
<1> DEFINE V == [BOOLEAN -> BOOLEAN]
           step == [s \in Expressions \X [Expressions -> V] |-> PlainStep(s[2], s[1])]
           Is(f) == f = [e \in Expressions |-> PlainStep(f, e)]
<1>1. V # {}
  <2>1. [b \in BOOLEAN |-> TRUE] \in V
    OBVIOUS
  <2>2. QED
    BY <2>1
<1>2. ASSUME NEW e \in Expressions, NEW g, \A part \in Parts(e) : g[part] \in V
      PROVE  PlainStep(g, e) \in V
  <2>1. \A atSegment \in BOOLEAN : IsPlain(g, e, atSegment) \in BOOLEAN
    BY <1>2, IsPlainIs
  <2>2. QED
    BY <2>1 DEF PlainStep
<1>3. ASSUME NEW e \in Expressions, NEW g, NEW h, \A part \in Parts(e) : g[part] = h[part]
      PROVE  PlainStep(g, e) = PlainStep(h, e)
  BY <1>3, IsPlainLooks DEF PlainStep
<1> HIDE DEF V
<1>4. step \in [Expressions \X [Expressions -> V] -> V]
  <2>1. \A e \in Expressions : \A g \in [Expressions -> V] : PlainStep(g, e) \in V
    BY <1>2, ConstraintAssumption
  <2>2. QED
    BY <2>1
<1>5. LooksAtParts(step, V)
  BY <1>3 DEF LooksAtParts
<1>6. \E f : Is(f)
  <2> HIDE DEF step
  <2>1. PICK f \in [Expressions -> V] : \A e \in Expressions : f[e] = step[<<e, f>>]
    BY <1>1, <1>4, <1>5, Recursion
  <2>2. \A e \in Expressions : f[e] = PlainStep(f, e)
    BY <2>1 DEF step
  <2>3. QED
    BY <2>2
<1>7. Plains = CHOOSE f : Is(f)
  BY DEF Plains, PlainStep
<1> DEFINE f == Plains
<1>8. Is(f)
  BY <1>6, <1>7
<1> HIDE DEF f
<1>9. \A e \in Expressions : f[e] = PlainStep(f, e)
  BY <1>8
<1>10. \A e \in Expressions : f[e] \in V
  BY <1>2, <1>9, ValuesIn
<1>11. f \in [Expressions -> V]
  BY <1>8, <1>10
<1>12. QED
  BY <1>9, <1>11 DEF f, V

\* Place by place.
LEMMA VerdictAt ==
    ASSUME NEW rt \in Route, NEW e \in Expressions, NEW at \in 0..Len(rt.segments)
    PROVE  Verdicts(rt)[e][at] =
              IF at = 0 THEN Evaluate(Verdicts(rt), e, rt, 0)
              ELSE EvaluateWithSegment(Verdicts(rt), e, rt, at)
<1>1. Verdicts(rt)[e] = VerdictStep(rt, Verdicts(rt), e)
  BY VerdictsRecur
<1>2. Verdicts(rt)[e][at] = VerdictStep(rt, Verdicts(rt), e)[at]
  BY <1>1
<1>3. CASE at = 0
  BY <1>2, <1>3 DEF VerdictStep
<1>4. CASE at # 0
  BY <1>2, <1>4 DEF VerdictStep
<1>5. QED
  BY <1>3, <1>4

LEMMA MeaningAt ==
    ASSUME NEW rt \in Route, NEW e \in Expressions, NEW at \in 0..Len(rt.segments)
    PROVE  Meanings(rt)[e][at] = Holding(Meanings(rt), e, rt, at)
BY MeaningsRecur DEF MeaningStep

LEMMA PlainAt ==
    ASSUME NEW e \in Expressions, NEW atSegment \in BOOLEAN
    PROVE  Plains[e][atSegment] = IsPlain(Plains, e, atSegment)
BY PlainsRecur DEF PlainStep

\* What a plain expression owes to its operator.
LEMMA PlainOp ==
    ASSUME NEW e \in Expressions, NEW b \in BOOLEAN, Plains[e][b]
    PROVE  /\ e.op = "not" => Plains[e.arg][b]
           /\ e.op \in {"and", "or"} => Plains[e.left][b] /\ Plains[e.right][b]
           /\ e.op \in {"all", "any", "count"} => ~b /\ Plains[e.arg][TRUE]
           /\ e.op \in {"sum", "avg"} => ~b
           /\ e.op \in {"compare", "inSet", "notInSet", "between", "exists"} /\ b =>
                 /\ e.field # Field("route", "segmentCount")
                 /\ e.op \in {"inSet", "notInSet"} => e.field.of \in {"segment", "shipment"}
                 /\ e.op \in {"between", "exists"} => e.field.of \in {"route", "shipment"}
<1> DEFINE plain == Plains
<1>1. IsPlain(plain, e, b)
  BY PlainAt
<1> HIDE DEF plain
<1>2. e.op = "not" => plain[e.arg][b]
  BY <1>1 DEF IsPlain
<1>3. e.op \in {"and", "or"} => plain[e.left][b] /\ plain[e.right][b]
  BY <1>1 DEF IsPlain
<1>4. e.op \in {"all", "any", "count"} => ~b /\ plain[e.arg][TRUE]
  BY <1>1 DEF IsPlain
<1>5. e.op \in {"sum", "avg"} => ~b
  BY <1>1 DEF IsPlain
<1>6. e.op \in {"compare", "inSet", "notInSet", "between", "exists"} /\ b =>
         /\ e.field # Field("route", "segmentCount")
         /\ e.op \in {"inSet", "notInSet"} => e.field.of \in {"segment", "shipment"}
         /\ e.op \in {"between", "exists"} => e.field.of \in {"route", "shipment"}
  BY <1>1 DEF IsPlain
<1>7. QED
  BY <1>2, <1>3, <1>4, <1>5, <1>6 DEF plain

-------------------------------------------------------------------------------
(***************************************************************************)
(* Fields and totals.                                                      *)
(***************************************************************************)

\* The route a segment is evaluated on differs in the number of its segments.
LEMMA RouteFieldKept ==
    ASSUME NEW rt \in Route, NEW at \in 0..Len(rt.segments), NEW name,
           at # 0 => name # "segmentCount"
    PROVE  GetRouteFieldValue(ContextRoute(rt, at), name) = GetRouteFieldValue(rt, name)
<1> DEFINE c == ContextRoute(rt, at)
<1>1. c.floats = rt.floats /\ c.paretoRank = rt.paretoRank
  BY DEF ContextRoute, Route
<1>2. at = 0 => c.segments = rt.segments
  BY DEF ContextRoute, Route
<1> HIDE DEF c
<1>3. GetRouteFieldValue(c, name) = GetRouteFieldValue(rt, name)
  BY <1>1, <1>2 DEF GetRouteFieldValue, RouteFloats
<1>4. QED
  BY <1>3 DEF c

\* Numbers in fields are numbers.
LEMMA NumberInField ==
    ASSUME NEW rt \in Route, NEW f, NEW i \in 1..Len(rt.segments), Numeric(Amount(f, rt, i))
    PROVE  Amount(f, rt, i).is \in Int
<1>1. rt.segments[i] \in Segment
  BY ElementOfSeq DEF Route
<1>2. f.of = "segment" /\ Amount(f, rt, i) = GetSegmentFieldValue(rt.segments[i], f.name)
  BY DEF Amount, Missing, Numeric
<1>3. CASE f.name \in SegmentFloats
  BY <1>1, <1>2, <1>3 DEF GetSegmentFieldValue, Segment, VFloat, SegmentFloats
<1>4. CASE f.name \in {"carrierWageCents", "sequence"}
  BY <1>1, <1>2, <1>4 DEF GetSegmentFieldValue, Segment, VInt, SegmentFloats
<1>5. CASE f.name \notin SegmentFloats \cup {"carrierWageCents", "sequence"}
  BY <1>2, <1>5 DEF GetSegmentFieldValue, VString, Missing, Numeric
<1>6. QED
  BY <1>3, <1>4, <1>5

\* The total over all segments, the others counting nothing, is the one over
\* the legs where the field is a number, and as many are counted.
LEMMA TotalIs ==
    ASSUME NEW rt \in Route, NEW f
    PROVE  /\ Counted(f, rt, 0) = LegsWith(f, rt)
           /\ Total(f, rt, 0) = TotalOf(f, rt)
           /\ TotalOf(f, rt) \in Int
<1> DEFINE S == 1..Len(rt.segments)
           T == LegsWith(f, rt)
           h == [i \in S |-> IF i \in T THEN Amount(f, rt, i).is ELSE 0]
<1>1. /\ DOMAIN rt.segments = S /\ Segments(rt, 0) = S /\ IsFiniteSet(S)
      /\ Len(rt.segments) \in Nat
  BY Places, FS_Interval DEF Segments
<1>2. \A i \in S : f.of = "segment" => Amount(f, rt, i) = FieldAt(f, rt, i)
  BY <1>1 DEF Amount, FieldAt
<1>3. Counted(f, rt, 0) = T
  BY <1>1, <1>2 DEF Counted, LegsWith, Amount, Missing, Numeric
<1>4. T \in SUBSET S
  BY <1>1 DEF LegsWith
<1>5. \A i \in T : /\ i \in S /\ Amount(f, rt, i) = FieldAt(f, rt, i)
                   /\ Amount(f, rt, i).is \in Int
  BY <1>1, <1>2, NumberInField DEF LegsWith
<1>6. Total(f, rt, 0) = SumOf(h)
  BY <1>1, <1>3 DEF Total
<1>7. TotalOf(f, rt) = SumOf([i \in T |-> h[i]])
  <2>1. [i \in T |-> FieldAt(f, rt, i).is] = [i \in T |-> h[i]]
    BY <1>4, <1>5
  <2>2. QED
    BY <2>1 DEF TotalOf
<1>8. h \in [S -> Int] /\ \A i \in S \ T : h[i] = 0
  BY <1>5
<1>9. \A i \in T : h[i] \in Int
  BY <1>4, <1>8
<1> HIDE DEF h, S, T
<1>10. SumOf(h) = SumOf([i \in T |-> h[i]]) /\ SumOf(h) \in Int
  BY <1>1, <1>4, <1>8, SumSupport, SumIsInt
<1>11. QED
  BY <1>3, <1>6, <1>7, <1>10 DEF T

-------------------------------------------------------------------------------
(***************************************************************************)
(* The two evaluators, and the one meaning.                                *)
(***************************************************************************)

\* v and m say the same of the expression e as far as it is plain.
Same(rt, e) ==
    LET v == Verdicts(rt)[e]
        m == Meanings(rt)[e]
    IN  /\ Plains[e][FALSE] => v[0] = m[0]
        /\ Plains[e][TRUE] => \A i \in 1..Len(rt.segments) : v[i] = m[i]

\* On the route, if so for the parts.
LEMMA SameOnRoute ==
    ASSUME NEW rt \in Route, NEW e \in Expressions,
           \A part \in Parts(e) : part \in Expressions /\ Same(rt, part),
           Plains[e][FALSE]
    PROVE  Verdicts(rt)[e][0] = Meanings(rt)[e][0]
<1> DEFINE v == Verdicts(rt)
           m == Meanings(rt)
           S == 1..Len(rt.segments)
<1>1. /\ IsExpression(e) /\ 0 \in 0..Len(rt.segments)
      /\ DOMAIN rt.segments = S /\ Segments(rt, 0) = S
  BY ConstraintAssumption, Places DEF Segments
<1>2. v[e][0] = Evaluate(v, e, rt, 0) /\ m[e][0] = Holding(m, e, rt, 0)
  BY <1>1, VerdictAt, MeaningAt
<1>3. \A part \in Parts(e) :
         /\ Plains[part][FALSE] => v[part][0] = m[part][0]
         /\ Plains[part][TRUE] => \A i \in S : v[part][i] = m[part][i]
  BY DEF Same
<1>4. ASSUME e.op \in {"compare", "inSet", "notInSet", "between", "exists"}
      PROVE  FieldAt(e.field, rt, 0) =
                IF e.field.of = "route" THEN GetRouteFieldValue(ContextRoute(rt, 0), e.field.name)
                ELSE Missing
  <2>1. e.field \in FieldRef
    BY <1>1, <1>4 DEF IsExpression
  <2>2. QED
    BY <1>1, <2>1, RouteFieldKept DEF FieldAt, FieldRef
<1> SUFFICES Evaluate(v, e, rt, 0) = Holding(m, e, rt, 0)
  BY <1>2
<1> HIDE DEF v, m
<1>5. CASE e.op = "literal"
  BY <1>5 DEF Evaluate, Holding
<1>6. CASE e.op = "not"
  <2>1. e.arg \in Parts(e) /\ Plains[e.arg][FALSE]
    BY <1>6, PlainOp DEF Parts
  <2>2. v[e.arg][0] = m[e.arg][0]
    BY <1>3, <2>1
  <2>3. QED
    BY <1>6, <2>2 DEF Evaluate, Holding
<1>7. CASE e.op \in {"and", "or"}
  <2>1. /\ e.left \in Parts(e) /\ Plains[e.left][FALSE]
        /\ e.right \in Parts(e) /\ Plains[e.right][FALSE]
    BY <1>7, PlainOp DEF Parts
  <2>2. v[e.left][0] = m[e.left][0] /\ v[e.right][0] = m[e.right][0]
    BY <1>3, <2>1
  <2>3. QED
    BY <1>7, <2>2 DEF Evaluate, Holding
<1>8. CASE e.op \in {"all", "any", "count"}
  <2>0. e.arg \in Parts(e) /\ Plains[e.arg][TRUE]
    BY <1>8, PlainOp DEF Parts
  <2>1. \A i \in S : v[e.arg][i] = m[e.arg][i]
    BY <1>3, <2>0
  <2>2. {i \in S : v[e.arg][i]} = {i \in S : m[e.arg][i]}
    BY <2>1
  <2>3. CASE e.op = "count"
    BY <1>1, <2>2, <2>3 DEF Evaluate, Holding
  <2>4. CASE e.op = "all"
    BY <1>1, <2>2, <2>4 DEF Evaluate, Holding
  <2>5. CASE e.op = "any"
    BY <1>1, <2>2, <2>5 DEF Evaluate, Holding
  <2>6. QED
    BY <1>8, <2>3, <2>4, <2>5
<1>9. CASE e.op = "sum"
  BY <1>9, TotalIs DEF Evaluate, Holding
<1>10. CASE e.op = "avg"
  <2> DEFINE total == TotalOf(e.field, rt)
             number == Cardinality(LegsWith(e.field, rt))
  <2>1. Evaluate(v, e, rt, 0) = CompareAverage(total, number, e.cmp, e.value)
    BY <1>10, TotalIs DEF Evaluate
  <2>2. Holding(m, e, rt, 0) =
          (/\ Numeric(e.value)
           /\ Holds(total, e.cmp, e.value.is * (IF number = 0 THEN 1 ELSE number)))
    BY <1>10 DEF Holding
  <2>3. e.value \in Value
    BY <1>1, <1>10 DEF IsExpression
  <2> HIDE DEF total, number
  <2> DEFINE times == IF number = 0 THEN 1 ELSE number
             w == [e.value EXCEPT !.is = @ * times]
  <2>4. w.type = e.value.type /\ w.is = e.value.is * times
    BY <2>3 DEF Value
  <2>5. CompareAverage(total, number, e.cmp, e.value) = CompareValues(VFloat(total), e.cmp, w)
    BY DEF CompareAverage
  <2> HIDE DEF times, w
  <2>6. CompareValues(VFloat(total), e.cmp, w) =
          (Numeric(e.value) /\ Holds(total, e.cmp, w.is))
    BY <2>4 DEF CompareValues, VFloat, Numeric
  <2>7. QED
    BY <2>1, <2>2, <2>4, <2>5, <2>6 DEF times
<1>11. CASE e.op = "compare"
  BY <1>4, <1>11 DEF Evaluate, Holding
<1>12. CASE e.op = "inSet"
  BY <1>4, <1>12 DEF Evaluate, Holding, ValueInSet
<1>13. CASE e.op = "notInSet"
  BY <1>4, <1>13 DEF Evaluate, Holding, ValueInSet
<1>14. CASE e.op = "between"
  BY <1>4, <1>14 DEF Evaluate, Holding
<1>15. CASE e.op = "exists"
  BY <1>4, <1>15 DEF Evaluate, Holding
<1>16. QED
  BY <1>1, <1>5, <1>6, <1>7, <1>8, <1>9, <1>10, <1>11, <1>12, <1>13, <1>14, <1>15 DEF IsExpression

\* At each of its segments, if so for the parts.
LEMMA SameAtSegments ==
    ASSUME NEW rt \in Route, NEW e \in Expressions, NEW i \in 1..Len(rt.segments),
           \A part \in Parts(e) : part \in Expressions /\ Same(rt, part),
           Plains[e][TRUE]
    PROVE  Verdicts(rt)[e][i] = Meanings(rt)[e][i]
<1> DEFINE v == Verdicts(rt)
           m == Meanings(rt)
<1>1. IsExpression(e) /\ i \in 0..Len(rt.segments) /\ i # 0
  BY ConstraintAssumption, Places
<1>2. v[e][i] = EvaluateWithSegment(v, e, rt, i) /\ m[e][i] = Holding(m, e, rt, i)
  BY <1>1, VerdictAt, MeaningAt
<1>3. \A part \in Parts(e) : Plains[part][TRUE] => v[part][i] = m[part][i]
  BY DEF Same
<1> DEFINE routeValue == GetRouteFieldValue(ContextRoute(rt, i), e.field.name)
<1>4. ASSUME e.op \in {"compare", "inSet", "notInSet", "between", "exists"}
      PROVE  /\ e.field.of \in {"route", "segment", "carrier", "shipment"}
             /\ FieldAt(e.field, rt, i) =
                   CASE e.field.of = "route" -> routeValue
                     [] e.field.of = "segment" -> GetSegmentFieldValue(rt.segments[i], e.field.name)
                     [] e.field.of = "carrier" -> CarrierFieldValue(rt.segments[i], e.field.name)
                     [] OTHER -> Missing
  <2>1. e.field \in FieldRef /\ e.field # Field("route", "segmentCount")
    BY <1>1, <1>4, PlainOp DEF IsExpression
  <2>2. e.field.of = "route" => routeValue = GetRouteFieldValue(rt, e.field.name)
    BY <1>1, <2>1, RouteFieldKept DEF FieldRef, Field
  <2>3. QED
    BY <1>1, <2>1, <2>2 DEF FieldAt, FieldRef
<1> SUFFICES EvaluateWithSegment(v, e, rt, i) = Holding(m, e, rt, i)
  BY <1>2
<1> HIDE DEF v, m, routeValue
<1>5. CASE e.op = "literal"
  BY <1>5 DEF EvaluateWithSegment, Evaluate, Holding
<1>6. CASE e.op = "not"
  <2>1. v[e.arg][i] = m[e.arg][i]
    BY <1>3, <1>6, PlainOp DEF Parts
  <2>2. QED
    BY <1>6, <2>1 DEF EvaluateWithSegment, Holding
<1>7. CASE e.op \in {"and", "or"}
  <2>1. v[e.left][i] = m[e.left][i] /\ v[e.right][i] = m[e.right][i]
    BY <1>3, <1>7, PlainOp DEF Parts
  <2>2. QED
    BY <1>7, <2>1 DEF EvaluateWithSegment, Holding
<1>8. CASE e.op \in {"all", "any", "count", "sum", "avg"}
  BY <1>8, PlainOp
<1>9. CASE e.op = "compare"
  BY <1>4, <1>9 DEF EvaluateWithSegment, Holding, routeValue
<1>10. CASE e.op \in {"inSet", "notInSet"}
  <2>1. e.field.of \in {"segment", "shipment"}
    BY <1>10, PlainOp
  <2>2. CASE e.field.of = "segment"
    BY <1>4, <1>10, <2>2 DEF EvaluateWithSegment, Holding, ValueInSet
  <2>3. CASE e.field.of = "shipment"
    <3>1. FieldAt(e.field, rt, i) = Missing
      BY <1>4, <1>10, <2>3
    <3>2. \A w : ~CompareValues(Missing, "Eq", w)
      BY DEF CompareValues, Missing, Numeric
    <3>3. QED
      BY <1>10, <2>3, <3>1, <3>2 DEF EvaluateWithSegment, Holding
  <2>4. QED
    BY <2>1, <2>2, <2>3
<1>11. CASE e.op \in {"between", "exists"}
  <2>1. e.field.of \in {"route", "shipment"}
    BY <1>11, PlainOp
  <2>2. EvaluateWithSegment(v, e, rt, i) = Evaluate(v, e, rt, i)
    BY <1>11 DEF EvaluateWithSegment
  <2>3. FieldAt(e.field, rt, i) = IF e.field.of = "route" THEN routeValue ELSE Missing
    BY <1>4, <1>11, <2>1
  <2>4. QED
    BY <1>11, <2>2, <2>3 DEF Evaluate, Holding, routeValue
<1>12. QED
  BY <1>1, <1>5, <1>6, <1>7, <1>8, <1>9, <1>10, <1>11 DEF IsExpression

(***************************************************************************)
(* evaluate and evaluateWithSegment, which call each other and fall back   *)
(* on each other, judge a plain expression as its one meaning does: on     *)
(* every route, and at every segment of it.                                *)
(***************************************************************************)
THEOREM PlainMeansWhatItSays ==
    ASSUME NEW rt \in Route, NEW e \in Expressions
    PROVE  Same(rt, e)
<1> DEFINE T == {x \in Expressions : ~Same(rt, x)}
<1>1. SUFFICES ASSUME T # {}
               PROVE  FALSE
  OBVIOUS
<1>2. PICK x \in T : \A part \in Parts(x) : part \in Expressions /\ part \notin T
  <2>1. T \subseteq Expressions
    OBVIOUS
  <2> HIDE DEF T
  <2>2. QED
    BY <1>1, <2>1, Shallowest
<1>3. x \in Expressions /\ ~Same(rt, x)
  BY <1>2
<1>4. \A part \in Parts(x) : part \in Expressions /\ Same(rt, part)
  BY <1>2
<1>5. Plains[x][FALSE] => Verdicts(rt)[x][0] = Meanings(rt)[x][0]
  BY <1>3, <1>4, SameOnRoute
<1>6. Plains[x][TRUE] => \A i \in 1..Len(rt.segments) : Verdicts(rt)[x][i] = Meanings(rt)[x][i]
  BY <1>3, <1>4, SameAtSegments
<1>7. QED
  BY <1>3, <1>5, <1>6 DEF Same

-------------------------------------------------------------------------------
(***************************************************************************)
(* evaluateConstraints.                                                    *)
(***************************************************************************)

\* The constraint for the next result is one of the list.
LEMMA NextConstraint ==
    ASSUME IInv, NEW i \in 1..Len(constraints)
    PROVE  /\ constraints[i].isHard \in BOOLEAN
           /\ constraints[i].expression \in Expressions
           /\ route \in Route
           /\ 0 \in 0..Len(route.segments)
           /\ Verdicts(route)[constraints[i].expression][0] \in BOOLEAN
<1>1. constraints \in Seq([id : STRING, isHard : BOOLEAN, expression : Expressions])
  BY ConstraintAssumption DEF IInv
<1>2. constraints[i] \in [id : STRING, isHard : BOOLEAN, expression : Expressions]
  BY <1>1, ElementOfSeq
<1>3. route \in Route
  BY ConstraintAssumption DEF IInv
<1>4. 0 \in 0..Len(route.segments)
  BY <1>3, Places
<1>5. Verdicts(route)[constraints[i].expression] \in SaidOf(route)
  BY <1>2, <1>3, VerdictsRecur
<1>6. QED
  BY <1>2, <1>3, <1>4, <1>5 DEF SaidOf

LEMMA InitIInv == Init => IInv
<1>1. SUFFICES ASSUME Init
               PROVE  IInv
  OBVIOUS
<1>2. constraints \in Seq([id : STRING, isHard : BOOLEAN, expression : Expressions])
  BY <1>1, ConstraintAssumption DEF Init
<1>3. Len(constraints) \in Nat
  BY <1>2, LenProperties
<1>4. TypeOK
  BY <1>1, <1>3 DEF Init, TypeOK
<1>5. QED
  BY <1>1, <1>4 DEF Init, IInv, Judged

LEMMA NextIInv == IInv /\ [EvaluateConstraint]_vars => IInv'
<1>1. SUFFICES ASSUME IInv, [EvaluateConstraint]_vars
               PROVE  IInv'
  OBVIOUS
<1>2. CASE UNCHANGED vars
  BY <1>1, <1>2 DEF vars, IInv, TypeOK, Judged
<1>3. CASE EvaluateConstraint
  <2> DEFINE n == Len(results)
             Result == [passed : BOOLEAN, isHard : BOOLEAN, score : {0, 1}]
             c == constraints[n + 1]
             passed == Verdicts(route)[c.expression][0]
             r == [passed |-> passed, isHard |-> c.isHard, score |-> IF passed THEN 1 ELSE 0]
  <2>1. /\ n \in Nat /\ n < Len(constraints) /\ Len(constraints) \in Nat
        /\ results \in Seq(Result)
    <3>1. results \in Seq(Result) /\ n < Len(constraints)
      BY <1>1, <1>3 DEF EvaluateConstraint, IInv, TypeOK
    <3>2. constraints \in Seq([id : STRING, isHard : BOOLEAN, expression : Expressions])
      BY <1>1, ConstraintAssumption DEF IInv
    <3>3. QED
      BY <3>1, <3>2, LenProperties
  <2>2. n + 1 \in 1..Len(constraints)
    BY <2>1
  <2>3. r \in Result
    BY <1>1, <2>2, NextConstraint
  <2>4. results' = Append(results, r) /\ UNCHANGED <<constraints, route>>
    BY <1>3 DEF EvaluateConstraint
  <2>5. /\ results' \in Seq(Result) /\ Len(results') = n + 1
        /\ results'[n + 1] = r /\ \A i \in 1..n : results'[i] = results[i]
        /\ DOMAIN results' = 1..n + 1 /\ DOMAIN results = 1..n
    BY <2>1, <2>3, <2>4, AppendProperties, LenProperties
  <2>6. TypeOK'
    BY <2>1, <2>4, <2>5 DEF TypeOK
  <2>7. Judged'
    <3>1. SUFFICES ASSUME NEW i \in 1..n + 1
                   PROVE  /\ results'[i].passed = Verdicts(route)[constraints[i].expression][0]
                          /\ results'[i].isHard = constraints[i].isHard
                          /\ results'[i].score = IF results'[i].passed THEN 1 ELSE 0
      BY <2>4, <2>5 DEF Judged
    <3>2. CASE i = n + 1
      BY <2>5, <3>2
    <3>3. CASE i # n + 1
      <4>1. i \in DOMAIN results /\ results'[i] = results[i]
        BY <2>1, <2>5, <3>3
      <4>2. QED
        BY <1>1, <4>1 DEF IInv, Judged
    <3>4. QED
      BY <3>2, <3>3
  <2>8. QED
    BY <1>1, <2>4, <2>6, <2>7 DEF IInv
<1>4. QED
  BY <1>1, <1>2, <1>3

(***************************************************************************)
(* A result for each constraint so far, in their order: the verdict on     *)
(* this route, hard as the constraint is, all or nothing for the score.    *)
(***************************************************************************)
THEOREM ResultsInvariant == Spec => []IInv
BY InitIInv, NextIInv, PTL DEF Spec

\* There are never more results than constraints, and all are well formed.
THEOREM ResultsTypeOK == Spec => []TypeOK
BY ResultsInvariant, PTL DEF IInv

\* A result judges its constraint.
LEMMA ResultIs ==
    ASSUME IInv, NEW i \in DOMAIN results
    PROVE  /\ i \in 1..Len(constraints)
           /\ constraints[i].expression \in Expressions
           /\ route \in Route
           /\ results[i].passed = Verdicts(route)[constraints[i].expression][0]
           /\ results[i].isHard = constraints[i].isHard
           /\ results[i].score = IF results[i].passed THEN 1 ELSE 0
           /\ results[i].passed \in BOOLEAN
<1>1. results \in Seq([passed : BOOLEAN, isHard : BOOLEAN, score : {0, 1}])
  BY DEF IInv, TypeOK
<1>2. Len(results) \in Nat /\ i \in 1..Len(results)
  BY <1>1, LenProperties
<1>3. constraints \in Seq([id : STRING, isHard : BOOLEAN, expression : Expressions])
  BY ConstraintAssumption DEF IInv
<1>4. Len(constraints) \in Nat /\ Len(results) <= Len(constraints)
  BY <1>3, LenProperties DEF IInv, TypeOK
<1>5. i \in 1..Len(constraints)
  BY <1>2, <1>4
<1>6. results[i].passed \in BOOLEAN
  <2>1. results[i] \in [passed : BOOLEAN, isHard : BOOLEAN, score : {0, 1}]
    BY <1>1, <1>2, ElementOfSeq
  <2>2. QED
    BY <2>1
<1>7. QED
  BY <1>5, <1>6, NextConstraint DEF IInv, Judged

\* The score is full when every result is.
LEMMA FullScore ==
    ASSUME IInv
    PROVE  OverallScore(results).num = OverallScore(results).den
             <=> \A i \in DOMAIN results : results[i].passed
<1> DEFINE S == DOMAIN results
           h == [i \in S |-> results[i].score]
           ones == {i \in S : h[i] = 1}
<1>1. results \in Seq([passed : BOOLEAN, isHard : BOOLEAN, score : {0, 1}])
  BY DEF IInv, TypeOK
<1>2. Len(results) \in Nat /\ S = 1..Len(results)
  BY <1>1, LenProperties
<1>3. IsFiniteSet(S) /\ Cardinality(S) = Len(results)
  <2> DEFINE n == Len(results)
  <2> HIDE DEF n
  <2>1. n \in Nat => IsFiniteSet(1..n) /\ Cardinality(1..n) = n
    BY FS_Interval
  <2>2. QED
    BY <1>2, <2>1 DEF n
<1>4. \A i \in S : results[i].passed \in BOOLEAN /\ h[i] = IF results[i].passed THEN 1 ELSE 0
  BY ResultIs
<1>5. h \in [S -> {0, 1}]
  BY <1>4
<1>6. CASE results = <<>>
  <2>1. S = {}
    BY <1>6
  <2>2. QED
    BY <1>6, <2>1 DEF OverallScore
<1>7. CASE results # <<>>
  <2>1. OverallScore(results).num = SumOf(h) /\ OverallScore(results).den = Len(results)
    BY <1>7 DEF OverallScore
  <2> HIDE DEF h
  <2>2. SumOf(h) = Cardinality(ones)
    BY <1>3, <1>5, SumOnes
  <2>3. Cardinality(ones) = Cardinality(S) <=> ones = S
    BY <1>3, FS_Subset
  <2>4. ones = S <=> \A i \in S : results[i].passed
    BY <1>4
  <2>5. QED
    BY <1>3, <2>1, <2>2, <2>3, <2>4
<1>8. QED
  BY <1>6, <1>7

\* A result of a plain expression is what the expression means.
LEMMA PlainResult ==
    ASSUME IInv, NEW i \in DOMAIN results, Plain(constraints[i].expression)
    PROVE  results[i].passed <=> Meant(i)
<1>1. Same(route, constraints[i].expression)
  BY ResultIs, PlainMeansWhatItSays
<1>2. Verdicts(route)[constraints[i].expression][0] = Meant(i)
  BY <1>1 DEF Same, Plain, Meant
<1>3. QED
  BY <1>2, ResultIs

LEMMA IInvVerdictsMean == IInv => VerdictsMean
<1>1. SUFFICES ASSUME IInv
               PROVE  VerdictsMean
  OBVIOUS
<1> DEFINE score == OverallScore(results)
           done == DOMAIN results
           plain == {i \in done : Plain(constraints[i].expression)}
<1>2. \A i \in plain : results[i].passed <=> Meant(i)
  BY <1>1, PlainResult
<1>3. \A i \in done : results[i].isHard = constraints[i].isHard
  BY <1>1, ResultIs
<1>4. score.num = score.den <=> \A i \in done : results[i].passed
  BY <1>1, FullScore
<1>5. ASSUME plain = done
      PROVE  /\ AllHardConstraintsPassed(results) <=> \A i \in done : constraints[i].isHard => Meant(i)
             /\ score.num = score.den <=> \A i \in done : Meant(i)
  <2>1. \A i \in done : results[i].passed <=> Meant(i)
    BY <1>2, <1>5
  <2> HIDE DEF score
  <2>2. score.num = score.den <=> \A i \in done : Meant(i)
    BY <1>4, <2>1
  <2>3. AllHardConstraintsPassed(results) <=> \A i \in done : constraints[i].isHard => Meant(i)
    BY <1>3, <2>1 DEF AllHardConstraintsPassed
  <2>4. QED
    BY <2>2, <2>3
<1>6. QED
  BY <1>2, <1>5 DEF VerdictsMean

(***************************************************************************)
(* The verdict of a plain expression is its meaning, whatever the other    *)
(* constraints of the list are; so the gate opens exactly when the hard    *)
(* constraints hold, and the score is full exactly when all of them do.    *)
(***************************************************************************)
THEOREM ResultsMean == Spec => []VerdictsMean
<1>1. IInv => VerdictsMean
  BY IInvVerdictsMean
<1>2. QED
  BY <1>1, ResultsInvariant, PTL

-------------------------------------------------------------------------------
(***************************************************************************)
(* The templates.                                                          *)
(***************************************************************************)

\* A comparison of a route's field, on the route.
LEMMA RouteComparison ==
    ASSUME NEW rt \in Route, NEW name, NEW cmp, NEW w,
           Compare(Field("route", name), cmp, w) \in Expressions
    PROVE  Verdicts(rt)[Compare(Field("route", name), cmp, w)][0]
             = CompareValues(GetRouteFieldValue(rt, name), cmp, w)
<1> DEFINE e == Compare(Field("route", name), cmp, w)
           v == Verdicts(rt)
<1>1. 0 \in 0..Len(rt.segments)
  BY Places
<1>2. v[e][0] = Evaluate(v, e, rt, 0)
  BY <1>1, VerdictAt
<1>3. GetRouteFieldValue(ContextRoute(rt, 0), name) = GetRouteFieldValue(rt, name)
  BY <1>1, RouteFieldKept
<1> HIDE DEF v
<1>4. Evaluate(v, e, rt, 0) = CompareValues(GetRouteFieldValue(ContextRoute(rt, 0), name), cmp, w)
  BY DEF Evaluate, Compare, Field
<1>5. QED
  BY <1>2, <1>3, <1>4 DEF v

\* AllOf asks its part of every segment.
LEMMA AllOfSegments ==
    ASSUME NEW rt \in Route, NEW part, AllOf(part) \in Expressions
    PROVE  /\ part \in Expressions
           /\ Verdicts(rt)[AllOf(part)][0]
                <=> \A i \in DOMAIN rt.segments : EvaluateWithSegment(Verdicts(rt), part, rt, i)
<1> DEFINE e == AllOf(part)
           v == Verdicts(rt)
           S == 1..Len(rt.segments)
<1>1. part \in Expressions
  <2>1. part \in Parts(e)
    BY DEF Parts, AllOf
  <2>2. QED
    BY <2>1, ConstraintAssumption
<1>2. 0 \in 0..Len(rt.segments) /\ DOMAIN rt.segments = S /\ Segments(rt, 0) = S
  BY Places DEF Segments
<1>3. v[e][0] = Evaluate(v, e, rt, 0)
  BY <1>2, VerdictAt
<1>4. \A i \in S : v[part][i] = EvaluateWithSegment(v, part, rt, i)
  BY <1>1, <1>2, VerdictAt
<1> HIDE DEF v
<1>5. Evaluate(v, e, rt, 0) = ({i \in S : v[part][i]} = S)
  BY <1>2 DEF Evaluate, AllOf
<1>6. ({i \in S : v[part][i]} = S) <=> \A i \in S : EvaluateWithSegment(v, part, rt, i)
  BY <1>4
<1>7. QED
  BY <1>1, <1>2, <1>3, <1>5, <1>6 DEF v

\* All of a segment field's comparisons.
LEMMA AllCompare ==
    ASSUME NEW rt \in Route, NEW name, NEW cmp, NEW w,
           AllOf(Compare(Field("segment", name), cmp, w)) \in Expressions
    PROVE  Verdicts(rt)[AllOf(Compare(Field("segment", name), cmp, w))][0]
             <=> \A i \in DOMAIN rt.segments :
                    CompareValues(GetSegmentFieldValue(rt.segments[i], name), cmp, w)
<1> DEFINE part == Compare(Field("segment", name), cmp, w)
           v == Verdicts(rt)
<1>1. v[AllOf(part)][0] <=> \A i \in DOMAIN rt.segments : EvaluateWithSegment(v, part, rt, i)
  BY AllOfSegments
<1> HIDE DEF v
<1>2. ASSUME NEW i \in DOMAIN rt.segments
      PROVE  EvaluateWithSegment(v, part, rt, i)
               = CompareValues(GetSegmentFieldValue(rt.segments[i], name), cmp, w)
  BY DEF EvaluateWithSegment, Compare, Field
<1>3. QED
  BY <1>1, <1>2 DEF v

\* All of a segment field's memberships.
LEMMA AllInSet ==
    ASSUME NEW rt \in Route, NEW name, NEW values,
           AllOf(InSet(Field("segment", name), values)) \in Expressions
    PROVE  Verdicts(rt)[AllOf(InSet(Field("segment", name), values))][0]
             <=> \A i \in DOMAIN rt.segments :
                    ValueInSet(GetSegmentFieldValue(rt.segments[i], name), values)
<1> DEFINE part == InSet(Field("segment", name), values)
           v == Verdicts(rt)
<1>1. v[AllOf(part)][0] <=> \A i \in DOMAIN rt.segments : EvaluateWithSegment(v, part, rt, i)
  BY AllOfSegments
<1> HIDE DEF v
<1>2. ASSUME NEW i \in DOMAIN rt.segments
      PROVE  EvaluateWithSegment(v, part, rt, i)
               <=> ValueInSet(GetSegmentFieldValue(rt.segments[i], name), values)
  BY DEF EvaluateWithSegment, InSet, Field
<1>3. QED
  BY <1>1, <1>2 DEF v

\* None of them.
LEMMA AllNotInSet ==
    ASSUME NEW rt \in Route, NEW name, NEW values,
           AllOf(NotInSet(Field("segment", name), values)) \in Expressions
    PROVE  Verdicts(rt)[AllOf(NotInSet(Field("segment", name), values))][0]
             <=> \A i \in DOMAIN rt.segments :
                    ~ValueInSet(GetSegmentFieldValue(rt.segments[i], name), values)
<1> DEFINE part == NotInSet(Field("segment", name), values)
           v == Verdicts(rt)
<1>1. v[AllOf(part)][0] <=> \A i \in DOMAIN rt.segments : EvaluateWithSegment(v, part, rt, i)
  BY AllOfSegments
<1> HIDE DEF v
<1>2. ASSUME NEW i \in DOMAIN rt.segments
      PROVE  EvaluateWithSegment(v, part, rt, i)
               <=> ~ValueInSet(GetSegmentFieldValue(rt.segments[i], name), values)
  BY DEF EvaluateWithSegment, NotInSet, Field
<1>3. QED
  BY <1>1, <1>2 DEF v

\* A string is in a set of strings as its place in the order is in theirs.
LEMMA StringIn ==
    ASSUME NEW x, NEW places
    PROVE  ValueInSet(VString(x), {VString(c) : c \in places}) <=> x \in places
<1>1. \A c : CompareValues(VString(x), "Eq", VString(c)) <=> x = c
  BY DEF CompareValues, VString, Numeric, Holds
<1>2. QED
  BY <1>1 DEF ValueInSet

\* A budget or a limit of the whole route.
LEMMA BudgetMeans ==
    ASSUME IInv, NEW i \in DOMAIN results, NEW name, NEW cmp \in {"Lte", "Gte"},
           NEW w, Numeric(w), Numeric(GetRouteFieldValue(route, name)),
           constraints[i].expression = Compare(Field("route", name), cmp, w)
    PROVE  results[i].passed <=> Holds(GetRouteFieldValue(route, name).is, cmp, w.is)
<1> DEFINE e == constraints[i].expression
<1>1. /\ route \in Route /\ e \in Expressions
      /\ results[i].passed = Verdicts(route)[e][0]
  BY ResultIs
<1>2. Verdicts(route)[e][0] = CompareValues(GetRouteFieldValue(route, name), cmp, w)
  BY <1>1, RouteComparison
<1>3. CompareValues(GetRouteFieldValue(route, name), cmp, w)
        <=> Holds(GetRouteFieldValue(route, name).is, cmp, w.is)
  BY DEF CompareValues
<1>4. QED
  BY <1>1, <1>2, <1>3

LEMMA IInvTemplatesMean == IInv => TemplatesMean
<1>1. SUFFICES ASSUME IInv, NEW i \in DOMAIN results,
                      NEW n \in Arguments, NEW set \in SUBSET Arguments
               PROVE  LET c == constraints[i]
                          verdict(is) == results[i].passed <=> is
                          legs == {route.segments[j] : j \in DOMAIN route.segments}
                      IN  /\ c = MinWage(n) => verdict(\A s \in legs : s["carrierWageCents"] >= n)
                          /\ c = NoSanctionedCarriers(set) =>
                                verdict(\A s \in legs : s["carrierCode"] \notin set)
                          /\ c = AllowedModes(set) => verdict(\A s \in legs : s["mode"] \in set)
                          /\ c = CarbonBudget(n) => verdict(route.floats["totalCarbonKg"] <= n)
                          /\ c = CostBudget(n) => verdict(route.floats["totalCostUsd"] <= n)
                          /\ c = TimeWindow(n) => verdict(route.floats["totalTransitHours"] <= n)
                          /\ c = MinLaborScore(n) => verdict(route.floats["laborScore"] >= n)
                          /\ c = MaxSegments(n) => verdict(Len(route.segments) <= n)
  BY DEF TemplatesMean
<1> DEFINE c == constraints[i]
           S == DOMAIN route.segments
           legs == {route.segments[j] : j \in S}
<1>2. /\ route \in Route /\ c.expression \in Expressions
      /\ results[i].passed = Verdicts(route)[c.expression][0]
  BY <1>1, ResultIs
<1>3. ASSUME c = MinWage(n)
      PROVE  results[i].passed <=> \A s \in legs : s["carrierWageCents"] >= n
  <2>1. c.expression = AllOf(Compare(Field("segment", "carrierWageCents"), "Gte", VInt(n)))
    BY <1>3 DEF MinWage, Hard
  <2>2. results[i].passed <=>
          \A j \in S : CompareValues(GetSegmentFieldValue(route.segments[j], "carrierWageCents"),
                                     "Gte", VInt(n))
    BY <1>2, <2>1, AllCompare
  <2>3. \A s : CompareValues(GetSegmentFieldValue(s, "carrierWageCents"), "Gte", VInt(n))
               <=> s["carrierWageCents"] >= n
    BY DEF GetSegmentFieldValue, SegmentFloats, CompareValues, VInt, Numeric, Holds
  <2>4. QED
    BY <2>2, <2>3
<1>4. ASSUME c = NoSanctionedCarriers(set)
      PROVE  results[i].passed <=> \A s \in legs : s["carrierCode"] \notin set
  <2> DEFINE values == {VString(x) : x \in set}
             part == NotInSet(Field("segment", "carrierCode"), values)
  <2>1. c.expression = AllOf(part)
    BY <1>4 DEF NoSanctionedCarriers, Hard
  <2>2. results[i].passed <=>
          \A j \in S : ~ValueInSet(GetSegmentFieldValue(route.segments[j], "carrierCode"), values)
    <3> HIDE DEF values
    <3>1. QED
      BY <1>2, <2>1, AllNotInSet
  <2>3. \A s : GetSegmentFieldValue(s, "carrierCode") = VString(s["carrierCode"])
    BY DEF GetSegmentFieldValue, SegmentFloats
  <2>4. \A s : ValueInSet(VString(s["carrierCode"]), values) <=> s["carrierCode"] \in set
    BY StringIn
  <2> HIDE DEF values
  <2>5. QED
    BY <2>2, <2>3, <2>4
<1>5. ASSUME c = AllowedModes(set)
      PROVE  results[i].passed <=> \A s \in legs : s["mode"] \in set
  <2> DEFINE values == {VString(x) : x \in set}
             part == InSet(Field("segment", "mode"), values)
  <2>1. c.expression = AllOf(part)
    BY <1>5 DEF AllowedModes, Hard
  <2>2. results[i].passed <=>
          \A j \in S : ValueInSet(GetSegmentFieldValue(route.segments[j], "mode"), values)
    <3> HIDE DEF values
    <3>1. QED
      BY <1>2, <2>1, AllInSet
  <2>3. \A s : GetSegmentFieldValue(s, "mode") = VString(s["mode"])
    BY DEF GetSegmentFieldValue, SegmentFloats
  <2>4. \A s : ValueInSet(VString(s["mode"]), values) <=> s["mode"] \in set
    BY StringIn
  <2> HIDE DEF values
  <2>5. QED
    BY <2>2, <2>3, <2>4
<1>6. ASSUME NEW name \in RouteFloats
      PROVE  /\ GetRouteFieldValue(route, name) = VFloat(route.floats[name])
             /\ Numeric(GetRouteFieldValue(route, name))
  BY DEF GetRouteFieldValue, RouteFloats, VFloat, Numeric
<1>7. /\ GetRouteFieldValue(route, "segmentCount") = VInt(Len(route.segments))
      /\ Numeric(GetRouteFieldValue(route, "segmentCount"))
  BY DEF GetRouteFieldValue, RouteFloats, VInt, Numeric
<1>8. \A x : /\ Numeric(VFloat(x)) /\ VFloat(x).is = x
             /\ Numeric(VInt(x)) /\ VInt(x).is = x
  BY DEF VFloat, VInt, Numeric
<1>9. ASSUME NEW name \in {"totalCarbonKg", "totalCostUsd", "totalTransitHours"},
             c.expression = Compare(Field("route", name), "Lte", VFloat(n))
      PROVE  results[i].passed <=> route.floats[name] <= n
  <2>1. name \in RouteFloats
    BY DEF RouteFloats
  <2>2. results[i].passed <=> Holds(GetRouteFieldValue(route, name).is, "Lte", VFloat(n).is)
    BY <1>1, <1>6, <1>8, <1>9, <2>1, BudgetMeans
  <2>3. GetRouteFieldValue(route, name).is = route.floats[name] /\ VFloat(n).is = n
    BY <1>6, <1>8, <2>1
  <2>4. QED
    BY <2>2, <2>3 DEF Holds
<1>10. c = CarbonBudget(n) => (results[i].passed <=> route.floats["totalCarbonKg"] <= n)
  BY <1>9 DEF CarbonBudget, Soft
<1>11. c = CostBudget(n) => (results[i].passed <=> route.floats["totalCostUsd"] <= n)
  BY <1>9 DEF CostBudget, Soft
<1>12. c = TimeWindow(n) => (results[i].passed <=> route.floats["totalTransitHours"] <= n)
  BY <1>9 DEF TimeWindow, Hard
<1>13. ASSUME c = MinLaborScore(n)
       PROVE  results[i].passed <=> route.floats["laborScore"] >= n
  <2>1. "laborScore" \in RouteFloats
    BY DEF RouteFloats
  <2>2. c.expression = Compare(Field("route", "laborScore"), "Gte", VFloat(n))
    BY <1>13 DEF MinLaborScore, Soft
  <2>3. results[i].passed
          <=> Holds(GetRouteFieldValue(route, "laborScore").is, "Gte", VFloat(n).is)
    BY <1>1, <1>6, <1>8, <2>1, <2>2, BudgetMeans
  <2>4. GetRouteFieldValue(route, "laborScore").is = route.floats["laborScore"] /\ VFloat(n).is = n
    BY <1>6, <1>8, <2>1
  <2>5. QED
    BY <2>3, <2>4 DEF Holds
<1>14. ASSUME c = MaxSegments(n)
       PROVE  results[i].passed <=> Len(route.segments) <= n
  <2>1. c.expression = Compare(Field("route", "segmentCount"), "Lte", VInt(n))
    BY <1>14 DEF MaxSegments, Soft
  <2>2. results[i].passed
          <=> Holds(GetRouteFieldValue(route, "segmentCount").is, "Lte", VInt(n).is)
    BY <1>1, <1>7, <1>8, <2>1, BudgetMeans
  <2>3. GetRouteFieldValue(route, "segmentCount").is = Len(route.segments) /\ VInt(n).is = n
    BY <1>7, <1>8
  <2>4. QED
    BY <2>2, <2>3 DEF Holds
<1>15. QED
  BY <1>3, <1>4, <1>5, <1>10, <1>11, <1>12, <1>13, <1>14

(***************************************************************************)
(* A built-in template holds of exactly the routes its description says,   *)
(* of any number of legs.                                                  *)
(***************************************************************************)
THEOREM ResultsOfTemplates == Spec => []TemplatesMean
<1>1. IInv => TemplatesMean
  BY IInvTemplatesMean
<1>2. QED
  BY <1>1, ResultsInvariant, PTL

(***************************************************************************)
(* A list of carriers to avoid, by the field of the carrier, excludes      *)
(* nothing: evaluateWithSegment finds in a list only fields of segments,   *)
(* so every route passes, whoever carries it.                              *)
(***************************************************************************)
THEOREM CarrierListExcludesNothing ==
    ASSUME NEW rt \in Route, NEW name, NEW values,
           AllOf(NotInSet(Field("carrier", name), values)) \in Expressions
    PROVE  Verdicts(rt)[AllOf(NotInSet(Field("carrier", name), values))][0]
<1> DEFINE part == NotInSet(Field("carrier", name), values)
           v == Verdicts(rt)
<1>1. v[AllOf(part)][0] <=> \A i \in DOMAIN rt.segments : EvaluateWithSegment(v, part, rt, i)
  BY AllOfSegments
<1> HIDE DEF v
<1>2. ASSUME NEW i \in DOMAIN rt.segments
      PROVE  EvaluateWithSegment(v, part, rt, i)
  BY DEF EvaluateWithSegment, NotInSet, Field
<1>3. QED
  BY <1>1, <1>2 DEF v
================================================================================
