------------------------------- MODULE SumProofs -------------------------------
(***************************************************************************)
(* SumOf(h) adds up the values of h in an order it does not tell; the      *)
(* lemmas at the end say what holds in every order.                        *)
(*                                                                         *)
(* The fold is a recursive function over the subsets of the domain.  That  *)
(* there is such a function, and what it computes, follows from a smallest *)
(* subset for which it would fail.                                         *)
(***************************************************************************)
EXTENDS Sums, Integers, Sequences, FiniteSets, FiniteSetTheorems, SequenceTheorems,
        WellFoundedInduction, TLAPS

\* The element the fold takes first.
Taken(s) == CHOOSE x \in s : TRUE

\* f[s] is the sum of h over s, for every subset s of S.
SumsUp(f, h, S) ==
    f = [s \in SUBSET S |->
            IF s = {} THEN 0 ELSE h[Taken(s)] + f[s \ {Taken(s)}]]

Partial(h, S) == CHOOSE f : SumsUp(f, h, S)

-------------------------------------------------------------------------------
\* Among subsets of a finite set one has no other of them inside it.
LEMMA SmallestOf ==
    ASSUME NEW S, IsFiniteSet(S), NEW T, T \subseteq SUBSET S, T # {}
    PROVE  \E A \in T : \A B \in T : ~(B \subseteq A /\ B # A)
<1>1. IsWellFoundedOn(StrictSubsetOrdering(S), SUBSET S)
  BY FS_StrictSubsetOrderingWellFounded, FS_FiniteSubsetsOfFinite
<1>2. PICK A \in T : \A B \in T : ~(<<B, A>> \in StrictSubsetOrdering(S))
  BY <1>1, WFMin
<1>3. ASSUME NEW B \in T, B \subseteq A, B # A
      PROVE  FALSE
  <2>1. <<B, A>> \in (SUBSET S) \X (SUBSET S)
    OBVIOUS
  <2>2. <<B, A>> \in StrictSubsetOrdering(S)
    BY <1>3, <2>1 DEF StrictSubsetOrdering
  <2>3. QED
    BY <1>2, <2>2
<1>4. QED
  BY <1>3

\* Sums over a set and over another agree on the subsets they share.
LEMMA SumsAgree ==
    ASSUME NEW h, NEW S, NEW R, IsFiniteSet(S), NEW f, NEW g,
           SumsUp(f, h, S), SumsUp(g, h, R), NEW s \in SUBSET (S \cap R)
    PROVE  f[s] = g[s]
<1> DEFINE T == {t \in SUBSET (S \cap R) : f[t] # g[t]}
<1>1. SUFFICES ASSUME T # {}
               PROVE  FALSE
  OBVIOUS
<1>2. PICK A \in T : \A B \in T : ~(B \subseteq A /\ B # A)
  <2>1. T \subseteq SUBSET S /\ T # {}
    BY <1>1
  <2> HIDE DEF T
  <2>2. QED
    BY <2>1, SmallestOf
<1>3. A \in SUBSET S /\ A \in SUBSET R /\ f[A] # g[A]
  OBVIOUS
<1>4. CASE A = {}
  BY <1>3, <1>4 DEF SumsUp
<1>5. CASE A # {}
  <2> DEFINE B == A \ {Taken(A)}
  <2>1. Taken(A) \in A
    BY <1>5 DEF Taken
  <2>2. B \subseteq A /\ B # A /\ B \in SUBSET (S \cap R)
    BY <2>1, <1>3
  <2>3. f[B] = g[B]
    BY <1>2, <2>2
  <2>4. f[A] = h[Taken(A)] + f[B] /\ g[A] = h[Taken(A)] + g[B]
    BY <1>3, <1>5 DEF SumsUp
  <2>5. QED
    BY <1>3, <2>3, <2>4
<1>6. QED
  BY <1>4, <1>5

\* Those over a part agree with those over the whole.
LEMMA SumsAgreeWithin ==
    ASSUME NEW h, NEW S, NEW T \in SUBSET S, IsFiniteSet(T), NEW f, NEW g,
           SumsUp(f, h, T), SumsUp(g, h, S)
    PROVE  f[T] = g[T]
<1>1. T \cap S = T /\ T \in SUBSET T
  OBVIOUS
<1>2. QED
  BY <1>1, SumsAgree

\* There is a function of the sums.
LEMMA SumExists ==
    ASSUME NEW h, NEW S, IsFiniteSet(S)
    PROVE  SumsUp(Partial(h, S), h, S)
<1> DEFINE T == {A \in SUBSET S : ~\E f : SumsUp(f, h, A)}
<1>1. SUFFICES ASSUME T # {}
               PROVE  FALSE
  <2>1. \E f : SumsUp(f, h, S)
    BY <1>1
  <2>2. QED
    BY <2>1 DEF Partial
<1>2. PICK A \in T : \A B \in T : ~(B \subseteq A /\ B # A)
  <2>1. T \subseteq SUBSET S /\ T # {}
    BY <1>1
  <2> HIDE DEF T
  <2>2. QED
    BY <2>1, SmallestOf
<1>3. IsFiniteSet(A) /\ A \in SUBSET S
  BY FS_Subset
<1>4. ASSUME NEW B \in SUBSET A, B # A
      PROVE  SumsUp(Partial(h, B), h, B) /\ IsFiniteSet(B)
  <2>1. B \in SUBSET S /\ B \notin T
    BY <1>2, <1>3, <1>4
  <2>2. \E f : SumsUp(f, h, B)
    BY <2>1
  <2>3. QED
    BY <2>2, <1>3, FS_Subset DEF Partial
<1> DEFINE val(B) == IF B = {} THEN 0
                     ELSE h[Taken(B)] + Partial(h, B \ {Taken(B)})[B \ {Taken(B)}]
           g == [B \in SUBSET A |-> val(B)]
<1>5. ASSUME NEW B \in SUBSET A, B # A
      PROVE  val(B) = Partial(h, B)[B]
  <2>1. SumsUp(Partial(h, B), h, B) /\ IsFiniteSet(B)
    BY <1>4, <1>5
  <2>2. CASE B = {}
    BY <2>1, <2>2 DEF SumsUp
  <2>3. CASE B # {}
    <3> DEFINE C == B \ {Taken(B)}
    <3>1. Taken(B) \in B
      BY <2>3 DEF Taken
    <3>2. C \in SUBSET A /\ C # A /\ C \in SUBSET (C \cap B)
      BY <3>1
    <3>3. SumsUp(Partial(h, C), h, C) /\ IsFiniteSet(C)
      BY <1>4, <3>2
    <3>4. Partial(h, C)[C] = Partial(h, B)[C]
      BY <2>1, <3>2, <3>3, SumsAgree
    <3>5. Partial(h, B)[B] = h[Taken(B)] + Partial(h, B)[C]
      BY <2>1, <2>3 DEF SumsUp
    <3>6. QED
      BY <2>3, <3>4, <3>5
  <2>4. QED
    BY <2>2, <2>3
<1>6. ASSUME NEW B \in SUBSET A
      PROVE  g[B] = IF B = {} THEN 0 ELSE h[Taken(B)] + g[B \ {Taken(B)}]
  <2>1. CASE B = {}
    BY <2>1
  <2>2. CASE B # {}
    <3> DEFINE C == B \ {Taken(B)}
    <3>1. Taken(B) \in B
      BY <2>2 DEF Taken
    <3>2. C \in SUBSET A /\ C # A
      BY <3>1
    <3>3. g[C] = val(C) /\ g[B] = val(B)
      BY <3>2
    <3>4. val(C) = Partial(h, C)[C]
      BY <1>5, <3>2
    <3>5. val(B) = h[Taken(B)] + Partial(h, C)[C]
      BY <2>2
    <3>6. QED
      BY <2>2, <3>3, <3>4, <3>5
  <2>3. QED
    BY <2>1, <2>2
<1>7. SumsUp(g, h, A)
  <2>1. g = [B \in SUBSET A |-> g[B]]
    OBVIOUS
  <2> HIDE DEF g
  <2>2. QED
    BY <1>6, <2>1 DEF SumsUp
<1>8. QED
  BY <1>7

-------------------------------------------------------------------------------
(***************************************************************************)
(* What SumOf is.                                                          *)
(***************************************************************************)

\* The fold is the sum over the whole domain.
LEMMA FoldIsSum ==
    ASSUME NEW h
    PROVE  SumOf(h) = Partial(h, DOMAIN h)[DOMAIN h]
BY DEF SumOf, FoldFunction, FoldFunctionOnSet, MapThenFoldSet, Partial, SumsUp, Taken

\* A sum of integers is one, and one of natural numbers is natural.
LEMMA SumsTyped ==
    ASSUME NEW V \in {Nat, Int}, NEW S, IsFiniteSet(S), NEW h \in [S -> V],
           NEW f, SumsUp(f, h, S), NEW s \in SUBSET S
    PROVE  f[s] \in V
<1> DEFINE T == {t \in SUBSET S : f[t] \notin V}
<1>1. SUFFICES ASSUME T # {}
               PROVE  FALSE
  OBVIOUS
<1>2. PICK A \in T : \A B \in T : ~(B \subseteq A /\ B # A)
  <2>1. T \subseteq SUBSET S /\ T # {}
    BY <1>1
  <2> HIDE DEF T
  <2>2. QED
    BY <2>1, SmallestOf
<1>3. CASE A = {}
  BY <1>3 DEF SumsUp
<1>4. CASE A # {}
  <2> DEFINE B == A \ {Taken(A)}
  <2>1. Taken(A) \in A
    BY <1>4 DEF Taken
  <2>2. B \subseteq A /\ B # A /\ B \in SUBSET S
    BY <2>1
  <2>3. f[B] \in V /\ h[Taken(A)] \in V
    BY <1>2, <2>1, <2>2
  <2>4. f[A] = h[Taken(A)] + f[B]
    BY <1>4 DEF SumsUp
  <2>5. QED
    BY <2>3, <2>4
<1>5. QED
  BY <1>3, <1>4

\* Any element of the set may be taken first.
LEMMA SumsTakeAny ==
    ASSUME NEW S, IsFiniteSet(S), NEW h \in [S -> Int], NEW f, SumsUp(f, h, S),
           NEW s \in SUBSET S, NEW x \in s
    PROVE  f[s] = h[x] + f[s \ {x}]
<1> DEFINE T == {t \in SUBSET S : \E y \in t : f[t] # h[y] + f[t \ {y}]}
<1>1. SUFFICES ASSUME T # {}
               PROVE  FALSE
  OBVIOUS
<1>2. PICK A \in T : \A B \in T : ~(B \subseteq A /\ B # A)
  <2>1. T \subseteq SUBSET S /\ T # {}
    BY <1>1
  <2> HIDE DEF T
  <2>2. QED
    BY <2>1, SmallestOf
<1>3. PICK y \in A : f[A] # h[y] + f[A \ {y}]
  OBVIOUS
<1> DEFINE c == Taken(A)
<1>4. c \in A
  BY <1>3 DEF Taken
<1>5. f[A] = h[c] + f[A \ {c}]
  BY <1>3 DEF SumsUp
<1>6. y # c
  BY <1>3, <1>5
<1> DEFINE D == A \ {y, c}
<1>7. /\ (A \ {c}) \ {y} = D /\ (A \ {y}) \ {c} = D
      /\ y \in A \ {c} /\ c \in A \ {y}
      /\ A \ {c} \in SUBSET S /\ A \ {y} \in SUBSET S /\ D \in SUBSET S
  BY <1>3, <1>4, <1>6
<1>8. f[A \ {c}] = h[y] + f[D]
  <2>1. A \ {c} \notin T
    BY <1>2, <1>4
  <2>2. QED
    BY <1>7, <2>1
<1>9. f[A \ {y}] = h[c] + f[D]
  <2>1. A \ {y} \notin T
    BY <1>2, <1>3
  <2>2. QED
    BY <1>7, <2>1
<1>10. f[D] \in Int /\ h[y] \in Int /\ h[c] \in Int
  BY <1>3, <1>4, <1>7, SumsTyped
<1>11. QED
  BY <1>3, <1>5, <1>8, <1>9, <1>10

-------------------------------------------------------------------------------
(***************************************************************************)
(* The laws of the sum.                                                    *)
(***************************************************************************)

LEMMA SumEmpty ==
    ASSUME NEW h, DOMAIN h = {}
    PROVE  SumOf(h) = 0
<1>1. SumsUp(Partial(h, {}), h, {})
  BY SumExists, FS_EmptySet
<1>2. QED
  BY <1>1, FoldIsSum DEF SumsUp

LEMMA SumIsNat ==
    ASSUME NEW S, IsFiniteSet(S), NEW h \in [S -> Nat]
    PROVE  SumOf(h) \in Nat
<1>1. SumsUp(Partial(h, S), h, S) /\ DOMAIN h = S
  BY SumExists
<1>2. QED
  BY <1>1, FoldIsSum, SumsTyped

LEMMA SumIsInt ==
    ASSUME NEW S, IsFiniteSet(S), NEW h \in [S -> Int]
    PROVE  SumOf(h) \in Int
<1>1. SumsUp(Partial(h, S), h, S) /\ DOMAIN h = S
  BY SumExists
<1>2. QED
  BY <1>1, FoldIsSum, SumsTyped

\* The sum over a part of the domain.
LEMMA SumOfPart ==
    ASSUME NEW S, IsFiniteSet(S), NEW h, DOMAIN h = S, NEW T \in SUBSET S
    PROVE  SumOf([y \in T |-> h[y]]) = Partial(h, S)[T]
<1> DEFINE g == [y \in T |-> h[y]]
<1>1. IsFiniteSet(T) /\ DOMAIN g = T
  BY FS_Subset
<1>2. \A B \in SUBSET T : B # {} => h[Taken(B)] = g[Taken(B)]
  BY DEF Taken
<1> HIDE DEF g
<1>3. SumsUp(Partial(h, S), h, S) /\ SumsUp(Partial(g, T), g, T)
  BY <1>1, SumExists
<1>4. SumsUp(Partial(g, T), h, T)
  <2> DEFINE q == Partial(g, T)
  <2>1. q = [s \in SUBSET T |-> IF s = {} THEN 0 ELSE g[Taken(s)] + q[s \ {Taken(s)}]]
    BY <1>3 DEF SumsUp
  <2> HIDE DEF q
  <2>2. q = [s \in SUBSET T |-> IF s = {} THEN 0 ELSE h[Taken(s)] + q[s \ {Taken(s)}]]
    BY <1>2, <2>1
  <2>3. QED
    BY <2>2 DEF SumsUp, q
<1>5. Partial(g, T)[T] = Partial(h, S)[T]
  BY <1>1, <1>3, <1>4, SumsAgreeWithin
<1>6. SumOf(g) = Partial(h, S)[T]
  BY <1>1, <1>5, FoldIsSum
<1>7. QED
  BY <1>6 DEF g

\* h without its value at x.
Without(h, x) == [y \in DOMAIN h \ {x} |-> h[y]]

\* One element's value, and the sum of the rest.
LEMMA SumSplit ==
    ASSUME NEW S, IsFiniteSet(S), NEW h \in [S -> Int], NEW x \in S
    PROVE  SumOf(h) = h[x] + SumOf(Without(h, x))
<1>1. SumsUp(Partial(h, S), h, S) /\ DOMAIN h = S /\ S \ {x} \in SUBSET S
  BY SumExists
<1>2. SumOf(h) = h[x] + Partial(h, S)[S \ {x}]
  <2>1. ASSUME NEW p, SumsUp(p, h, S)
        PROVE  p[S] = h[x] + p[S \ {x}]
    <3>1. S \in SUBSET S
      OBVIOUS
    <3>2. QED
      BY <2>1, <3>1, SumsTakeAny
  <2>2. SumOf(h) = Partial(h, S)[S]
    BY <1>1, FoldIsSum
  <2>3. QED
    BY <1>1, <2>1, <2>2
<1>3. SumOf([y \in S \ {x} |-> h[y]]) = Partial(h, S)[S \ {x}]
  BY <1>1, SumOfPart
<1>4. QED
  BY <1>1, <1>2, <1>3 DEF Without

\* What is zero does not count.
LEMMA SumSupport ==
    ASSUME NEW S, IsFiniteSet(S), NEW h \in [S -> Int], NEW T \in SUBSET S,
           \A x \in S \ T : h[x] = 0
    PROVE  SumOf(h) = SumOf([x \in T |-> h[x]])
<1> DEFINE f == Partial(h, S)
           U == {t \in SUBSET S : T \subseteq t /\ f[t] # f[T]}
<1>1. SumsUp(f, h, S) /\ DOMAIN h = S
  BY SumExists
<1>2. SumOf(h) = f[S] /\ SumOf([x \in T |-> h[x]]) = f[T]
  BY <1>1, FoldIsSum, SumOfPart
<1> HIDE DEF f
<1>3. SUFFICES ASSUME U # {}
               PROVE  FALSE
  BY <1>2
<1>4. PICK A \in U : \A B \in U : ~(B \subseteq A /\ B # A)
  <2>1. U \subseteq SUBSET S /\ U # {}
    BY <1>3
  <2> HIDE DEF U
  <2>2. QED
    BY <2>1, SmallestOf
<1>5. PICK x \in A : x \notin T
  <2>1. T \subseteq A /\ f[A] # f[T]
    BY <1>4
  <2>2. A # T
    BY <2>1
  <2>3. QED
    BY <2>1, <2>2
<1>6. f[A] = h[x] + f[A \ {x}]
  BY <1>1, <1>4, <1>5, SumsTakeAny
<1>7. h[x] = 0 /\ A \ {x} \in SUBSET S /\ T \subseteq A \ {x}
  BY <1>4, <1>5
<1>8. f[A \ {x}] = f[T]
  BY <1>4, <1>5, <1>7
<1>9. f[A \ {x}] \in Int
  <2>1. Int \in {Nat, Int}
    OBVIOUS
  <2>2. QED
    BY <1>1, <1>7, <2>1, SumsTyped
<1>10. QED
  BY <1>4, <1>6, <1>7, <1>8, <1>9

\* Ones count.
LEMMA SumOnes ==
    ASSUME NEW S, IsFiniteSet(S), NEW h \in [S -> {0, 1}]
    PROVE  SumOf(h) = Cardinality({x \in S : h[x] = 1})
<1> DEFINE f == Partial(h, S)
           Ones(t) == {x \in t : h[x] = 1}
           U == {t \in SUBSET S : f[t] # Cardinality(Ones(t))}
<1>1. SumsUp(f, h, S) /\ DOMAIN h = S /\ h \in [S -> Int]
  BY SumExists
<1>2. SumOf(h) = f[S]
  BY <1>1, FoldIsSum
<1> HIDE DEF f
<1>3. SUFFICES ASSUME U # {}
               PROVE  FALSE
  BY <1>2
<1>4. PICK A \in U : \A B \in U : ~(B \subseteq A /\ B # A)
  <2>1. U \subseteq SUBSET S /\ U # {}
    BY <1>3
  <2> HIDE DEF U
  <2>2. QED
    BY <2>1, SmallestOf
<1>5. A # {}
  <2>1. f[{}] = 0 /\ Ones({}) = {}
    BY <1>1 DEF SumsUp
  <2>2. QED
    BY <1>4, <2>1, FS_EmptySet
<1>6. PICK x \in A : TRUE
  BY <1>5
<1> DEFINE B == A \ {x}
<1>7. f[A] = h[x] + f[B]
  BY <1>1, <1>4, SumsTakeAny
<1>8. f[B] = Cardinality(Ones(B))
  BY <1>4, <1>6
<1>9. IsFiniteSet(Ones(A)) /\ IsFiniteSet(Ones(B)) /\ x \in S
  BY <1>4, FS_Subset
<1>10. CASE h[x] = 1
  <2>1. x \in Ones(A) /\ Ones(B) = Ones(A) \ {x}
    BY <1>10
  <2>2. Cardinality(Ones(B)) = Cardinality(Ones(A)) - 1 /\ Cardinality(Ones(A)) \in Nat
    BY <1>9, <2>1, FS_RemoveElement, FS_CardinalityType
  <2>3. QED
    BY <1>4, <1>7, <1>8, <1>10, <2>2
<1>11. CASE h[x] = 0
  <2>1. Ones(B) = Ones(A)
    BY <1>11
  <2>2. Cardinality(Ones(A)) \in Nat
    BY <1>9, FS_CardinalityType
  <2>3. f[A] = Cardinality(Ones(A))
    <3> HIDE DEF Ones, B
    <3>1. QED
      BY <1>7, <1>8, <1>11, <2>1, <2>2
  <2>4. QED
    BY <1>4, <2>3
<1>12. QED
  BY <1>9, <1>10, <1>11

\* Changing one value changes the sum by as much.
LEMMA SumUpdate ==
    ASSUME NEW S, IsFiniteSet(S), NEW h \in [S -> Nat], NEW f \in [S -> Nat],
           NEW x \in S, \A y \in S \ {x} : f[y] = h[y]
    PROVE  SumOf(f) = SumOf(h) - h[x] + f[x]
<1> DEFINE g == Without(h, x)
<1>1. f[x] \in Nat /\ h[x] \in Nat /\ g = Without(f, x)
  BY DEF Without
<1>2. g \in [S \ {x} -> Nat] /\ IsFiniteSet(S \ {x})
  BY FS_RemoveElement DEF Without
<1>3. SumOf(g) \in Nat
  BY <1>2, SumIsNat
<1>4. SumOf(h) = h[x] + SumOf(g)
  <2>1. h \in [S -> Int]
    OBVIOUS
  <2>2. QED
    BY <2>1, SumSplit
<1>5. SumOf(f) = f[x] + SumOf(g)
  <2>1. f \in [S -> Int]
    OBVIOUS
  <2>2. QED
    BY <1>1, <2>1, SumSplit
<1>6. QED
  BY <1>1, <1>3, <1>4, <1>5

\* Counters that start at zero sum up to zero.
LEMMA SumZero ==
    ASSUME NEW S, IsFiniteSet(S)
    PROVE  SumOf([x \in S |-> 0]) = 0
<1> DEFINE z == [x \in S |-> 0]
           f == Partial(z, S)
           T == {t \in SUBSET S : f[t] # 0}
<1>1. SumsUp(f, z, S)
  BY SumExists
<1>2. SUFFICES ASSUME T # {}
               PROVE  FALSE
  <2>1. f[S] = 0
    BY <1>2
  <2>2. DOMAIN z = S
    OBVIOUS
  <2>3. SUFFICES SumOf(z) = 0
    OBVIOUS
  <2> HIDE DEF z
  <2>4. QED
    BY <2>1, <2>2, FoldIsSum
<1> HIDE DEF f
<1>3. PICK A \in T : \A B \in T : ~(B \subseteq A /\ B # A)
  <2>1. T \subseteq SUBSET S /\ T # {}
    BY <1>2
  <2> HIDE DEF T
  <2>2. QED
    BY <2>1, SmallestOf
<1>4. CASE A = {}
  BY <1>1, <1>4 DEF SumsUp
<1>5. CASE A # {}
  <2>1. Taken(A) \in A
    BY <1>5 DEF Taken
  <2>2. f[A \ {Taken(A)}] = 0 /\ z[Taken(A)] = 0
    BY <1>3, <2>1
  <2>3. f[A] = z[Taken(A)] + f[A \ {Taken(A)}]
    BY <1>1, <1>5 DEF SumsUp
  <2>4. QED
    BY <2>2, <2>3
<1>6. QED
  BY <1>4, <1>5

\* One value more at the end.
LEMMA SumGrow ==
    ASSUME NEW n \in Nat, NEW q \in [1..n -> Nat], NEW r \in [1..n + 1 -> Nat],
           \A i \in 1..n : r[i] = q[i]
    PROVE  SumOf(r) = SumOf(q) + r[n + 1]
<1>1. IsFiniteSet(1..n + 1) /\ IsFiniteSet(1..n)
  BY FS_Interval
<1>2. SumOf(r) = r[n + 1] + SumOf(Without(r, n + 1))
  <2>1. r \in [1..n + 1 -> Int]
    OBVIOUS
  <2>2. QED
    BY <1>1, <2>1, SumSplit
<1>3. Without(r, n + 1) = q
  <2>1. (1..n + 1) \ {n + 1} = 1..n
    OBVIOUS
  <2>2. QED
    BY <2>1 DEF Without
<1>4. SumOf(q) \in Nat /\ r[n + 1] \in Nat
  BY <1>1, SumIsNat
<1>5. QED
  BY <1>2, <1>3, <1>4

\* A sequence grown by one value.
LEMMA SumAppend ==
    ASSUME NEW q \in Seq(Nat), NEW v \in Nat
    PROVE  SumOf(Append(q, v)) = SumOf(q) + v
<1> DEFINE n == Len(q)
           r == Append(q, v)
<1>1. n \in Nat /\ q \in [1..n -> Nat]
  BY LenProperties
<1>2. r \in Seq(Nat) /\ Len(r) = n + 1 /\ r[n + 1] = v /\ \A i \in 1..n : r[i] = q[i]
  BY AppendProperties
<1>3. r \in [1..n + 1 -> Nat]
  BY <1>1, <1>2, LenProperties
<1> HIDE DEF n, r
<1>4. SumOf(r) = SumOf(q) + v
  BY <1>1, <1>2, <1>3, SumGrow
<1>5. QED
  BY <1>4 DEF r

-------------------------------------------------------------------------------
(***************************************************************************)
(* Running totals.                                                         *)
(***************************************************************************)

\* A set of natural numbers has a least one.
LEMMA LeastNat ==
    ASSUME NEW T, T \subseteq Nat, T # {}
    PROVE  \E n \in T : \A m \in T : n <= m
<1> DEFINE R == {ss \in Nat \X Nat : ss[1] < ss[2]}
<1>1. IsWellFoundedOn(R, Nat)
  BY NatLessThanWellFounded DEF OpToRel
<1>2. PICK n \in T : \A m \in T : ~(<<m, n>> \in R)
  <2> HIDE DEF R
  <2>1. QED
    BY <1>1, WFMin
<1>3. ASSUME NEW m \in T
      PROVE  n <= m
  <2>1. m \in Nat /\ n \in Nat /\ ~(m < n)
    BY <1>2
  <2>2. QED
    BY <2>1
<1>4. QED
  BY <1>3

\* The first i values of d.
Upto(d, i) == [j \in 1..i |-> d[j]]

\* f starts at 0 and adds a[i] and b[i] at i.
Accumulates(f, a, b, n) ==
    f = [i \in 0..n |-> IF i = 0 THEN 0 ELSE f[i - 1] + a[i] + b[i]]

\* d is a and b together.
Joins(d, a, b, n) ==
    \A i \in 1..n : a[i] \in Nat /\ b[i] \in Nat /\ d[i] = a[i] + b[i]

\* The sum of the first i values is the sum of those before, and the i-th.
LEMMA UptoSum ==
    ASSUME NEW n \in Nat, NEW d \in [1..n -> Nat], NEW i \in 0..n
    PROVE  /\ Upto(d, i) \in [1..i -> Nat]
           /\ SumOf(Upto(d, i)) \in Nat
           /\ SumOf(Upto(d, i)) = IF i = 0 THEN 0 ELSE SumOf(Upto(d, i - 1)) + d[i]
           /\ Upto(d, n) = d
<1>1. Upto(d, i) \in [1..i -> Nat] /\ Upto(d, n) = d /\ IsFiniteSet(1..i)
  <2>1. IsFiniteSet(1..i)
    BY FS_Interval
  <2>2. Upto(d, i) \in [1..i -> Nat]
    BY DEF Upto
  <2>3. Upto(d, n) = d
    BY DEF Upto
  <2>4. QED
    BY <2>1, <2>2, <2>3
<1>2. SumOf(Upto(d, i)) \in Nat
  BY <1>1, SumIsNat
<1>3. CASE i = 0
  <2>1. DOMAIN Upto(d, i) = {}
    BY <1>3 DEF Upto
  <2>2. QED
    BY <1>1, <1>2, <1>3, <2>1, SumEmpty
<1>4. CASE i # 0
  <2> DEFINE l == i - 1
  <2>1. l \in Nat /\ i = l + 1
    BY <1>4
  <2>2. /\ Upto(d, l) \in [1..l -> Nat] /\ Upto(d, i) \in [1..l + 1 -> Nat]
        /\ \A j \in 1..l : Upto(d, i)[j] = Upto(d, l)[j]
        /\ Upto(d, i)[l + 1] = d[i]
    BY <2>1 DEF Upto
  <2> HIDE DEF l
  <2>3. SumOf(Upto(d, i)) = SumOf(Upto(d, l)) + Upto(d, i)[l + 1]
    BY <2>1, <2>2, SumGrow
  <2>4. QED
    BY <1>1, <1>2, <1>4, <2>2, <2>3 DEF l
<1>5. QED
  BY <1>3, <1>4

\* Its values are the sums of what it added so far.
LEMMA RunningTotal ==
    ASSUME NEW n \in Nat, NEW a, NEW b, NEW d \in [1..n -> Nat], NEW f,
           Joins(d, a, b, n), Accumulates(f, a, b, n)
    PROVE  \A i \in 0..n : f[i] = SumOf(Upto(d, i))
<1> DEFINE T == {i \in 0..n : f[i] # SumOf(Upto(d, i))}
<1>1. SUFFICES ASSUME T # {}
               PROVE  FALSE
  OBVIOUS
<1>2. PICK m \in T : \A i \in T : m <= i
  <2>1. T \subseteq Nat
    OBVIOUS
  <2> HIDE DEF T
  <2>2. QED
    BY <1>1, <2>1, LeastNat
<1>3. m \in 0..n /\ f[m] # SumOf(Upto(d, m))
  OBVIOUS
<1>4. m # 0
  BY <1>3, UptoSum DEF Accumulates
<1> DEFINE l == m - 1
<1>5. l \in 0..n /\ l < m
  BY <1>3, <1>4
<1>6. f[l] = SumOf(Upto(d, l))
  BY <1>2, <1>5
<1>7. f[m] = f[l] + a[m] + b[m] /\ a[m] \in Nat /\ b[m] \in Nat /\ d[m] = a[m] + b[m]
  BY <1>3, <1>4 DEF Accumulates, Joins
<1>8. SumOf(Upto(d, m)) = SumOf(Upto(d, l)) + d[m] /\ SumOf(Upto(d, l)) \in Nat
  BY <1>3, <1>4, <1>5, UptoSum
<1>9. QED
  BY <1>3, <1>6, <1>7, <1>8

\* There is one.
LEMMA RunningTotalExists ==
    ASSUME NEW n \in Nat, NEW a, NEW b, NEW d \in [1..n -> Nat], Joins(d, a, b, n)
    PROVE  \E f : Accumulates(f, a, b, n)
<1> DEFINE f == [i \in 0..n |-> SumOf(Upto(d, i))]
<1>1. f = [i \in 0..n |-> f[i]] /\ \A i \in 0..n : f[i] = SumOf(Upto(d, i))
  OBVIOUS
<1> HIDE DEF f
<1>2. ASSUME NEW i \in 0..n
      PROVE  f[i] = IF i = 0 THEN 0 ELSE f[i - 1] + a[i] + b[i]
  <2>1. f[i] = IF i = 0 THEN 0 ELSE SumOf(Upto(d, i - 1)) + d[i]
    BY <1>1, UptoSum
  <2>2. CASE i # 0
    <3>1. i - 1 \in 0..n /\ i \in 1..n
      BY <2>2
    <3>2. f[i - 1] = SumOf(Upto(d, i - 1)) /\ SumOf(Upto(d, i - 1)) \in Nat
      BY <1>1, <3>1, UptoSum
    <3>3. d[i] = a[i] + b[i] /\ a[i] \in Nat /\ b[i] \in Nat
      BY <3>1 DEF Joins
    <3>4. QED
      BY <2>1, <2>2, <3>2, <3>3
  <2>3. QED
    BY <2>1, <2>2
<1>3. f = [i \in 0..n |-> IF i = 0 THEN 0 ELSE f[i - 1] + a[i] + b[i]]
  BY <1>1, <1>2
<1>4. QED
  BY <1>3 DEF Accumulates
================================================================================
