--------------------------- MODULE RouteRankingProofs ---------------------------
(***************************************************************************)
(* Ranks are Pareto fronts and truncation respects dominance, for every    *)
(* list of candidates and every request.                                   *)
(***************************************************************************)
EXTENDS RouteRanking, FiniteSetTheorems, WellFoundedInduction, TLAPS

-------------------------------------------------------------------------------
(***************************************************************************)
(* Sets of routes.                                                         *)
(***************************************************************************)

\* The routes of a call are finitely many candidates.
LEMMA KeptFacts ==
    ASSUME candidates \in CandidateLists
    PROVE  /\ IsFiniteSet(Kept)
           /\ Kept \subseteq 1..Len(candidates)
           /\ \A i \in Kept : candidates[i] \in Candidate
<1>1. candidates \in Seq(Candidate) /\ Len(candidates) \in Nat
  BY RankingAssumption
<1>2. IsFiniteSet(1..Len(candidates))
  BY <1>1, FS_Interval
<1>3. QED
  BY <1>1, <1>2, FS_Subset DEF Kept

\* Which routes a call ranks does not change.
LEMMA SameKept ==
    ASSUME UNCHANGED <<request, candidates>>
    PROVE  Kept' = Kept
BY DEF Kept, HardPassed

\* Dominance is a strict partial order.
LEMMA DominanceOrder ==
    ASSUME NEW a \in Candidate, NEW b \in Candidate, NEW c \in Candidate
    PROVE  /\ ~dominates(a, a)
           /\ dominates(a, b) /\ dominates(b, c) => dominates(a, c)
BY DEF dominates, Candidate

\* A finite set that is not empty has a smallest non-empty subset among those
\* a predicate, given as a set of subsets, allows.
LEMMA SmallestSubset ==
    ASSUME NEW S, IsFiniteSet(S), NEW T, T \subseteq SUBSET S, T # {}
    PROVE  \E A \in T : \A B \in T : ~(B \subseteq A /\ B # A)
<1>1. IsWellFoundedOn(StrictSubsetOrdering(S), SUBSET S)
  BY FS_StrictSubsetOrderingWellFounded, FS_FiniteSubsetsOfFinite
<1>2. PICK A \in T : \A B \in T : ~(<<B, A>> \in StrictSubsetOrdering(S))
  BY <1>1, WFMin
<1>3. ASSUME NEW B \in T, B \subseteq A, B # A
      PROVE  FALSE
  <2>1. <<B, A>> \in (SUBSET S) \X (SUBSET S)
    OBVIOUS
  <2>2. <<B, A>> \in StrictSubsetOrdering(S)
    BY <1>3, <2>1 DEF StrictSubsetOrdering
  <2>3. QED
    BY <1>2, <2>2
<1>4. QED
  BY <1>3

(***************************************************************************)
(* Among finitely many routes one is dominated by none of them: take a     *)
(* smallest set that holds the dominators of its members.                  *)
(***************************************************************************)
LEMMA SomeUndominated ==
    ASSUME NEW S, IsFiniteSet(S), S # {}, \A i \in S : candidates[i] \in Candidate
    PROVE  \E i \in S : Dominators(S, i) = {}
<1> DEFINE T == {A \in SUBSET S : A # {} /\ \A i \in A : Dominators(S, i) \subseteq A}
<1>1. S \in T
  BY DEF Dominators
<1>2. PICK A \in T : \A B \in T : ~(B \subseteq A /\ B # A)
  <2>1. T \subseteq SUBSET S /\ T # {}
    BY <1>1
  <2> HIDE DEF T
  <2>2. QED
    BY <2>1, SmallestSubset
<1>3. PICK x \in A : TRUE
  OBVIOUS
<1>4. Dominators(S, x) \subseteq A /\ x \notin Dominators(S, x) /\ x \in S
  BY <1>3 DEF Dominators
<1>5. ASSUME NEW i \in Dominators(S, x)
      PROVE  Dominators(S, i) \subseteq Dominators(S, x)
  <2>1. ASSUME NEW h \in Dominators(S, i)
        PROVE  h \in Dominators(S, x)
    <3>1. /\ h \in S /\ i \in S /\ x \in S
          /\ dominates(candidates[h], candidates[i]) /\ dominates(candidates[i], candidates[x])
      BY <1>4, <2>1 DEF Dominators
    <3>2. dominates(candidates[h], candidates[x]) /\ ~dominates(candidates[x], candidates[x])
      BY <3>1, DominanceOrder
    <3>3. QED
      BY <3>1, <3>2 DEF Dominators
  <2>2. QED
    BY <2>1
<1>6. Dominators(S, x) \subseteq S
  BY DEF Dominators
<1>7. Dominators(S, x) = {}
  <2>1. SUFFICES ASSUME Dominators(S, x) # {}
                 PROVE  Dominators(S, x) \in T
    BY <1>2, <1>4, <1>3
  <2>2. QED
    BY <1>5, <1>6, <2>1
<1>8. QED
  BY <1>4, <1>7

\* Taking a route away takes it away from the dominators of the others.
LEMMA DominatorsRemove ==
    ASSUME NEW S, IsFiniteSet(S), NEW i \in S, NEW j \in S \ {i}
    PROVE  Cardinality(Dominators(S \ {i}, j)) =
             IF dominates(candidates[i], candidates[j])
             THEN Cardinality(Dominators(S, j)) - 1 ELSE Cardinality(Dominators(S, j))
<1>1. Dominators(S \ {i}, j) = Dominators(S, j) \ {i}
  BY DEF Dominators
<1>2. IsFiniteSet(Dominators(S, j))
  BY FS_Subset DEF Dominators
<1>3. i \in Dominators(S, j) <=> dominates(candidates[i], candidates[j])
  BY DEF Dominators
<1>4. QED
  BY <1>1, <1>2, <1>3, FS_RemoveElement

\* A count of zero means that there are none.
LEMMA DominatorsCount ==
    ASSUME NEW S, IsFiniteSet(S), NEW j
    PROVE  /\ Cardinality(Dominators(S, j)) \in Nat
           /\ Cardinality(Dominators(S, j)) = 0 <=> Dominators(S, j) = {}
<1>1. IsFiniteSet(Dominators(S, j))
  BY FS_Subset DEF Dominators
<1>2. QED
  BY <1>1, FS_CardinalityType, FS_EmptySet

-------------------------------------------------------------------------------
(***************************************************************************)
(* One lemma for each action.                                              *)
(***************************************************************************)

\* A call starts with no rank given.
LEMMA InitIInv == Init => IInv
<1> SUFFICES ASSUME Init
             PROVE  IInv
  OBVIOUS
<1>1. TypeOK
  BY DEF Init, TypeOK
<1>2. CountsExact /\ RanksAreFronts /\ Ranked /\ Fronts
  BY DEF Init, CountsExact, RanksAreFronts, Ranked, Fronts
<1>3. QED
  BY <1>1, <1>2 DEF IInv

\* The first count.
LEMMA CountDominatorsInv ==
    ASSUME IInv, CountDominators
    PROVE  IInv'
<1>1. /\ status = "count" /\ status' = "front" /\ remaining = Kept
      /\ dominated_count' = [j \in Kept |-> Cardinality(Dominators(Kept, j))]
      /\ UNCHANGED <<request, candidates, ranks, pareto_optimal, remaining,
                     non_dominated, current_rank, result>>
      /\ current_rank = 1
  BY DEF CountDominators, IInv, Ranked
<1>2. Kept' = Kept /\ IsFiniteSet(Kept)
  BY <1>1, SameKept, KeptFacts DEF IInv, TypeOK
<1>3. \A j \in Kept : Cardinality(Dominators(Kept, j)) \in Nat
  BY <1>2, DominatorsCount
<1>4. TypeOK'
  BY <1>1, <1>2, <1>3 DEF IInv, TypeOK
<1>5. CountsExact'
  BY <1>1, <1>2 DEF CountsExact, Dominators
<1>6. RanksAreFronts' /\ Ranked' /\ Fronts'
  BY <1>1, <1>2 DEF IInv, RanksAreFronts, Ranked, Fronts
<1>7. QED
  BY <1>4, <1>5, <1>6 DEF IInv

\* While routes remain, the next front has one: the fallback is never taken.
LEMMA FrontExists ==
    ASSUME IInv, status = "front", remaining # {}
    PROVE  \E i \in remaining : dominated_count[i] = 0
<1>1. IsFiniteSet(remaining) /\ \A i \in remaining : candidates[i] \in Candidate
  BY KeptFacts, FS_Subset DEF IInv, TypeOK
<1>2. PICK i \in remaining : Dominators(remaining, i) = {}
  BY <1>1, SomeUndominated
<1>3. QED
  BY <1>1, <1>2, DominatorsCount DEF IInv, CountsExact

\* The next front.
LEMMA FindFrontInv ==
    ASSUME IInv, FindFront
    PROVE  IInv'
<1>1. /\ status = "front" /\ remaining # {}
      /\ non_dominated' = {i \in remaining : dominated_count[i] = 0}
      /\ UNCHANGED <<request, candidates, dominated_count, pareto_optimal, remaining,
                     current_rank, result>>
  BY DEF FindFront
<1>2. status' = "rank" /\ ranks' = ranks
  BY <1>1, FrontExists DEF FindFront
<1>3. Kept' = Kept
  BY <1>1, SameKept
<1>4. /\ IsFiniteSet(remaining) /\ remaining \subseteq Kept
      /\ \A j \in remaining : dominated_count[j] = Cardinality(Dominators(remaining, j))
      /\ \A j \in remaining : dominated_count[j] = 0 <=> Dominators(remaining, j) = {}
  BY <1>1, KeptFacts, FS_Subset, DominatorsCount DEF IInv, TypeOK, CountsExact
<1>5. TypeOK'
  BY <1>1, <1>2, <1>3 DEF IInv, TypeOK
<1>6. CountsExact'
  BY <1>1, <1>4 DEF CountsExact, Dominators
<1>7. RanksAreFronts'
  BY <1>1, <1>2, <1>3 DEF IInv, RanksAreFronts, Dominators
<1>8. Ranked'
  BY <1>1, <1>2, <1>3 DEF IInv, Ranked
<1>9. ASSUME NEW j \in remaining
      PROVE  Dominators(remaining, j) = Dominators(Kept, j) \cap remaining
  BY <1>4 DEF Dominators
<1>10. ASSUME NEW j \in remaining \ non_dominated'
       PROVE  \E i \in Dominators(Kept, j) : i \in remaining
  BY <1>1, <1>4, <1>9
<1>11. ASSUME NEW j \in non_dominated'
       PROVE  /\ \A i \in Dominators(Kept, j) : i \notin remaining /\ ranks[i] < current_rank
              /\ current_rank > 1 => \E i \in Dominators(Kept, j) : ranks[i] = current_rank - 1
  <2>1. Dominators(Kept, j) \cap remaining = {} /\ j \in remaining
    BY <1>1, <1>4, <1>9
  <2>2. \A i \in Dominators(Kept, j) : i \in Kept \ remaining
    BY <2>1 DEF Dominators
  <2>3. QED
    BY <1>1, <2>1, <2>2 DEF IInv, Ranked, Fronts
<1>12. Fronts'
  BY <1>1, <1>2, <1>3, <1>10, <1>11 DEF Fronts, Dominators
<1>13. QED
  BY <1>5, <1>6, <1>7, <1>8, <1>12 DEF IInv

\* One route of the front gets its rank.
LEMMA RankOneInv ==
    ASSUME IInv, NEW i \in non_dominated, RankOne(i)
    PROVE  IInv'
<1>1. /\ status = "rank" /\ status' = "rank"
      /\ ranks' = [ranks EXCEPT ![i] = current_rank]
      /\ pareto_optimal' = IF current_rank = 1 THEN pareto_optimal \cup {i} ELSE pareto_optimal
      /\ remaining' = remaining \ {i} /\ non_dominated' = non_dominated \ {i}
      /\ UNCHANGED <<request, candidates, current_rank, result>>
  BY DEF RankOne
<1>2. /\ Kept' = Kept /\ IsFiniteSet(Kept) /\ IsFiniteSet(remaining)
      /\ i \in remaining /\ remaining \subseteq Kept /\ non_dominated \subseteq remaining
      /\ ranks \in [Kept -> Nat] /\ current_rank \in Nat \ {0}
      /\ dominated_count \in [Kept -> Nat] /\ pareto_optimal \subseteq Kept
  BY <1>1, SameKept, KeptFacts, FS_Subset DEF IInv, TypeOK
<1>3. \A j \in Kept : ranks'[j] = IF j = i THEN current_rank ELSE ranks[j]
  BY <1>1, <1>2
<1>4. dominated_count' =
          [j \in Kept |->
              IF /\ j \in remaining' /\ dominates(candidates[i], candidates[j])
                 /\ dominated_count[j] > 0
              THEN dominated_count[j] - 1 ELSE dominated_count[j]]
  BY DEF RankOne
<1>5. TypeOK'
  BY <1>1, <1>2, <1>4 DEF IInv, TypeOK
<1>6. CountsExact'
  <2>1. ASSUME NEW j \in remaining \ {i}
        PROVE  dominated_count'[j] = Cardinality(Dominators(remaining \ {i}, j))
    <3>1. /\ dominated_count[j] = Cardinality(Dominators(remaining, j))
          /\ dominated_count[j] \in Nat /\ j \in remaining'
          /\ dominated_count[j] = 0 <=> Dominators(remaining, j) = {}
      BY <1>1, <1>2, DominatorsCount DEF IInv, CountsExact
    <3>2. dominates(candidates[i], candidates[j]) => i \in Dominators(remaining, j)
      BY <1>2 DEF Dominators
    <3>3. QED
      BY <1>2, <1>4, <3>1, <3>2, DominatorsRemove
  <2>2. QED
    BY <1>1, <2>1 DEF CountsExact, Dominators
<1>7. /\ \A h \in Dominators(Kept, i) : h \notin remaining /\ ranks[h] < current_rank
      /\ current_rank > 1 => \E h \in Dominators(Kept, i) : ranks[h] = current_rank - 1
  BY <1>1 DEF IInv, Fronts
<1>8. \A j : \A h \in Dominators(Kept, j) : h \in Kept
  BY DEF Dominators
<1>9. ASSUME NEW j \in Kept \ remaining'
      PROVE  /\ ranks'[j] >= 1
             /\ \A h \in Dominators(Kept, j) : h \notin remaining' /\ ranks'[h] < ranks'[j]
             /\ ranks'[j] > 1 => \E h \in Dominators(Kept, j) : ranks'[h] = ranks'[j] - 1
  <2>1. CASE j = i
    BY <1>1, <1>2, <1>3, <1>7, <1>8, <2>1
  <2>2. CASE j # i
    <3>1. /\ j \in Kept \ remaining /\ ranks'[j] = ranks[j]
          /\ ranks[j] >= 1
          /\ \A h \in Dominators(Kept, j) : h \notin remaining /\ ranks[h] < ranks[j]
          /\ ranks[j] > 1 => \E h \in Dominators(Kept, j) : ranks[h] = ranks[j] - 1
      BY <1>1, <1>2, <1>3, <2>2 DEF IInv, RanksAreFronts
    <3>2. \A h \in Dominators(Kept, j) : h # i /\ ranks'[h] = ranks[h]
      BY <1>2, <1>3, <1>8, <3>1
    <3>3. QED
      BY <1>1, <3>1, <3>2
  <2>3. QED
    BY <2>1, <2>2
<1>10. RanksAreFronts'
  BY <1>1, <1>2, <1>9 DEF RanksAreFronts, Dominators
<1>11. Ranked'
  BY <1>1, <1>2, <1>3 DEF IInv, Ranked
<1>12. ASSUME NEW j \in remaining' \ non_dominated'
       PROVE  \E h \in Dominators(Kept, j) : h \in remaining' \/ ranks'[h] = current_rank
  <2>1. j \in remaining \ non_dominated
    BY <1>1, <1>2
  <2>2. PICK h \in Dominators(Kept, j) : h \in remaining \/ ranks[h] = current_rank
    BY <1>1, <2>1 DEF IInv, Fronts
  <2>3. QED
    BY <1>1, <1>3, <1>8, <2>2
<1>13. ASSUME NEW j \in non_dominated'
       PROVE  /\ \A h \in Dominators(Kept, j) : h \notin remaining' /\ ranks'[h] < current_rank
              /\ current_rank > 1 => \E h \in Dominators(Kept, j) : ranks'[h] = current_rank - 1
  <2>1. /\ \A h \in Dominators(Kept, j) : h \notin remaining /\ ranks[h] < current_rank
        /\ current_rank > 1 => \E h \in Dominators(Kept, j) : ranks[h] = current_rank - 1
    BY <1>1 DEF IInv, Fronts
  <2>2. \A h \in Dominators(Kept, j) : ranks'[h] = ranks[h]
    BY <1>2, <1>3, <1>8, <2>1
  <2>3. QED
    BY <1>1, <2>1, <2>2
<1>14. Fronts'
  BY <1>1, <1>2, <1>12, <1>13 DEF Fronts, Dominators
<1>15. QED
  BY <1>5, <1>6, <1>10, <1>11, <1>14 DEF IInv

\* The whole front is ranked.
LEMMA NextFrontInv ==
    ASSUME IInv, NextFront
    PROVE  IInv'
<1>1. /\ status = "rank" /\ status' = "front" /\ non_dominated = {}
      /\ current_rank' = current_rank + 1
      /\ UNCHANGED <<request, candidates, dominated_count, ranks, pareto_optimal,
                     remaining, non_dominated, result>>
  BY DEF NextFront
<1>2. /\ Kept' = Kept /\ current_rank \in Nat \ {0} /\ ranks \in [Kept -> Nat]
  BY <1>1, SameKept DEF IInv, TypeOK
<1>3. TypeOK'
  BY <1>1, <1>2 DEF IInv, TypeOK
<1>4. CountsExact' /\ RanksAreFronts'
  BY <1>1, <1>2 DEF IInv, CountsExact, RanksAreFronts, Dominators
<1>5. Ranked'
  BY <1>1, <1>2 DEF IInv, Ranked
<1>6. Fronts'
  BY <1>1, <1>2 DEF IInv, Fronts, Dominators
<1>7. QED
  BY <1>3, <1>4, <1>5, <1>6 DEF IInv

\* Ranking is over, or the result is assembled, or nothing happens.
LEMMA EndInv ==
    ASSUME IInv,
           UNCHANGED <<request, candidates, dominated_count, ranks, pareto_optimal,
                       remaining, non_dominated, current_rank>>,
           \/ status' = status
           \/ status' \in {"sort", "done"} /\ status # "count" /\ remaining = {}
    PROVE  IInv'
<1>1. Kept' = Kept
  BY SameKept
<1>2. TypeOK'
  BY <1>1 DEF IInv, TypeOK
<1>3. CountsExact' /\ RanksAreFronts'
  BY <1>1 DEF IInv, CountsExact, RanksAreFronts, Dominators
<1>4. Ranked' /\ Fronts'
  BY <1>1 DEF IInv, Ranked, Fronts, Dominators
<1>5. QED
  BY <1>2, <1>3, <1>4 DEF IInv

\* Every step keeps the invariant.
LEMMA NextIInv == IInv /\ [Next]_vars => IInv'
<1> SUFFICES ASSUME IInv, [Next]_vars
             PROVE  IInv'
  OBVIOUS
<1>1. CASE CountDominators
  BY <1>1, CountDominatorsInv
<1>2. CASE FindFront
  BY <1>2, FindFrontInv
<1>3. ASSUME NEW i \in non_dominated, RankOne(i)
      PROVE  IInv'
  BY <1>3, RankOneInv
<1>4. CASE NextFront
  BY <1>4, NextFrontInv
<1>5. CASE RankingEnds
  BY <1>5, EndInv DEF RankingEnds
<1>6. CASE SortAndTruncate
  BY <1>6, EndInv DEF SortAndTruncate, IInv, Ranked
<1>7. CASE UNCHANGED vars
  BY <1>7, EndInv DEF vars
<1>8. QED
  BY <1>1, <1>2, <1>3, <1>4, <1>5, <1>6, <1>7 DEF Next

-------------------------------------------------------------------------------
(***************************************************************************)
(* Scores.                                                                 *)
(***************************************************************************)

\* The values of a function on a finite set are finitely many.
LEMMA FiniteValues ==
    ASSUME NEW S, IsFiniteSet(S), NEW f
    PROVE  IsFiniteSet({f[x] : x \in S})
<1> DEFINE T == {f[x] : x \in S}
<1> DEFINE g == [x \in S |-> f[x]]
<1>1. g \in Surjection(S, T)
  BY DEF Surjection
<1> HIDE DEF T, g
<1>2. IsFiniteSet(T)
  BY <1>1, FS_Surjection
<1>3. QED
  BY <1>2 DEF T

\* A maximum folded from a positive number is positive.
LEMMA PositiveFloor ==
    ASSUME NEW S, IsFiniteSet(S), S \subseteq Nat, NEW u \in Nat \ {0}
    PROVE  Max({u} \cup S) \in Nat \ {0}
<1> DEFINE F == {u} \cup S
<1> DEFINE T == {A \in SUBSET F : A # {} /\ \A x \in F \ A : \E y \in A : y >= x}
<1>1. IsFiniteSet(F) /\ F \subseteq Nat /\ u \in F
  BY FS_AddElement
<1>2. F \in T
  BY <1>1
<1>3. PICK A \in T : \A B \in T : ~(B \subseteq A /\ B # A)
  <2>1. T \subseteq SUBSET F /\ T # {} /\ IsFiniteSet(F)
    BY <1>1, <1>2
  <2> HIDE DEF T, F
  <2>2. QED
    BY <2>1, SmallestSubset
<1>4. PICK m \in A : TRUE
  OBVIOUS
<1>5. ASSUME NEW n \in A, n > m
      PROVE  FALSE
  <2>1. A \ {m} \in T
    <3>1. n \in A \ {m} /\ m \in Nat /\ n \in Nat
      BY <1>1, <1>5
    <3>2. ASSUME NEW x \in F \ (A \ {m})
          PROVE  \E y \in A \ {m} : y >= x
      <4>1. CASE x = m
        BY <1>5, <3>1, <4>1
      <4>2. CASE x # m
        <5>1. PICK y \in A : y >= x
          BY <3>2, <4>2
        <5>2. CASE y = m
          <6>1. n >= x
            BY <1>1, <1>5, <3>1, <3>2, <5>1, <5>2
          <6>2. QED
            BY <3>1, <6>1
        <5>3. CASE y # m
          BY <5>1, <5>3
        <5>4. QED
          BY <5>2, <5>3
      <4>3. QED
        BY <4>1, <4>2
    <3>3. QED
      BY <3>1, <3>2
  <2>2. QED
    BY <1>3, <2>1
<1>6. \A x \in F : m >= x
  <2>1. ASSUME NEW x \in F
        PROVE  m >= x
    <3>1. x \in Nat /\ m \in Nat
      BY <1>1
    <3>2. CASE x \in A
      BY <1>5, <3>1, <3>2
    <3>3. CASE x \notin A
      <4>1. PICK y \in A : y >= x
        BY <3>3
      <4>2. y \in Nat /\ ~(y > m)
        BY <1>1, <1>5
      <4>3. QED
        BY <3>1, <4>1, <4>2
    <3>4. QED
      BY <3>2, <3>3
  <2>2. QED
    BY <2>1
<1>7. m \in F
  OBVIOUS
<1> HIDE DEF F, T
<1>8. Max(F) \in F /\ \A x \in F : Max(F) >= x
  BY <1>6, <1>7 DEF Max
<1>9. Max(F) \in Nat /\ Max(F) >= u
  BY <1>1, <1>8
<1>10. QED
  BY <1>9 DEF F

\* Weighing keeps the order of two values.
LEMMA Weighing ==
    ASSUME NEW a \in Int, NEW b \in Int, NEW w \in Nat, w > 0 => a <= b,
           NEW n \in Nat \ {0}
    PROVE  /\ w * (a * n) \in Int /\ w * (b * n) \in Int
           /\ w * (a * n) <= w * (b * n)
           /\ w > 0 /\ a < b => w * (a * n) < w * (b * n)
<1> DEFINE x == a * n
<1> DEFINE y == b * n
<1>1. /\ x \in Int /\ y \in Int
      /\ a <= b => x <= y
      /\ a < b => x < y
  OBVIOUS
<1> HIDE DEF x, y
<1>2. CASE w = 0
  BY <1>1, <1>2 DEF x, y
<1>3. CASE w > 0
  <2>1. /\ w * x \in Int /\ w * y \in Int /\ w * x <= w * y
        /\ x < y => w * x < w * y
    BY <1>1, <1>3
  <2>2. QED
    BY <1>1, <1>3, <2>1 DEF x, y
<1>4. QED
  BY <1>2, <1>3

\* Four terms, none of them larger, add up to no more.
LEMMA FourTerms ==
    ASSUME NEW p \in Int, NEW q \in Int, NEW r \in Int, NEW s \in Int,
           NEW t \in Int, NEW u \in Int, NEW v \in Int, NEW x \in Int,
           p <= t, q <= u, r <= v, s <= x
    PROVE  /\ p + q + r + s \in Int /\ t + u + v + x \in Int
           /\ p + q + r + s <= t + u + v + x
           /\ (p < t \/ q < u \/ r < v \/ s < x) => p + q + r + s < t + u + v + x
OBVIOUS

\* The product of three maxima is positive.
LEMMA Scale ==
    ASSUME NEW x \in Nat \ {0}, NEW y \in Nat \ {0}, NEW z \in Nat \ {0}
    PROVE  x * y * z \in Nat \ {0}
<1> DEFINE p == x * y
<1>1. p \in Nat \ {0}
  OBVIOUS
<1> HIDE DEF p
<1>2. p * z \in Nat \ {0}
  BY <1>1
<1>3. QED
  BY <1>2 DEF p

\* No route precedes itself.
LEMMA PrecedesOther ==
    ASSUME TypeOK, NEW i \in Kept
    PROVE  ~Precedes(i, i)
<1>1. candidates[i] \in Candidate /\ i \in Nat
  BY KeptFacts DEF TypeOK
<1>2. QED
  BY <1>1 DEF Precedes, Candidate

\* A route that precedes another scores less, or as much and was found earlier.
LEMMA PrecedesSortsBefore ==
    ASSUME TypeOK, NEW i \in Kept, NEW j \in Kept, Precedes(i, j)
    PROVE  /\ weighted_score(i) \in Int /\ weighted_score(j) \in Int
           /\ SortedBefore(i, j)
<1> DEFINE a == candidates[i]
<1> DEFINE b == candidates[j]
<1> DEFINE w == request.weight
<1> DEFINE sc == max_time * max_carbon * LaborScale
<1> DEFINE st == max_cost * max_carbon * LaborScale
<1> DEFINE sk == max_cost * max_time * LaborScale
<1> DEFINE sl == max_cost * max_time * max_carbon
<1>1. /\ IsFiniteSet(Kept) /\ a \in Candidate /\ b \in Candidate
      /\ \A h \in Kept : candidates[h] \in Candidate
  BY KeptFacts DEF TypeOK
<1>2. /\ IsFiniteSet({candidates[h].cost : h \in Kept})
      /\ IsFiniteSet({candidates[h].time : h \in Kept})
      /\ IsFiniteSet({candidates[h].carbon : h \in Kept})
  <2> DEFINE f == [h \in Kept |-> candidates[h].cost]
  <2> DEFINE g == [h \in Kept |-> candidates[h].time]
  <2> DEFINE e == [h \in Kept |-> candidates[h].carbon]
  <2>1. /\ IsFiniteSet({f[h] : h \in Kept}) /\ IsFiniteSet({g[h] : h \in Kept})
        /\ IsFiniteSet({e[h] : h \in Kept})
    <3> HIDE DEF f, g, e
    <3>1. QED
      BY <1>1, FiniteValues
  <2>2. QED
    BY <2>1
<1>3. max_cost \in Nat \ {0} /\ max_time \in Nat \ {0} /\ max_carbon \in Nat \ {0}
  <2>1. /\ {candidates[h].cost : h \in Kept} \subseteq Nat
        /\ {candidates[h].time : h \in Kept} \subseteq Nat
        /\ {candidates[h].carbon : h \in Kept} \subseteq Nat
    BY <1>1 DEF Candidate
  <2>2. max_cost \in Nat \ {0}
    <3>1. 1 \in Nat \ {0}
      OBVIOUS
    <3>2. QED
      BY <1>2, <2>1, <3>1, PositiveFloor DEF max_cost
  <2>3. max_time \in Nat \ {0}
    BY <1>2, <2>1, PositiveFloor, RankingAssumption DEF max_time
  <2>4. max_carbon \in Nat \ {0}
    BY <1>2, <2>1, PositiveFloor, RankingAssumption DEF max_carbon
  <2>5. QED
    BY <2>2, <2>3, <2>4
<1>4. sc \in Nat \ {0} /\ st \in Nat \ {0} /\ sk \in Nat \ {0} /\ sl \in Nat \ {0}
  BY <1>3, Scale, RankingAssumption
<1>5. /\ w.cost \in Nat /\ w.time \in Nat
      /\ w.carbon \in Nat /\ w.labor \in Nat
  BY RankingAssumption DEF TypeOK, Request, Weights
<1>6. /\ LaborScale - a.labor \in Int /\ LaborScale - b.labor \in Int
      /\ a.cost \in Int /\ b.cost \in Int /\ a.time \in Int /\ b.time \in Int
      /\ a.carbon \in Int /\ b.carbon \in Int
      /\ a.labor >= b.labor => LaborScale - a.labor <= LaborScale - b.labor
      /\ a.labor > b.labor => LaborScale - a.labor < LaborScale - b.labor
  BY <1>1, RankingAssumption DEF Candidate
<1>7. /\ w.cost > 0 => a.cost <= b.cost
      /\ w.time > 0 => a.time <= b.time
      /\ w.carbon > 0 => a.carbon <= b.carbon
      /\ w.labor > 0 => LaborScale - a.labor <= LaborScale - b.labor
      /\ \/ w.cost > 0 /\ a.cost < b.cost
         \/ w.time > 0 /\ a.time < b.time
         \/ w.carbon > 0 /\ a.carbon < b.carbon
         \/ w.labor > 0 /\ LaborScale - a.labor < LaborScale - b.labor
         \/ i < j
  BY <1>6 DEF Precedes
<1>8. /\ weighted_score(i) = w.cost * (a.cost * sc) + w.time * (a.time * st)
                             + w.carbon * (a.carbon * sk) + w.labor * ((LaborScale - a.labor) * sl)
      /\ weighted_score(j) = w.cost * (b.cost * sc) + w.time * (b.time * st)
                             + w.carbon * (b.carbon * sk) + w.labor * ((LaborScale - b.labor) * sl)
  BY DEF weighted_score
<1> HIDE DEF sc, st, sk, sl, a, b, w
<1> DEFINE p == w.cost * (a.cost * sc)
           q == w.time * (a.time * st)
           r == w.carbon * (a.carbon * sk)
           s == w.labor * ((LaborScale - a.labor) * sl)
           t == w.cost * (b.cost * sc)
           u == w.time * (b.time * st)
           v == w.carbon * (b.carbon * sk)
           x == w.labor * ((LaborScale - b.labor) * sl)
<1>9. p \in Int /\ t \in Int /\ p <= t /\ (w.cost > 0 /\ a.cost < b.cost => p < t)
  BY <1>4, <1>5, <1>6, <1>7, Weighing
<1>10. q \in Int /\ u \in Int /\ q <= u /\ (w.time > 0 /\ a.time < b.time => q < u)
  BY <1>4, <1>5, <1>6, <1>7, Weighing
<1>11. r \in Int /\ v \in Int /\ r <= v /\ (w.carbon > 0 /\ a.carbon < b.carbon => r < v)
  BY <1>4, <1>5, <1>6, <1>7, Weighing
<1>12. /\ s \in Int /\ x \in Int /\ s <= x
       /\ w.labor > 0 /\ LaborScale - a.labor < LaborScale - b.labor => s < x
  BY <1>4, <1>5, <1>6, <1>7, Weighing
<1>13. weighted_score(i) = p + q + r + s /\ weighted_score(j) = t + u + v + x
  BY <1>8
<1> HIDE DEF p, q, r, s, t, u, v, x
<1>14. \/ p < t \/ q < u \/ r < v \/ s < x
       \/ i < j
  BY <1>7, <1>9, <1>10, <1>11, <1>12
<1>15. /\ weighted_score(i) \in Int /\ weighted_score(j) \in Int
       /\ weighted_score(i) <= weighted_score(j)
       /\ \/ weighted_score(i) < weighted_score(j)
          \/ i < j
  BY <1>9, <1>10, <1>11, <1>12, <1>13, <1>14, FourTerms
<1>16. QED
  BY <1>15 DEF SortedBefore

(***************************************************************************)
(* What is returned: a prefix of all routes in order, so whatever comes    *)
(* before a returned route is returned.                                    *)
(***************************************************************************)
LEMMA SortKeepsDominators ==
    ASSUME TypeOK, SortAndTruncate
    PROVE  DominatorsFirst'
<1>1. Kept' = Kept /\ UNCHANGED <<request, candidates>>
  BY SameKept DEF SortAndTruncate
<1>2. PICK sorted \in [1..Cardinality(Kept) -> Kept] :
          /\ \A i \in Kept : \E a \in DOMAIN sorted : sorted[a] = i
          /\ \A a \in DOMAIN sorted : \A b \in DOMAIN sorted :
                a < b => SortedBefore(sorted[a], sorted[b])
          /\ result' = [a \in {b \in DOMAIN sorted : b <= request.max_routes} |-> sorted[a]]
  BY DEF SortAndTruncate
<1>3. Cardinality(Kept) \in Nat /\ request.max_routes \in Nat
  BY KeptFacts, FS_CardinalityType, RankingAssumption DEF TypeOK, Request
<1>4. ASSUME NEW b \in DOMAIN result', NEW j \in Kept, Precedes(j, result'[b])
      PROVE  \E a \in DOMAIN result' : a < b /\ result'[a] = j
  <2>1. /\ b \in 1..Cardinality(Kept) /\ b <= request.max_routes
        /\ result'[b] = sorted[b] /\ sorted[b] \in Kept
    BY <1>2
  <2>2. j \in Nat /\ sorted[b] \in Nat /\ j # sorted[b] /\ SortedBefore(j, sorted[b])
    <3>1. j \in Nat /\ sorted[b] \in Nat
      BY <2>1, KeptFacts DEF TypeOK
    <3>2. j # sorted[b]
      BY <1>4, <2>1, PrecedesOther
    <3>3. QED
      BY <1>4, <2>1, <3>1, <3>2, PrecedesSortsBefore
  <2>3. PICK a \in 1..Cardinality(Kept) : sorted[a] = j
    BY <1>2
  <2>4. /\ weighted_score(j) \in Int /\ weighted_score(sorted[b]) \in Int
    BY <1>4, <2>1, PrecedesSortsBefore
  <2>5. ~SortedBefore(sorted[b], j)
    BY <2>2, <2>4 DEF SortedBefore
  <2>6. ~(b < a)
    BY <1>2, <2>1, <2>3, <2>5
  <2>7. a < b /\ a <= request.max_routes
    BY <1>3, <2>1, <2>2, <2>3, <2>6
  <2>8. a \in DOMAIN result' /\ result'[a] = j
    BY <1>2, <2>3, <2>7
  <2>9. QED
    BY <2>7, <2>8
<1>5. QED
  BY <1>1, <1>4 DEF DominatorsFirst, Precedes

-------------------------------------------------------------------------------
(***************************************************************************)
(* The theorems.                                                           *)
(***************************************************************************)

(***************************************************************************)
(* The ranking loops keep their invariant, whatever the routes and in      *)
(* whatever order the HashSet yields them.                                 *)
(***************************************************************************)
THEOREM RankingInvariant == Spec => []IInv
BY InitIInv, NextIInv, PTL DEF Spec

\* The loops hold only routes that passed the hard constraints.
THEOREM RankingTypeOK == Spec => []TypeOK
BY RankingInvariant, PTL DEF IInv

\* dominated_count is exact throughout: no decrement is lost or repeated.
THEOREM RankingCountsExact == Spec => []CountsExact
BY RankingInvariant, PTL DEF IInv

\* Dominance has no cycles, so the fallback of the ranking loop is dead code.
THEOREM RankingNoCycle == Spec => []NoCycle
<1>1. IInv => NoCycle
  BY FrontExists DEF NoCycle
<1>2. QED
  BY <1>1, RankingInvariant, PTL

\* The ranks are the Pareto fronts of the routes that passed.
THEOREM RankingRanksAreFronts == Spec => []RanksAreFronts
BY RankingInvariant, PTL DEF IInv

\* pareto_optimal, rank 1 and "dominated by no other" are one and the same.
THEOREM RankingOptimalIsUndominated == Spec => []OptimalIsUndominated
<1>1. IInv => OptimalIsUndominated
  <2> SUFFICES ASSUME IInv, status \in {"sort", "done"}
               PROVE  /\ pareto_optimal = {i \in Kept : Dominators(Kept, i) = {}}
                      /\ pareto_optimal = {i \in Kept : ranks[i] = 1}
    BY DEF OptimalIsUndominated
  <2>1. /\ remaining = {} /\ pareto_optimal \subseteq Kept
        /\ \A i \in Kept : i \in pareto_optimal <=> ranks[i] = 1
        /\ \A i \in Kept : ranks[i] \in Nat
    BY DEF IInv, TypeOK, Ranked
  <2>2. ASSUME NEW j \in Kept
        PROVE  ranks[j] = 1 <=> Dominators(Kept, j) = {}
    <3>1. /\ ranks[j] >= 1
          /\ \A i \in Dominators(Kept, j) : ranks[i] >= 1 /\ ranks[i] < ranks[j]
          /\ ranks[j] > 1 => \E i \in Dominators(Kept, j) : ranks[i] = ranks[j] - 1
      BY <2>1 DEF IInv, RanksAreFronts, Dominators
    <3>2. \A i \in Dominators(Kept, j) : ranks[i] \in Nat
      BY <2>1 DEF Dominators
    <3>3. QED
      BY <2>1, <3>1, <3>2
  <2>3. QED
    BY <2>1, <2>2
<1>2. QED
  BY <1>1, RankingInvariant, PTL

(***************************************************************************)
(* Truncation never drops a route in favour of one that is worse for the   *)
(* request, whichever of its weights are zero: what precedes a returned    *)
(* route is returned, before it.                                           *)
(***************************************************************************)
THEOREM RankingDominatorsFirst == Spec => []DominatorsFirst
<1>1. Init => DominatorsFirst
  BY DEF Init, DominatorsFirst
<1>2. IInv /\ DominatorsFirst /\ [Next]_vars => DominatorsFirst'
  <2> SUFFICES ASSUME IInv, DominatorsFirst, [Next]_vars
               PROVE  DominatorsFirst'
    OBVIOUS
  <2>1. CASE SortAndTruncate
    BY <2>1, SortKeepsDominators DEF IInv
  <2>2. CASE CountDominators \/ FindFront \/ NextFront \/ RankingEnds
             \/ \E i \in non_dominated : RankOne(i)
    <3>1. status' # "done"
      BY <2>2 DEF CountDominators, FindFront, NextFront, RankingEnds, RankOne
    <3>2. QED
      BY <3>1 DEF DominatorsFirst
  <2>3. CASE UNCHANGED vars
    <3>1. Kept' = Kept
      BY <2>3, SameKept DEF vars
    <3>2. QED
      BY <2>3, <3>1 DEF vars, DominatorsFirst, Precedes
  <2>4. QED
    BY <2>1, <2>2, <2>3 DEF Next
<1>3. QED
  BY <1>1, <1>2, RankingInvariant, PTL DEF Spec

-------------------------------------------------------------------------------
(***************************************************************************)
(* How long it takes.                                                      *)
(***************************************************************************)

\* The routes without a rank can be counted.
LEMMA RemainingCount ==
    ASSUME TypeOK
    PROVE  /\ IsFiniteSet(remaining) /\ Cardinality(remaining) \in Nat
           /\ StepsLeft \in Nat
<1>1. IsFiniteSet(remaining) /\ Cardinality(remaining) \in Nat
  BY KeptFacts, FS_Subset, FS_CardinalityType DEF TypeOK
<1>2. StepsLeft \in Nat
  BY <1>1 DEF TypeOK, StepsLeft
<1>3. QED
  BY <1>1, <1>2

\* Each step leaves fewer.
LEMMA StepsLeftFall ==
    ASSUME IInv, Next
    PROVE  StepsLeft' < StepsLeft
<1> DEFINE n == Cardinality(remaining)
<1>1. TypeOK /\ IsFiniteSet(remaining) /\ n \in Nat
  BY RemainingCount DEF IInv
<1>2. CASE CountDominators
  BY <1>1, <1>2 DEF CountDominators, StepsLeft
<1>3. CASE FindFront
  <2>1. status = "front" /\ remaining # {} /\ remaining' = remaining
        /\ non_dominated' = {i \in remaining : dominated_count[i] = 0}
    BY <1>3 DEF FindFront
  <2>2. non_dominated' # {}
    BY <2>1, FrontExists
  <2>3. status' = "rank"
    BY <1>3, <2>2 DEF FindFront
  <2>4. StepsLeft' = 3 * n + 2 /\ StepsLeft = 3 * n + 3
    BY <2>1, <2>2, <2>3 DEF StepsLeft
  <2>5. QED
    BY <1>1, <2>4
<1>4. ASSUME NEW i \in non_dominated, RankOne(i)
      PROVE  StepsLeft' < StepsLeft
  <2>1. status = "rank" /\ status' = "rank" /\ i \in remaining
        /\ remaining' = remaining \ {i}
    BY <1>1, <1>4 DEF RankOne, TypeOK
  <2>2. Cardinality(remaining') = n - 1
    BY <1>1, <2>1, FS_RemoveElement
  <2>3. StepsLeft = 3 * n + 2
    BY <2>1, <1>4 DEF StepsLeft
  <2>4. StepsLeft' \in {3 * (n - 1) + 2, 3 * (n - 1) + 4}
    BY <2>1, <2>2 DEF StepsLeft
  <2>5. QED
    BY <1>1, <2>3, <2>4
<1>5. CASE NextFront
  BY <1>1, <1>5 DEF NextFront, StepsLeft
<1>6. CASE RankingEnds
  <2>1. n = 0 /\ status = "front" /\ status' = "sort"
    BY <1>6, FS_EmptySet DEF RankingEnds
  <2>2. QED
    BY <2>1 DEF StepsLeft
<1>7. CASE SortAndTruncate
  BY <1>7 DEF SortAndTruncate, StepsLeft
<1>8. QED
  BY <1>2, <1>3, <1>4, <1>5, <1>6, <1>7 DEF Next

(***************************************************************************)
(* Ranking n routes takes at most 3n + 4 steps, in whatever order the hash *)
(* set yields them: none leaves a route in a front for another round.      *)
(***************************************************************************)
THEOREM RankingProgress ==
    Spec => /\ StepsLeft = 3 * Cardinality(Kept) + 4
            /\ [][StepsLeft' < StepsLeft /\ StepsLeft \in Nat]_vars
<1>1. Init => StepsLeft = 3 * Cardinality(Kept) + 4
  BY DEF Init, StepsLeft
<1>2. IInv /\ [Next]_vars => [StepsLeft' < StepsLeft /\ StepsLeft \in Nat]_vars
  BY RemainingCount, StepsLeftFall DEF IInv
<1>3. QED
  BY <1>1, <1>2, RankingInvariant, PTL DEF Spec
================================================================================
