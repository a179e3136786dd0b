---------------------------- MODULE SumTheorems ----------------------------
(***************************************************************************)
(* Sums of natural numbers over finite sets, for the proofs about figures  *)
(* and bytes.  What a fold returns is found by induction: its recursive    *)
(* function has a graph, as the size of a pile of elements satisfies the   *)
(* recursion, and differs from it nowhere, as there would be a smallest    *)
(* set where it does.                                                      *)
(***************************************************************************)
EXTENDS Integers, Sequences, FiniteSets, FiniteSetsExt, Folds,
        FiniteSetTheorems, FunctionTheorems, WellFoundedInduction, TLAPS

\* The sum of F over S.
SumOf(F, S) == MapThenSumSet(LAMBDA x : F[x], S)

\* A set with as many elements: F[x] of them for each x.
Pile(F, S) == UNION {{x} \X (1..F[x]) : x \in S}

\* Every set of naturals has a least element.
LEMMA Least ==
    ASSUME NEW T \in SUBSET Nat, T # {}
    PROVE  \E x \in T : \A y \in T : x <= y
  <1> DEFINE R == OpToRel(<, Nat)
  <1>1. IsWellFoundedOn(R, Nat)
    BY NatLessThanWellFounded
  <1>2. PICK x \in T : \A y \in T : ~ (<<y, x>> \in R)
    <2> HIDE DEF R
    <2> QED BY <1>1, WFMin
  <1>3. ASSUME NEW y \in T PROVE x <= y
    <2>1. y < x => <<y, x>> \in R
      BY DEF OpToRel
    <2>2. ~(y < x)
      BY <1>2, <2>1
    <2> HIDE DEF R
    <2> QED BY <2>2
  <1> QED BY <1>3

\* Min is that element.
LEMMA MinIs ==
    ASSUME NEW T \in SUBSET Nat, T # {}
    PROVE  Min(T) \in T /\ \A y \in T : Min(T) <= y
  <1>1. \E x \in T : \A y \in T : x <= y
    BY Least
  <1> QED BY <1>1 DEF Min

\* A part has no smaller least element than the whole.
LEMMA MinOfPart ==
    ASSUME NEW T \in SUBSET Nat, NEW U \in SUBSET T, U # {}
    PROVE  Min(T) <= Min(U) /\ Min(T) \in Nat /\ Min(U) \in Nat
  <1>1. Min(U) \in U /\ U \in SUBSET Nat /\ T # {}
    BY MinIs
  <1>2. Min(T) \in T /\ \A y \in T : Min(T) <= y
    BY <1>1, MinIs
  <1> QED BY <1>1, <1>2

\* Every non-empty set of finite sets has one without a strict subset in it.
LEMMA LeastSubset ==
    ASSUME NEW S, IsFiniteSet(S), NEW T \in SUBSET (SUBSET S), T # {}
    PROVE  \E x \in T : \A y \in T : y \subseteq x => y = x
  <1>1. IsWellFoundedOn(StrictSubsetOrdering(S), SUBSET S)
    BY FS_StrictSubsetOrderingWellFounded, FS_FiniteSubsetsOfFinite
  <1>2. PICK x \in T : \A y \in T : <<y, x>> \notin StrictSubsetOrdering(S)
    BY <1>1, WFMin
  <1> QED BY <1>2 DEF StrictSubsetOrdering

\* The definition of the sum, unfolded.
LEMMA SumUnfold ==
    ASSUME NEW F, NEW S
    PROVE  SumOf(F, S) =
               (CHOOSE g : g = [s \in SUBSET S |->
                   IF s = {} THEN 0
                   ELSE F[CHOOSE x \in s : TRUE] + g[s \ {CHOOSE x \in s : TRUE}]])[S]
  BY DEF SumOf, MapThenSumSet, MapThenFoldSet

-----------------------------------------------------------------------------
\* The layer of one element.
LEMMA PileLayer ==
    ASSUME NEW F, NEW x, F[x] \in Nat
    PROVE  IsFiniteSet({x} \X (1..F[x])) /\ Cardinality({x} \X (1..F[x])) = F[x]
  <1> DEFINE A == {x}
             B == 1..F[x]
  <1>1. IsFiniteSet(B) /\ Cardinality(B) = F[x]
    BY FS_Interval
  <1>2. IsFiniteSet(A) /\ Cardinality(A) = 1
    BY FS_Singleton
  <1>3. IsFiniteSet(A \X B) /\ Cardinality(A \X B) = Cardinality(A) * Cardinality(B)
    <2> HIDE DEF A, B
    <2> QED BY <1>1, <1>2, FS_Product
  <1>4. Cardinality(A \X B) = F[x]
    <2> HIDE DEF A, B
    <2> QED BY <1>1, <1>2, <1>3
  <1> QED BY <1>3, <1>4

\* A pile is a finite set.
LEMMA PileFinite ==
    ASSUME NEW F, NEW S, IsFiniteSet(S), \A x \in S : F[x] \in Nat
    PROVE  IsFiniteSet(Pile(F, S)) /\ Cardinality(Pile(F, S)) \in Nat
  <1> DEFINE f == [x \in S |-> {x} \X (1..F[x])]
             T == {{x} \X (1..F[x]) : x \in S}
  <1>1. f \in Surjection(S, T)
    BY DEF Surjection
  <1>2. IsFiniteSet(T)
    <2> HIDE DEF f, T
    <2> QED BY <1>1, FS_Surjection
  <1>3. ASSUME NEW t \in T PROVE IsFiniteSet(t)
    <2>1. PICK x \in S : t = {x} \X (1..F[x])
      BY <1>3
    <2> QED BY <2>1, PileLayer
  <1>4. IsFiniteSet(UNION T)
    <2> HIDE DEF T
    <2> QED BY <1>2, <1>3, FS_UNION
  <1> QED BY <1>4, FS_CardinalityType DEF Pile

\* A pile without the layer of one element.
LEMMA PileStep ==
    ASSUME NEW F, NEW S, IsFiniteSet(S), \A x \in S : F[x] \in Nat, NEW x \in S
    PROVE  Cardinality(Pile(F, S)) = F[x] + Cardinality(Pile(F, S \ {x}))
  <1> DEFINE L == {x} \X (1..F[x])
             R == Pile(F, S \ {x})
  <1>1. Pile(F, S) = L \cup R
    BY DEF Pile
  <1>2. L \cap R = {}
    BY DEF Pile
  <1>3. IsFiniteSet(L) /\ Cardinality(L) = F[x]
    BY PileLayer
  <1>4. IsFiniteSet(R) /\ Cardinality(R) \in Nat
    BY PileFinite, FS_RemoveElement
  <1>5. Cardinality(L \cap R) = 0
    BY <1>2, FS_EmptySet
  <1>6. Cardinality(L \cup R) = Cardinality(L) + Cardinality(R) - Cardinality(L \cap R)
    <2> HIDE DEF L, R
    <2> QED BY <1>3, <1>4, FS_Union
  <1>7. Cardinality(L \cup R) = F[x] + Cardinality(R)
    <2> HIDE DEF L, R
    <2>1. F[x] \in Nat
      OBVIOUS
    <2> QED BY <2>1, <1>3, <1>4, <1>5, <1>6
  <1> QED BY <1>1, <1>7

\* The sum of naturals over a finite set is the size of the pile.
THEOREM SumIsPile ==
    ASSUME NEW F, NEW S, IsFiniteSet(S), \A x \in S : F[x] \in Nat
    PROVE  SumOf(F, S) = Cardinality(Pile(F, S))
  <1> DEFINE c(s) == CHOOSE x \in s : TRUE
             Rec(g) == g = [s \in SUBSET S |->
                          IF s = {} THEN 0 ELSE F[c(s)] + g[s \ {c(s)}]]
             h == [s \in SUBSET S |-> Cardinality(Pile(F, s))]
             g0 == CHOOSE g : Rec(g)
  <1>1. ASSUME NEW s \in SUBSET S, s # {}
        PROVE  /\ c(s) \in s /\ s \ {c(s)} \in SUBSET S
               /\ Cardinality(Pile(F, s)) = F[c(s)] + Cardinality(Pile(F, s \ {c(s)}))
    <2>1. c(s) \in s
      BY <1>1
    <2>2. IsFiniteSet(s)
      BY FS_Subset
    <2> HIDE DEF c
    <2> QED BY <2>1, <2>2, PileStep
  <1>2. Cardinality(Pile(F, {})) = 0
    <2>1. Pile(F, {}) = {}
      BY DEF Pile
    <2> QED BY <2>1, FS_EmptySet
  <1>3. Rec(h)
    <2> HIDE DEF c
    <2> QED BY <1>1, <1>2
  <1>4. Rec(g0)
    <2> HIDE DEF Rec, h
    <2> QED BY <1>3
  <1>5. SumOf(F, S) = g0[S]
    BY SumUnfold
  <1> HIDE DEF g0
  <1>6. ASSUME NEW s \in SUBSET S
        PROVE  g0[s] = IF s = {} THEN 0 ELSE F[c(s)] + g0[s \ {c(s)}]
    <2> HIDE DEF c
    <2> QED BY <1>4
  <1> DEFINE Bad == {s \in SUBSET S : g0[s] # Cardinality(Pile(F, s))}
  <1>7. ASSUME Bad # {} PROVE FALSE
    <2>1. PICK s \in Bad : \A t \in Bad : t \subseteq s => t = s
      <3> HIDE DEF Bad
      <3>1. Bad \in SUBSET (SUBSET S)
        BY DEF Bad
      <3> QED BY <1>7, <3>1, LeastSubset
    <2>2. s # {}
      BY <2>1, <1>6, <1>2
    <2>3. c(s) \in s /\ s \ {c(s)} \in SUBSET S
      BY <1>1, <2>2
    <2> HIDE DEF c
    <2>4. s \ {c(s)} \notin Bad
      BY <2>1, <2>3
    <2>5. g0[s \ {c(s)}] = Cardinality(Pile(F, s \ {c(s)}))
      BY <2>3, <2>4
    <2> QED BY <1>1, <1>6, <2>1, <2>2, <2>5
  <1>8. g0[S] = Cardinality(Pile(F, S))
    BY <1>7
  <1> QED BY <1>5, <1>8

-----------------------------------------------------------------------------
\* The sum is a natural number, and 0 over the empty set.
LEMMA SumType ==
    ASSUME NEW F, NEW S, IsFiniteSet(S), \A x \in S : F[x] \in Nat
    PROVE  SumOf(F, S) \in Nat
  BY SumIsPile, PileFinite

\* Nothing adds up to 0.
LEMMA SumEmpty == ASSUME NEW F PROVE SumOf(F, {}) = 0
  <1>1. Pile(F, {}) = {}
    BY DEF Pile
  <1> QED BY <1>1, SumIsPile, FS_EmptySet

\* One element may be taken out of the sum, whichever it is.
LEMMA SumStep ==
    ASSUME NEW F, NEW S, IsFiniteSet(S), \A x \in S : F[x] \in Nat, NEW x \in S
    PROVE  SumOf(F, S) = F[x] + SumOf(F, S \ {x})
  <1>1. IsFiniteSet(S \ {x})
    BY FS_RemoveElement
  <1>2. SumOf(F, S \ {x}) = Cardinality(Pile(F, S \ {x}))
    BY <1>1, SumIsPile
  <1> QED BY <1>2, SumIsPile, PileStep

\* The sum depends on the values over the set only.
LEMMA SumSame ==
    ASSUME NEW F, NEW G, NEW S, IsFiniteSet(S), \A x \in S : F[x] \in Nat,
           \A x \in S : F[x] = G[x]
    PROVE  SumOf(F, S) = SumOf(G, S)
  <1>1. Pile(F, S) = Pile(G, S)
    BY DEF Pile
  <1>2. \A x \in S : G[x] \in Nat
    OBVIOUS
  <1> QED BY <1>1, <1>2, SumIsPile

\* One value changes: so does the sum, by the difference.
LEMMA SumChange ==
    ASSUME NEW S, IsFiniteSet(S), NEW x \in S, NEW F \in [S -> Nat], NEW G \in [S -> Nat],
           G = [F EXCEPT ![x] = G[x]]
    PROVE  SumOf(G, S) + F[x] = SumOf(F, S) + G[x]
  <1>1. IsFiniteSet(S \ {x})
    BY FS_RemoveElement
  <1>2. \A y \in S : F[y] \in Nat /\ G[y] \in Nat
    OBVIOUS
  <1>3. \A y \in S \ {x} : F[y] = G[y]
    OBVIOUS
  <1>4. SumOf(F, S \ {x}) = SumOf(G, S \ {x}) /\ SumOf(F, S \ {x}) \in Nat
    BY <1>1, <1>2, <1>3, SumSame, SumType
  <1>5. SumOf(F, S) = F[x] + SumOf(F, S \ {x})
    BY <1>2, SumStep
  <1>6. SumOf(G, S) = G[x] + SumOf(G, S \ {x})
    BY <1>2, SumStep
  <1> QED BY <1>2, <1>4, <1>5, <1>6

\* The lengths of the sequences of a set are such a sum.
LEMMA SumOfLengths == ASSUME NEW store, NEW S, NEW F, \A b \in S : F[b] = Len(store[b])
  PROVE MapThenSumSet(LAMBDA b : Len(store[b]), S) = SumOf(F, S)
  <1> DEFINE c(s) == CHOOSE x \in s : TRUE
  <1>1. ASSUME NEW g PROVE 
          [s \in SUBSET S |-> IF s = {} THEN 0 ELSE F[c(s)] + g[s \ {c(s)}]]
          = [s \in SUBSET S |-> IF s = {} THEN 0 ELSE Len(store[c(s)]) + g[s \ {c(s)}]]
    <2>1. \A s \in SUBSET S : s # {} => c(s) \in S
      OBVIOUS
    <2> HIDE DEF c
    <2> QED BY <2>1
  <1>2. (CHOOSE g : g = [s \in SUBSET S |-> IF s = {} THEN 0 ELSE F[c(s)] + g[s \ {c(s)}]])
        = (CHOOSE g : g = [s \in SUBSET S |-> IF s = {} THEN 0 ELSE Len(store[c(s)]) + g[s \ {c(s)}]])
    <2> HIDE DEF c
    <2> QED BY <1>1
  <1>3. SumOf(F, S) = (CHOOSE g : g = [s \in SUBSET S |-> IF s = {} THEN 0 ELSE F[c(s)] + g[s \ {c(s)}]])[S]
    BY SumUnfold
  <1>4. MapThenSumSet(LAMBDA b : Len(store[b]), S)
        = (CHOOSE g : g = [s \in SUBSET S |-> IF s = {} THEN 0 ELSE Len(store[c(s)]) + g[s \ {c(s)}]])[S]
    BY DEF MapThenSumSet, MapThenFoldSet
  <1> HIDE DEF c
  <1> QED BY <1>2, <1>3, <1>4

\* The pieces behind L[x] of length F[x] do not overlap, lie between a and b,
\* and leave nothing out.
Pieces(F, L, S, a, b) ==
    /\ \A x \in S : F[x] > 0 => a <= L[x] /\ L[x] + F[x] <= b
    /\ \A k \in (a + 1)..b : \E x \in S : L[x] < k /\ k <= L[x] + F[x]
    /\ \A x, y \in S : x # y => L[x] + F[x] <= L[y] \/ L[y] + F[y] <= L[x]

\* Their lengths add up to that of the range.
LEMMA SumOfPieces ==
    ASSUME NEW S, IsFiniteSet(S), NEW F \in [S -> Nat], NEW L \in [S -> Nat],
           NEW a \in Nat, NEW b \in Nat, a <= b, Pieces(F, L, S, a, b)
    PROVE  SumOf(F, S) = b - a
  <1> DEFINE P == Pile(F, S)
             I == (a + 1)..b
             at == [p \in P |-> L[p[1]] + p[2]]
  <1>1. ASSUME NEW p \in P
        PROVE  /\ p[1] \in S /\ p[2] \in 1..F[p[1]] /\ p = <<p[1], p[2]>>
               /\ F[p[1]] \in Nat /\ L[p[1]] \in Nat /\ p[2] \in Nat
    BY DEF Pile
  <1>2. at \in [P -> I]
    <2>1. ASSUME NEW p \in P PROVE L[p[1]] + p[2] \in I
      BY <1>1 DEF Pieces
    <2> HIDE DEF P, I
    <2> QED BY <2>1
  <1>3. ASSUME NEW p \in P, NEW q \in P, at[p] = at[q] PROVE p = q
    <2>1. L[p[1]] + p[2] = L[q[1]] + q[2]
      BY <1>3
    <2>2. CASE p[1] = q[1]
      BY <1>1, <2>1, <2>2
    <2>3. CASE p[1] # q[1]
      <3>1. PICK x, y, i, j : x = p[1] /\ y = q[1] /\ i = p[2] /\ j = q[2]
        OBVIOUS
      <3>2. /\ x \in S /\ y \in S /\ x # y /\ L[x] + i = L[y] + j
            /\ i \in 1..F[x] /\ j \in 1..F[y]
        BY <1>1, <2>1, <2>3, <3>1
      <3>3. L[x] + F[x] <= L[y] \/ L[y] + F[y] <= L[x]
        BY <3>2 DEF Pieces
      <3>4. L[x] \in Nat /\ L[y] \in Nat /\ F[x] \in Nat /\ F[y] \in Nat
        BY <3>2
      <3> QED BY <3>2, <3>3, <3>4
    <2> QED BY <2>2, <2>3
  <1>4. ASSUME NEW k \in I PROVE \E p \in P : at[p] = k
    <2>1. PICK x \in S : L[x] < k /\ k <= L[x] + F[x]
      BY DEF Pieces
    <2>2. L[x] \in Nat /\ F[x] \in Nat /\ k \in Nat
      OBVIOUS
    <2>3. k - L[x] \in 1..F[x] /\ L[x] + (k - L[x]) = k
      BY <2>1, <2>2
    <2>4. <<x, k - L[x]>> \in P
      BY <2>3 DEF Pile
    <2>5. at[<<x, k - L[x]>>] = k
      BY <2>3, <2>4
    <2> QED BY <2>4, <2>5
  <1>5. at \in Bijection(P, I)
    <2> HIDE DEF P, I, at
    <2> QED BY <1>2, <1>3, <1>4 DEF Bijection, Injection, IsInjective, Surjection
  <1>6. IsFiniteSet(P) /\ SumOf(F, S) = Cardinality(P)
    BY PileFinite, SumIsPile
  <1>7. Cardinality(I) = b - a
    <2>1. Cardinality(I) = IF a + 1 > b THEN 0 ELSE b - (a + 1) + 1
      BY FS_Interval
    <2> QED BY <2>1
  <1>8. Cardinality(I) = Cardinality(P)
    <2>1. ExistsBijection(P, I)
      BY <1>5 DEF ExistsBijection
    <2> HIDE DEF P, I
    <2> QED BY <1>6, <2>1, FS_Bijection
  <1> QED BY <1>6, <1>7, <1>8
=============================================================================
