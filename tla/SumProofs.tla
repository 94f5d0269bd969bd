------------------------------ MODULE SumProofs ------------------------------
(* SumFunctionOnSet, for every function and every finite set.               *)
EXTENDS Integers, FiniteSets, Functions, FiniteSetTheorems, TLAPS

(* A set of naturals that is not empty has a least element. *)
LEMMA LeastNat ==
  ASSUME NEW T \in SUBSET Nat, T # {}
  PROVE  \E x \in T : \A y \in T : x <= y
<1>1. \E x \in T : \A y \in T : ~ (<<y, x>> \in OpToRel(<, Nat))
  BY NatLessThanWellFounded, WFMin, Zenon
<1>2. PICK x \in T : \A y \in T : ~ (<<y, x>> \in OpToRel(<, Nat))
  BY <1>1, Zenon
<1>3. ASSUME NEW y \in T PROVE x <= y
  <2>1. ~(y < x)
    BY <1>2, <1>3, ZenonT(60) DEF OpToRel
  <2> QED
    BY <2>1
<1> QED
  BY <1>3, Zenon

(* Induction over the subsets of a finite set: a set of counterexamples    *)
(* that is not empty has a smallest one.                                   *)
LEMMA SmallestSubset ==
  ASSUME NEW S, IsFiniteSet(S), NEW T \in SUBSET (SUBSET S), T # {}
  PROVE  \E x \in T : \A y \in T : y \subseteq x => y = x
<1>1. IsWellFoundedOn(StrictSubsetOrdering(S), FiniteSubsetsOf(S))
  BY FS_StrictSubsetOrderingWellFounded
<1>2. T \subseteq FiniteSubsetsOf(S)
  BY FS_FiniteSubsetsOfFinite
<1>3. \E x \in T : \A y \in T : ~ (<<y, x>> \in StrictSubsetOrdering(S))
  BY <1>1, <1>2, WFMin
<1>4. QED
  BY <1>3, ZenonT(60) DEF StrictSubsetOrdering

(* The element a fold takes first, and the equation the fold solves. *)
Pick(s) == CHOOSE x \in s : TRUE

Solves(h, g, U) ==
  h = [s \in SUBSET U |-> IF s = {} THEN 0 ELSE g[Pick(s)] + h[s \ {Pick(s)}]]

Fold(g, U) == CHOOSE h : Solves(h, g, U)

LEMMA PickIn == \A s : s # {} => Pick(s) \in s
BY DEF Pick

LEMMA SumIsFold == \A g, S : SumFunctionOnSet(g, S) = Fold(g, S)[S]
BY DEF SumFunctionOnSet, FoldFunctionOnSet, MapThenFoldSet, Fold, Solves, Pick

LEMMA SolvedAt ==
  ASSUME NEW g, NEW U, NEW h, Solves(h, g, U), NEW s \in SUBSET U
  PROVE  h[s] = IF s = {} THEN 0 ELSE g[Pick(s)] + h[s \ {Pick(s)}]
BY ZenonT(60) DEF Solves

LEMMA SolutionsAgree ==
  ASSUME NEW g, NEW U, NEW V \in SUBSET U, IsFiniteSet(V),
         NEW h, Solves(h, g, U), NEW k, Solves(k, g, V)
  PROVE  \A s \in SUBSET V : h[s] = k[s]
<1> DEFINE Bad == {s \in SUBSET V : h[s] # k[s]}
<1>1. SUFFICES ASSUME Bad # {} PROVE FALSE
  OBVIOUS
<1>2. PICK s \in Bad : \A t \in Bad : t \subseteq s => t = s
  <2>1. Bad \in SUBSET (SUBSET V)
    OBVIOUS
  <2> HIDE DEF Bad
  <2>2. QED
    BY <1>1, <2>1, SmallestSubset
<1>3. s # {}
  BY <1>2, SolvedAt
<1>4. s \ {Pick(s)} \in SUBSET V /\ s \ {Pick(s)} \notin Bad
  BY <1>2, <1>3, PickIn
<1>5. h[s \ {Pick(s)}] = k[s \ {Pick(s)}]
  BY <1>4
<1>6. h[s] = k[s]
  <2>1. s \in SUBSET U /\ s \in SUBSET V
    OBVIOUS
  <2> HIDE DEF Bad
  <2>2. h[s] = g[Pick(s)] + h[s \ {Pick(s)}]
    BY <1>3, <2>1, SolvedAt
  <2>3. k[s] = g[Pick(s)] + k[s \ {Pick(s)}]
    BY <1>3, <2>1, SolvedAt
  <2>4. QED
    BY <1>5, <2>2, <2>3
<1>7. QED
  BY <1>2, <1>6

LEMMA FoldsAgree ==
  ASSUME NEW g, NEW U, NEW V \in SUBSET U, IsFiniteSet(V),
         Solves(Fold(g, U), g, U), Solves(Fold(g, V), g, V)
  PROVE  Fold(g, U)[V] = Fold(g, V)[V]
BY SolutionsAgree

LEMMA Solvable ==
  ASSUME NEW g, NEW U, IsFiniteSet(U)
  PROVE  Solves(Fold(g, U), g, U)
<1> DEFINE Bad == {T \in SUBSET U : ~Solves(Fold(g, T), g, T)}
<1>1. SUFFICES ASSUME Bad # {} PROVE FALSE
  OBVIOUS
<1>2. PICK T \in Bad : \A V \in Bad : V \subseteq T => V = T
  <2>1. Bad \in SUBSET (SUBSET U)
    OBVIOUS
  <2> HIDE DEF Bad
  <2>2. QED
    BY <1>1, <2>1, SmallestSubset
<1>3. ASSUME NEW V \in SUBSET T, V # T PROVE IsFiniteSet(V) /\ Solves(Fold(g, V), g, V)
  BY <1>2, <1>3, FS_Subset
<1> DEFINE h == [s \in SUBSET T |->
                   IF s = {} THEN 0
                   ELSE g[Pick(s)] + Fold(g, s \ {Pick(s)})[s \ {Pick(s)}]]
<1>4. ASSUME NEW s \in SUBSET T, s # T PROVE h[s] = Fold(g, s)[s]
  <2>1. Solves(Fold(g, s), g, s) /\ IsFiniteSet(s)
    BY <1>3, <1>4
  <2>2. CASE s = {}
    BY <2>1, <2>2, SolvedAt
  <2>3. CASE s # {}
    <3> DEFINE r == s \ {Pick(s)}
    <3>1. r \in SUBSET s /\ r # T
      BY <1>4, <2>3, PickIn
    <3>2. Solves(Fold(g, r), g, r) /\ IsFiniteSet(r)
      BY <1>3, <3>1
    <3>3. Fold(g, s)[r] = Fold(g, r)[r]
      BY <2>1, <3>1, <3>2, SolutionsAgree
    <3>4. Fold(g, s)[s] = g[Pick(s)] + Fold(g, s)[r]
      BY <2>1, <2>3, SolvedAt
    <3>5. h[s] = g[Pick(s)] + Fold(g, r)[r]
      BY <2>3
    <3>6. QED
      BY <3>3, <3>4, <3>5
  <2>4. QED
    BY <2>2, <2>3
<1>5. ASSUME NEW s \in SUBSET T, s # {}
      PROVE  h[s \ {Pick(s)}] = Fold(g, s \ {Pick(s)})[s \ {Pick(s)}]
  <2>1. s \ {Pick(s)} \in SUBSET T /\ s \ {Pick(s)} # T
    BY <1>5, PickIn
  <2>2. QED
    BY <2>1, <1>4, ZenonT(60)
<1>6. h = [s \in SUBSET T |-> IF s = {} THEN 0 ELSE g[Pick(s)] + h[s \ {Pick(s)}]]
  BY <1>5, ZenonT(60)
<1> HIDE DEF h
<1>7. Solves(h, g, T)
  BY <1>6, ZenonT(60) DEF Solves
<1>8. Solves(Fold(g, T), g, T)
  BY <1>7 DEF Fold
<1>9. QED
  BY <1>2, <1>8

LEMMA SumEmpty == \A g : SumFunctionOnSet(g, {}) = 0
<1>1. SUFFICES ASSUME NEW g PROVE Fold(g, {})[{}] = 0
  BY SumIsFold
<1>2. Solves(Fold(g, {}), g, {})
  BY Solvable, FS_EmptySet
<1>3. QED
  BY <1>2, SolvedAt

(* The fold takes one element, and goes on with the rest. *)
LEMMA SumPick ==
  ASSUME NEW g, NEW S, IsFiniteSet(S), S # {}
  PROVE  SumFunctionOnSet(g, S) = g[Pick(S)] + SumFunctionOnSet(g, S \ {Pick(S)})
<1> DEFINE r == S \ {Pick(S)}
<1>1. IsFiniteSet(r) /\ r \in SUBSET S
  BY FS_Subset
<1>2. Solves(Fold(g, S), g, S) /\ Solves(Fold(g, r), g, r)
  BY <1>1, Solvable
<1> HIDE DEF r
<1>3. Fold(g, S)[r] = Fold(g, r)[r]
  BY <1>1, <1>2, FoldsAgree
<1>4. Fold(g, S)[S] = g[Pick(S)] + Fold(g, S)[r]
  BY <1>2, SolvedAt DEF r
<1>5. QED
  BY <1>3, <1>4, SumIsFold DEF r

(* A sum of naturals is a natural. *)
LEMMA SumNat ==
  ASSUME NEW g, NEW S, IsFiniteSet(S), \A x \in S : g[x] \in Nat
  PROVE  SumFunctionOnSet(g, S) \in Nat
<1> DEFINE Bad == {s \in SUBSET S : SumFunctionOnSet(g, s) \notin Nat}
<1>1. SUFFICES ASSUME Bad # {} PROVE FALSE
  OBVIOUS
<1>2. PICK s \in Bad : \A t \in Bad : t \subseteq s => t = s
  <2>1. Bad \in SUBSET (SUBSET S)
    OBVIOUS
  <2> HIDE DEF Bad
  <2>2. QED
    BY <1>1, <2>1, SmallestSubset
<1>3. s # {} /\ s \in SUBSET S
  <2>1. SumFunctionOnSet(g, {}) \in Nat
    BY SumEmpty
  <2>2. QED
    BY <1>2, <2>1, ZenonT(60)
<1>4. Pick(s) \in s /\ s \ {Pick(s)} \notin Bad
  BY <1>2, <1>3, PickIn
<1>5. SumFunctionOnSet(g, s \ {Pick(s)}) \in Nat /\ g[Pick(s)] \in Nat
  BY <1>3, <1>4
<1>6. SumFunctionOnSet(g, s) = g[Pick(s)] + SumFunctionOnSet(g, s \ {Pick(s)})
  BY <1>3, SumPick, FS_Subset
<1>7. QED
  BY <1>2, <1>5, <1>6

(* Any element can be taken out. *)
LEMMA SumRemove ==
  ASSUME NEW g, NEW S, IsFiniteSet(S), \A y \in S : g[y] \in Nat, NEW x \in S
  PROVE  SumFunctionOnSet(g, S) = g[x] + SumFunctionOnSet(g, S \ {x})
<1> DEFINE Out(s, y) == SumFunctionOnSet(g, s) = g[y] + SumFunctionOnSet(g, s \ {y})
           Bad == {s \in SUBSET S : \E y \in s : ~Out(s, y)}
<1>1. SUFFICES ASSUME Bad # {} PROVE FALSE
  BY ZenonT(60)
<1>2. PICK s \in Bad : \A t \in Bad : t \subseteq s => t = s
  <2>1. Bad \in SUBSET (SUBSET S)
    OBVIOUS
  <2> HIDE DEF Bad
  <2>2. QED
    BY <1>1, <2>1, SmallestSubset
<1>3. PICK y \in s : ~Out(s, y)
  BY <1>2
<1> DEFINE p == Pick(s)
<1>4. p \in s /\ s \in SUBSET S /\ IsFiniteSet(s)
  BY <1>2, <1>3, PickIn, FS_Subset
<1>5. ASSUME NEW t \in SUBSET s, t # s, NEW z \in t PROVE Out(t, z)
  BY <1>2, <1>4, <1>5, ZenonT(60)
<1> HIDE DEF p, Bad
<1>6. Out(s, p)
  BY <1>3, <1>4, SumPick DEF p
<1>7. p # y
  BY <1>3, <1>6
<1>8. Out(s \ {p}, y) /\ Out(s \ {y}, p)
  BY <1>3, <1>4, <1>5, <1>7
<1>9. (s \ {p}) \ {y} = (s \ {y}) \ {p}
  OBVIOUS
<1>10. g[p] \in Nat /\ g[y] \in Nat /\ SumFunctionOnSet(g, (s \ {y}) \ {p}) \in Nat
  <2>1. IsFiniteSet((s \ {y}) \ {p}) /\ \A z \in (s \ {y}) \ {p} : g[z] \in Nat
    BY <1>4, FS_Subset
  <2>2. QED
    BY <1>4, <2>1, SumNat
<1>11. Out(s, y)
  BY <1>6, <1>8, <1>9, <1>10
<1>12. QED
  BY <1>3, <1>11

LEMMA SumAdd ==
  ASSUME NEW g, NEW S, IsFiniteSet(S), NEW x, x \notin S,
         \A y \in S \cup {x} : g[y] \in Nat
  PROVE  SumFunctionOnSet(g, S \cup {x}) = g[x] + SumFunctionOnSet(g, S)
<1>1. IsFiniteSet(S \cup {x})
  BY FS_AddElement
<1>2. (S \cup {x}) \ {x} = S
  OBVIOUS
<1>3. QED
  BY <1>1, <1>2, SumRemove

(* Functions that agree on a set have the same sum over it. *)
LEMMA SumAgree ==
  ASSUME NEW g, NEW h, NEW S, IsFiniteSet(S), \A x \in S : g[x] = h[x]
  PROVE  SumFunctionOnSet(g, S) = SumFunctionOnSet(h, S)
<1> DEFINE Bad == {s \in SUBSET S : SumFunctionOnSet(g, s) # SumFunctionOnSet(h, s)}
<1>1. SUFFICES ASSUME Bad # {} PROVE FALSE
  OBVIOUS
<1>2. PICK s \in Bad : \A t \in Bad : t \subseteq s => t = s
  <2>1. Bad \in SUBSET (SUBSET S)
    OBVIOUS
  <2> HIDE DEF Bad
  <2>2. QED
    BY <1>1, <2>1, SmallestSubset
<1>3. s # {} /\ s \in SUBSET S
  BY <1>2, SumEmpty, ZenonT(60)
<1>4. Pick(s) \in s /\ s \ {Pick(s)} \notin Bad
  BY <1>2, <1>3, PickIn
<1>5. /\ SumFunctionOnSet(g, s \ {Pick(s)}) = SumFunctionOnSet(h, s \ {Pick(s)})
      /\ g[Pick(s)] = h[Pick(s)]
  BY <1>3, <1>4
<1>6. /\ SumFunctionOnSet(g, s) = g[Pick(s)] + SumFunctionOnSet(g, s \ {Pick(s)})
      /\ SumFunctionOnSet(h, s) = h[Pick(s)] + SumFunctionOnSet(h, s \ {Pick(s)})
  BY <1>3, SumPick, FS_Subset
<1>7. QED
  BY <1>2, <1>5, <1>6

(* No element is larger than the sum. *)
LEMMA SumCovers ==
  ASSUME NEW g, NEW S, IsFiniteSet(S), \A y \in S : g[y] \in Nat, NEW x \in S
  PROVE  g[x] <= SumFunctionOnSet(g, S)
<1>1. SumFunctionOnSet(g, S \ {x}) \in Nat
  BY SumNat, FS_Subset
<1>2. SumFunctionOnSet(g, S) = g[x] + SumFunctionOnSet(g, S \ {x})
  BY SumRemove
<1>3. QED
  BY <1>1, <1>2

(* A sum of terms up to b is at most b for each element. *)
LEMMA SumBound ==
  ASSUME NEW g, NEW S, IsFiniteSet(S), NEW b \in Nat, \A x \in S : g[x] \in 0 .. b
  PROVE  SumFunctionOnSet(g, S) <= Cardinality(S) * b
<1> DEFINE Bad == {s \in SUBSET S : ~(SumFunctionOnSet(g, s) <= Cardinality(s) * b)}
<1>1. SUFFICES ASSUME Bad # {} PROVE FALSE
  OBVIOUS
<1>2. PICK s \in Bad : \A t \in Bad : t \subseteq s => t = s
  <2>1. Bad \in SUBSET (SUBSET S)
    OBVIOUS
  <2> HIDE DEF Bad
  <2>2. QED
    BY <1>1, <2>1, SmallestSubset
<1>3. s # {} /\ s \in SUBSET S
  <2>1. SumFunctionOnSet(g, {}) = 0 /\ Cardinality({}) = 0
    BY SumEmpty, FS_EmptySet
  <2>2. SumFunctionOnSet(g, {}) <= Cardinality({}) * b
    BY <2>1
  <2>3. QED
    BY <1>2, <2>2, ZenonT(60)
<1> DEFINE r == s \ {Pick(s)}
<1>4. Pick(s) \in s /\ r \notin Bad
  BY <1>2, <1>3, PickIn
<1>5. IsFiniteSet(s) /\ IsFiniteSet(r) /\ g[Pick(s)] \in 0 .. b
  BY <1>3, <1>4, FS_Subset
<1>6. SumFunctionOnSet(g, r) <= Cardinality(r) * b /\ SumFunctionOnSet(g, r) \in Nat
  BY <1>3, <1>4, <1>5, SumNat
<1>7. SumFunctionOnSet(g, s) = g[Pick(s)] + SumFunctionOnSet(g, r)
  BY <1>3, <1>5, SumPick
<1>8. Cardinality(s) = Cardinality(r) + 1 /\ Cardinality(r) \in Nat
  BY <1>4, <1>5, FS_RemoveElement, FS_CardinalityType, SMTT(30)
<1>9. (Cardinality(r) + 1) * b = Cardinality(r) * b + b /\ Cardinality(r) * b \in Nat
  BY <1>8
<1> HIDE DEF r
<1>10. SumFunctionOnSet(g, s) <= Cardinality(s) * b
  BY <1>5, <1>6, <1>7, <1>8, <1>9
<1>11. QED
  BY <1>2, <1>10

(* Renaming the elements one to one does not change the sum. *)
LEMMA SumRename ==
  ASSUME NEW g, NEW h, NEW f, NEW S, IsFiniteSet(S),
         \A x \in S : h[x] \in Nat /\ g[f[x]] = h[x],
         \A x, y \in S : f[x] = f[y] => x = y
  PROVE  SumFunctionOnSet(g, {f[x] : x \in S}) = SumFunctionOnSet(h, S)
<1> DEFINE Img(s) == {f[x] : x \in s}
           Good(s) == /\ IsFiniteSet(Img(s))
                      /\ SumFunctionOnSet(g, Img(s)) = SumFunctionOnSet(h, s)
           Bad == {s \in SUBSET S : ~Good(s)}
<1>1. SUFFICES ASSUME Bad # {} PROVE FALSE
  OBVIOUS
<1>2. PICK s \in Bad : \A t \in Bad : t \subseteq s => t = s
  <2>1. Bad \in SUBSET (SUBSET S)
    OBVIOUS
  <2> HIDE DEF Bad
  <2>2. QED
    BY <1>1, <2>1, SmallestSubset
<1>3. s # {} /\ s \in SUBSET S
  <2>1. Img({}) = {}
    OBVIOUS
  <2>2. QED
    BY <1>2, <2>1, SumEmpty, FS_EmptySet, ZenonT(60)
<1> DEFINE p == Pick(s)
           r == s \ {p}
<1>4. p \in s /\ r \notin Bad /\ r \in SUBSET S
  BY <1>2, <1>3, PickIn, ZenonT(60)
<1> HIDE DEF p
<1>5. IsFiniteSet(s) /\ IsFiniteSet(r)
  BY <1>3, <1>4, FS_Subset
<1>6. IsFiniteSet(Img(r)) /\ SumFunctionOnSet(g, Img(r)) = SumFunctionOnSet(h, r)
  BY <1>4
<1>7. Img(s) = Img(r) \cup {f[p]} /\ f[p] \notin Img(r)
  BY <1>3, <1>4
<1>8. \A y \in Img(r) \cup {f[p]} : g[y] \in Nat
  BY <1>3, <1>4
<1> HIDE DEF r, Img, Bad
<1>9. /\ IsFiniteSet(Img(s))
      /\ SumFunctionOnSet(g, Img(s)) = g[f[p]] + SumFunctionOnSet(g, Img(r))
  BY <1>6, <1>7, <1>8, SumAdd, FS_AddElement
<1>10. SumFunctionOnSet(h, s) = h[p] + SumFunctionOnSet(h, r)
  BY <1>3, <1>5, SumPick DEF p, r
<1>11. SumFunctionOnSet(g, Img(s)) = SumFunctionOnSet(h, s)
  BY <1>3, <1>4, <1>6, <1>9, <1>10
<1>12. QED
  BY <1>2, <1>9, <1>11 DEF Bad

(* A sum after one element joins, or leaves, the set, where the terms of   *)
(* the others stay.                                                        *)
LEMMA SumJoin ==
  ASSUME NEW g, NEW h, NEW S, IsFiniteSet(S), NEW x, x \notin S,
         NEW T, T = S \cup {x},
         \A y \in S : g[y] \in Nat /\ h[y] = g[y], h[x] \in Nat
  PROVE  SumFunctionOnSet(h, T) = SumFunctionOnSet(g, S) + h[x]
<1>1. SumFunctionOnSet(h, S) = SumFunctionOnSet(g, S)
  BY SumAgree
<1>2. SumFunctionOnSet(g, S) \in Nat
  BY SumNat
<1>3. SumFunctionOnSet(h, S \cup {x}) = h[x] + SumFunctionOnSet(h, S)
  BY SumAdd
<1>4. QED
  BY <1>1, <1>2, <1>3

LEMMA SumLeave ==
  ASSUME NEW g, NEW h, NEW S, IsFiniteSet(S), NEW x \in S,
         NEW T, T = S \ {x},
         \A y \in S : g[y] \in Nat, \A y \in T : h[y] = g[y]
  PROVE  SumFunctionOnSet(h, T) = SumFunctionOnSet(g, S) - g[x]
<1>1. IsFiniteSet(T)
  BY FS_Subset
<1>2. SumFunctionOnSet(h, T) = SumFunctionOnSet(g, S \ {x})
  BY <1>1, SumAgree
<1>3. SumFunctionOnSet(g, S \ {x}) \in Nat
  BY <1>1, SumNat
<1>4. SumFunctionOnSet(g, S) = g[x] + SumFunctionOnSet(g, S \ {x})
  BY SumRemove
<1>5. QED
  BY <1>2, <1>3, <1>4

(* The sum over a part is at most the sum over the whole. *)
LEMMA SumWithin ==
  ASSUME NEW g, NEW h, NEW S, IsFiniteSet(S), \A y \in S : g[y] \in Nat,
         NEW T \in SUBSET S, \A y \in T : h[y] = g[y]
  PROVE  SumFunctionOnSet(h, T) \in Nat /\ SumFunctionOnSet(h, T) <= SumFunctionOnSet(g, S)
<1> DEFINE Above(s) == SumFunctionOnSet(g, T) <= SumFunctionOnSet(g, s)
           Bad == {s \in SUBSET S : T \subseteq s /\ ~Above(s)}
<1>1. IsFiniteSet(T) /\ SumFunctionOnSet(h, T) = SumFunctionOnSet(g, T)
      /\ SumFunctionOnSet(g, T) \in Nat
  <2>1. IsFiniteSet(T)
    BY FS_Subset
  <2>2. QED
    BY <2>1, SumAgree, SumNat
<1>2. SUFFICES ASSUME Bad # {} PROVE FALSE
  BY <1>1
<1>3. PICK s \in Bad : \A t \in Bad : t \subseteq s => t = s
  <2>1. Bad \in SUBSET (SUBSET S)
    OBVIOUS
  <2> HIDE DEF Bad
  <2>2. QED
    BY <1>2, <2>1, SmallestSubset
<1>4. s \in SUBSET S /\ T \subseteq s /\ ~Above(s) /\ IsFiniteSet(s)
  BY <1>3, FS_Subset
<1>5. s # T
  BY <1>1, <1>4
<1>6. PICK x \in s : x \notin T
  BY <1>4, <1>5
<1>7. Above(s \ {x})
  <2>1. s \ {x} \notin Bad
    BY <1>3, <1>6
  <2>2. QED
    BY <1>4, <1>6, <2>1
<1>8. IsFiniteSet(s \ {x}) /\ SumFunctionOnSet(g, s \ {x}) \in Nat /\ g[x] \in Nat
  <2>1. IsFiniteSet(s \ {x})
    BY <1>4, FS_Subset
  <2>2. QED
    BY <1>4, <1>6, <2>1, SumNat
<1>9. SumFunctionOnSet(g, s) = g[x] + SumFunctionOnSet(g, s \ {x})
  BY <1>4, <1>6, SumRemove
<1>10. QED
  BY <1>1, <1>4, <1>7, <1>8, <1>9

(* Replacing the term of one element adds at most its new value. *)
LEMMA SumReplace ==
  ASSUME NEW g, NEW h, NEW S, IsFiniteSet(S), \A y \in S : g[y] \in Nat,
         NEW x, NEW T, x \in T, T \subseteq S \cup {x},
         h[x] \in Nat, \A y \in T \ {x} : h[y] = g[y]
  PROVE  SumFunctionOnSet(h, T) <= SumFunctionOnSet(g, S) + h[x]
<1> DEFINE R == T \ {x}
<1>1. R \in SUBSET S /\ IsFiniteSet(R) /\ T = R \cup {x} /\ x \notin R
  <2>1. R \in SUBSET S /\ T = R \cup {x} /\ x \notin R
    OBVIOUS
  <2>2. QED
    BY <2>1, FS_Subset
<1>2. \A y \in R : g[y] \in Nat /\ h[y] = g[y]
  BY <1>1
<1> HIDE DEF R
<1>3. SumFunctionOnSet(h, T) = SumFunctionOnSet(g, R) + h[x]
  BY <1>1, <1>2, SumJoin
<1>4. SumFunctionOnSet(g, R) \in Nat /\ SumFunctionOnSet(g, R) <= SumFunctionOnSet(g, S)
  BY <1>1, SumWithin
<1>5. SumFunctionOnSet(g, S) \in Nat
  BY SumNat
<1>6. QED
  BY <1>3, <1>4, <1>5
=============================================================================
