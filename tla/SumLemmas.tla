----------------------------- MODULE SumLemmas -----------------------------
(***************************************************************************)
(* Sums over finite sets.  FoldFunctionOnSet is a recursive function, and  *)
(* what it computes for every set is an induction; here the induction is   *)
(* the choice of a minimal counterexample, a set like any other, which     *)
(* exists because the strict subsets of a finite set are well-founded.     *)
(***************************************************************************)
EXTENDS Integers, Functions, FiniteSetTheorems, TLAPS

Sum(f, S) == FoldFunctionOnSet(+, 0, f, S)

(* The recursion of the fold, and the element it takes next.               *)
Pick(s) == CHOOSE x \in s : TRUE

Recurses(g, f, S) ==
    g = [s \in SUBSET S |-> IF s = {} THEN 0 ELSE f[Pick(s)] + g[s \ {Pick(s)}]]

LEMMA Unfold ==
    ASSUME NEW f, NEW S
    PROVE  Sum(f, S) = (CHOOSE g : Recurses(g, f, S))[S]
BY DEF Sum, FoldFunctionOnSet, MapThenFoldSet, Recurses, Pick

LEMMA PickIn == ASSUME NEW s, s # {} PROVE Pick(s) \in s
BY DEF Pick

(* Every set of subsets of a finite set has a minimal member.              *)
LEMMA MinimalSubset ==
    ASSUME NEW S, IsFiniteSet(S), NEW T, T \subseteq SUBSET S, T # {}
    PROVE  \E s \in T : \A t \in T : t \subseteq s => t = s
<1>1. IsWellFoundedOn(StrictSubsetOrdering(S), FiniteSubsetsOf(S))
  BY FS_StrictSubsetOrderingWellFounded
<1>2. T \subseteq FiniteSubsetsOf(S)
  BY FS_FiniteSubsetsOfFinite
<1>3. PICK s \in T : \A t \in T : <<t, s>> \notin StrictSubsetOrdering(S)
  BY <1>1, <1>2, WFMin, Zenon
<1>4. \A t \in T : <<t, s>> \in (SUBSET S) \X (SUBSET S)
  OBVIOUS
<1>5. QED
  BY <1>3, <1>4 DEF StrictSubsetOrdering

LEMMA RecursesAt ==
    ASSUME NEW g, NEW f, NEW A, Recurses(g, f, A), NEW s \in SUBSET A
    PROVE  g[s] = IF s = {} THEN 0 ELSE f[Pick(s)] + g[s \ {Pick(s)}]
BY DEF Recurses

(* Two such functions agree where both are defined ...                     *)
LEMMA RecursesAgree ==
    ASSUME NEW S, IsFiniteSet(S), NEW f, NEW A \in SUBSET S, NEW B \in SUBSET S,
           NEW g, Recurses(g, f, A), NEW h, Recurses(h, f, B),
           NEW t \in SUBSET (A \intersect B)
    PROVE  g[t] = h[t]
<1> DEFINE Bad == {s \in SUBSET (A \intersect B) : g[s] # h[s]}
<1>1. SUFFICES ASSUME Bad # {} PROVE FALSE
  OBVIOUS
<1>2. Bad \subseteq SUBSET S
  OBVIOUS
<1>3. PICK s \in Bad : \A u \in Bad : u \subseteq s => u = s
  <2> HIDE DEF Bad
  <2> QED
    BY <1>1, <1>2, MinimalSubset
<1>4. s \in SUBSET A /\ s \in SUBSET B /\ g[s] # h[s]
  OBVIOUS
<1>5. /\ g[s] = IF s = {} THEN 0 ELSE f[Pick(s)] + g[s \ {Pick(s)}]
      /\ h[s] = IF s = {} THEN 0 ELSE f[Pick(s)] + h[s \ {Pick(s)}]
  BY <1>4, RecursesAt
<1>6. s # {}
  BY <1>4, <1>5
<1>7. g[s \ {Pick(s)}] = h[s \ {Pick(s)}]
  <2>1. Pick(s) \in s
    BY <1>6, PickIn
  <2>2. s \ {Pick(s)} \notin Bad
    BY <1>3, <2>1
  <2>3. QED
    BY <1>4, <2>2
<1>8. QED
  BY <1>4, <1>5, <1>6, <1>7

(* ... and there is one on every finite set.                               *)
LEMMA RecursesExists ==
    ASSUME NEW S, IsFiniteSet(S), NEW f
    PROVE  \E g : Recurses(g, f, S)
<1> DEFINE Bad == {s \in SUBSET S : ~ \E g : Recurses(g, f, s)}
<1>1. SUFFICES ASSUME Bad # {} PROVE FALSE
  OBVIOUS
<1>2. PICK s \in Bad : \A u \in Bad : u \subseteq s => u = s
  <2>1. Bad \subseteq SUBSET S
    OBVIOUS
  <2> HIDE DEF Bad
  <2> QED
    BY <1>1, <2>1, MinimalSubset
<1>3. s \in SUBSET S /\ ~ \E g : Recurses(g, f, s)
  OBVIOUS
<1> DEFINE G(t) == CHOOSE g : Recurses(g, f, t)
           V(t) == G(t)[t]
           h == [t \in SUBSET s |-> IF t = {} THEN 0 ELSE f[Pick(t)] + V(t \ {Pick(t)})]
<1>4. ASSUME NEW t \in SUBSET s, t # s PROVE Recurses(G(t), f, t)
  <2>1. \E g : Recurses(g, f, t)
    BY <1>2, <1>4
  <2> QED
    BY <2>1
<1>5. ASSUME NEW t \in SUBSET s, t # s PROVE h[t] = V(t)
  <2>1. Recurses(G(t), f, t)
    BY <1>4, <1>5
  <2>2. V(t) = IF t = {} THEN 0 ELSE f[Pick(t)] + G(t)[t \ {Pick(t)}]
    <3> HIDE DEF G
    <3> QED
      BY <2>1, RecursesAt
  <2>3. ASSUME t # {} PROVE G(t)[t \ {Pick(t)}] = V(t \ {Pick(t)})
    <3>1. PICK u : u = t \ {Pick(t)}
      OBVIOUS
    <3>2. u \in SUBSET t /\ u # t /\ u \in SUBSET s /\ u # s
      BY <2>3, <3>1, PickIn, <1>5
    <3>3. Recurses(G(u), f, u)
      BY <1>4, <3>2
    <3> HIDE DEF G
    <3>4. G(t)[u] = G(u)[u]
      BY <1>3, <1>5, <2>1, <3>2, <3>3, RecursesAgree
    <3> QED
      BY <3>1, <3>4
  <2> HIDE DEF G
  <2> QED
    BY <2>2, <2>3
<1>6. Recurses(h, f, s)
  <2>1. ASSUME NEW t \in SUBSET s, t # {} PROVE h[t \ {Pick(t)}] = V(t \ {Pick(t)})
    <3>1. t \ {Pick(t)} \in SUBSET s /\ t \ {Pick(t)} # s
      BY <2>1, PickIn
    <3> HIDE DEF h, V
    <3> QED
      BY <1>5, <3>1
  <2> HIDE DEF V
  <2> QED
    BY <2>1 DEF Recurses
<1>7. QED
  BY <1>3, <1>6

(* The two cases of the definition.                                        *)
LEMMA SumOf ==
    ASSUME NEW S, IsFiniteSet(S), NEW f
    PROVE  /\ S = {} => Sum(f, S) = 0
           /\ S # {} => Sum(f, S) = f[Pick(S)] + Sum(f, S \ {Pick(S)})
<1> DEFINE G(t) == CHOOSE g : Recurses(g, f, t)
<1>1. ASSUME NEW T \in SUBSET S PROVE Recurses(G(T), f, T) /\ Sum(f, T) = G(T)[T]
  <2>1. \E g : Recurses(g, f, T)
    BY FS_Subset, RecursesExists
  <2> QED
    BY <2>1, Unfold
<1> HIDE DEF G
<1>2. Sum(f, S) = IF S = {} THEN 0 ELSE f[Pick(S)] + G(S)[S \ {Pick(S)}]
  BY <1>1, RecursesAt
<1>3. ASSUME S # {} PROVE G(S)[S \ {Pick(S)}] = Sum(f, S \ {Pick(S)})
  <2>1. PICK u : u = S \ {Pick(S)}
    OBVIOUS
  <2>2. u \in SUBSET S /\ Recurses(G(u), f, u) /\ Recurses(G(S), f, S)
    BY <1>1, <2>1
  <2>3. G(S)[u] = G(u)[u]
    BY <2>2, RecursesAgree
  <2> QED
    BY <1>1, <2>1, <2>2, <2>3
<1>4. QED
  BY <1>2, <1>3

LEMMA SumEmpty == ASSUME NEW f PROVE Sum(f, {}) = 0
BY SumOf, FS_EmptySet

LEMMA SumType ==
    ASSUME NEW S, IsFiniteSet(S), NEW f, \A x \in S : f[x] \in Int
    PROVE  Sum(f, S) \in Int
<1> DEFINE Bad == {s \in SUBSET S : Sum(f, s) \notin Int}
<1>1. SUFFICES ASSUME Bad # {} PROVE FALSE
  OBVIOUS
<1>2. PICK s \in Bad : \A u \in Bad : u \subseteq s => u = s
  <2>1. Bad \subseteq SUBSET S
    OBVIOUS
  <2> HIDE DEF Bad
  <2> QED
    BY <1>1, <2>1, MinimalSubset
<1>3. IsFiniteSet(s) /\ s \in SUBSET S /\ Sum(f, s) \notin Int
  BY FS_Subset
<1>4. s # {} /\ Sum(f, s) = f[Pick(s)] + Sum(f, s \ {Pick(s)})
  <2>1. s = {} => Sum(f, s) = 0
    BY <1>3, SumOf
  <2>2. s # {}
    BY <1>3, <2>1
  <2> QED
    BY <1>3, <2>2, SumOf
<1>5. Pick(s) \in s
  BY <1>4, PickIn
<1>6. Sum(f, s \ {Pick(s)}) \in Int
  BY <1>2, <1>3, <1>5
<1>7. QED
  BY <1>3, <1>4, <1>5, <1>6

(* Any element may be taken first.                                         *)
LEMMA SumTakeOut ==
    ASSUME NEW S, IsFiniteSet(S), NEW f, \A x \in S : f[x] \in Int, NEW x \in S
    PROVE  Sum(f, S) = f[x] + Sum(f, S \ {x})
<1> DEFINE Bad == {s \in SUBSET S : \E y \in s : Sum(f, s) # f[y] + Sum(f, s \ {y})}
<1>1. SUFFICES ASSUME Bad # {} PROVE FALSE
  OBVIOUS
<1>2. PICK s \in Bad : \A u \in Bad : u \subseteq s => u = s
  <2>1. Bad \subseteq SUBSET S
    OBVIOUS
  <2> HIDE DEF Bad
  <2> QED
    BY <1>1, <2>1, MinimalSubset
<1>3. PICK y \in s : Sum(f, s) # f[y] + Sum(f, s \ {y})
  OBVIOUS
<1>4. PICK p : p = Pick(s)
  OBVIOUS
<1>5. IsFiniteSet(s) /\ s \in SUBSET S /\ p \in s
  BY <1>4, PickIn, FS_Subset
<1>6. Sum(f, s) = f[p] + Sum(f, s \ {p})
  BY <1>4, <1>5, SumOf
<1>7. p # y
  BY <1>3, <1>6
<1>8. Sum(f, s \ {p}) = f[y] + Sum(f, (s \ {p}) \ {y})
  <2>1. s \ {p} \notin Bad
    BY <1>2, <1>5
  <2> QED
    BY <1>5, <1>7, <2>1
<1>9. Sum(f, s \ {y}) = f[p] + Sum(f, (s \ {y}) \ {p})
  <2>1. s \ {y} \notin Bad
    BY <1>2
  <2> QED
    BY <1>5, <1>7, <2>1
<1>10. (s \ {p}) \ {y} = (s \ {y}) \ {p}
  OBVIOUS
<1>11. Sum(f, (s \ {y}) \ {p}) \in Int /\ f[p] \in Int /\ f[y] \in Int
  <2>1. IsFiniteSet((s \ {y}) \ {p})
    BY <1>5, FS_Subset
  <2> QED
    BY <1>5, <2>1, SumType
<1>12. Sum(f, s) = f[p] + (f[y] + Sum(f, (s \ {y}) \ {p}))
  BY <1>6, <1>8, <1>10
<1>13. Sum(f, s) = f[y] + (f[p] + Sum(f, (s \ {y}) \ {p}))
  <2> DEFINE r == Sum(f, (s \ {y}) \ {p})
             v == f[p]
             w == f[y]
  <2>1. r \in Int /\ v \in Int /\ w \in Int /\ Sum(f, s) = v + (w + r)
    BY <1>11, <1>12
  <2> HIDE DEF r, v, w
  <2>2. Sum(f, s) = w + (v + r)
    BY <2>1
  <2> QED
    BY <2>2 DEF r, v, w
<1>14. QED
  BY <1>3, <1>9, <1>13

LEMMA SumAdd ==
    ASSUME NEW S, IsFiniteSet(S), NEW x, x \notin S, NEW f,
           \A y \in S \union {x} : f[y] \in Int
    PROVE  Sum(f, S \union {x}) = Sum(f, S) + f[x]
<1>1. IsFiniteSet(S \union {x}) /\ (S \union {x}) \ {x} = S
  BY FS_AddElement
<1>2. Sum(f, S \union {x}) = f[x] + Sum(f, S)
  <2>1. x \in S \union {x}
    OBVIOUS
  <2> QED
    BY <1>1, <2>1, SumTakeOut
<1>3. Sum(f, S) \in Int
  BY SumType
<1>4. QED
  BY <1>2, <1>3

-----------------------------------------------------------------------------
(* Induction on the subsets of a finite set, over a set of subsets.        *)
LEMMA SubsetInduction ==
    ASSUME NEW S, IsFiniteSet(S), NEW P, {} \in P,
           \A T \in SUBSET S : \A x \in S \ T : T \in P => T \union {x} \in P
    PROVE  S \in P
<1> DEFINE Bad == {s \in SUBSET S : s \notin P}
<1>1. SUFFICES ASSUME Bad # {} PROVE FALSE
  BY DEF Bad
<1>2. PICK s \in Bad : \A u \in Bad : u \subseteq s => u = s
  <2>1. Bad \subseteq SUBSET S
    OBVIOUS
  <2> HIDE DEF Bad
  <2> QED
    BY <1>1, <2>1, MinimalSubset
<1>3. PICK x \in s : TRUE
  OBVIOUS
<1>4. s \ {x} \in P
  BY <1>2
<1>5. (s \ {x}) \union {x} = s /\ s \ {x} \in SUBSET S /\ x \in S \ (s \ {x})
  OBVIOUS
<1>6. (s \ {x}) \union {x} \in P
  <2> HIDE DEF Bad
  <2> QED
    BY <1>4, <1>5
<1>7. QED
  BY <1>5, <1>6

(* A sum depends on the values at its own elements alone.                  *)
LEMMA SumCongruent ==
    ASSUME NEW S, IsFiniteSet(S), NEW f, NEW g,
           \A x \in S : f[x] \in Int /\ f[x] = g[x]
    PROVE  Sum(f, S) = Sum(g, S)
<1> DEFINE P == {T \in SUBSET S : Sum(f, T) = Sum(g, T)}
<1>1. {} \in P
  BY SumEmpty
<1>2. ASSUME NEW T \in SUBSET S, NEW x \in S \ T, T \in P PROVE T \union {x} \in P
  <2>1. Sum(f, T \union {x}) = Sum(f, T) + f[x] /\ Sum(g, T \union {x}) = Sum(g, T) + g[x]
    BY FS_Subset, SumAdd
  <2> QED
    BY <1>2, <2>1
<1> HIDE DEF P
<1>3. S \in P
  BY <1>1, <1>2, SubsetInduction
<1>4. QED
  BY <1>3 DEF P

(* A sum of charges is not negative, and grows with its set.               *)
LEMMA SumNat ==
    ASSUME NEW S, IsFiniteSet(S), NEW f, \A x \in S : f[x] \in Nat
    PROVE  Sum(f, S) \in Nat
<1> DEFINE P == {T \in SUBSET S : Sum(f, T) \in Nat}
<1>1. {} \in P
  BY SumEmpty
<1>2. ASSUME NEW T \in SUBSET S, NEW x \in S \ T, T \in P PROVE T \union {x} \in P
  <2>0. \A y \in S : f[y] \in Int
    OBVIOUS
  <2>1. Sum(f, T \union {x}) = Sum(f, T) + f[x]
    BY <2>0, FS_Subset, SumAdd
  <2> QED
    BY <1>2, <2>1
<1> HIDE DEF P
<1>3. S \in P
  BY <1>1, <1>2, SubsetInduction
<1>4. QED
  BY <1>3 DEF P

LEMMA SumUnion ==
    ASSUME NEW S, IsFiniteSet(S), NEW T, IsFiniteSet(T), S \intersect T = {},
           NEW f, \A x \in S \union T : f[x] \in Int
    PROVE  Sum(f, S \union T) = Sum(f, S) + Sum(f, T)
<1> DEFINE P == {U \in SUBSET T : Sum(f, S \union U) = Sum(f, S) + Sum(f, U)}
<1>0. Sum(f, S) \in Int
  BY SumType
<1>1. {} \in P
  BY <1>0, SumEmpty
<1>2. ASSUME NEW U \in SUBSET T, NEW x \in T \ U, U \in P PROVE U \union {x} \in P
  <2>1. IsFiniteSet(U) /\ IsFiniteSet(S \union U)
    BY FS_Subset, FS_Union
  <2>2. Sum(f, U) \in Int /\ Sum(f, S \union U) \in Int /\ f[x] \in Int
    BY <2>1, SumType
  <2>3. Sum(f, U \union {x}) = Sum(f, U) + f[x]
    BY <2>1, SumAdd
  <2>4. Sum(f, (S \union U) \union {x}) = Sum(f, S \union U) + f[x]
    BY <2>1, SumAdd
  <2>5. S \union (U \union {x}) = (S \union U) \union {x}
    OBVIOUS
  <2>6. Sum(f, S \union U) = Sum(f, S) + Sum(f, U)
    BY <1>2
  <2>7. Sum(f, S \union (U \union {x})) = Sum(f, S \union U) + f[x]
    BY <2>4, <2>5
  <2>8. Sum(f, S \union (U \union {x})) = Sum(f, S) + Sum(f, U \union {x})
    <3> HIDE DEF P
    <3> QED
      BY <1>0, <2>2, <2>3, <2>6, <2>7
  <2> QED
    BY <2>8
<1> HIDE DEF P
<1>3. T \in P
  BY <1>1, <1>2, SubsetInduction
<1>4. QED
  BY <1>3 DEF P

LEMMA SumSubset ==
    ASSUME NEW T, IsFiniteSet(T), NEW S \in SUBSET T, NEW f,
           \A x \in T : f[x] \in Int, \A x \in T \ S : f[x] >= 0
    PROVE  Sum(f, S) <= Sum(f, T)
<1>1. IsFiniteSet(S) /\ IsFiniteSet(T \ S)
  BY FS_Subset
<1>2. Sum(f, S \union (T \ S)) = Sum(f, S) + Sum(f, T \ S)
  BY <1>1, SumUnion
<1>3. S \union (T \ S) = T
  OBVIOUS
<1>4. Sum(f, T \ S) \in Nat
  BY <1>1, SumNat
<1>5. Sum(f, S) \in Int
  BY <1>1, SumType
<1>6. Sum(f, T) = Sum(f, S) + Sum(f, T \ S)
  BY <1>2, <1>3
<1>7. QED
  BY <1>4, <1>5, <1>6

(* If every element of S is charged, at an element of T of its own, at     *)
(* least its value, then T is charged at least the sum of S.               *)
LEMMA SumCovered ==
    ASSUME NEW S, IsFiniteSet(S), NEW T, IsFiniteSet(T), NEW f, NEW g, NEW h,
           \A x \in S : f[x] \in Int /\ h[x] \in T /\ f[x] <= g[h[x]],
           \A x, y \in S : h[x] = h[y] => x = y,
           \A y \in T : g[y] \in Nat
    PROVE  Sum(f, S) <= Sum(g, T)
<1> DEFINE Image(A) == {h[x] : x \in A}
           P == {A \in SUBSET S : Sum(f, A) <= Sum(g, Image(A))}
<1>1. {} \in P
  <2>1. Image({}) = {}
    OBVIOUS
  <2> QED
    BY <2>1, SumEmpty
<1>2. ASSUME NEW A \in SUBSET S, NEW x \in S \ A, A \in P PROVE A \union {x} \in P
  <2>1. Image(A) \subseteq T /\ h[x] \notin Image(A) /\ h[x] \in T
    OBVIOUS
  <2>2. Image(A \union {x}) = Image(A) \union {h[x]}
    OBVIOUS
  <2>3. IsFiniteSet(A) /\ IsFiniteSet(Image(A))
    BY <2>1, FS_Subset
  <2>4. Sum(f, A) <= Sum(g, Image(A))
    BY <1>2
  <2>5. Sum(f, A \union {x}) = Sum(f, A) + f[x]
    BY <2>3, SumAdd
  <2> HIDE DEF Image
  <2>6. Sum(g, Image(A \union {x})) = Sum(g, Image(A)) + g[h[x]]
    <3>1. \A y \in Image(A) \union {h[x]} : g[y] \in Int
      BY <2>1
    <3>2. Sum(g, Image(A) \union {h[x]}) = Sum(g, Image(A)) + g[h[x]]
      BY <2>1, <2>3, <3>1, SumAdd
    <3> QED
      BY <2>2, <3>2
  <2>7. Sum(f, A) \in Int /\ Sum(g, Image(A)) \in Int
    BY <2>1, <2>3, SumType
  <2>8. f[x] \in Int /\ g[h[x]] \in Int /\ f[x] <= g[h[x]]
    BY <2>1
  <2>9. Sum(f, A \union {x}) <= Sum(g, Image(A \union {x}))
    BY <2>4, <2>5, <2>6, <2>7, <2>8
  <2> QED
    BY <2>9
<1>3. Image(S) \subseteq T
  OBVIOUS
<1> HIDE DEF P
<1>4. S \in P
  BY <1>1, <1>2, SubsetInduction
<1>5. Sum(f, S) <= Sum(g, Image(S))
  BY <1>4 DEF P
<1> HIDE DEF Image
<1>6. IsFiniteSet(Image(S)) /\ Sum(g, Image(S)) <= Sum(g, T)
  BY <1>3, FS_Subset, SumSubset
<1>7. Sum(f, S) \in Int /\ Sum(g, Image(S)) \in Int /\ Sum(g, T) \in Int
  BY <1>3, <1>6, SumType
<1>8. QED
  BY <1>5, <1>6, <1>7

(* Elements that are charged nothing may be left out of a sum.             *)
LEMMA SumPadded ==
    ASSUME NEW T, IsFiniteSet(T), NEW S \in SUBSET T, NEW f,
           \A x \in T : f[x] \in Int, \A x \in T \ S : f[x] = 0
    PROVE  Sum(f, S) = Sum(f, T)
<1> DEFINE P == {U \in SUBSET (T \ S) : Sum(f, U) = 0}
<1>1. {} \in P
  BY SumEmpty
<1>2. IsFiniteSet(S) /\ IsFiniteSet(T \ S)
  BY FS_Subset
<1>3. ASSUME NEW U \in SUBSET (T \ S), NEW x \in (T \ S) \ U, U \in P PROVE U \union {x} \in P
  <2>1. Sum(f, U \union {x}) = Sum(f, U) + f[x]
    BY <1>2, FS_Subset, SumAdd
  <2>2. QED
    BY <1>3, <2>1
<1> HIDE DEF P
<1>4. T \ S \in P
  BY <1>1, <1>2, <1>3, SubsetInduction
<1>5. Sum(f, S \union (T \ S)) = Sum(f, S) + Sum(f, T \ S)
  BY <1>2, SumUnion
<1>6. S \union (T \ S) = T /\ Sum(f, S) \in Int
  BY <1>2, SumType
<1>7. Sum(f, T \ S) = 0
  BY <1>4 DEF P
<1>8. Sum(f, T) = Sum(f, S) + Sum(f, T \ S)
  BY <1>5, <1>6
<1>9. QED
  BY <1>6, <1>7, <1>8

(* A change of one value changes the sum by as much.                       *)
LEMMA SumChange ==
    ASSUME NEW S, IsFiniteSet(S), NEW f, NEW g, NEW x \in S,
           \A y \in S : f[y] \in Int /\ g[y] \in Int,
           \A y \in S : y # x => f[y] = g[y]
    PROVE  Sum(g, S) = Sum(f, S) - f[x] + g[x]
<1>1. Sum(f, S) = f[x] + Sum(f, S \ {x}) /\ Sum(g, S) = g[x] + Sum(g, S \ {x})
  BY SumTakeOut
<1>2. IsFiniteSet(S \ {x})
  BY FS_Subset
<1>3. Sum(f, S \ {x}) = Sum(g, S \ {x})
  BY <1>2, SumCongruent
<1>4. Sum(f, S \ {x}) \in Int
  BY <1>2, SumType
<1>5. f[x] \in Int /\ g[x] \in Int
  OBVIOUS
<1>6. QED
  BY <1>1, <1>3, <1>4, <1>5

(* Values that are each at most the sum of two others add up to at most    *)
(* the sums of those.                                                      *)
LEMMA SumBounded ==
    ASSUME NEW S, IsFiniteSet(S), NEW f, NEW g, NEW h,
           \A x \in S : f[x] \in Int /\ g[x] \in Int /\ h[x] \in Int /\ f[x] <= g[x] + h[x]
    PROVE  Sum(f, S) <= Sum(g, S) + Sum(h, S)
<1> DEFINE P == {T \in SUBSET S : Sum(f, T) <= Sum(g, T) + Sum(h, T)}
<1>1. {} \in P
  BY SumEmpty
<1>2. ASSUME NEW T \in SUBSET S, NEW x \in S \ T, T \in P PROVE T \union {x} \in P
  <2>1. IsFiniteSet(T)
    BY FS_Subset
  <2>2. /\ Sum(f, T \union {x}) = Sum(f, T) + f[x]
        /\ Sum(g, T \union {x}) = Sum(g, T) + g[x]
        /\ Sum(h, T \union {x}) = Sum(h, T) + h[x]
    BY <2>1, SumAdd
  <2>3. Sum(f, T) \in Int /\ Sum(g, T) \in Int /\ Sum(h, T) \in Int
    BY <2>1, SumType
  <2>4. Sum(f, T) <= Sum(g, T) + Sum(h, T) /\ f[x] <= g[x] + h[x]
    BY <1>2
  <2>5. f[x] \in Int /\ g[x] \in Int /\ h[x] \in Int
    OBVIOUS
  <2>6. Sum(f, T \union {x}) <= Sum(g, T \union {x}) + Sum(h, T \union {x})
    <3> HIDE DEF P
    <3> QED
      BY <2>2, <2>3, <2>4, <2>5
  <2>7. QED
    BY <2>6
<1> HIDE DEF P
<1>3. S \in P
  BY <1>1, <1>2, SubsetInduction
<1>4. QED
  BY <1>3 DEF P
=============================================================================
