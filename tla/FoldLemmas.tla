----------------------------- MODULE FoldLemmas -----------------------------
(***************************************************************************)
(* Facts the proofs about loops and sums rest on: induction over the       *)
(* naturals, what a function defined by recursion over 0..n computes, and  *)
(* the sum of a function over a finite set.                                *)
(***************************************************************************)
EXTENDS Integers, FiniteSets, FiniteSetsExt, Functions, FiniteSetTheorems, TLAPS

-----------------------------------------------------------------------------
(* Naturals. *)

\* Every nonempty set of naturals has a least element.
LEMMA LeastNatural ==
    ASSUME NEW B \in SUBSET Nat, B # {}
    PROVE  \E m \in B : \A k \in B : m <= k
<1> DEFINE T == {0..n : n \in B}
<1>1. T \subseteq FiniteSubsetsOf(Nat)
  <2>1. \A n \in B : 0..n \in SUBSET Nat /\ IsFiniteSet(0..n)
    BY FS_Interval
  <2> QED BY <2>1 DEF FiniteSubsetsOf
<1>2. T # {} OBVIOUS
<1>3. IsWellFoundedOn(StrictSubsetOrdering(Nat), FiniteSubsetsOf(Nat))
  BY FS_StrictSubsetOrderingWellFounded
<1>4. PICK x \in T : \A y \in T : ~ (<<y, x>> \in StrictSubsetOrdering(Nat))
  <2> HIDE DEF T
  <2> QED BY <1>1, <1>2, <1>3, WFMin
<1>5. PICK m \in B : x = 0..m OBVIOUS
<1>6. ASSUME NEW k \in B, ~ (m <= k) PROVE FALSE
  <2>1. 0..k \in T OBVIOUS
  <2>2. 0..k \subseteq 0..m /\ m \in 0..m /\ m \notin 0..k
    BY <1>6
  <2>3. <<0..k, 0..m>> \in StrictSubsetOrdering(Nat)
    <3> DEFINE u == <<0..k, 0..m>>
    <3>1. u \in (SUBSET Nat) \X (SUBSET Nat) OBVIOUS
    <3>2. u[1] = 0..k /\ u[2] = 0..m OBVIOUS
    <3>3. u[1] \subseteq u[2] /\ u[1] # u[2] BY <2>2
    <3> HIDE DEF u
    <3>4. u \in StrictSubsetOrdering(Nat) BY <3>1, <3>3 DEF StrictSubsetOrdering
    <3> QED BY <3>4 DEF u
  <2> QED BY <1>4, <1>5, <2>1, <2>3
<1> QED BY <1>6

\* A set of naturals that holds 0 and the successor of each of its members
\* holds them all.
LEMMA NaturalsBySuccessor ==
    ASSUME NEW B, 0 \in B, \A n \in Nat : n \in B => n + 1 \in B
    PROVE  \A n \in Nat : n \in B
<1> SUFFICES ASSUME NEW n \in Nat, n \notin B PROVE FALSE OBVIOUS
<1>1. PICK m \in Nat \ B : \A k \in Nat \ B : m <= k
  BY LeastNatural
<1>2. m # 0 OBVIOUS
<1>3. m - 1 \in Nat /\ ~(m <= m - 1) /\ (m - 1) + 1 = m BY <1>2
<1>4. m - 1 \in B BY <1>1, <1>3
<1> QED BY <1>3, <1>4

\* A set of numbers up to n that is not empty has a greatest.
LEMMA GreatestBelow ==
    ASSUME NEW n \in Nat, NEW S \in SUBSET (0..n), S # {}
    PROVE  \E m \in S : \A k \in S : k <= m
<1> DEFINE B == {n - k : k \in S}
<1>1. B \in SUBSET Nat
  <2>1. \A k \in S : n - k \in Nat OBVIOUS
  <2> QED BY <2>1
<1>5. B # {} OBVIOUS
<1> HIDE DEF B
<1>2. PICK b \in B : \A k \in B : b <= k BY <1>1, <1>5, LeastNatural
<1>3. PICK m \in S : b = n - m BY DEF B
<1>4. ASSUME NEW k \in S PROVE k <= m
  <2>1. n - k \in B BY DEF B
  <2>2. b <= n - k BY <1>2, <2>1
  <2> QED BY <1>3, <2>2
<1> QED BY <1>4

\* The least of a set.
LEMMA MinIsLeast ==
    ASSUME NEW S \in SUBSET Nat, S # {}
    PROVE  Min(S) \in S /\ \A k \in S : Min(S) <= k
  BY LeastNatural DEF Min

\* The smaller and the greater of two.
LEMMA MinMaxOfTwo ==
    ASSUME NEW a \in Int, NEW b \in Int
    PROVE  /\ Min({a, b}) = IF a <= b THEN a ELSE b
           /\ Max({a, b}) = IF a <= b THEN b ELSE a
<1> DEFINE l == IF a <= b THEN a ELSE b
           g == IF a <= b THEN b ELSE a
<1>1. l \in {a, b} /\ l <= a /\ l <= b /\ g \in {a, b} /\ a <= g /\ b <= g OBVIOUS
<1>2. \A x \in {a, b} : /\ (\A y \in {a, b} : x <= y) => x = l
                        /\ (\A y \in {a, b} : x >= y) => x = g
  OBVIOUS
<1>3. Min({a, b}) = l BY <1>1, <1>2 DEF Min
<1>4. Max({a, b}) = g BY <1>1, <1>2 DEF Max
<1> QED BY <1>3, <1>4

-----------------------------------------------------------------------------
(* Loops. What a recursive function over 0..n computes is shown with the least
   turn at which it would not. *)

\* A property that holds before a loop and that each of its turns keeps holds
\* after it: G[i] is the set of what may be reached after i turns.
LEMMA LoopKeeps ==
    ASSUME NEW n \in Nat, NEW f, NEW G, f[0] \in G[0],
           \A i \in 1..n : f[i - 1] \in G[i - 1] => f[i] \in G[i]
    PROVE  f[n] \in G[n]
<1> DEFINE B == {i \in Nat : i <= n => f[i] \in G[i]}
<1>1. 0 \in B OBVIOUS
<1>2. ASSUME NEW i \in Nat, i \in B PROVE i + 1 \in B
  <2> SUFFICES ASSUME i + 1 <= n PROVE f[i + 1] \in G[i + 1] OBVIOUS
  <2>1. i <= n /\ i + 1 \in 1..n /\ (i + 1) - 1 = i OBVIOUS
  <2>2. f[i] \in G[i] BY <1>2, <2>1
  <2>3. f[(i + 1) - 1] \in G[(i + 1) - 1] BY <2>1, <2>2
  <2> QED BY <2>1, <2>3
<1> HIDE DEF B
<1>3. n \in B BY <1>1, <1>2, NaturalsBySuccessor
<1> QED BY <1>3 DEF B

\* g is a run of n turns of the loop that starts with a and whose turn i makes
\* F[d][i] of d.
IsRun(n, a, F, g) == g[0] = a /\ \A i \in 1..n : g[i] = F[g[i - 1]][i]

\* A loop whose turns stay in D has a run.
LEMMA LoopRuns ==
    ASSUME NEW n \in Nat, NEW D, NEW a \in D, NEW F \in [D -> [1..n -> D]]
    PROVE  \E g \in [0..n -> D] : IsRun(n, a, F, g)
<1> USE DEF IsRun
<1> DEFINE Run(g, m) == g \in [0..m -> D] /\ IsRun(m, a, F, g)
           B == {m \in Nat : m <= n => \E g : Run(g, m)}
<1>1. 0 \in B
  <2> DEFINE g == [i \in 0..0 |-> a]
  <2>1. Run(g, 0) OBVIOUS
  <2> QED BY <2>1
<1>2. ASSUME NEW m \in Nat, m \in B PROVE m + 1 \in B
  <2> SUFFICES ASSUME m + 1 <= n PROVE \E g : Run(g, m + 1)
    <3> HIDE DEF Run
    <3> QED OBVIOUS
  <2>1. m <= n /\ m + 1 \in 1..n OBVIOUS
  <2>2. PICK g : Run(g, m) BY <1>2, <2>1
  <2> DEFINE h == [i \in 0..(m + 1) |-> IF i = m + 1 THEN F[g[m]][m + 1] ELSE g[i]]
  <2>3. g[m] \in D BY <2>2
  <2>4. F[g[m]][m + 1] \in D BY <2>1, <2>3
  <2>5. \A i \in 0..m : h[i] = g[i] /\ h[i] \in D BY <2>2
  <2>6. h[m + 1] = F[g[m]][m + 1] OBVIOUS
  <2>7. \A i \in 0..(m + 1) : i \in 0..m \/ i = m + 1 OBVIOUS
  <2>8. h \in [0..(m + 1) -> D] BY <2>4, <2>5, <2>6, <2>7
  <2>9. h[0] = a BY <2>2, <2>5
  <2>10. ASSUME NEW i \in 1..(m + 1) PROVE h[i] = F[h[i - 1]][i]
    <3>1. i - 1 \in 0..m /\ (i = m + 1 \/ (i \in 1..m /\ i \in 0..m)) OBVIOUS
    <3>2. h[i - 1] = g[i - 1] BY <2>5, <3>1
    <3>3. CASE i = m + 1 BY <2>6, <3>2, <3>3
    <3>4. CASE i \in 1..m
      <4>1. h[i] = g[i] BY <2>5, <3>4
      <4>2. g[i] = F[g[i - 1]][i] BY <2>2, <3>4
      <4> QED BY <3>2, <4>1, <4>2
    <3> QED BY <3>1, <3>3, <3>4
  <2> HIDE DEF h
  <2>11. Run(h, m + 1) BY <2>8, <2>9, <2>10
  <2> QED BY <2>11
<1> HIDE DEF B
<1>3. n \in B BY <1>1, <1>2, NaturalsBySuccessor
<1> QED BY <1>3 DEF B

-----------------------------------------------------------------------------
(* Sums: SumFunctionOnSet of the community modules. *)

\* The element a sum takes out of a set first.
Picked(T) == CHOOSE x \in T : TRUE

\* g holds the sum of f over each set of M, which has with a set what it is summed from.
Adds(f, M, g) ==
    g = [T \in M |-> IF T = {} THEN 0 ELSE f[Picked(T)] + g[T \ {Picked(T)}]]

SumsUp(f, S, g) == Adds(f, SUBSET S, g)

LEMMA SumIsChosen ==
    ASSUME NEW f, NEW S
    PROVE  SumFunctionOnSet(f, S) = (CHOOSE g : SumsUp(f, S, g))[S]
BY DEF SumFunctionOnSet, FoldFunctionOnSet, MapThenFoldSet, SumsUp, Adds, Picked

LEMMA PickShrinks ==
    ASSUME NEW T, IsFiniteSet(T), T # {}
    PROVE  /\ Picked(T) \in T /\ IsFiniteSet(T \ {Picked(T)})
           /\ Cardinality(T) \in Nat \ {0}
           /\ Cardinality(T \ {Picked(T)}) = Cardinality(T) - 1
           /\ Cardinality(T \ {Picked(T)}) \in Nat
<1>1. Picked(T) \in T BY DEF Picked
<1>2. IsFiniteSet(T \ {Picked(T)}) /\ Cardinality(T \ {Picked(T)}) = Cardinality(T) - 1
  BY <1>1, FS_RemoveElement
<1> QED BY <1>1, <1>2, FS_CardinalityType, FS_EmptySet

\* The recursion of a sum has a solution, found for larger and larger sets.
LEMMA SumExists ==
    ASSUME NEW f, NEW S, IsFiniteSet(S)
    PROVE  \E g : SumsUp(f, S, g)
<1> DEFINE Upto(n) == {T \in SUBSET S : Cardinality(T) <= n}
           B == {n \in Nat : \E g : Adds(f, Upto(n), g)}
<1>a. \A T \in SUBSET S : IsFiniteSet(T) /\ Cardinality(T) \in Nat
  BY FS_Subset, FS_CardinalityType
<1>1. 0 \in B
  <2> DEFINE g == [T \in Upto(0) |-> 0]
  <2>1. \A T \in Upto(0) : T = {} BY <1>a, FS_EmptySet
  <2>2. Adds(f, Upto(0), g) BY <2>1 DEF Adds
  <2> HIDE DEF g
  <2> QED BY <2>2
<1>2. ASSUME NEW n \in Nat, n \in B PROVE n + 1 \in B
  <2>1. PICK g : Adds(f, Upto(n), g) BY <1>2
  <2> DEFINE Next(T) == IF T = {} THEN 0 ELSE f[Picked(T)] + g[T \ {Picked(T)}]
             h == [T \in Upto(n + 1) |-> Next(T)]
  <2>2. \A T \in Upto(n) : g[T] = Next(T) /\ T \in Upto(n + 1) /\ h[T] = Next(T)
    <3> SUFFICES ASSUME NEW T \in Upto(n) PROVE g[T] = Next(T) /\ T \in Upto(n + 1) OBVIOUS
    <3>1. g[T] = Next(T) BY <2>1 DEF Adds
    <3>2. T \in Upto(n + 1) BY <1>a
    <3> QED BY <3>1, <3>2
  <2>3. ASSUME NEW T \in Upto(n + 1), T # {}
        PROVE  g[T \ {Picked(T)}] = h[T \ {Picked(T)}]
    <3>0. T \in SUBSET S /\ Cardinality(T) <= n + 1 /\ IsFiniteSet(T) /\ Cardinality(T) \in Nat
      BY <1>a
    <3> DEFINE R == T \ {Picked(T)}
    <3>3. Cardinality(R) \in Nat /\ Cardinality(R) = Cardinality(T) - 1 BY <2>3, <3>0, PickShrinks
    <3>4. R \in SUBSET S BY <3>0
    <3> HIDE DEF R
    <3>5. R \in Upto(n) BY <3>0, <3>3, <3>4
    <3>1. T \ {Picked(T)} \in Upto(n) BY <3>5 DEF R
    <3> HIDE DEF h, Upto
    <3> QED BY <2>2, <3>1
  <2>4. Adds(f, Upto(n + 1), h)
    <3> HIDE DEF Upto
    <3>1. h = [T \in Upto(n + 1) |-> IF T = {} THEN 0 ELSE f[Picked(T)] + h[T \ {Picked(T)}]]
      BY <2>3
    <3> HIDE DEF h
    <3> QED BY <3>1 DEF Adds
  <2> HIDE DEF h
  <2> QED BY <2>4
<1> HIDE DEF B
<1>3. Cardinality(S) \in B BY <1>1, <1>2, <1>a, NaturalsBySuccessor
<1>4. Upto(Cardinality(S)) = SUBSET S BY <1>a, FS_Subset
<1> HIDE DEF Upto
<1>5. PICK g : Adds(f, Upto(Cardinality(S)), g) BY <1>3 DEF B
<1> QED BY <1>4, <1>5 DEF SumsUp

\* Two sums of what agrees agree where both are defined.
LEMMA AddsAgree ==
    ASSUME NEW f, NEW S, NEW g, SumsUp(f, S, g),
           NEW e, NEW R, NEW h, SumsUp(e, R, h), IsFiniteSet(R),
           R \subseteq S, \A x \in R : e[x] = f[x]
    PROVE  \A T \in SUBSET R : h[T] = g[T]
<1> DEFINE B == {n \in Nat : \A T \in SUBSET R : Cardinality(T) = n => h[T] = g[T]}
<1>a. \A T \in SUBSET R : IsFiniteSet(T) /\ Cardinality(T) \in Nat
  BY FS_Subset, FS_CardinalityType
<1>b. \A T \in SUBSET R : h[T] = IF T = {} THEN 0 ELSE e[Picked(T)] + h[T \ {Picked(T)}]
  BY DEF SumsUp, Adds
<1>c. \A T \in SUBSET R : g[T] = IF T = {} THEN 0 ELSE f[Picked(T)] + g[T \ {Picked(T)}]
  <2>1. \A T \in SUBSET S : g[T] = IF T = {} THEN 0 ELSE f[Picked(T)] + g[T \ {Picked(T)}]
    BY DEF SumsUp, Adds
  <2> QED BY <2>1
<1>1. 0 \in B
  <2>1. \A T \in SUBSET R : Cardinality(T) = 0 => T = {} BY <1>a, FS_EmptySet
  <2> QED BY <2>1, <1>b, <1>c
<1>2. ASSUME NEW n \in Nat, n \in B PROVE n + 1 \in B
  <2> SUFFICES ASSUME NEW T \in SUBSET R, Cardinality(T) = n + 1 PROVE h[T] = g[T] OBVIOUS
  <2>1. IsFiniteSet(T) /\ T # {} BY <1>a, FS_EmptySet
  <2>2. Picked(T) \in T /\ Cardinality(T \ {Picked(T)}) = n
    <3>1. Picked(T) \in T /\ Cardinality(T \ {Picked(T)}) = Cardinality(T) - 1 BY <2>1, PickShrinks
    <3> QED BY <3>1
  <2>3. h[T \ {Picked(T)}] = g[T \ {Picked(T)}] BY <1>2, <2>2
  <2>4. e[Picked(T)] = f[Picked(T)] BY <2>2
  <2> QED BY <1>b, <1>c, <2>1, <2>3, <2>4
<1> HIDE DEF B
<1>3. \A n \in Nat : n \in B BY <1>1, <1>2, NaturalsBySuccessor
<1> SUFFICES ASSUME NEW T \in SUBSET R PROVE h[T] = g[T] OBVIOUS
<1>4. Cardinality(T) \in B BY <1>3, <1>a
<1> QED BY <1>4 DEF B

LEMMA SumAdds ==
    ASSUME NEW f, NEW S, IsFiniteSet(S), NEW g, SumsUp(f, S, g)
    PROVE  \A T \in SUBSET S : SumFunctionOnSet(f, T) = g[T]
<1> SUFFICES ASSUME NEW T \in SUBSET S PROVE SumFunctionOnSet(f, T) = g[T] OBVIOUS
<1>1. IsFiniteSet(T) BY FS_Subset
<1> DEFINE h == CHOOSE h : SumsUp(f, T, h)
<1>2. SumsUp(f, T, h) BY <1>1, SumExists
<1>3. SumFunctionOnSet(f, T) = h[T] BY SumIsChosen
<1> HIDE DEF h
<1>4. \A R \in SUBSET T : h[R] = g[R] BY <1>1, <1>2, AddsAgree
<1> QED BY <1>3, <1>4

\* The sum over nothing, and over something.
LEMMA SumOfNone == ASSUME NEW f PROVE SumFunctionOnSet(f, {}) = 0
<1>1. PICK g : SumsUp(f, {}, g) BY SumExists, FS_EmptySet
<1>2. SumFunctionOnSet(f, {}) = g[{}] BY <1>1, SumAdds, FS_EmptySet
<1> QED BY <1>1, <1>2 DEF SumsUp, Adds

LEMMA SumOfSome ==
    ASSUME NEW f, NEW S, IsFiniteSet(S), S # {}
    PROVE  SumFunctionOnSet(f, S) = f[Picked(S)] + SumFunctionOnSet(f, S \ {Picked(S)})
<1>1. PICK g : SumsUp(f, S, g) BY SumExists
<1>2. SumFunctionOnSet(f, S) = g[S] /\ SumFunctionOnSet(f, S \ {Picked(S)}) = g[S \ {Picked(S)}]
  BY <1>1, SumAdds
<1>3. g[S] = f[Picked(S)] + g[S \ {Picked(S)}] BY <1>1 DEF SumsUp, Adds
<1> QED BY <1>2, <1>3

\* A sum is of the values over the set, whatever the function is elsewhere.
LEMMA SumAgrees ==
    ASSUME NEW e, NEW f, NEW S, IsFiniteSet(S), \A x \in S : e[x] = f[x]
    PROVE  SumFunctionOnSet(e, S) = SumFunctionOnSet(f, S)
<1>1. PICK h : SumsUp(e, S, h) BY SumExists
<1>2. PICK g : SumsUp(f, S, g) BY SumExists
<1>3. h[S] = g[S] BY <1>1, <1>2, AddsAgree
<1> QED BY <1>1, <1>2, <1>3, SumAdds

\* A sum of members of a set that has 0 and their sums is one of them.
LEMMA SumIsOneOf ==
    ASSUME NEW D, 0 \in D, \A a, b \in D : a + b \in D,
           NEW f, NEW S, IsFiniteSet(S), \A x \in S : f[x] \in D
    PROVE  SumFunctionOnSet(f, S) \in D
<1> DEFINE B == {n \in Nat : \A T \in SUBSET S : Cardinality(T) = n => SumFunctionOnSet(f, T) \in D}
<1>a. \A T \in SUBSET S : IsFiniteSet(T) /\ Cardinality(T) \in Nat
  BY FS_Subset, FS_CardinalityType
<1>1. 0 \in B
  <2>1. \A T \in SUBSET S : Cardinality(T) = 0 => T = {} BY <1>a, FS_EmptySet
  <2>2. SumFunctionOnSet(f, {}) \in D BY SumOfNone
  <2> QED BY <2>1, <2>2
<1>2. ASSUME NEW n \in Nat, n \in B PROVE n + 1 \in B
  <2> SUFFICES ASSUME NEW T \in SUBSET S, Cardinality(T) = n + 1
               PROVE  SumFunctionOnSet(f, T) \in D
    OBVIOUS
  <2> DEFINE y == Picked(T)
  <2>1. IsFiniteSet(T) /\ T # {} BY <1>a, FS_EmptySet
  <2>2. y \in T /\ Cardinality(T \ {y}) = Cardinality(T) - 1 BY <2>1, PickShrinks
  <2>3. SumFunctionOnSet(f, T) = f[y] + SumFunctionOnSet(f, T \ {y}) BY <2>1, SumOfSome
  <2> HIDE DEF y
  <2>4. Cardinality(T \ {y}) = n /\ T \ {y} \in SUBSET S BY <2>2
  <2>5. SumFunctionOnSet(f, T \ {y}) \in D BY <1>2, <2>4
  <2>6. f[y] \in D BY <2>2
  <2> QED BY <2>3, <2>5, <2>6
<1> HIDE DEF B
<1>3. Cardinality(S) \in B BY <1>1, <1>2, <1>a, NaturalsBySuccessor
<1> QED BY <1>3 DEF B

LEMMA SumIsInt ==
    ASSUME NEW f, NEW S, IsFiniteSet(S), \A x \in S : f[x] \in Int
    PROVE  SumFunctionOnSet(f, S) \in Int
<1> DEFINE D == Int
<1>1. 0 \in D /\ \A a, b \in D : a + b \in D OBVIOUS
<1>2. \A x \in S : f[x] \in D OBVIOUS
<1> HIDE DEF D
<1>3. SumFunctionOnSet(f, S) \in D BY <1>1, <1>2, SumIsOneOf
<1> QED BY <1>3 DEF D

LEMMA SumIsNatural ==
    ASSUME NEW f, NEW S, IsFiniteSet(S), \A x \in S : f[x] \in Nat
    PROVE  SumFunctionOnSet(f, S) \in Nat
<1>1. 0 \in Nat /\ \A a, b \in Nat : a + b \in Nat OBVIOUS
<1> DEFINE D == Nat
<1>2. 0 \in D /\ (\A a, b \in D : a + b \in D) /\ \A x \in S : f[x] \in D BY <1>1
<1> HIDE DEF D
<1>3. SumFunctionOnSet(f, S) \in D BY <1>2, SumIsOneOf
<1> QED BY <1>3 DEF D

LEMMA SumOfZeros ==
    ASSUME NEW f, NEW S, IsFiniteSet(S), \A x \in S : f[x] = 0
    PROVE  SumFunctionOnSet(f, S) = 0
<1> DEFINE D == {0}
<1>1. 0 \in D /\ (\A a, b \in D : a + b \in D) /\ \A x \in S : f[x] \in D OBVIOUS
<1> HIDE DEF D
<1>2. SumFunctionOnSet(f, S) \in D BY <1>1, SumIsOneOf
<1> QED BY <1>2 DEF D

\* It makes no difference which is added first.
LEMMA SumTakesOut ==
    ASSUME NEW f, NEW S, IsFiniteSet(S), \A y \in S : f[y] \in Int, NEW x \in S
    PROVE  SumFunctionOnSet(f, S) = f[x] + SumFunctionOnSet(f, S \ {x})
<1> DEFINE Sum(T) == SumFunctionOnSet(f, T)
           Fine(T) == \A y \in T : Sum(T) = f[y] + Sum(T \ {y})
           B == {n \in Nat : \A T \in SUBSET S : Cardinality(T) = n => Fine(T)}
<1>a. \A T \in SUBSET S : IsFiniteSet(T) /\ Cardinality(T) \in Nat
  BY FS_Subset, FS_CardinalityType
<1>b. \A T \in SUBSET S : Sum(T) \in Int BY <1>a, SumIsInt
<1>c. \A T \in SUBSET S : T # {} => Sum(T) = f[Picked(T)] + Sum(T \ {Picked(T)})
  BY <1>a, SumOfSome
<1> HIDE DEF Sum
<1>1. 0 \in B
  <2>1. \A T \in SUBSET S : Cardinality(T) = 0 => T = {} BY <1>a, FS_EmptySet
  <2>2. \A T \in SUBSET S : Cardinality(T) = 0 => Fine(T) BY <2>1
  <2> HIDE DEF Fine
  <2> QED BY <2>2
<1>2. ASSUME NEW n \in Nat, n \in B PROVE n + 1 \in B
  <2> SUFFICES ASSUME NEW T \in SUBSET S, Cardinality(T) = n + 1, NEW z \in T
               PROVE  Sum(T) = f[z] + Sum(T \ {z})
    OBVIOUS
  <2> DEFINE y == Picked(T)
  <2>1. IsFiniteSet(T) /\ T # {} BY <1>a, FS_EmptySet
  <2>2. y \in T BY <2>1, PickShrinks
  <2>3. Sum(T) = f[y] + Sum(T \ {y}) BY <1>c, <2>1
  <2> HIDE DEF y
  <2>4. ASSUME NEW u \in T PROVE Fine(T \ {u})
    <3>1. Cardinality(T \ {u}) = Cardinality(T) - 1 BY <2>1, FS_RemoveElement
    <3>2. Cardinality(T \ {u}) = n /\ T \ {u} \in SUBSET S BY <3>1
    <3> HIDE DEF Fine
    <3> QED BY <1>2, <3>2
  <2>5. CASE z = y BY <2>3, <2>5
  <2>6. CASE z # y
    <3>1. Sum(T \ {y}) = f[z] + Sum((T \ {y}) \ {z}) BY <2>2, <2>4, <2>6
    <3>2. Sum(T \ {z}) = f[y] + Sum((T \ {z}) \ {y}) BY <2>2, <2>4, <2>6
    <3>3. (T \ {y}) \ {z} = (T \ {z}) \ {y} OBVIOUS
    <3> DEFINE R == (T \ {z}) \ {y}
    <3>4. R \in SUBSET S OBVIOUS
    <3> HIDE DEF R
    <3>5. Sum(T \ {y}) = f[z] + Sum(R) /\ Sum(T \ {z}) = f[y] + Sum(R) BY <3>1, <3>2, <3>3 DEF R
    <3>6. Sum(R) \in Int /\ f[z] \in Int /\ f[y] \in Int BY <1>b, <2>2, <3>4
    <3> QED BY <2>3, <3>5, <3>6
  <2> QED BY <2>5, <2>6
<1> HIDE DEF B, Fine
<1>3. Cardinality(S) \in B BY <1>1, <1>2, <1>a, NaturalsBySuccessor
<1>4. Fine(S) BY <1>3 DEF B
<1> QED BY <1>4 DEF Fine, Sum

\* The sum over one thing more.
LEMMA SumPutsIn ==
    ASSUME NEW f, NEW S, IsFiniteSet(S), \A y \in S : f[y] \in Int, NEW x, f[x] \in Int, x \notin S
    PROVE  SumFunctionOnSet(f, S \cup {x}) = f[x] + SumFunctionOnSet(f, S)
<1> DEFINE T == S \cup {x}
<1>1. IsFiniteSet(T) BY FS_AddElement
<1>2. x \in T /\ T \ {x} = S /\ \A y \in T : f[y] \in Int OBVIOUS
<1> HIDE DEF T
<1>3. SumFunctionOnSet(f, T) = f[x] + SumFunctionOnSet(f, T \ {x}) BY <1>1, <1>2, SumTakesOut
<1> QED BY <1>2, <1>3 DEF T

LEMMA SumOfOne ==
    ASSUME NEW f, NEW x, f[x] \in Int
    PROVE  SumFunctionOnSet(f, {x}) = f[x]
<1>1. IsFiniteSet({x}) /\ {x} \ {x} = {} BY FS_Singleton
<1>2. SumFunctionOnSet(f, {x}) = f[x] + SumFunctionOnSet(f, {x} \ {x}) BY <1>1, SumTakesOut
<1> QED BY <1>1, <1>2, SumOfNone

\* The sum over two sets that share nothing.
LEMMA SumOfUnion ==
    ASSUME NEW f, NEW S, NEW R, IsFiniteSet(S), IsFiniteSet(R), S \cap R = {},
           \A x \in S \cup R : f[x] \in Int
    PROVE  SumFunctionOnSet(f, S \cup R) = SumFunctionOnSet(f, S) + SumFunctionOnSet(f, R)
<1> DEFINE Sum(T) == SumFunctionOnSet(f, T)
           B == {n \in Nat : \A T \in SUBSET R : Cardinality(T) = n => Sum(S \cup T) = Sum(S) + Sum(T)}
<1>a. \A T \in SUBSET R : /\ IsFiniteSet(T) /\ Cardinality(T) \in Nat
                         /\ IsFiniteSet(S \cup T) /\ \A x \in S \cup T : f[x] \in Int
  BY FS_Subset, FS_CardinalityType, FS_Union
<1>b. Sum(S) \in Int /\ \A T \in SUBSET R : Sum(T) \in Int /\ Sum(S \cup T) \in Int BY <1>a, SumIsInt
<1>c. Sum({}) = 0 BY SumOfNone
<1>d. \A T \in SUBSET R : \A x \in T : Sum(T) = f[x] + Sum(T \ {x}) BY <1>a, SumTakesOut
<1>e. \A T \in SUBSET R : \A x \in T : Sum(S \cup T) = f[x] + Sum((S \cup T) \ {x}) BY <1>a, SumTakesOut
<1> HIDE DEF Sum
<1>1. 0 \in B
  <2>1. \A T \in SUBSET R : Cardinality(T) = 0 => T = {} BY <1>a, FS_EmptySet
  <2>2. S \cup {} = S OBVIOUS
  <2>3. ASSUME NEW T \in SUBSET R, Cardinality(T) = 0 PROVE Sum(S \cup T) = Sum(S) + Sum(T)
    <3>1. T = {} BY <2>1, <2>3
    <3>2. Sum(S) = Sum(S) + 0 BY <1>b
    <3>3. Sum(S \cup {}) = Sum(S) + Sum({}) BY <2>2, <3>2, <1>c
    <3> QED BY <3>1, <3>3
  <2> QED BY <2>3
<1>2. ASSUME NEW n \in Nat, n \in B PROVE n + 1 \in B
  <2> SUFFICES ASSUME NEW T \in SUBSET R, Cardinality(T) = n + 1 PROVE Sum(S \cup T) = Sum(S) + Sum(T)
    OBVIOUS
  <2>1. T # {} BY FS_EmptySet, Cardinality(T) # 0
  <2>2. PICK x \in T : TRUE BY <2>1
  <2> DEFINE U == T \ {x}
  <2>3. Cardinality(U) = Cardinality(T) - 1 BY <1>a, FS_RemoveElement
  <2>4. U \in SUBSET R /\ (S \cup T) \ {x} = S \cup U /\ f[x] \in Int BY <1>a
  <2>5. Sum(T) = f[x] + Sum(U) /\ Sum(S \cup T) = f[x] + Sum((S \cup T) \ {x}) BY <1>d, <1>e
  <2> HIDE DEF U
  <2>6. Sum(S \cup U) = Sum(S) + Sum(U) BY <1>2, <2>3, <2>4
  <2>7. Sum(S) \in Int /\ Sum(U) \in Int BY <1>b, <2>4
  <2>8. Sum((S \cup T) \ {x}) = Sum(S \cup U) BY <2>4
  <2>9. Sum(S \cup T) = f[x] + (Sum(S) + Sum(U)) BY <2>5, <2>6, <2>8
  <2> QED BY <2>4, <2>5, <2>7, <2>9
<1> HIDE DEF B
<1>3. Cardinality(R) \in B BY <1>1, <1>2, <1>a, NaturalsBySuccessor
<1>4. Sum(S \cup R) = Sum(S) + Sum(R) BY <1>3 DEF B
<1> QED BY <1>4 DEF Sum

\* More naturals make no less.
LEMMA SumGrows ==
    ASSUME NEW f, NEW R, IsFiniteSet(R), NEW S \in SUBSET R, \A x \in R : f[x] \in Int,
           \A x \in R \ S : f[x] \in Nat
    PROVE  SumFunctionOnSet(f, S) <= SumFunctionOnSet(f, R)
<1> DEFINE U == R \ S
<1>1. IsFiniteSet(S) /\ IsFiniteSet(U) BY FS_Subset
<1>2. S \cap U = {} /\ S \cup U = R /\ \A x \in U : f[x] \in Nat OBVIOUS
<1> HIDE DEF U
<1>3. \A x \in S \cup U : f[x] \in Int BY <1>2
<1>4. SumFunctionOnSet(f, R) = SumFunctionOnSet(f, S) + SumFunctionOnSet(f, U) BY <1>1, <1>2, <1>3, SumOfUnion
<1>5. SumFunctionOnSet(f, S) \in Int /\ SumFunctionOnSet(f, U) \in Nat BY <1>1, <1>2, SumIsInt, SumIsNatural
<1> QED BY <1>4, <1>5

\* A function that is nowhere less has no smaller sum.
LEMMA SumRises ==
    ASSUME NEW e, NEW f, NEW S, IsFiniteSet(S),
           \A x \in S : e[x] \in Int /\ f[x] \in Int /\ e[x] <= f[x]
    PROVE  SumFunctionOnSet(e, S) <= SumFunctionOnSet(f, S)
<1> DEFINE Lo(T) == SumFunctionOnSet(e, T)
           Hi(T) == SumFunctionOnSet(f, T)
           B == {n \in Nat : \A T \in SUBSET S : Cardinality(T) = n => Lo(T) <= Hi(T)}
<1>a. \A T \in SUBSET S : IsFiniteSet(T) /\ Cardinality(T) \in Nat BY FS_Subset, FS_CardinalityType
<1>b. \A T \in SUBSET S : Lo(T) \in Int /\ Hi(T) \in Int BY <1>a, SumIsInt
<1>c. Lo({}) = 0 /\ Hi({}) = 0 BY SumOfNone
<1>d. \A T \in SUBSET S : \A x \in T : /\ Lo(T) = e[x] + Lo(T \ {x})
                                       /\ Hi(T) = f[x] + Hi(T \ {x})
  <2> SUFFICES ASSUME NEW T \in SUBSET S, NEW x \in T
               PROVE  Lo(T) = e[x] + Lo(T \ {x}) /\ Hi(T) = f[x] + Hi(T \ {x})
    OBVIOUS
  <2>1. IsFiniteSet(T) /\ \A y \in T : e[y] \in Int /\ f[y] \in Int BY <1>a
  <2>2. Lo(T) = e[x] + Lo(T \ {x}) BY <2>1, SumTakesOut
  <2>3. Hi(T) = f[x] + Hi(T \ {x}) BY <2>1, SumTakesOut
  <2> QED BY <2>2, <2>3
<1> HIDE DEF Lo, Hi
<1>1. 0 \in B
  <2>1. \A T \in SUBSET S : Cardinality(T) = 0 => T = {} BY <1>a, FS_EmptySet
  <2>2. Lo({}) <= Hi({}) BY <1>c
  <2> QED BY <2>1, <2>2
<1>2. ASSUME NEW n \in Nat, n \in B PROVE n + 1 \in B
  <2> SUFFICES ASSUME NEW T \in SUBSET S, Cardinality(T) = n + 1 PROVE Lo(T) <= Hi(T) OBVIOUS
  <2>1. T # {} BY FS_EmptySet, Cardinality(T) # 0
  <2>2. PICK x \in T : TRUE BY <2>1
  <2> DEFINE U == T \ {x}
  <2>3. Cardinality(U) = Cardinality(T) - 1 BY <1>a, FS_RemoveElement
  <2>4. Lo(T) = e[x] + Lo(U) /\ Hi(T) = f[x] + Hi(U) /\ U \in SUBSET S BY <1>d
  <2> HIDE DEF U
  <2>5. Lo(U) <= Hi(U) BY <1>2, <2>3, <2>4
  <2>6. Lo(U) \in Int /\ Hi(U) \in Int BY <1>b, <2>4
  <2> QED BY <2>4, <2>5, <2>6
<1> HIDE DEF B
<1>3. Cardinality(S) \in B BY <1>1, <1>2, <1>a, NaturalsBySuccessor
<1>4. Lo(S) <= Hi(S) BY <1>3 DEF B
<1> QED BY <1>4 DEF Lo, Hi

Images(h, S) == {h[x] : x \in S}

\* The images of a finite set are finitely many.
LEMMA ImagesAreFinite ==
    ASSUME NEW h, NEW S, IsFiniteSet(S)
    PROVE  IsFiniteSet(Images(h, S))
<1> DEFINE g == [x \in S |-> h[x]]
           T == Images(h, S)
<1>1. g \in [S -> T] /\ \A y \in T : \E x \in S : g[x] = y BY DEF Images
<1>2. g \in Surjection(S, T) BY <1>1 DEF Surjection
<1> HIDE DEF g, T
<1>3. IsFiniteSet(T) BY <1>2, FS_Surjection
<1> QED BY <1>3 DEF T

\* What is added over the images of a set is added over some of its members, each
\* image counted once.
LEMMA SumOfImages ==
    ASSUME NEW e, NEW f, NEW h, NEW S, IsFiniteSet(S),
           \A x \in S : e[x] \in Int /\ f[h[x]] = e[x]
    PROVE  \E T \in SUBSET S : /\ Images(h, T) = Images(h, S)
                               /\ SumFunctionOnSet(f, Images(h, S)) = SumFunctionOnSet(e, T)
                               /\ (\A x, y \in S : h[x] = h[y] => x = y) => T = S
<1> DEFINE Img(R) == Images(h, R)
           Lo(T) == SumFunctionOnSet(e, T)
           Hi(T) == SumFunctionOnSet(f, T)
           Fine(R) == \E T \in SUBSET R : Img(T) = Img(R) /\ Hi(Img(R)) = Lo(T)
           B == {n \in Nat : \A R \in SUBSET S : Cardinality(R) = n => Fine(R)}
<1>a. \A T \in SUBSET S : IsFiniteSet(T) /\ Cardinality(T) \in Nat BY FS_Subset, FS_CardinalityType
<1>b. \A T \in SUBSET S : IsFiniteSet(Img(T)) /\ \A y \in Img(T) : f[y] \in Int
  <2> SUFFICES ASSUME NEW T \in SUBSET S PROVE IsFiniteSet(Img(T)) /\ \A y \in Img(T) : f[y] \in Int
    OBVIOUS
  <2>1. IsFiniteSet(Img(T)) BY <1>a, ImagesAreFinite
  <2> QED BY <2>1 DEF Images
<1>c. Lo({}) = 0 /\ Hi({}) = 0 BY SumOfNone
<1>d. \A T \in SUBSET S : \A x \in S \ T : Lo(T \cup {x}) = e[x] + Lo(T) BY <1>a, SumPutsIn
<1>e. \A T \in SUBSET S : \A x \in S : h[x] \notin Img(T) => Hi(Img(T) \cup {h[x]}) = f[h[x]] + Hi(Img(T))
  <2> SUFFICES ASSUME NEW T \in SUBSET S, NEW x \in S, h[x] \notin Img(T)
               PROVE  Hi(Img(T) \cup {h[x]}) = f[h[x]] + Hi(Img(T))
    OBVIOUS
  <2> DEFINE I == Img(T)
  <2>1. IsFiniteSet(I) /\ (\A y \in I : f[y] \in Int) /\ f[h[x]] \in Int /\ h[x] \notin I BY <1>b
  <2> HIDE DEF I
  <2>2. Hi(I \cup {h[x]}) = f[h[x]] + Hi(I) BY <2>1, SumPutsIn
  <2> QED BY <2>2 DEF I
<1>f. \A R \in SUBSET S : \A x \in S : Img(R \cup {x}) = Img(R) \cup {h[x]} BY DEF Images
<1> HIDE DEF Lo, Hi
<1>1. 0 \in B
  <2>1. \A T \in SUBSET S : Cardinality(T) = 0 => T = {} BY <1>a, FS_EmptySet
  <2>2. Img({}) = {} BY DEF Images
  <2>3. Fine({}) BY <1>c, <2>2
  <2> HIDE DEF Fine
  <2> QED BY <2>1, <2>3
<1>2. ASSUME NEW n \in Nat, n \in B PROVE n + 1 \in B
  <2> HIDE DEF Fine
  <2> SUFFICES ASSUME NEW R \in SUBSET S, Cardinality(R) = n + 1 PROVE Fine(R) OBVIOUS
  <2>1. R # {} BY FS_EmptySet, Cardinality(R) # 0
  <2>2. PICK x \in R : TRUE BY <2>1
  <2> DEFINE U == R \ {x}
  <2>3. Cardinality(U) = Cardinality(R) - 1 BY <1>a, FS_RemoveElement
  <2>4. U \in SUBSET S /\ R = U \cup {x} /\ x \in S \ U OBVIOUS
  <2> HIDE DEF U
  <2>5. Cardinality(U) = n BY <2>3
  <2>6. Fine(U) BY <1>2, <2>4, <2>5 DEF B
  <2> HIDE DEF Img
  <2>7. PICK T \in SUBSET U : Img(T) = Img(U) /\ Hi(Img(U)) = Lo(T) BY <2>6 DEF Fine
  <2>8. Img(R) = Img(U) \cup {h[x]} BY <1>f, <2>4
  <2>9. CASE h[x] \in Img(U)
    <3>1. Img(R) = Img(U) BY <2>8, <2>9
    <3> QED BY <2>4, <2>7, <3>1 DEF Fine
  <2>10. CASE h[x] \notin Img(U)
    <3> DEFINE V == T \cup {x}
    <3>1. Img(V) = Img(T) \cup {h[x]} /\ V \in SUBSET R BY <1>f, <2>4, <2>7
    <3>2. Img(V) = Img(R) BY <2>7, <2>8, <3>1
    <3>3. Lo(V) = e[x] + Lo(T) BY <1>d, <2>4, <2>7
    <3>4. Hi(Img(R)) = f[h[x]] + Hi(Img(U)) BY <1>e, <2>4, <2>8, <2>10
    <3>5. Hi(Img(R)) = Lo(V) BY <2>4, <2>7, <3>3, <3>4
    <3> QED BY <3>1, <3>2, <3>5 DEF Fine
  <2> QED BY <2>9, <2>10
<1> HIDE DEF B, Fine
<1>3. Cardinality(S) \in B BY <1>1, <1>2, <1>a, NaturalsBySuccessor
<1>4. Fine(S) BY <1>3, <1>a DEF B
<1>5. PICK T \in SUBSET S : Img(T) = Img(S) /\ Hi(Img(S)) = Lo(T) BY <1>4 DEF Fine
<1>6. ASSUME \A x, y \in S : h[x] = h[y] => x = y PROVE T = S
  <2>1. ASSUME NEW x \in S PROVE x \in T
    <3>1. h[x] \in Img(S) BY DEF Images
    <3>2. h[x] \in Img(T) BY <1>5, <3>1
    <3> QED BY <1>6, <3>2 DEF Images
  <2> QED BY <2>1
<1> QED BY <1>5, <1>6 DEF Hi, Lo
=============================================================================
