---------------------------- MODULE DataInduction ----------------------------
(***************************************************************************)
(* Induction over natural numbers and finite sets, stated with sets for    *)
(* predicates, and what it proves of folds: that they are well-defined,    *)
(* and the laws of the sum of a function.                                  *)
(***************************************************************************)
EXTENDS Integers, FiniteSets, Functions, FiniteSetTheorems, TLAPS

-----------------------------------------------------------------------------
(* Induction.                                                              *)

\* The strict subsets of a finite set are well-founded: there is a smallest
\* counterexample.
LEMMA SmallestSubset ==
  ASSUME NEW S, IsFiniteSet(S), NEW C \in SUBSET (SUBSET S), C # {}
  PROVE  \E m \in C : \A s \in C : s \subseteq m => s = m
<1> DEFINE R == StrictSubsetOrdering(S)
<1>1. IsWellFoundedOn(R, SUBSET S)
  BY FS_StrictSubsetOrderingWellFounded, FS_FiniteSubsetsOfFinite
<1> HIDE DEF R
<1>2. \E m \in C : \A s \in C : <<s, m>> \notin R
  BY <1>1, WFMin
<1> QED
  BY <1>2 DEF R, StrictSubsetOrdering

\* Good holds of every subset of S, if it holds of one whenever it holds of
\* all its strict subsets.
LEMMA SubsetInduction ==
  ASSUME NEW S, IsFiniteSet(S), NEW Good,
         \A s \in SUBSET S :
           (\A t \in SUBSET s : t # s => t \in Good) => s \in Good
  PROVE  SUBSET S \subseteq Good
<1> DEFINE C == {s \in SUBSET S : s \notin Good}
<1>1. SUFFICES ASSUME C # {} PROVE FALSE
  OBVIOUS
<1>2. C \in SUBSET (SUBSET S)
  OBVIOUS
<1>3. \E m \in C : \A s \in C : s \subseteq m => s = m
  <2> HIDE DEF C
  <2> QED
    BY <1>1, <1>2, SmallestSubset
<1>4. PICK m \in C : \A s \in C : s \subseteq m => s = m
  BY <1>3
<1>5. \A t \in SUBSET m : t # m => t \in Good
  BY <1>4
<1> QED
  BY <1>4, <1>5

\* Induction over the natural numbers.
LEMMA NatUpwards ==
  ASSUME NEW Good, 0 \in Good, \A n \in Nat : n \in Good => n + 1 \in Good
  PROVE  Nat \subseteq Good
<1> SUFFICES ASSUME NEW k \in Nat, k \notin Good PROVE FALSE
  OBVIOUS
<1> DEFINE C == {s \in SUBSET (0..k) :
                   \E n \in 0..k : s = 0..n /\ n \notin Good}
<1>1. IsFiniteSet(0..k) /\ 0..k \in C /\ C \in SUBSET (SUBSET (0..k))
  <2>1. 0 \in Int /\ k \in Int /\ k \in 0..k
    OBVIOUS
  <2> QED
    BY <2>1, FS_Interval
<1>a. \E m \in C : \A s \in C : s \subseteq m => s = m
  <2> DEFINE I == 0..k
  <2>1. IsFiniteSet(I) /\ C \in SUBSET (SUBSET I) /\ C # {}
    BY <1>1
  <2> HIDE DEF C, I
  <2> QED
    BY <2>1, SmallestSubset
<1>2. PICK m \in C : \A s \in C : s \subseteq m => s = m
  BY <1>a
<1>3. PICK n \in 0..k : m = 0..n /\ n \notin Good
  BY <1>2
<1>4. n # 0 /\ n - 1 \in Nat /\ n - 1 \in 0..k /\ n - 1 \notin Good
  BY <1>3
<1>5. 0..(n - 1) \in C /\ 0..(n - 1) \subseteq m
  BY <1>3, <1>4
<1>6. n \in m /\ n \notin 0..(n - 1)
  BY <1>3, <1>4
<1> QED
  BY <1>2, <1>5, <1>6

\* Products of natural numbers grow with their factors.
LEMMA ProductGrows ==
  ASSUME NEW a \in Nat, NEW b \in Nat, NEW k \in Nat, a <= b
  PROVE  /\ k * a \in Nat /\ k * b \in Nat /\ k * a <= k * b
         /\ k * a = a * k /\ k * b = b * k
<1>1. PICK d \in Nat : b = a + d
  <2>1. b - a \in Nat /\ b = a + (b - a)
    OBVIOUS
  <2> QED
    BY <2>1
<1>2. k * b = k * a + k * d /\ k * d \in Nat /\ k * a \in Nat
  BY <1>1
<1>3. k * a = a * k /\ k * b = b * k
  OBVIOUS
<1> QED
  BY <1>2, <1>3

\* One of finitely many subsets is a largest.
LEMMA LargestMember ==
  ASSUME NEW S, IsFiniteSet(S), NEW C \in SUBSET (SUBSET S), C # {}
  PROVE  \E G \in C : \A H \in C : Cardinality(H) <= Cardinality(G)
<1>1. \A H \in C : Cardinality(H) \in Nat /\ Cardinality(H) <= Cardinality(S)
  <2>1. \A H \in C : IsFiniteSet(H) /\ Cardinality(H) <= Cardinality(S)
    BY FS_Subset
  <2> QED
    BY <2>1, FS_CardinalityType
<1>2. Cardinality(S) \in Nat
  BY FS_CardinalityType
<1> DEFINE Good == {n \in Nat : \E H \in C : n <= Cardinality(H)}
           n0 == Cardinality(S) + 1
<1>3. 0 \in Good /\ n0 \in Nat /\ n0 \notin Good
  BY <1>1, <1>2
<1>4. ~(Nat \subseteq Good)
  BY <1>3
<1>5. \E n \in Nat : n \in Good /\ n + 1 \notin Good
  <2> HIDE DEF Good, n0
  <2> QED
    BY <1>3, <1>4, NatUpwards
<1>6. PICK n \in Nat : n \in Good /\ n + 1 \notin Good
  BY <1>5
<1>7. PICK G \in C : n <= Cardinality(G)
  BY <1>6
<1>8. ASSUME NEW H \in C
      PROVE  Cardinality(H) <= Cardinality(G)
  <2>1. ~(n + 1 <= Cardinality(H))
    BY <1>6
  <2> QED
    BY <1>1, <1>7, <2>1
<1> QED
  BY <1>8

-----------------------------------------------------------------------------
(* Folds.  A fold over the subsets of S takes an element c[s] from s, goes *)
(* on with the rest, and combines the two with step.                       *)

FoldsWith(g, T, base, c, step) ==
  \A s \in SUBSET T :
    g[s] = IF s = {} THEN base ELSE step[<<c[s], g[s \ {c[s]}]>>]

LEMMA FoldExists ==
  ASSUME NEW S, IsFiniteSet(S), NEW A, NEW base \in A,
         NEW c, \A s \in SUBSET S : s # {} => c[s] \in s,
         NEW step \in [S \X A -> A]
  PROVE  \E g \in [SUBSET S -> A] : FoldsWith(g, S, base, c, step)
<1> DEFINE Small(n) == {s \in SUBSET S : Cardinality(s) <= n}
           Fits(g, n) == \A s \in Small(n) :
             g[s] = IF s = {} THEN base ELSE step[<<c[s], g[s \ {c[s]}]>>]
           Good == {n \in Nat : \E g \in [Small(n) -> A] : Fits(g, n)}
<1>1. \A s \in SUBSET S : /\ IsFiniteSet(s) /\ Cardinality(s) \in Nat
                          /\ Cardinality(s) = 0 <=> s = {}
                          /\ Cardinality(s) <= Cardinality(S)
  BY FS_Subset, FS_CardinalityType, FS_EmptySet
<1>2. ASSUME NEW s \in SUBSET S, s # {}
      PROVE  /\ c[s] \in s /\ c[s] \in S /\ s \ {c[s]} \in SUBSET S
             /\ Cardinality(s \ {c[s]}) = Cardinality(s) - 1
  BY <1>1, <1>2, FS_RemoveElement
<1>3. 0 \in Good
  <2>1. Small(0) = {{}}
    BY <1>1
  <2> DEFINE g == [s \in Small(0) |-> base]
  <2>2. g \in [Small(0) -> A] /\ Fits(g, 0)
    BY <2>1
  <2> QED
    BY <2>2
<1>4. ASSUME NEW n \in Nat, n \in Good
      PROVE  n + 1 \in Good
  <2>1. PICK g \in [Small(n) -> A] : Fits(g, n)
    BY <1>4
  <2> DEFINE h == [s \in Small(n + 1) |->
                     IF s \in Small(n) THEN g[s]
                     ELSE step[<<c[s], g[s \ {c[s]}]>>]]
  <2>2. ASSUME NEW s \in Small(n + 1), s # {}
        PROVE  /\ s \ {c[s]} \in Small(n) /\ s \ {c[s]} \in Small(n + 1)
               /\ c[s] \in S
    BY <1>1, <1>2, <2>2
  <2>3. Small(n) \subseteq Small(n + 1) /\ {} \in Small(n)
    BY <1>1
  <2> HIDE DEF Small
  <2>a. /\ h = [s \in Small(n + 1) |-> h[s]]
        /\ \A s \in Small(n + 1) :
             h[s] = IF s \in Small(n) THEN g[s]
                    ELSE step[<<c[s], g[s \ {c[s]}]>>]
    OBVIOUS
  <2> HIDE DEF h
  <2>4. ASSUME NEW s \in Small(n + 1)
        PROVE  h[s] \in A
    <3>1. CASE s \in Small(n)
      BY <2>1, <2>a, <3>1
    <3>2. CASE s \notin Small(n)
      <4>1. s # {} /\ g[s \ {c[s]}] \in A /\ c[s] \in S
        BY <2>1, <2>2, <2>3, <3>2
      <4>2. h[s] = step[<<c[s], g[s \ {c[s]}]>>]
        BY <2>a, <3>2
      <4> QED
        BY <4>1, <4>2
    <3> QED
      BY <3>1, <3>2
  <2>5. h \in [Small(n + 1) -> A]
    BY <2>4, <2>a
  <2>6. ASSUME NEW s \in Small(n + 1)
        PROVE  h[s] = IF s = {} THEN base ELSE step[<<c[s], h[s \ {c[s]}]>>]
    <3>1. s # {} => h[s \ {c[s]}] = g[s \ {c[s]}]
      BY <2>2, <2>a
    <3>2. CASE s \in Small(n)
      <4>1. h[s] = g[s]
        BY <2>a, <3>2
      <4>2. g[s] = IF s = {} THEN base ELSE step[<<c[s], g[s \ {c[s]}]>>]
        BY <2>1, <3>2
      <4> QED
        BY <3>1, <4>1, <4>2
    <3>3. CASE s \notin Small(n)
      <4>1. s # {} /\ h[s] = step[<<c[s], g[s \ {c[s]}]>>]
        BY <2>3, <2>a, <3>3
      <4> QED
        BY <3>1, <4>1
    <3> QED
      BY <3>2, <3>3
  <2>7. Fits(h, n + 1)
    BY <2>6
  <2> HIDE DEF Fits, h
  <2> QED
    BY <2>5, <2>7
<1> DEFINE N == Cardinality(S)
<1>5. N \in Good
  <2> HIDE DEF Good
  <2>1. N \in Nat
    BY <1>1
  <2>2. Nat \subseteq Good
    BY <1>3, <1>4, NatUpwards
  <2> QED
    BY <2>1, <2>2
<1>6. Small(N) = SUBSET S
  BY <1>1
<1>7. PICK g \in [Small(N) -> A] : Fits(g, N)
  BY <1>5
<1> HIDE DEF Small
<1> QED
  BY <1>6, <1>7 DEF FoldsWith

\* What the fold makes of a set is settled by the set.
LEMMA FoldUnique ==
  ASSUME NEW S, IsFiniteSet(S), NEW base, NEW c, NEW step,
         \A s \in SUBSET S : s # {} => c[s] \in s,
         NEW g, NEW h, FoldsWith(g, S, base, c, step), FoldsWith(h, S, base, c, step)
  PROVE  \A s \in SUBSET S : g[s] = h[s]
<1> DEFINE Good == {s \in SUBSET S : g[s] = h[s]}
<1>1. ASSUME NEW s \in SUBSET S, \A t \in SUBSET s : t # s => t \in Good
      PROVE  s \in Good
  <2>1. CASE s = {}
    BY <2>1 DEF FoldsWith
  <2>2. CASE s # {}
    <3>1. s \ {c[s]} \in SUBSET s /\ s \ {c[s]} # s
      BY <2>2
    <3>2. g[s \ {c[s]}] = h[s \ {c[s]}]
      BY <1>1, <3>1
    <3> QED
      BY <2>2, <3>2 DEF FoldsWith
  <2> QED
    BY <2>1, <2>2
<1> HIDE DEF Good
<1>2. SUBSET S \subseteq Good
  BY <1>1, SubsetInduction
<1> QED
  BY <1>2 DEF Good

-----------------------------------------------------------------------------
(* Recursion over the first n natural numbers.                             *)

Recurs(g, N, base, step) ==
  \A n \in 0..N : g[n] = IF n = 0 THEN base ELSE step[<<n, g[n - 1]>>]

LEMMA RecursionExists ==
  ASSUME NEW N \in Nat, NEW A, NEW base \in A, NEW step \in [(1..N) \X A -> A]
  PROVE  \E g \in [0..N -> A] : Recurs(g, N, base, step)
<1> DEFINE Fits(g, m) ==
             \A n \in 0..m : g[n] = IF n = 0 THEN base ELSE step[<<n, g[n - 1]>>]
           Good == {m \in Nat : m <= N => \E g \in [0..m -> A] : Fits(g, m)}
<1>1. 0 \in Good
  <2> DEFINE g == [n \in 0..0 |-> base]
  <2>1. g \in [0..0 -> A] /\ Fits(g, 0)
    OBVIOUS
  <2> QED
    BY <2>1
<1>2. ASSUME NEW m \in Nat, m \in Good
      PROVE  m + 1 \in Good
  <2> SUFFICES ASSUME m + 1 <= N
               PROVE  \E h \in [0..(m + 1) -> A] : Fits(h, m + 1)
    OBVIOUS
  <2>1. m <= N
    OBVIOUS
  <2>2. PICK g \in [0..m -> A] : Fits(g, m)
    BY <1>2, <2>1
  <2> DEFINE h == [n \in 0..(m + 1) |->
                     IF n = m + 1 THEN step[<<m + 1, g[m]>>] ELSE g[n]]
  <2>3. /\ h = [n \in 0..(m + 1) |-> h[n]]
        /\ \A n \in 0..m : h[n] = g[n]
        /\ h[m + 1] = step[<<m + 1, g[m]>>]
    OBVIOUS
  <2> HIDE DEF h
  <2>4. step[<<m + 1, g[m]>>] \in A
    <3>1. m + 1 \in 1..N /\ g[m] \in A
      BY <2>2
    <3> QED
      BY <3>1
  <2>5. ASSUME NEW n \in 0..(m + 1)
        PROVE  h[n] \in A
    <3>1. CASE n = m + 1
      BY <2>3, <2>4, <3>1
    <3>2. CASE n # m + 1
      <4>1. n \in 0..m
        BY <3>2
      <4> QED
        BY <2>2, <2>3, <4>1
    <3> QED
      BY <3>1, <3>2
  <2>6. h \in [0..(m + 1) -> A]
    BY <2>3, <2>5
  <2>7. ASSUME NEW n \in 0..(m + 1)
        PROVE  h[n] = IF n = 0 THEN base ELSE step[<<n, h[n - 1]>>]
    <3>1. CASE n = m + 1
      <4>1. n - 1 = m /\ n # 0 /\ m \in 0..m
        BY <3>1
      <4> QED
        BY <2>3, <3>1, <4>1
    <3>2. CASE n # m + 1
      <4>1. n \in 0..m /\ (n # 0 => n - 1 \in 0..m)
        BY <3>2
      <4>2. g[n] = IF n = 0 THEN base ELSE step[<<n, g[n - 1]>>]
        BY <2>2, <4>1
      <4> QED
        BY <2>3, <4>1, <4>2
    <3> QED
      BY <3>1, <3>2
  <2>8. Fits(h, m + 1)
    BY <2>7
  <2> HIDE DEF Fits
  <2> QED
    BY <2>6, <2>8
<1>3. N \in Good
  <2> HIDE DEF Good
  <2> QED
    BY <1>1, <1>2, NatUpwards
<1> QED
  BY <1>3 DEF Recurs

-----------------------------------------------------------------------------
(* The sum of a function over a finite set.                                *)

\* The function SumFunctionOnSet folds with.
Iter(f, S) == CHOOSE g : g = [s \in SUBSET S |->
  IF s = {} THEN 0
            ELSE f[CHOOSE x \in s : TRUE] + g[s \ {CHOOSE x \in s : TRUE}]]

LEMMA SumIter ==
  ASSUME NEW f, NEW S
  PROVE  SumFunctionOnSet(f, S) = Iter(f, S)[S]
BY DEF SumFunctionOnSet, FoldFunctionOnSet, MapThenFoldSet, Iter

Iterates(g, f, S) ==
  \A s \in SUBSET S :
    /\ g[s] \in Int
    /\ g[s] = IF s = {} THEN 0 ELSE f[CHOOSE x \in s : TRUE]
                                     + g[s \ {CHOOSE x \in s : TRUE}]

LEMMA IterFolds ==
  ASSUME NEW S, IsFiniteSet(S), NEW f, \A x \in S : f[x] \in Int
  PROVE  Iterates(Iter(f, S), f, S)
<1> DEFINE c == [s \in SUBSET S |-> CHOOSE x \in s : TRUE]
           step == [p \in S \X Int |-> f[p[1]] + p[2]]
           Rule(g, s) == IF s = {} THEN 0
             ELSE f[CHOOSE x \in s : TRUE] + g[s \ {CHOOSE x \in s : TRUE}]
<1>1. \A s \in SUBSET S : s # {} => c[s] \in s
  OBVIOUS
<1>2. step \in [S \X Int -> Int] /\ 0 \in Int
  OBVIOUS
<1>3. \E g \in [SUBSET S -> Int] : FoldsWith(g, S, 0, c, step)
  <2> HIDE DEF c, step
  <2> QED
    BY <1>1, <1>2, FoldExists
<1>4. PICK g \in [SUBSET S -> Int] : FoldsWith(g, S, 0, c, step)
  BY <1>3
<1>5. ASSUME NEW s \in SUBSET S
      PROVE  g[s] = Rule(g, s)
  <2>1. CASE s = {}
    BY <1>4, <2>1 DEF FoldsWith
  <2>2. CASE s # {}
    <3>1. c[s] \in S /\ c[s] \in s /\ s \ {c[s]} \in SUBSET S
      BY <1>1, <2>2
    <3>2. g[s] = step[<<c[s], g[s \ {c[s]}]>>]
      BY <1>4, <2>2 DEF FoldsWith
    <3>3. g[s \ {c[s]}] \in Int
      BY <3>1
    <3>4. g[s] = f[c[s]] + g[s \ {c[s]}]
      <4> HIDE DEF c
      <4> QED
        BY <3>1, <3>2, <3>3
    <3> QED
      BY <2>2, <3>4
  <2> QED
    BY <2>1, <2>2
<1>6. g = [s \in SUBSET S |-> Rule(g, s)]
  <2> HIDE DEF Rule
  <2> QED
    BY <1>5
<1>7. Iter(f, S) = [s \in SUBSET S |-> Rule(Iter(f, S), s)]
  BY <1>6 DEF Iter
<1>8. \A s \in SUBSET S : Iter(f, S)[s] = Rule(Iter(f, S), s)
  <2> HIDE DEF Rule
  <2> QED
    BY <1>7
<1> DEFINE Good == {s \in SUBSET S : Iter(f, S)[s] \in Int}
<1>10. ASSUME NEW s \in SUBSET S, \A t \in SUBSET s : t # s => t \in Good
       PROVE  s \in Good
  <2>1. CASE s = {}
    BY <1>8, <2>1
  <2>2. CASE s # {}
    <3>1. PICK x \in s : x = CHOOSE y \in s : TRUE
      BY <2>2
    <3>2. s \ {x} \in SUBSET s /\ s \ {x} # s
      BY <3>1
    <3>3. Iter(f, S)[s \ {x}] \in Int /\ f[x] \in Int
      BY <1>10, <3>2
    <3>4. Iter(f, S)[s] = f[x] + Iter(f, S)[s \ {x}]
      BY <1>8, <2>2, <3>1
    <3> QED
      BY <3>3, <3>4
  <2> QED
    BY <2>1, <2>2
<1>11. SUBSET S \subseteq Good
  <2> HIDE DEF Good
  <2> QED
    BY <1>10, SubsetInduction
<1>12. \A s \in SUBSET S : Iter(f, S)[s] \in Int
  BY <1>11
<1> QED
  BY <1>8, <1>12 DEF Iterates

\* The iteration over a set goes on as the one over a subset does.
LEMMA IterAgrees ==
  ASSUME NEW S, IsFiniteSet(S), NEW f, \A x \in S : f[x] \in Int,
         NEW s \in SUBSET S
  PROVE  Iter(f, S)[s] = SumFunctionOnSet(f, s)
<1> DEFINE g == Iter(f, S)
           h == Iter(f, s)
           Good == {t \in SUBSET s : g[t] = h[t]}
<1>1. IsFiniteSet(s)
  BY FS_Subset
<1>2. ASSUME NEW t \in SUBSET s, \A u \in SUBSET t : u # t => u \in Good
      PROVE  t \in Good
  <2>1. /\ g[t] = IF t = {} THEN 0 ELSE f[CHOOSE x \in t : TRUE]
                                          + g[t \ {CHOOSE x \in t : TRUE}]
        /\ h[t] = IF t = {} THEN 0 ELSE f[CHOOSE x \in t : TRUE]
                                          + h[t \ {CHOOSE x \in t : TRUE}]
    <3>1. t \in SUBSET S /\ \A x \in s : f[x] \in Int
      OBVIOUS
    <3>2. Iterates(g, f, S)
      BY IterFolds
    <3>3. Iterates(h, f, s)
      BY <1>1, <3>1, IterFolds
    <3> HIDE DEF g, h
    <3> QED
      BY <3>1, <3>2, <3>3 DEF Iterates
  <2> HIDE DEF g, h
  <2>2. CASE t = {}
    BY <2>1, <2>2
  <2>3. CASE t # {}
    <3>1. PICK x \in t : x = CHOOSE y \in t : TRUE
      BY <2>3
    <3>2. g[t \ {x}] = h[t \ {x}]
      BY <1>2, <3>1
    <3> QED
      BY <2>1, <2>3, <3>1, <3>2
  <2> QED
    BY <2>2, <2>3
<1>3. SUBSET s \subseteq Good
  <2> HIDE DEF Good
  <2> QED
    BY <1>1, <1>2, SubsetInduction
<1>4. g[s] = h[s]
  BY <1>3
<1> QED
  BY <1>4, SumIter

LEMMA SumUnfolds ==
  ASSUME NEW S, IsFiniteSet(S), NEW f, \A x \in S : f[x] \in Int
  PROVE  /\ SumFunctionOnSet(f, S) \in Int
         /\ S = {} => SumFunctionOnSet(f, S) = 0
         /\ S # {} => \E x \in S :
              /\ x = CHOOSE y \in S : TRUE
              /\ SumFunctionOnSet(f, S) = f[x] + SumFunctionOnSet(f, S \ {x})
<1> DEFINE g == Iter(f, S)
<1>1. SumFunctionOnSet(f, S) = g[S] /\ Iterates(g, f, S)
  BY SumIter, IterFolds
<1>2. \A s \in SUBSET S : g[s] = SumFunctionOnSet(f, s)
  BY IterAgrees
<1> HIDE DEF g
<1>3. ASSUME S # {}
      PROVE  \E x \in S :
               /\ x = CHOOSE y \in S : TRUE
               /\ SumFunctionOnSet(f, S) = f[x] + SumFunctionOnSet(f, S \ {x})
  <2>1. PICK x \in S : x = CHOOSE y \in S : TRUE
    BY <1>3
  <2>2. g[S] = f[x] + g[S \ {x}]
    BY <1>1, <1>3, <2>1 DEF Iterates
  <2>3. g[S \ {x}] = SumFunctionOnSet(f, S \ {x})
    BY <1>2
  <2> QED
    BY <1>1, <2>1, <2>2, <2>3
<1> QED
  BY <1>1, <1>3 DEF Iterates

\* The laws of a sum: its type, the sum of nothing, and that any element can
\* be taken out.
SumLaws(f, S) ==
  /\ SumFunctionOnSet(f, S) \in Int
  /\ S = {} => SumFunctionOnSet(f, S) = 0
  /\ \A x \in S :
       SumFunctionOnSet(f, S) = f[x] + SumFunctionOnSet(f, S \ {x})

LEMMA SumObeysLaws ==
  ASSUME NEW S, IsFiniteSet(S), NEW f, \A x \in S : f[x] \in Int
  PROVE  \A s \in SUBSET S : SumLaws(f, s)
<1> DEFINE Sum(s) == SumFunctionOnSet(f, s)
           Good == {s \in SUBSET S : \A x \in s : Sum(s) = f[x] + Sum(s \ {x})}
<1>1. ASSUME NEW s \in SUBSET S
      PROVE  /\ Sum(s) \in Int
             /\ s = {} => Sum(s) = 0
             /\ s # {} => \E x \in s : Sum(s) = f[x] + Sum(s \ {x})
  <2>1. IsFiniteSet(s) /\ \A x \in s : f[x] \in Int
    BY FS_Subset
  <2> QED
    BY <2>1, SumUnfolds
<1> HIDE DEF Sum
<1>2. ASSUME NEW s \in SUBSET S, \A t \in SUBSET s : t # s => t \in Good
      PROVE  s \in Good
  <2> SUFFICES ASSUME NEW x \in s PROVE Sum(s) = f[x] + Sum(s \ {x})
    OBVIOUS
  <2>1. PICK y \in s : Sum(s) = f[y] + Sum(s \ {y})
    BY <1>1
  <2>2. CASE x # y
    <3>1. s \ {y} \in Good /\ s \ {x} \in Good
      BY <1>2
    <3>2. Sum(s \ {y}) = f[x] + Sum((s \ {y}) \ {x})
      BY <2>2, <3>1
    <3>3. Sum(s \ {x}) = f[y] + Sum((s \ {x}) \ {y})
      BY <2>2, <3>1
    <3>4. (s \ {x}) \ {y} = (s \ {y}) \ {x}
      OBVIOUS
    <3> DEFINE rest == Sum((s \ {y}) \ {x})
    <3>5. f[x] \in Int /\ f[y] \in Int /\ rest \in Int
      BY <1>1
    <3>6. Sum(s) = f[y] + (f[x] + rest) /\ Sum(s \ {x}) = f[y] + rest
      BY <2>1, <3>2, <3>3, <3>4
    <3> HIDE DEF rest
    <3> QED
      BY <3>5, <3>6
  <2> QED
    BY <2>1, <2>2
<1>3. SUBSET S \subseteq Good
  <2> HIDE DEF Good
  <2> QED
    BY <1>2, SubsetInduction
<1>4. \A s \in SUBSET S : \A x \in s : Sum(s) = f[x] + Sum(s \ {x})
  BY <1>3
<1> HIDE DEF Good
<1> QED
  BY <1>1, <1>4 DEF SumLaws, Sum

LEMMA SumOfNone ==
  ASSUME NEW f
  PROVE  SumFunctionOnSet(f, {}) = 0
BY SumUnfolds, FS_EmptySet

\* What holds pointwise holds of sums.
LEMMA SumMonotone ==
  ASSUME NEW S, IsFiniteSet(S), NEW f, NEW g,
         \A x \in S : f[x] \in Int /\ g[x] \in Int /\ f[x] <= g[x]
  PROVE  SumFunctionOnSet(f, S) <= SumFunctionOnSet(g, S)
<1> DEFINE F(s) == SumFunctionOnSet(f, s)
           G(s) == SumFunctionOnSet(g, s)
           Good == {s \in SUBSET S : F(s) <= G(s)}
<1>a. \A s \in SUBSET S : SumLaws(f, s) /\ SumLaws(g, s)
  BY SumObeysLaws
<1>1. ASSUME NEW s \in SUBSET S
      PROVE  /\ F(s) \in Int /\ G(s) \in Int
             /\ s = {} => F(s) = 0 /\ G(s) = 0
             /\ \A x \in s : /\ F(s) = f[x] + F(s \ {x})
                             /\ G(s) = g[x] + G(s \ {x})
  BY <1>a DEF SumLaws
<1> HIDE DEF F, G
<1>2. ASSUME NEW s \in SUBSET S, \A t \in SUBSET s : t # s => t \in Good
      PROVE  s \in Good
  <2>1. CASE s = {}
    BY <1>1, <2>1
  <2>2. CASE s # {}
    <3>1. PICK x \in s : TRUE
      BY <2>2
    <3>2. s \ {x} \in SUBSET S /\ F(s \ {x}) <= G(s \ {x})
      BY <1>2, <3>1
    <3>3. F(s \ {x}) \in Int /\ G(s \ {x}) \in Int
      BY <1>1, <3>2
    <3> QED
      BY <1>1, <3>1, <3>2, <3>3
  <2> QED
    BY <2>1, <2>2
<1>3. SUBSET S \subseteq Good
  <2> HIDE DEF Good
  <2> QED
    BY <1>2, SubsetInduction
<1>4. F(S) <= G(S)
  BY <1>3
<1> QED
  BY <1>4 DEF F, G

\* A sum of natural numbers is one, and none of its terms is larger.
LEMMA SumOfNaturals ==
  ASSUME NEW S, IsFiniteSet(S), NEW f, \A x \in S : f[x] \in Nat
  PROVE  /\ SumFunctionOnSet(f, S) \in Nat
         /\ \A x \in S : f[x] <= SumFunctionOnSet(f, S)
<1> DEFINE Sum(s) == SumFunctionOnSet(f, s)
           Good == {s \in SUBSET S : Sum(s) >= 0}
<1>a. \A s \in SUBSET S : SumLaws(f, s)
  <2>1. \A x \in S : f[x] \in Int
    OBVIOUS
  <2> QED
    BY <2>1, SumObeysLaws
<1>1. ASSUME NEW s \in SUBSET S
      PROVE  /\ Sum(s) \in Int
             /\ s = {} => Sum(s) = 0
             /\ \A x \in s : Sum(s) = f[x] + Sum(s \ {x})
  BY <1>a DEF SumLaws
<1> HIDE DEF Sum
<1>2. ASSUME NEW s \in SUBSET S, \A t \in SUBSET s : t # s => t \in Good
      PROVE  s \in Good
  <2>1. CASE s = {}
    BY <1>1, <2>1
  <2>2. CASE s # {}
    <3>1. PICK x \in s : TRUE
      BY <2>2
    <3>2. s \ {x} \in SUBSET S /\ Sum(s \ {x}) >= 0
      BY <1>2, <3>1
    <3>3. Sum(s \ {x}) \in Int
      BY <1>1, <3>2
    <3> QED
      BY <1>1, <3>1, <3>2, <3>3
  <2> QED
    BY <2>1, <2>2
<1>3. SUBSET S \subseteq Good
  <2> HIDE DEF Good
  <2> QED
    BY <1>2, SubsetInduction
<1>4. \A s \in SUBSET S : Sum(s) >= 0 /\ Sum(s) \in Int
  BY <1>1, <1>3
<1>5. \A x \in S : Sum(S) = f[x] + Sum(S \ {x})
  BY <1>1
<1> HIDE DEF Good
<1>6. Sum(S) \in Nat
  BY <1>4
<1>7. ASSUME NEW x \in S
      PROVE  f[x] <= Sum(S)
  <2>1. Sum(S \ {x}) \in Int /\ Sum(S \ {x}) >= 0
    BY <1>4
  <2>2. Sum(S) = f[x] + Sum(S \ {x})
    BY <1>5
  <2> QED
    BY <2>1, <2>2
<1> QED
  BY <1>6, <1>7 DEF Sum

\* What is true of every term, up to c, is true of the sum, up to c for each.
LEMMA SumDistance ==
  ASSUME NEW S, IsFiniteSet(S), NEW f, NEW g, NEW c \in Int,
         \A x \in S : f[x] \in Int /\ g[x] \in Int /\ f[x] <= g[x] + c
  PROVE  /\ Cardinality(S) \in Nat
         /\ SumFunctionOnSet(f, S) <= SumFunctionOnSet(g, S) + Cardinality(S) * c
<1> DEFINE F(s) == SumFunctionOnSet(f, s)
           G(s) == SumFunctionOnSet(g, s)
           N(s) == Cardinality(s)
           Good == {s \in SUBSET S : F(s) <= G(s) + N(s) * c}
<1>a. \A s \in SUBSET S : SumLaws(f, s) /\ SumLaws(g, s)
  BY SumObeysLaws
<1>b. ASSUME NEW s \in SUBSET S
      PROVE  /\ N(s) \in Nat
             /\ s = {} => N(s) = 0
             /\ \A x \in s : N(s) = N(s \ {x}) + 1 /\ N(s \ {x}) \in Nat
  <2>1. IsFiniteSet(s)
    BY FS_Subset
  <2>2. N(s) \in Nat
    BY <2>1, FS_CardinalityType
  <2>3. \A x \in s : N(s \ {x}) = N(s) - 1 /\ IsFiniteSet(s \ {x})
    BY <2>1, FS_RemoveElement
  <2>4. \A x \in s : N(s \ {x}) \in Nat
    BY <2>3, FS_CardinalityType
  <2>5. s = {} => N(s) = 0
    BY FS_EmptySet
  <2> HIDE DEF N
  <2> QED
    BY <2>2, <2>3, <2>4, <2>5
<1>1. ASSUME NEW s \in SUBSET S
      PROVE  /\ F(s) \in Int /\ G(s) \in Int
             /\ s = {} => F(s) = 0 /\ G(s) = 0
             /\ \A x \in s : /\ F(s) = f[x] + F(s \ {x})
                             /\ G(s) = g[x] + G(s \ {x})
  BY <1>a DEF SumLaws
<1> HIDE DEF F, G, N
<1>2. ASSUME NEW s \in SUBSET S, \A t \in SUBSET s : t # s => t \in Good
      PROVE  s \in Good
  <2>1. CASE s = {}
    <3>1. F(s) = 0 /\ G(s) = 0 /\ N(s) = 0
      BY <1>1, <1>b, <2>1
    <3>2. 0 * c = 0
      OBVIOUS
    <3> QED
      BY <3>1, <3>2
  <2>2. CASE s # {}
    <3>1. PICK x \in s : TRUE
      BY <2>2
    <3>2. s \ {x} \in SUBSET S /\ F(s \ {x}) <= G(s \ {x}) + N(s \ {x}) * c
      BY <1>2, <3>1
    <3>3. F(s \ {x}) \in Int /\ G(s \ {x}) \in Int
      BY <1>1, <3>2
    <3>4. N(s \ {x}) \in Nat /\ N(s) = N(s \ {x}) + 1
      BY <1>b, <3>1
    <3>5. N(s) * c = N(s \ {x}) * c + c /\ N(s \ {x}) * c \in Int
      BY <3>4
    <3>6. F(s) = f[x] + F(s \ {x}) /\ G(s) = g[x] + G(s \ {x})
      BY <1>1, <3>1
    <3>7. F(s) <= G(s) + N(s) * c
      <4> DEFINE k == N(s \ {x}) * c
                 l == N(s) * c
      <4>1. k \in Int /\ l = k + c /\ F(s \ {x}) <= G(s \ {x}) + k
        BY <3>2, <3>5
      <4> HIDE DEF k, l
      <4>2. F(s) <= G(s) + l
        BY <3>1, <3>3, <3>6, <4>1
      <4> QED
        BY <4>2 DEF l
    <3> QED
      BY <3>7
  <2> QED
    BY <2>1, <2>2
<1>3. SUBSET S \subseteq Good
  <2> HIDE DEF Good
  <2> QED
    BY <1>2, SubsetInduction
<1>4. F(S) <= G(S) + N(S) * c
  BY <1>3
<1>5. N(S) \in Nat
  BY <1>b
<1> QED
  BY <1>4, <1>5 DEF F, G, N

LEMMA SumOfZeros ==
  ASSUME NEW S, IsFiniteSet(S)
  PROVE  SumFunctionOnSet([x \in S |-> 0], S) = 0
<1> DEFINE z == [x \in S |-> 0]
           Good == {s \in SUBSET S : SumFunctionOnSet(z, s) = 0}
<1>1. \A s \in SUBSET S : SumLaws(z, s)
  <2>1. \A x \in S : z[x] \in Int
    OBVIOUS
  <2> QED
    BY <2>1, SumObeysLaws
<1>a. \A x \in S : z[x] = 0
  OBVIOUS
<1> HIDE DEF z
<1>2. ASSUME NEW s \in SUBSET S, \A t \in SUBSET s : t # s => t \in Good
      PROVE  s \in Good
  <2>1. CASE s = {}
    BY <1>1, <2>1 DEF SumLaws
  <2>2. CASE s # {}
    <3>1. PICK x \in s : TRUE
      BY <2>2
    <3>2. SumFunctionOnSet(z, s \ {x}) = 0
      BY <1>2, <3>1
    <3>3. SumFunctionOnSet(z, s) = z[x] + SumFunctionOnSet(z, s \ {x})
      BY <1>1 DEF SumLaws
    <3>4. SumFunctionOnSet(z, s) = 0
      BY <1>a, <3>2, <3>3
    <3> QED
      BY <3>4
  <2> QED
    BY <2>1, <2>2
<1>3. SUBSET S \subseteq Good
  <2> HIDE DEF Good
  <2> QED
    BY <1>2, SubsetInduction
<1> QED
  BY <1>3 DEF z

\* Ten times a sum.
LEMMA SumTenfold ==
  ASSUME NEW S, IsFiniteSet(S), NEW f, \A x \in S : f[x] \in Int
  PROVE  /\ SumFunctionOnSet(f, S) \in Int
         /\ SumFunctionOnSet([x \in S |-> 10 * f[x]], S) = 10 * SumFunctionOnSet(f, S)
<1> DEFINE g == [x \in S |-> 10 * f[x]]
           F(s) == SumFunctionOnSet(f, s)
           G(s) == SumFunctionOnSet(g, s)
           Good == {s \in SUBSET S : G(s) = 10 * F(s)}
<1>a. \A s \in SUBSET S : SumLaws(f, s) /\ SumLaws(g, s)
  <2>1. \A x \in S : g[x] \in Int
    OBVIOUS
  <2> HIDE DEF g
  <2> QED
    BY <2>1, SumObeysLaws
<1>b. \A x \in S : g[x] = 10 * f[x]
  OBVIOUS
<1>1. ASSUME NEW s \in SUBSET S
      PROVE  /\ F(s) \in Int /\ G(s) \in Int
             /\ s = {} => F(s) = 0 /\ G(s) = 0
             /\ \A x \in s : /\ F(s) = f[x] + F(s \ {x})
                             /\ G(s) = g[x] + G(s \ {x})
  <2> HIDE DEF g
  <2> QED
    BY <1>a DEF SumLaws
<1> HIDE DEF F, G, g
<1>2. ASSUME NEW s \in SUBSET S, \A t \in SUBSET s : t # s => t \in Good
      PROVE  s \in Good
  <2>1. CASE s = {}
    BY <1>1, <2>1
  <2>2. CASE s # {}
    <3>1. PICK x \in s : TRUE
      BY <2>2
    <3>2. s \ {x} \in SUBSET S /\ G(s \ {x}) = 10 * F(s \ {x})
      BY <1>2, <3>1
    <3>3. F(s \ {x}) \in Int
      BY <1>1, <3>2
    <3>4. F(s) = f[x] + F(s \ {x}) /\ G(s) = 10 * f[x] + 10 * F(s \ {x})
      BY <1>1, <1>b, <3>1, <3>2
    <3>5. f[x] \in Int
      OBVIOUS
    <3>6. G(s) = 10 * F(s)
      BY <3>3, <3>4, <3>5
    <3> QED
      BY <3>6
  <2> QED
    BY <2>1, <2>2
<1>3. SUBSET S \subseteq Good
  <2> HIDE DEF Good
  <2> QED
    BY <1>2, SubsetInduction
<1>4. G(S) = 10 * F(S) /\ F(S) \in Int
  BY <1>1, <1>3
<1> QED
  BY <1>4 DEF F, G, g

\* f[x] numbered things for each x: as many as the sum.
Piles(f, S) == {p \in S \X Nat : p[2] < f[p[1]]}

LEMMA PilesCount ==
  ASSUME NEW S, IsFiniteSet(S), NEW f, \A x \in S : f[x] \in Nat
  PROVE  /\ IsFiniteSet(Piles(f, S))
         /\ Cardinality(Piles(f, S)) = SumFunctionOnSet(f, S)
<1> DEFINE F(s) == SumFunctionOnSet(f, s)
           P(s) == Piles(f, s)
           Good == {s \in SUBSET S : IsFiniteSet(P(s)) /\ Cardinality(P(s)) = F(s)}
<1>a. \A s \in SUBSET S : SumLaws(f, s)
  <2>1. \A x \in S : f[x] \in Int
    OBVIOUS
  <2> QED
    BY <2>1, SumObeysLaws
<1>1. ASSUME NEW s \in SUBSET S
      PROVE  /\ F(s) \in Int
             /\ s = {} => F(s) = 0
             /\ \A x \in s : F(s) = f[x] + F(s \ {x})
  BY <1>a DEF SumLaws
<1> HIDE DEF F
<1>2. ASSUME NEW s \in SUBSET S, \A t \in SUBSET s : t # s => t \in Good
      PROVE  s \in Good
  <2>1. CASE s = {}
    <3>1. P(s) = {}
      BY <2>1 DEF Piles
    <3> QED
      BY <1>1, <2>1, <3>1, FS_EmptySet
  <2>2. CASE s # {}
    <3>1. PICK x \in s : TRUE
      BY <2>2
    <3> DEFINE I == 0..(f[x] - 1)
               A == P(s \ {x})
               B == {x} \X I
    <3>2. s \ {x} \in Good /\ f[x] \in Nat
      BY <1>2, <3>1
    <3>3. IsFiniteSet(I) /\ Cardinality(I) = f[x]
      <4>1. 0 \in Int /\ f[x] - 1 \in Int
        BY <3>2
      <4>2. IsFiniteSet(I) /\ Cardinality(I) = IF 0 > f[x] - 1 THEN 0 ELSE f[x] - 1 - 0 + 1
        BY <4>1, FS_Interval
      <4> HIDE DEF I
      <4> QED
        BY <3>2, <4>2
    <3>4. IsFiniteSet(B) /\ Cardinality(B) = f[x]
      <4>1. IsFiniteSet({x}) /\ Cardinality({x}) = 1
        BY FS_Singleton
      <4>2. IsFiniteSet(B) /\ Cardinality(B) = 1 * f[x]
        <5> HIDE DEF I
        <5> QED
          BY <3>3, <4>1, FS_Product
      <4> HIDE DEF B
      <4> QED
        BY <3>2, <4>2
    <3>5. IsFiniteSet(A) /\ Cardinality(A) = F(s \ {x})
      BY <3>2
    <3>6. P(s) = A \cup B /\ A \cap B = {}
      <4>1. \A i \in Nat : i < f[x] <=> i \in I
        BY <3>2
      <4>2. I \subseteq Nat
        BY <3>2
      <4> HIDE DEF I
      <4> QED
        BY <3>1, <4>1, <4>2 DEF Piles
    <3> HIDE DEF A, B, P
    <3>7. /\ IsFiniteSet(A \cup B)
          /\ Cardinality(A \cup B) = Cardinality(A) + Cardinality(B) - Cardinality(A \cap B)
      BY <3>4, <3>5, FS_Union
    <3>8. Cardinality(A \cap B) = 0
      BY <3>6, FS_EmptySet
    <3>9. F(s \ {x}) \in Int /\ F(s) = f[x] + F(s \ {x})
      BY <1>1, <3>1
    <3>10. Cardinality(P(s)) = F(s)
      BY <3>2, <3>4, <3>5, <3>6, <3>7, <3>8, <3>9
    <3> QED
      BY <3>6, <3>7, <3>10
  <2> QED
    BY <2>1, <2>2
<1>3. SUBSET S \subseteq Good
  <2> HIDE DEF Good
  <2> QED
    BY <1>2, SubsetInduction
<1> QED
  BY <1>3 DEF F
=============================================================================
