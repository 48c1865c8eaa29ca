------------------------- MODULE PromptBuildProofs -------------------------
(***************************************************************************)
(* Proofs about PromptBuild, for any sources, any near-duplicates, and any *)
(* scripts killed in any order: what is in the diet file, what the prompts *)
(* ask for and point to, and how they are split.                           *)
(***************************************************************************)
EXTENDS PromptBuild, DataInduction

-----------------------------------------------------------------------------
(* The deduplication of a file, line by line.                              *)

Nothing == [kept |-> << >>, raised |-> FALSE]

\* What is kept of row numbers from D.
Keeping(D) == [kept : Seq(D), raised : BOOLEAN]

\* The recursion of Dedup: what is kept of the first n lines.
After(R, file) ==
  CHOOSE after : after = [n \in 0..Len(file) |->
    IF n = 0 THEN [kept |-> << >>, raised |-> FALSE]
             ELSE Insert(R, after[n - 1], file[n])]

LEMMA DedupIsLast ==
  ASSUME NEW R, NEW file
  PROVE  Dedup(R, file) = After(R, file)[Len(file)]
BY DEF Dedup, After

LEMMA InsertCases ==
  ASSUME NEW R, NEW D, NEW acc \in Keeping(D), NEW i \in D
  PROVE  /\ Insert(R, acc, i) \in Keeping(D)
         /\ acc.raised => Insert(R, acc, i) = acc
         /\ ~acc.raised =>
              \/ /\ ~IsCandidate(R[i]) \/ IsNear(R, acc.kept, i)
                 /\ Insert(R, acc, i) = acc
              \/ Insert(R, acc, i).raised /\ Insert(R, acc, i).kept = acc.kept
              \/ /\ ~IsNear(R, acc.kept, i) /\ ~Insert(R, acc, i).raised
                 /\ Insert(R, acc, i).kept = Append(acc.kept, i)
<1>1. CASE acc.raised \/ ~IsCandidate(R[i]) \/ IsNear(R, acc.kept, i)
  <2>1. Insert(R, acc, i) = acc
    BY <1>1 DEF Insert
  <2> QED
    BY <1>1, <2>1
<1>2. CASE ~(acc.raised \/ ~IsCandidate(R[i]) \/ IsNear(R, acc.kept, i))
  <2>1. CASE SameKey(R, acc.kept, i)
    <3>1. Insert(R, acc, i) = [acc EXCEPT !.raised = TRUE]
      BY <1>2, <2>1 DEF Insert
    <3>2. /\ Insert(R, acc, i) \in Keeping(D)
          /\ Insert(R, acc, i).raised /\ Insert(R, acc, i).kept = acc.kept
      BY <3>1 DEF Keeping
    <3> QED
      BY <1>2, <3>2
  <2>2. CASE ~SameKey(R, acc.kept, i)
    <3>1. Insert(R, acc, i) = [acc EXCEPT !.kept = Append(@, i)]
      BY <1>2, <2>2 DEF Insert
    <3>2. acc.kept \in Seq(D)
      BY DEF Keeping
    <3>a. Append(acc.kept, i) \in Seq(D)
      BY <3>2
    <3>3. /\ Insert(R, acc, i) \in Keeping(D)
          /\ Insert(R, acc, i).raised = acc.raised
          /\ Insert(R, acc, i).kept = Append(acc.kept, i)
      BY <3>1, <3>a DEF Keeping
    <3> QED
      BY <1>2, <3>3
  <2> QED
    BY <2>1, <2>2
<1> QED
  BY <1>1, <1>2

LEMMA AfterSteps ==
  ASSUME NEW R, NEW D, NEW file \in Seq(D)
  PROVE  /\ \A n \in 0..Len(file) : After(R, file)[n] \in Keeping(D)
         /\ After(R, file)[0] = Nothing
         /\ \A n \in 1..Len(file) :
              After(R, file)[n] = Insert(R, After(R, file)[n - 1], file[n])
<1> DEFINE N1 == Len(file)
           step == [p \in (1..N1) \X Keeping(D) |-> Insert(R, p[2], file[p[1]])]
           Rule(g, n) == IF n = 0 THEN [kept |-> << >>, raised |-> FALSE]
                         ELSE Insert(R, g[n - 1], file[n])
<1>1. N1 \in Nat /\ \A n \in 1..N1 : file[n] \in D
  OBVIOUS
<1>2. Nothing \in Keeping(D)
  BY DEF Nothing, Keeping
<1>3. \A n \in 1..N1, acc \in Keeping(D) : Insert(R, acc, file[n]) \in Keeping(D)
  BY <1>1, InsertCases
<1> HIDE DEF N1
<1>4. step \in [(1..N1) \X Keeping(D) -> Keeping(D)]
  BY <1>3
<1>5. \A n \in 1..N1, acc \in Keeping(D) : step[<<n, acc>>] = Insert(R, acc, file[n])
  OBVIOUS
<1> HIDE DEF step
<1>a. PICK g \in [0..N1 -> Keeping(D)] : Recurs(g, N1, Nothing, step)
  BY <1>1, <1>2, <1>4, RecursionExists
<1>6. \A n \in 0..N1 : g[n] = IF n = 0 THEN Nothing ELSE step[<<n, g[n - 1]>>]
  BY <1>a DEF Recurs
<1>7. \A n \in 0..N1 : g[n] = Rule(g, n)
  <2> SUFFICES ASSUME NEW n \in 0..N1 PROVE g[n] = Rule(g, n)
    OBVIOUS
  <2>1. CASE n = 0
    BY <1>6, <2>1 DEF Nothing
  <2>2. CASE n # 0
    <3>1. n \in 1..N1 /\ n - 1 \in 0..N1
      BY <1>1, <2>2
    <3>2. g[n] = Insert(R, g[n - 1], file[n])
      BY <1>5, <1>6, <2>2, <3>1
    <3> QED
      BY <2>2, <3>2
  <2> QED
    BY <2>1, <2>2
<1>8. g = [n \in 0..N1 |-> Rule(g, n)]
  <2> HIDE DEF Rule
  <2> QED
    BY <1>7
<1> DEFINE h == After(R, file)
<1>9. h = [n \in 0..N1 |-> Rule(h, n)]
  BY <1>8 DEF After, N1
<1>10. \A n \in 0..N1 : h[n] = Rule(h, n)
  <2> HIDE DEF Rule, h
  <2> QED
    BY <1>9
<1> HIDE DEF h
<1> DEFINE Good == {n \in Nat : n <= N1 => h[n] \in Keeping(D)}
<1>11. 0 \in Good
  BY <1>1, <1>2, <1>10 DEF Nothing
<1>12. ASSUME NEW n \in Nat, n \in Good
       PROVE  n + 1 \in Good
  <2> SUFFICES ASSUME n + 1 <= N1 PROVE h[n + 1] \in Keeping(D)
    OBVIOUS
  <2>1. n + 1 \in 0..N1 /\ n + 1 \in 1..N1 /\ n + 1 # 0 /\ n + 1 - 1 = n /\ n <= N1
    BY <1>1
  <2>2. h[n] \in Keeping(D)
    BY <1>12, <2>1
  <2>3. h[n + 1] = Insert(R, h[n], file[n + 1])
    BY <1>10, <2>1
  <2> QED
    BY <1>3, <2>1, <2>2, <2>3
<1>13. Nat \subseteq Good
  <2> HIDE DEF Good
  <2> QED
    BY <1>11, <1>12, NatUpwards
<1>14. \A n \in 0..N1 : h[n] \in Keeping(D)
  BY <1>1, <1>13
<1>15. h[0] = Nothing
  BY <1>1, <1>10 DEF Nothing
<1>16. \A n \in 1..N1 : h[n] = Insert(R, h[n - 1], file[n])
  BY <1>1, <1>10
<1> QED
  BY <1>14, <1>15, <1>16 DEF h, N1

\* An induction over the lines of a file.
LEMMA LineByLine ==
  ASSUME NEW N1 \in Nat, NEW Good, 0 \in Good,
         \A n \in 0..N1 : n \in Good /\ n + 1 <= N1 => n + 1 \in Good
  PROVE  0..N1 \subseteq Good
<1> DEFINE G == {n \in Nat : n <= N1 => n \in Good}
<1>1. 0 \in G /\ \A n \in Nat : n \in G => n + 1 \in G
  OBVIOUS
<1>2. Nat \subseteq G
  <2> HIDE DEF G
  <2> QED
    BY <1>1, NatUpwards
<1> QED
  BY <1>2

\* Two files with the same first lines keep the same of them.
LEMMA AfterAgrees ==
  ASSUME NEW R, NEW D, NEW f \in Seq(D), NEW g \in Seq(D), NEW m \in Nat,
         m <= Len(f), m <= Len(g), \A n \in 1..m : f[n] = g[n]
  PROVE  After(R, f)[m] = After(R, g)[m]
<1> DEFINE F == After(R, f)
           G == After(R, g)
           Good == {n \in 0..m : F[n] = G[n]}
<1>1. /\ F[0] = G[0]
      /\ \A n \in 1..m : F[n] = Insert(R, F[n - 1], f[n])
      /\ \A n \in 1..m : G[n] = Insert(R, G[n - 1], g[n])
  BY AfterSteps
<1> HIDE DEF F, G
<1>2. 0 \in Good
  BY <1>1
<1>3. ASSUME NEW n \in 0..m, n \in Good, n + 1 <= m
      PROVE  n + 1 \in Good
  <2>1. n + 1 \in 1..m /\ n + 1 - 1 = n
    BY <1>3
  <2>2. F[n + 1] = Insert(R, F[n], f[n + 1]) /\ G[n + 1] = Insert(R, G[n], g[n + 1])
    BY <1>1, <2>1
  <2>3. F[n] = G[n] /\ f[n + 1] = g[n + 1]
    BY <1>3, <2>1
  <2> QED
    BY <2>1, <2>2, <2>3
<1>4. 0..m \subseteq Good
  <2> HIDE DEF Good
  <2> QED
    BY <1>2, <1>3, LineByLine
<1> QED
  BY <1>4 DEF F, G

\* b is kept after line x when a was kept before it.
Grows(R, D, a, b, x) ==
  /\ a.kept \in Seq(D) /\ b.kept \in Seq(D) /\ x \in D
  /\ a.raised => b.raised
  /\ \/ b.kept = a.kept
     \/ ~IsNear(R, a.kept, x) /\ b.kept = Append(a.kept, x)
  /\ ~b.raised => \/ ~IsCandidate(R[x]) /\ b.kept = a.kept
                  \/ IsNear(R, a.kept, x) /\ b.kept = a.kept
                  \/ b.kept = Append(a.kept, x)

\* What one more line does.
LEMMA OneMoreLine ==
  ASSUME NEW R, NEW D, NEW file \in Seq(D), NEW n \in 0..Len(file),
         n + 1 <= Len(file)
  PROVE  Grows(R, D, After(R, file)[n], After(R, file)[n + 1], file[n + 1])
<1> DEFINE a == After(R, file)[n]
           b == After(R, file)[n + 1]
           i == file[n + 1]
<1>1. a \in Keeping(D) /\ b \in Keeping(D) /\ b = Insert(R, a, i) /\ i \in D
  <2>1. n + 1 \in 1..Len(file) /\ n + 1 \in 0..Len(file) /\ n + 1 - 1 = n
    OBVIOUS
  <2>2. i \in D
    BY <2>1
  <2> QED
    BY <2>1, <2>2, AfterSteps
<1> HIDE DEF a, b, i
<1>2. /\ a.raised => b = a
      /\ ~a.raised =>
           \/ (~IsCandidate(R[i]) \/ IsNear(R, a.kept, i)) /\ b = a
           \/ b.raised /\ b.kept = a.kept
           \/ ~IsNear(R, a.kept, i) /\ ~b.raised /\ b.kept = Append(a.kept, i)
  BY <1>1, InsertCases
<1>3. a.kept \in Seq(D) /\ b.kept \in Seq(D) /\ a.raised \in BOOLEAN
  BY <1>1 DEF Keeping
<1>4. a.raised => b.raised
  BY <1>2, Zenon
<1>5. \/ b.kept = a.kept
      \/ ~IsNear(R, a.kept, i) /\ b.kept = Append(a.kept, i)
  BY <1>2, Zenon
<1>6. ~b.raised => \/ ~IsCandidate(R[i]) /\ b.kept = a.kept
                   \/ IsNear(R, a.kept, i) /\ b.kept = a.kept
                   \/ b.kept = Append(a.kept, i)
  BY <1>2, Zenon
<1> QED
  <2>1. Grows(R, D, a, b, i)
    BY <1>1, <1>3, <1>4, <1>5, <1>6, Zenon DEF Grows
  <2> QED
    BY <2>1 DEF a, b, i

\* f is the first lines of g, both of them lines from D.
FirstPart(D, f, g) ==
  /\ f \in Seq(D) /\ g \in Seq(D) /\ Len(f) <= Len(g)
  /\ \A i \in 1..Len(f) : f[i] = g[i]

\* What was kept of fewer lines is a first part of what is kept of more.
LEMMA KeptGrows ==
  ASSUME NEW R, NEW D, NEW file \in Seq(D), NEW m \in 0..Len(file)
  PROVE  FirstPart(D, After(R, file)[m].kept, After(R, file)[Len(file)].kept)
<1> DEFINE K(n) == After(R, file)[n].kept
           N1 == Len(file)
           Starts(n) == /\ Len(K(m)) <= Len(K(n))
                        /\ \A i \in 1..Len(K(m)) : K(m)[i] = K(n)[i]
           Good == {n \in 0..N1 : m <= n => Starts(n)}
<1>1. N1 \in Nat /\ m \in 0..N1
  OBVIOUS
<1>2. \A n \in 0..N1 : K(n) \in Seq(D)
  BY AfterSteps DEF Keeping
<1>3. \A n \in 0..N1 : n + 1 <= N1 =>
        K(n + 1) = K(n) \/ \E i \in D : K(n + 1) = Append(K(n), i)
  <2> SUFFICES ASSUME NEW n \in 0..N1, n + 1 <= N1
               PROVE  K(n + 1) = K(n) \/ \E i \in D : K(n + 1) = Append(K(n), i)
    OBVIOUS
  <2>1. Grows(R, D, After(R, file)[n], After(R, file)[n + 1], file[n + 1])
    BY OneMoreLine
  <2> QED
    BY <2>1, Zenon DEF Grows
<1> HIDE DEF K, N1
<1>4. 0 \in Good
  BY <1>1, <1>2
<1>5. ASSUME NEW n \in 0..N1, n \in Good, n + 1 <= N1
      PROVE  n + 1 \in Good
  <2> SUFFICES ASSUME m <= n + 1 PROVE Starts(n + 1)
    BY <1>1, <1>5
  <2>1. CASE m = n + 1
    BY <1>1, <1>2, <2>1
  <2>2. CASE m <= n
    <3>1. Starts(n)
      BY <1>5, <2>2
    <3>2. K(n) \in Seq(D) /\ K(m) \in Seq(D)
      BY <1>1, <1>2
    <3>3. CASE K(n + 1) = K(n)
      BY <3>1, <3>3
    <3>4. ASSUME NEW i \in D, K(n + 1) = Append(K(n), i)
          PROVE  Starts(n + 1)
      <4>1. Len(K(n)) \in Nat /\ Len(K(m)) \in Nat
        BY <3>2
      <4>2. /\ Len(K(n + 1)) = Len(K(n)) + 1
            /\ \A j \in 1..Len(K(n)) : K(n + 1)[j] = K(n)[j]
        BY <3>2, <3>4
      <4>3. \A j \in 1..Len(K(m)) : j \in 1..Len(K(n))
        BY <3>1, <4>1
      <4> QED
        BY <3>1, <4>1, <4>2, <4>3
    <3> QED
      BY <1>3, <1>5, <3>3, <3>4
  <2> QED
    BY <1>1, <2>1, <2>2
<1>6. 0..N1 \subseteq Good
  <2> HIDE DEF Good
  <2> QED
    BY <1>1, <1>4, <1>5, LineByLine
<1>7. Starts(N1)
  BY <1>1, <1>6
<1>8. K(m) \in Seq(D) /\ K(N1) \in Seq(D)
  BY <1>1, <1>2
<1> QED
  BY <1>7, <1>8 DEF K, N1, FirstPart

\* No two kept rows are near-duplicates.
LEMMA KeptApart ==
  ASSUME NEW R, NEW D, NEW file \in Seq(D)
  PROVE  LET kept == Dedup(R, file).kept
         IN  \A i, j \in 1..Len(kept) :
               i < j => ~Near(R[kept[i]].signature, R[kept[j]].signature)
<1> DEFINE K(n) == After(R, file)[n].kept
           N1 == Len(file)
           Apart(k) == \A i, j \in 1..Len(k) :
             i < j => ~Near(R[k[i]].signature, R[k[j]].signature)
           Good == {n \in 0..N1 : Apart(K(n))}
<1>1. N1 \in Nat
  OBVIOUS
<1>2. \A n \in 0..N1 : K(n) \in Seq(D)
  BY AfterSteps DEF Keeping
<1>3. \A n \in 0..N1 : n + 1 <= N1 =>
        \/ K(n + 1) = K(n)
        \/ ~IsNear(R, K(n), file[n + 1]) /\ K(n + 1) = Append(K(n), file[n + 1])
  <2> SUFFICES ASSUME NEW n \in 0..N1, n + 1 <= N1
               PROVE  \/ K(n + 1) = K(n)
                      \/ /\ ~IsNear(R, K(n), file[n + 1])
                         /\ K(n + 1) = Append(K(n), file[n + 1])
    OBVIOUS
  <2>1. Grows(R, D, After(R, file)[n], After(R, file)[n + 1], file[n + 1])
    BY OneMoreLine
  <2> QED
    BY <2>1, Zenon DEF Grows
<1>4. K(0) = << >>
  BY AfterSteps DEF Nothing
<1>a. Dedup(R, file).kept = K(N1)
  BY DedupIsLast
<1>b. \A n \in 1..N1 : file[n] \in D
  OBVIOUS
<1> HIDE DEF K, N1
<1>5. 0 \in Good
  BY <1>1, <1>4
<1>6. ASSUME NEW n \in 0..N1, n \in Good, n + 1 <= N1
      PROVE  n + 1 \in Good
  <2> DEFINE x == file[n + 1]
  <2>1. K(n) \in Seq(D) /\ Apart(K(n)) /\ n + 1 \in 0..N1 /\ x \in D
    BY <1>1, <1>2, <1>6, <1>b
  <2>2. CASE K(n + 1) = K(n)
    BY <2>1, <2>2
  <2>3. CASE ~IsNear(R, K(n), x) /\ K(n + 1) = Append(K(n), x)
    <3> HIDE DEF x
    <3>1. \A i \in 1..Len(K(n)) : ~Near(R[K(n)[i]].signature, R[x].signature)
      <4>1. \A i \in 1..Len(K(n)) : K(n)[i] \in Range(K(n))
        BY <2>1 DEF Range
      <4> QED
        BY <2>3, <4>1 DEF IsNear
    <3>2. /\ Len(K(n + 1)) = Len(K(n)) + 1 /\ Len(K(n)) \in Nat
          /\ K(n + 1)[Len(K(n)) + 1] = x
          /\ \A i \in 1..Len(K(n)) : K(n + 1)[i] = K(n)[i]
      BY <2>1, <2>3, SMTT(30)
    <3>3. ASSUME NEW i \in 1..Len(K(n + 1)), NEW j \in 1..Len(K(n + 1)), i < j
          PROVE  ~Near(R[K(n + 1)[i]].signature, R[K(n + 1)[j]].signature)
      <4>1. i \in 1..Len(K(n)) /\ (j \in 1..Len(K(n)) \/ j = Len(K(n)) + 1)
        BY <3>2, <3>3
      <4> QED
        BY <2>1, <3>1, <3>2, <3>3, <4>1
    <3> QED
      BY <2>1, <3>3
  <2> QED
    BY <1>3, <1>6, <2>2, <2>3
<1>7. 0..N1 \subseteq Good
  <2> HIDE DEF Good
  <2> QED
    BY <1>1, <1>5, <1>6, LineByLine
<1>8. Apart(K(N1))
  BY <1>1, <1>7
<1> QED
  BY <1>8, <1>a

\* Unless the deduplication raises, a candidate is kept or has an earlier
\* near-duplicate that is.
LEMMA KeptRepresents ==
  ASSUME NEW R, NEW D, NEW file \in Seq(D), ~Dedup(R, file).raised,
         NEW i \in 1..Len(file), IsCandidate(R[file[i]])
  PROVE  LET kept == Range(Dedup(R, file).kept)
         IN  \/ file[i] \in kept
             \/ \E j \in 1..(i - 1) :
                  /\ file[j] \in kept
                  /\ Near(R[file[j]].signature, R[file[i]].signature)
<1> DEFINE K(n) == Range(After(R, file)[n].kept)
           Raised(n) == After(R, file)[n].raised
           N1 == Len(file)
           Stands(n, k) == \/ file[k] \in K(n)
                           \/ \E j \in 1..(k - 1) :
                                /\ file[j] \in K(n)
                                /\ Near(R[file[j]].signature, R[file[k]].signature)
           Good == {n \in 0..N1 :
                      /\ \A x \in K(n) : \E j \in 1..n : x = file[j]
                      /\ Raised(n) \/ \A k \in 1..n :
                           IsCandidate(R[file[k]]) => Stands(n, k)}
<1>1. N1 \in Nat
  OBVIOUS
<1>2. K(0) = {}
  BY AfterSteps DEF Nothing, Range
<1>3. ASSUME NEW n \in 0..N1, n + 1 <= N1
      PROVE  /\ Raised(n) => Raised(n + 1)
             /\ K(n + 1) = K(n) \/ K(n + 1) = K(n) \cup {file[n + 1]}
             /\ ~Raised(n + 1) =>
                  \/ ~IsCandidate(R[file[n + 1]])
                  \/ \E x \in K(n) : Near(R[x].signature, R[file[n + 1]].signature)
                  \/ file[n + 1] \in K(n + 1)
  <2> DEFINE a == After(R, file)[n]
             b == After(R, file)[n + 1]
             x == file[n + 1]
  <2>1. Grows(R, D, a, b, x)
    BY <1>3, OneMoreLine
  <2> HIDE DEF a, b, x
  <2>2. b.kept = Append(a.kept, x) => Range(b.kept) = Range(a.kept) \cup {x}
    <3> HAVE b.kept = Append(a.kept, x)
    <3> DEFINE s == a.kept
               t == b.kept
    <3>1. s \in Seq(D) /\ Len(s) \in Nat /\ t = Append(s, x)
      BY <2>1 DEF Grows
    <3> HIDE DEF s, t
    <3>2. /\ DOMAIN t = 1..(Len(s) + 1) /\ DOMAIN s = 1..Len(s)
          /\ t[Len(s) + 1] = x /\ \A k \in 1..Len(s) : t[k] = s[k]
      BY <2>1, <3>1 DEF Grows
    <3>3. Range(t) \subseteq Range(s) \cup {x}
      <4> SUFFICES ASSUME NEW k \in 1..(Len(s) + 1) PROVE t[k] \in Range(s) \cup {x}
        BY <3>2 DEF Range
      <4>1. k \in 1..Len(s) \/ k = Len(s) + 1
        BY <3>1
      <4> QED
        BY <3>2, <4>1 DEF Range
    <3>4. Range(s) \cup {x} \subseteq Range(t)
      <4>1. 1..Len(s) \subseteq 1..(Len(s) + 1) /\ Len(s) + 1 \in 1..(Len(s) + 1)
        BY <3>1
      <4> QED
        BY <3>2, <4>1 DEF Range
    <3> QED
      BY <3>3, <3>4 DEF s, t
  <2>3. b.kept = a.kept \/ b.kept = Append(a.kept, x)
    BY <2>1, Zenon DEF Grows
  <2>4. Range(b.kept) = Range(a.kept) \/ Range(b.kept) = Range(a.kept) \cup {x}
    BY <2>2, <2>3
  <2>5. a.raised => b.raised
    BY <2>1, Zenon DEF Grows
  <2>6. ~b.raised => \/ ~IsCandidate(R[x])
                     \/ \E y \in Range(a.kept) : Near(R[y].signature, R[x].signature)
                     \/ x \in Range(b.kept)
    <3> HAVE ~b.raised
    <3>1. ~IsCandidate(R[x]) \/ IsNear(R, a.kept, x) \/ b.kept = Append(a.kept, x)
      BY <2>1, Zenon DEF Grows
    <3> QED
      BY <2>2, <3>1 DEF IsNear
  <2> QED
    BY <2>4, <2>5, <2>6 DEF a, b, x
<1>4. Dedup(R, file) = After(R, file)[N1]
  BY DedupIsLast
<1> HIDE DEF K, Raised, N1
<1>5. 0 \in Good
  BY <1>1, <1>2
<1>6. ASSUME NEW n \in 0..N1, n \in Good, n + 1 <= N1
      PROVE  n + 1 \in Good
  <2>1. /\ n \in Nat /\ n + 1 \in 0..N1
        /\ 1..n \subseteq 1..(n + 1) /\ n + 1 \in 1..(n + 1)
        /\ \A k \in 1..(n + 1) : k \in 1..n \/ k = n + 1
    BY <1>1, <1>6
  <2>2. K(n) \subseteq K(n + 1) /\ K(n + 1) \subseteq K(n) \cup {file[n + 1]}
    BY <1>3, <1>6
  <2>3. \A x \in K(n) : \E j \in 1..n : x = file[j]
    BY <1>6
  <2>4. \A x \in K(n + 1) : \E j \in 1..(n + 1) : x = file[j]
    BY <2>1, <2>2, <2>3
  <2>5. ASSUME ~Raised(n + 1), NEW k \in 1..(n + 1), IsCandidate(R[file[k]])
        PROVE  Stands(n + 1, k)
    <3>1. CASE k \in 1..n
      <4>1. ~Raised(n)
        BY <1>3, <1>6, <2>5
      <4>2. Stands(n, k)
        BY <1>6, <2>5, <3>1, <4>1
      <4> QED
        BY <2>2, <4>2
    <3>2. CASE k = n + 1
      <4>1. CASE file[n + 1] \in K(n + 1)
        BY <3>2, <4>1
      <4>2. CASE \E x \in K(n) : Near(R[x].signature, R[file[n + 1]].signature)
        <5>1. PICK x \in K(n) : Near(R[x].signature, R[file[n + 1]].signature)
          BY <4>2
        <5>2. PICK j \in 1..n : x = file[j]
          BY <2>3
        <5>3. j \in 1..(k - 1) /\ file[j] \in K(n + 1)
          BY <2>1, <2>2, <3>2, <5>1, <5>2
        <5> QED
          BY <3>2, <5>1, <5>2, <5>3
      <4> QED
        BY <1>3, <1>6, <2>5, <3>2, <4>1, <4>2
    <3> QED
      BY <2>1, <3>1, <3>2
  <2> HIDE DEF Stands
  <2> QED
    BY <2>1, <2>4, <2>5
<1>7. 0..N1 \subseteq Good
  <2> HIDE DEF Good
  <2> QED
    BY <1>1, <1>5, <1>6, LineByLine
<1>8. N1 \in Good /\ ~Raised(N1)
  BY <1>1, <1>4, <1>7 DEF Raised
<1>9. Stands(N1, i)
  <2>1. i \in 1..N1
    BY DEF N1
  <2> HIDE DEF Stands
  <2> QED
    BY <1>8, <2>1
<1>10. K(N1) = Range(Dedup(R, file).kept)
  BY <1>4 DEF K
<1> QED
  BY <1>9, <1>10

-----------------------------------------------------------------------------
(* What a tag says of the ingredients.                                     *)

\* The hits that no modifier overrides are what the tag is made of.
LEMMA TagSays ==
  ASSUME NEW row, \A i \in Range(row.ingredients) : i.animal \subseteq Categories
  PROVE  LET bad(S) == \E i \in Range(row.ingredients) :
                         ~i.modifier /\ i.animal \cap S # {}
         IN  /\ DietTag(row) = "vegan" => ~bad(Categories) /\ ~bad(Flesh)
             /\ DietTag(row) = "vegetarian" => bad(Categories) /\ ~bad(Flesh)
             /\ DietTag(row) = "non_vegetarian" => bad(Categories) /\ bad(Flesh)
<1> DEFINE hit == Evidence(row.ingredients)
           bad(S) == \E i \in Range(row.ingredients) :
                       ~i.modifier /\ i.animal \cap S # {}
<1>1. \A S : bad(S) <=> hit \cap S # {}
  BY Zenon DEF Evidence
<1>2. hit \subseteq Categories
  BY DEF Evidence
<1>3. Flesh \subseteq Categories
  BY DEF Categories
<1>4. /\ DietTag(row) = "vegan" => hit = {}
      /\ DietTag(row) = "vegetarian" => hit # {} /\ hit \cap Flesh = {}
      /\ DietTag(row) = "non_vegetarian" => hit \cap Flesh # {}
  BY DEF DietTag, ClassifyStructured
<1> HIDE DEF hit, bad
<1>5. /\ DietTag(row) = "vegan" => ~bad(Categories) /\ ~bad(Flesh)
      /\ DietTag(row) = "vegetarian" => bad(Categories) /\ ~bad(Flesh)
      /\ DietTag(row) = "non_vegetarian" => bad(Categories) /\ bad(Flesh)
  <2>1. hit = {} => ~bad(Categories) /\ ~bad(Flesh)
    BY <1>1
  <2>2. hit # {} => bad(Categories)
    <3>1. hit \cap Categories = hit
      BY <1>2
    <3> QED
      BY <1>1, <3>1
  <2>3. hit \cap Flesh = {} => ~bad(Flesh)
    BY <1>1
  <2>4. hit \cap Flesh # {} => bad(Flesh) /\ hit # {}
    BY <1>1
  <2> QED
    BY <1>4, <2>1, <2>2, <2>3, <2>4, Zenon
<1> QED
  BY <1>5 DEF bad

\* A recipe that suits a template for a diet does not offend the diet, or, for
\* an adaptation, does.
LEMMA SuitedFits ==
  ASSUME raw \in DOMAIN Corpora, NEW n \in DOMAIN T, NEW d \in Diets
  PROVE  /\ Suits("constraint_cooking", d, T[n]) => ~Offends(n, d)
         /\ Suits("adaptation", d, T[n]) => Offends(n, d)
<1> DEFINE tag == DietTag(T[n])
           bad(S) == \E i \in Range(T[n].ingredients) :
                       ~i.modifier /\ i.animal \cap S # {}
<1>1. \A i \in Range(T[n].ingredients) : i.animal \subseteq Categories
  BY CorpusAssumption DEF T
<1>2. /\ tag = "vegan" => ~bad(Categories) /\ ~bad(Flesh)
      /\ tag = "vegetarian" => bad(Categories) /\ ~bad(Flesh)
      /\ tag = "non_vegetarian" => bad(Categories) /\ bad(Flesh)
  BY <1>1, TagSays
<1>3. Offends(n, d) <=> bad(Forbidden(d))
  BY Zenon DEF Offends
<1>4. /\ Suits("constraint_cooking", d, T[n]) =>
           tag = "vegan" \/ (d # "vegan" /\ tag = "vegetarian")
      /\ Suits("adaptation", d, T[n]) =>
           tag = "non_vegetarian" \/ (d = "vegan" /\ tag = "vegetarian")
  BY DEF Suits, Diets
<1> HIDE DEF tag, bad
<1>5. CASE d = "vegan"
  <2>1. Forbidden(d) = Categories
    BY <1>5 DEF Forbidden
  <2> QED
    BY <1>2, <1>3, <1>4, <1>5, <2>1, Zenon
<1>6. CASE d # "vegan"
  <2>1. Forbidden(d) = Flesh
    BY <1>6 DEF Forbidden
  <2> QED
    BY <1>2, <1>3, <1>4, <1>6, <2>1, Zenon
<1> QED
  BY <1>5, <1>6

-----------------------------------------------------------------------------
(* Files and what is left of them.                                         *)

\* f is what a writer of g leaves: rows of g, the last line torn or not.
LeftOf(S, f, g) ==
  /\ f \in Seq(S \cup {Torn}) /\ Len(f) <= Len(g)
  /\ \A i \in 1..Len(f) : f[i] = g[i] \/ (i = Len(f) /\ f[i] = Torn)

LEMMA CutLeaves ==
  ASSUME NEW S, NEW g \in Seq(S), NEW f \in Cut(g)
  PROVE  LeftOf(S, f, g)
<1> DEFINE kept == {SubSeq(g, 1, n) : n \in CutAt \cap 0..Len(g)}
<1>1. f \in kept \/ \E s \in kept \ {g} : f = Append(s, Torn)
  BY DEF Cut
<1>2. ASSUME NEW s \in kept
      PROVE  /\ s \in Seq(S) /\ Len(s) \in Nat /\ Len(g) \in Nat
             /\ Len(s) <= Len(g) /\ \A i \in 1..Len(s) : s[i] = g[i]
             /\ s # g => Len(s) + 1 <= Len(g)
  <2>1. PICK n \in 0..Len(g) : s = SubSeq(g, 1, n)
    BY <1>2
  <2>2. /\ s \in Seq(S) /\ Len(s) = n /\ Len(g) \in Nat
        /\ \A i \in 1..n : s[i] = g[i]
    BY <2>1
  <2>3. n = Len(g) => s = g
    <3>1. s \in [1..n -> S] /\ g \in [1..Len(g) -> S]
      BY <2>2
    <3> QED
      BY <2>2, <3>1
  <2> QED
    BY <2>2, <2>3
<1> HIDE DEF kept
<1>3. CASE f \in kept
  <2>1. f \in Seq(S \cup {Torn})
    BY <1>2, <1>3
  <2> QED
    BY <1>2, <1>3, <2>1 DEF LeftOf
<1>4. ASSUME NEW s \in kept, s # g, f = Append(s, Torn)
      PROVE  LeftOf(S, f, g)
  <2>1. /\ s \in Seq(S) /\ Len(s) \in Nat /\ Len(s) + 1 <= Len(g)
        /\ \A i \in 1..Len(s) : s[i] = g[i]
    BY <1>2, <1>4
  <2>2. /\ f \in Seq(S \cup {Torn}) /\ Len(f) = Len(s) + 1
        /\ f[Len(s) + 1] = Torn /\ \A i \in 1..Len(s) : f[i] = s[i]
    BY <1>4, <2>1
  <2> QED
    BY <2>1, <2>2 DEF LeftOf
<1> QED
  BY <1>1, <1>3, <1>4

\* A script leaves its rows, all of them unless it is killed.
LEMMA WritesLeaves ==
  ASSUME NEW S, NEW g \in Seq(S), NEW script, NEW f, NEW raises,
         Writes(script, f, g, raises)
  PROVE  LeftOf(S, f, g)
<1>1. CASE f = g
  <2>1. f \in Seq(S \cup {Torn}) /\ Len(f) \in Nat
    BY <1>1
  <2> QED
    BY <1>1, <2>1 DEF LeftOf
<1>2. CASE f \in Cut(g)
  BY <1>2, CutLeaves
<1> QED
  BY <1>1, <1>2 DEF Writes

\* What is left of a first part of a file is left of the file.
LEMMA LeftOfMore ==
  ASSUME NEW S, NEW f, NEW g, NEW h, LeftOf(S, f, g), FirstPart(S, g, h)
  PROVE  LeftOf(S, f, h)
<1>1. f \in Seq(S \cup {Torn}) /\ Len(f) <= Len(g)
  BY DEF LeftOf
<1>2. Len(f) \in Nat /\ Len(g) \in Nat /\ Len(h) \in Nat /\ Len(g) <= Len(h)
  BY <1>1 DEF FirstPart
<1>3. Len(f) <= Len(h) /\ \A i \in 1..Len(f) : i \in 1..Len(g)
  BY <1>1, <1>2
<1> QED
  BY <1>1, <1>3 DEF LeftOf, FirstPart

\* The rows a script reads before the torn line.
LEMMA ReadableIsWhole ==
  ASSUME NEW S, Torn \notin S, NEW g \in Seq(S), NEW f, LeftOf(S, f, g)
  PROVE  /\ FirstPart(S, Readable(f), g)
         /\ ~IsTorn(f) => \A i \in 1..Len(f) : i \in 1..Len(g) /\ f[i] = g[i]
<1> DEFINE r == Readable(f)
<1>1. /\ f \in Seq(S \cup {Torn}) /\ Len(f) <= Len(g)
      /\ \A i \in 1..Len(f) : f[i] = g[i] \/ (i = Len(f) /\ f[i] = Torn)
  BY DEF LeftOf
<1>2. /\ Len(f) \in Nat /\ Len(g) \in Nat
      /\ \A i \in 1..Len(f) : i \in 1..Len(g) /\ g[i] \in S
  BY <1>1
<1>3. IsTorn(f) <=> \E i \in 1..Len(f) : f[i] = Torn
  <2>1. DOMAIN f = 1..Len(f)
    BY <1>1
  <2> QED
    BY <2>1 DEF IsTorn, Range
<1>4. CASE IsTorn(f)
  <2>1. PICK k \in 1..Len(f) : f[k] = Torn
    BY <1>3, <1>4
  <2>2. k = Len(f)
    BY <1>1, <1>2, <2>1
  <2> DEFINE m == Len(f) - 1
  <2>3. r = SubSeq(f, 1, m)
    BY <1>4 DEF Readable, Front
  <2>4. m \in 0..Len(f)
    BY <1>2, <2>1, <2>2
  <2> HIDE DEF m, r
  <2>a. Len(r) = m /\ (\A i \in 1..m : r[i] = f[i]) /\ r \in Seq(S \cup {Torn})
    BY <1>1, <2>3, <2>4
  <2>5. /\ Len(r) = Len(f) - 1 /\ \A i \in 1..(Len(f) - 1) : r[i] = f[i]
        /\ r \in Seq(S \cup {Torn})
    BY <2>a DEF m
  <2>6. \A i \in 1..Len(r) : i \in 1..Len(g) /\ r[i] = g[i] /\ g[i] \in S
    BY <1>1, <1>2, <2>5
  <2>7. r \in Seq(S)
    BY <2>5, <2>6
  <2>8. Len(r) <= Len(g)
    BY <1>1, <1>2, <2>5
  <2>9. FirstPart(S, r, g)
    BY <2>6, <2>7, <2>8 DEF FirstPart
  <2> QED
    BY <1>4, <2>9 DEF r
<1>5. CASE ~IsTorn(f)
  <2>1. r = f
    BY <1>5 DEF Readable
  <2>2. \A i \in 1..Len(f) : i \in 1..Len(g) /\ f[i] = g[i] /\ f[i] \in S
    BY <1>1, <1>2, <1>3, <1>5
  <2>3. f \in Seq(S)
    BY <1>1, <2>2
  <2>4. FirstPart(S, r, g)
    BY <1>1, <2>1, <2>2, <2>3 DEF FirstPart
  <2> QED
    BY <2>2, <2>4
<1> QED
  BY <1>4, <1>5

-----------------------------------------------------------------------------
(* What every file is left of: the rows of the sources in their order, and *)
(* the ones the deduplication of all of them keeps.                        *)

Rows(R)   == [i \in DOMAIN R |-> i]
Greedy(R) == Dedup(R, Rows(R)).kept

\* The rows of a source.
Source(R) == /\ Len(R) \in Nat /\ DOMAIN R = 1..Len(R) /\ Torn \notin DOMAIN R

LEMMA SourceRows ==
  ASSUME NEW R, Source(R)
  PROVE  /\ Rows(R) \in Seq(DOMAIN R) /\ Len(Rows(R)) = Len(R)
         /\ \A i \in DOMAIN R : Rows(R)[i] = i
         /\ DOMAIN R \subseteq Nat
         /\ Greedy(R) \in Seq(DOMAIN R)
<1>1. /\ Rows(R) \in Seq(DOMAIN R) /\ Len(Rows(R)) = Len(R)
      /\ \A i \in DOMAIN R : Rows(R)[i] = i
  <2> DEFINE n == Len(R)
             r == [i \in 1..n |-> i]
  <2>1. n \in Nat /\ DOMAIN R = 1..n /\ Rows(R) = r
    BY DEF Source, Rows
  <2> HIDE DEF n
  <2>2. r \in Seq(1..n) /\ Len(r) = n /\ \A i \in 1..n : r[i] = i
    BY <2>1
  <2> QED
    BY <2>1, <2>2 DEF n
<1>2. Len(Rows(R)) \in Nat /\ Len(Rows(R)) \in 0..Len(Rows(R))
  BY <1>1
<1>3. Greedy(R) \in Seq(DOMAIN R)
  <2>1. FirstPart(DOMAIN R, After(R, Rows(R))[Len(Rows(R))].kept,
                  After(R, Rows(R))[Len(Rows(R))].kept)
    BY <1>1, <1>2, KeptGrows
  <2> QED
    BY <2>1, DedupIsLast DEF Greedy, FirstPart
<1>4. DOMAIN R \subseteq Nat
  BY DEF Source
<1> QED
  BY <1>1, <1>3, <1>4

\* The deduplication of the first rows is a first part of that of all.
LEMMA DedupOfFirst ==
  ASSUME NEW R, Source(R), NEW g, FirstPart(DOMAIN R, g, Rows(R))
  PROVE  FirstPart(DOMAIN R, Dedup(R, g).kept, Greedy(R))
<1> DEFINE m == Len(g)
           D == DOMAIN R
           r == Rows(R)
<1>1. /\ r \in Seq(D) /\ g \in Seq(D) /\ m \in 0..Len(r) /\ m \in Nat /\ m <= Len(g)
      /\ \A i \in 1..m : g[i] = r[i]
  BY DEF FirstPart
<1>2. Dedup(R, g).kept = After(R, g)[m].kept
  BY DedupIsLast
<1>3. Greedy(R) = After(R, r)[Len(r)].kept
  BY DedupIsLast DEF Greedy
<1> HIDE DEF D, r, m
<1>4. After(R, g)[m] = After(R, r)[m]
  <2>1. m <= Len(r)
    BY <1>1
  <2> QED
    BY <1>1, <2>1, AfterAgrees
<1>5. FirstPart(D, After(R, r)[m].kept, After(R, r)[Len(r)].kept)
  BY <1>1, KeptGrows
<1> QED
  BY <1>2, <1>3, <1>4, <1>5 DEF D

-----------------------------------------------------------------------------
(* The two shares of consecutive request_ids.                              *)

LEMMA HalvesDiffer ==
  ASSUME NEW a \in Nat, NEW m \in Nat
  PROVE  LET half(k) == {i \in (a + 1)..(a + m) : (i - 1) % 2 = k}
         IN  /\ IsFiniteSet(half(0)) /\ IsFiniteSet(half(1))
             /\ Cardinality(half(0)) - Cardinality(half(1)) \in -1..1
<1> DEFINE half(n, k) == {i \in (a + 1)..(a + n) : (i - 1) % 2 = k}
           lead(n) == IF (a + n) % 2 = a % 2 THEN 0 ELSE IF a % 2 = 0 THEN 1 ELSE -1
           Good == {n \in Nat : /\ \A k \in 0..1 : IsFiniteSet(half(n, k))
                                /\ Cardinality(half(n, 0))
                                     = Cardinality(half(n, 1)) + lead(n)}
<1>1. 0 \in Good
  <2>1. half(0, 0) = {} /\ half(0, 1) = {} /\ lead(0) = 0
    OBVIOUS
  <2>2. \A k \in 0..1 : k = 0 \/ k = 1
    OBVIOUS
  <2> HIDE DEF half, lead
  <2> QED
    BY <2>1, <2>2, FS_EmptySet
<1>2. ASSUME NEW n \in Nat, n \in Good
      PROVE  n + 1 \in Good
  <2> DEFINE x == a + n + 1
             w == (a + n) % 2
  <2>1. w \in 0..1 /\ (x - 1) % 2 = w
    <3>1. a + n \in Nat /\ x - 1 = a + n
      OBVIOUS
    <3> QED
      BY <3>1
  <2>2. half(n + 1, w) = half(n, w) \cup {x}
    BY <2>1
  <2>3. half(n + 1, 1 - w) = half(n, 1 - w)
    BY <2>1
  <2>4. x \notin half(n, w)
    OBVIOUS
  <2>5. w = 0 => lead(n + 1) = lead(n) + 1
    OBVIOUS
  <2>6. w = 1 => lead(n + 1) = lead(n) - 1
    OBVIOUS
  <2>7. lead(n) \in Int /\ lead(n + 1) \in Int
    OBVIOUS
  <2>8. /\ \A k \in 0..1 : IsFiniteSet(half(n, k))
        /\ Cardinality(half(n, 0)) = Cardinality(half(n, 1)) + lead(n)
    BY <1>2
  <2> HIDE DEF half, lead, x, w
  <2>9. \A k \in 0..1 : Cardinality(half(n, k)) \in Nat
    BY <2>8, FS_CardinalityType
  <2>10. /\ IsFiniteSet(half(n + 1, w)) /\ IsFiniteSet(half(n + 1, 1 - w))
         /\ Cardinality(half(n + 1, w)) = Cardinality(half(n, w)) + 1
         /\ Cardinality(half(n + 1, 1 - w)) = Cardinality(half(n, 1 - w))
    <3>1. w \in 0..1 /\ 1 - w \in 0..1
      BY <2>1
    <3> QED
      BY <2>2, <2>3, <2>4, <2>8, <3>1, FS_AddElement
  <2>11. CASE w = 0
    <3>1. 1 - w = 1
      BY <2>11
    <3>2. /\ IsFiniteSet(half(n + 1, 0)) /\ IsFiniteSet(half(n + 1, 1))
          /\ Cardinality(half(n + 1, 0)) = Cardinality(half(n, 0)) + 1
          /\ Cardinality(half(n + 1, 1)) = Cardinality(half(n, 1))
      BY <2>10, <2>11, <3>1
    <3>3. Cardinality(half(n + 1, 0)) = Cardinality(half(n + 1, 1)) + lead(n + 1)
      BY <2>5, <2>7, <2>8, <2>9, <2>11, <3>2
    <3> QED
      BY <3>2, <3>3
  <2>12. CASE w = 1
    <3>1. 1 - w = 0
      BY <2>12
    <3>2. /\ IsFiniteSet(half(n + 1, 0)) /\ IsFiniteSet(half(n + 1, 1))
          /\ Cardinality(half(n + 1, 1)) = Cardinality(half(n, 1)) + 1
          /\ Cardinality(half(n + 1, 0)) = Cardinality(half(n, 0))
      BY <2>10, <2>12, <3>1
    <3>3. Cardinality(half(n + 1, 0)) = Cardinality(half(n + 1, 1)) + lead(n + 1)
      BY <2>6, <2>7, <2>8, <2>9, <2>12, <3>2
    <3> QED
      BY <3>2, <3>3
  <2> QED
    BY <2>1, <2>11, <2>12
<1>3. Nat \subseteq Good
  <2> HIDE DEF Good
  <2> QED
    BY <1>1, <1>2, NatUpwards
<1>4. m \in Good
  BY <1>3
<1>5. lead(m) \in -1..1
  OBVIOUS
<1> HIDE DEF lead, half
<1>6. /\ IsFiniteSet(half(m, 0)) /\ IsFiniteSet(half(m, 1))
      /\ Cardinality(half(m, 0)) = Cardinality(half(m, 1)) + lead(m)
  <2>1. 0 \in 0..1 /\ 1 \in 0..1
    OBVIOUS
  <2> QED
    BY <1>4, <2>1
<1>7. Cardinality(half(m, 0)) - Cardinality(half(m, 1)) \in -1..1
  <2>1. Cardinality(half(m, 1)) \in Nat
    BY <1>6, FS_CardinalityType
  <2> QED
    BY <1>5, <1>6, <2>1
<1> QED
  BY <1>6, <1>7 DEF half

-----------------------------------------------------------------------------
(* The inductive invariant.                                                *)

\* The files of rows are left of the rows of the sources, in their order, and
\* the diet file of what the deduplication of all of them keeps, whichever
\* scripts died in between.
FilesTrace ==
  /\ raw \in DOMAIN Corpora
  /\ unified = NoFile \/ LeftOf(DOMAIN T, unified, Rows(T))
  /\ tagged = NoFile \/ LeftOf(DOMAIN T, tagged, Rows(T))
  /\ context = NoFile \/ LeftOf(DOMAIN T, context, Rows(T))
  /\ diet = NoFile \/ LeftOf(DOMAIN T, diet, Greedy(T))

\* A grounded prompt was made of a recipe that suits it, under the number that
\* recipe has in every version of the file it came from.
Numbered(R, template) ==
  IF template = "constraint_cooking" THEN Greedy(R) ELSE Rows(R)

GoodPrompts(R) ==
  {p \in Prompts : p.template \in Grounded =>
     /\ p.recipe \in DOMAIN R
     /\ Suits(p.template, p.dietary_preference, R[p.recipe])
     /\ p.recipe = Numbered(R, p.template)[p.grounding_row_id]}

PromptsGood ==
  prompts = NoFile \/ (prompts \in Seq(GoodPrompts(T) \cup {Torn}) /\ Len(prompts) <= N)

SharesNumbered ==
  \A k \in 0..1 : nodes[k] # NoFile => \A p \in nodes[k] : p.request_id \in 1..N

Counted ==
  /\ last.end \in {"done", "raised", "killed"}
  /\ builds \in 0..MaxBuilds /\ kills \in 0..MaxKills

\* What the script that ran last has done, if it came to its end.
DietIsNew ==
  Done("pass3") => /\ tagged # NoFile /\ ~IsTorn(tagged)
                   /\ ~Dedup(T, tagged).raised /\ diet = Dedup(T, tagged).kept

SharesAreNew ==
  Done("split_prompts") => prompts # NoFile /\ nodes = [k \in 0..1 |-> Share(k)]

IInv == /\ FilesTrace /\ PromptsGood /\ SharesNumbered
        /\ Counted /\ DietIsNew /\ SharesAreNew

LEMMA SourceOfRaw ==
  ASSUME raw \in DOMAIN Corpora
  PROVE  Source(T)
BY CorpusAssumption DEF Source, T

\* How a script ends.
LEMMA ScriptEnds ==
  ASSUME kills \in 0..MaxKills, NEW script,
         Killed(script) \/ \E end \in {"done", "raised"} : Ends(script, end)
  PROVE  /\ last' = [script |-> script, end |-> last'.end]
         /\ last'.end \in {"done", "raised", "killed"} /\ kills' \in 0..MaxKills
         /\ Killed(script) => last'.end = "killed"
<1>1. CASE Killed(script)
  <2>1. /\ kills < MaxKills /\ kills' = kills + 1
        /\ last' = [script |-> script, end |-> "killed"]
    BY <1>1 DEF Killed
  <2>2. kills' \in 0..MaxKills
    BY <2>1, PromptAssumption
  <2> QED
    BY <2>1, <2>2
<1>2. ASSUME NEW end \in {"done", "raised"}, Ends(script, end)
      PROVE  /\ last' = [script |-> script, end |-> last'.end] /\ last'.end = end
             /\ kills' \in 0..MaxKills
  BY <1>2 DEF Ends
<1>3. Killed(script) => last'.end = "killed"
  BY DEF Killed
<1> QED
  BY <1>1, <1>2, <1>3

LEMMA WritesEnds ==
  ASSUME NEW script, NEW f, NEW g, NEW raises, Writes(script, f, g, raises)
  PROVE  /\ Killed(script) \/ \E end \in {"done", "raised"} : Ends(script, end)
         /\ last' = [script |-> script, end |-> "done"] => f = g /\ ~raises
<1>1. CASE f = g /\ Ends(script, IF raises THEN "raised" ELSE "done")
  <2>1. CASE raises
    <3>1. Ends(script, "raised")
      BY <1>1, <2>1
    <3>2. last' # [script |-> script, end |-> "done"]
      BY <3>1 DEF Ends
    <3> QED
      BY <3>1, <3>2
  <2>2. CASE ~raises
    <3>1. Ends(script, "done")
      BY <1>1, <2>2
    <3> QED
      BY <1>1, <2>2, <3>1
  <2> QED
    BY <2>1, <2>2
<1>2. CASE f \in Cut(g) /\ Killed(script)
  <2>1. last' # [script |-> script, end |-> "done"]
    BY <1>2 DEF Killed
  <2> QED
    BY <1>2, <2>1
<1> QED
  BY <1>1, <1>2 DEF Writes

\* A script that is not the last has nothing to answer for.
LEMMA OthersAreNotDone ==
  ASSUME NEW script, last' = [script |-> script, end |-> last'.end]
  PROVE  /\ script # "pass3" => ~Done("pass3")'
         /\ script # "split_prompts" => ~Done("split_prompts")'
BY DEF Done

LEMMA StartsRight == Init => IInv
<1> SUFFICES ASSUME Init PROVE IInv
  OBVIOUS
<1>1. FilesTrace /\ PromptsGood
  BY DEF Init, FilesTrace, PromptsGood
<1>2. SharesNumbered
  BY DEF Init, SharesNumbered
<1>3. Counted
  BY PromptAssumption DEF Init, Counted
<1>4. DietIsNew /\ SharesAreNew
  BY DEF Init, Done, DietIsNew, SharesAreNew
<1> QED
  BY <1>1, <1>2, <1>3, <1>4 DEF IInv

-----------------------------------------------------------------------------
(* Each script keeps it.                                                   *)

LEMMA Pass1Keeps ==
  ASSUME IInv, Pass1
  PROVE  IInv'
<1>1. /\ Writes("pass1", unified', Rows(T), FALSE)
      /\ UNCHANGED <<raw, tagged, context, diet, prompts, nodes, builds>>
  BY DEF Pass1, Rows
<1>2. T' = T
  BY <1>1 DEF T
<1>3. Source(T)
  BY SourceOfRaw DEF IInv, FilesTrace
<1>4. LeftOf(DOMAIN T, unified', Rows(T))
  BY <1>1, <1>3, SourceRows, WritesLeaves
<1>5. FilesTrace'
  BY <1>1, <1>2, <1>4 DEF IInv, FilesTrace
<1>6. PromptsGood' /\ SharesNumbered'
  BY <1>1, <1>2 DEF IInv, PromptsGood, SharesNumbered
<1>7. /\ last' = [script |-> "pass1", end |-> last'.end]
      /\ last'.end \in {"done", "raised", "killed"} /\ kills' \in 0..MaxKills
  BY <1>1, WritesEnds, ScriptEnds DEF IInv, Counted
<1>8. Counted'
  BY <1>1, <1>7 DEF IInv, Counted
<1>9. DietIsNew' /\ SharesAreNew'
  BY <1>7, OthersAreNotDone DEF DietIsNew, SharesAreNew
<1> QED
  BY <1>5, <1>6, <1>8, <1>9 DEF IInv

LEMMA Pass2Keeps ==
  ASSUME IInv, Pass2
  PROVE  IInv'
<1> DEFINE rows == Readable(unified)
<1>1. /\ unified # NoFile /\ Writes("pass2", tagged', rows, IsTorn(unified))
      /\ UNCHANGED <<raw, unified, context, diet, prompts, nodes, builds>>
  BY DEF Pass2
<1>2. T' = T
  BY <1>1 DEF T
<1>3. Source(T)
  BY SourceOfRaw DEF IInv, FilesTrace
<1>4. FirstPart(DOMAIN T, rows, Rows(T))
  <2>1. Torn \notin DOMAIN T /\ Rows(T) \in Seq(DOMAIN T)
    BY <1>3, SourceRows DEF Source
  <2>2. LeftOf(DOMAIN T, unified, Rows(T))
    BY <1>1 DEF IInv, FilesTrace
  <2> QED
    BY <2>1, <2>2, ReadableIsWhole
<1> HIDE DEF rows
<1>5. LeftOf(DOMAIN T, tagged', Rows(T))
  <2>1. rows \in Seq(DOMAIN T)
    BY <1>4 DEF FirstPart
  <2>2. LeftOf(DOMAIN T, tagged', rows)
    BY <1>1, <2>1, WritesLeaves
  <2> QED
    BY <1>4, <2>2, LeftOfMore
<1>6. FilesTrace'
  BY <1>1, <1>2, <1>5 DEF IInv, FilesTrace
<1>7. PromptsGood' /\ SharesNumbered'
  BY <1>1, <1>2 DEF IInv, PromptsGood, SharesNumbered
<1>8. /\ last' = [script |-> "pass2", end |-> last'.end]
      /\ last'.end \in {"done", "raised", "killed"} /\ kills' \in 0..MaxKills
  BY <1>1, WritesEnds, ScriptEnds DEF IInv, Counted
<1>9. Counted'
  BY <1>1, <1>8 DEF IInv, Counted
<1>10. DietIsNew' /\ SharesAreNew'
  BY <1>8, OthersAreNotDone DEF DietIsNew, SharesAreNew
<1> QED
  BY <1>6, <1>7, <1>9, <1>10 DEF IInv

LEMMA Pass3Keeps ==
  ASSUME IInv, Pass3
  PROVE  IInv'
<1> DEFINE rows  == Readable(tagged)
           dedup == Dedup(T, rows)
<1>1. /\ tagged # NoFile
      /\ UNCHANGED <<raw, unified, tagged, prompts, nodes, builds>>
  BY DEF Pass3
<1>2. \/ IsTorn(tagged) /\ context' = rows /\ Ends("pass3", "raised") /\ UNCHANGED diet
      \/ context' \in Cut(rows) /\ Killed("pass3") /\ UNCHANGED diet
      \/ /\ ~IsTorn(tagged) /\ context' = rows
         /\ Writes("pass3", diet', dedup.kept, dedup.raised)
  BY DEF Pass3
<1>3. T' = T
  BY <1>1 DEF T
<1>4. Source(T)
  BY SourceOfRaw DEF IInv, FilesTrace
<1>5. FirstPart(DOMAIN T, rows, Rows(T))
  <2>1. Torn \notin DOMAIN T /\ Rows(T) \in Seq(DOMAIN T)
    BY <1>4, SourceRows DEF Source
  <2>2. LeftOf(DOMAIN T, tagged, Rows(T))
    BY <1>1 DEF IInv, FilesTrace
  <2> QED
    BY <2>1, <2>2, ReadableIsWhole
<1>6. ~IsTorn(tagged) => rows = tagged
  BY DEF Readable
<1> HIDE DEF rows
<1>7. FirstPart(DOMAIN T, dedup.kept, Greedy(T))
  BY <1>4, <1>5, DedupOfFirst
<1>8. LeftOf(DOMAIN T, context', Rows(T))
  <2>1. rows \in Seq(DOMAIN T)
    BY <1>5 DEF FirstPart
  <2>2. context' = rows \/ context' \in Cut(rows)
    BY <1>2
  <2>3. LeftOf(DOMAIN T, context', rows)
    <3>1. CASE context' = rows
      <4>1. rows \in Seq(DOMAIN T \cup {Torn}) /\ Len(rows) \in Nat
        BY <2>1
      <4> QED
        BY <3>1, <4>1 DEF LeftOf
    <3> QED
      BY <2>1, <2>2, <3>1, CutLeaves
  <2> QED
    BY <1>5, <2>3, LeftOfMore
<1>9. diet' = diet \/ LeftOf(DOMAIN T, diet', Greedy(T))
  <2>1. CASE UNCHANGED diet
    BY <2>1
  <2>2. CASE Writes("pass3", diet', dedup.kept, dedup.raised)
    <3>1. dedup.kept \in Seq(DOMAIN T)
      BY <1>7 DEF FirstPart
    <3> HIDE DEF dedup
    <3>2. LeftOf(DOMAIN T, diet', dedup.kept)
      BY <2>2, <3>1, WritesLeaves
    <3> QED
      BY <1>7, <3>2, LeftOfMore
  <2> QED
    BY <1>2, <2>1, <2>2
<1>10. FilesTrace'
  BY <1>1, <1>3, <1>8, <1>9 DEF IInv, FilesTrace
<1>11. PromptsGood' /\ SharesNumbered'
  BY <1>1, <1>3 DEF IInv, PromptsGood, SharesNumbered
<1>12. /\ last' = [script |-> "pass3", end |-> last'.end]
       /\ last'.end \in {"done", "raised", "killed"} /\ kills' \in 0..MaxKills
  <2>1. Killed("pass3") \/ \E end \in {"done", "raised"} : Ends("pass3", end)
    BY <1>2, WritesEnds
  <2> QED
    BY <2>1, ScriptEnds DEF IInv, Counted
<1>13. Counted'
  BY <1>1, <1>12 DEF IInv, Counted
<1>14. DietIsNew'
  <2> SUFFICES ASSUME last' = [script |-> "pass3", end |-> "done"]
               PROVE  /\ tagged # NoFile /\ ~IsTorn(tagged)
                      /\ ~Dedup(T, tagged).raised /\ diet' = Dedup(T, tagged).kept
    BY <1>1, <1>3 DEF DietIsNew, Done
  <2>1. ~Ends("pass3", "raised") /\ ~Killed("pass3")
    BY DEF Ends, Killed
  <2>2. ~IsTorn(tagged) /\ Writes("pass3", diet', dedup.kept, dedup.raised)
    BY <1>2, <2>1
  <2>3. diet' = dedup.kept /\ ~dedup.raised
    BY <2>2, WritesEnds
  <2> QED
    BY <1>1, <1>6, <2>2, <2>3
<1>15. SharesAreNew'
  BY <1>12, OthersAreNotDone DEF SharesAreNew
<1> QED
  BY <1>10, <1>11, <1>13, <1>14, <1>15 DEF IInv

\* A row that is read from a file that is not torn is the one of its number.
LEMMA GroundRow ==
  ASSUME IInv, NoFile \notin {context, diet}, ~IsTorn(context), ~IsTorn(diet),
         NEW template, NEW n \in DOMAIN GroundFile(template)
  PROVE  LET file == GroundFile(template)
         IN  /\ n \in Nat /\ file[n] \in DOMAIN T
             /\ file[n] = Numbered(T, template)[n]
<1> DEFINE file == GroundFile(template)
           g    == Numbered(T, template)
<1>1. Source(T)
  BY SourceOfRaw DEF IInv, FilesTrace
<1>2. Torn \notin DOMAIN T /\ g \in Seq(DOMAIN T)
  BY <1>1, SourceRows DEF Source, Numbered
<1>3. LeftOf(DOMAIN T, file, g) /\ ~IsTorn(file)
  BY DEF IInv, FilesTrace, GroundFile, Numbered
<1> HIDE DEF file, g
<1>4. \A i \in 1..Len(file) : i \in 1..Len(g) /\ file[i] = g[i]
  BY <1>2, <1>3, ReadableIsWhole
<1>5. n \in 1..Len(file)
  <2>1. file \in Seq(DOMAIN T \cup {Torn}) /\ n \in DOMAIN file
    BY <1>3 DEF LeftOf, file
  <2> QED
    BY <2>1
<1>6. n \in Nat /\ file[n] = g[n] /\ g[n] \in DOMAIN T
  BY <1>2, <1>4, <1>5
<1> QED
  BY <1>6 DEF file, g

LEMMA DrawnAreGood ==
  ASSUME IInv, NoFile \notin {context, diet}, ~IsTorn(context), ~IsTorn(diet),
         NEW template \in BaseTemplates \cup IndianTemplates, NEW d \in Diets
  PROVE  Drawn(template, d) \subseteq GoodPrompts(T)
<1> DEFINE file == GroundFile(template)
           P(index, recipe) ==
             [template |-> template, dietary_preference |-> d,
              grounding_row_id |-> index, recipe |-> recipe]
<1>1. CASE template \in Grounded
  <2>1. Drawn(template, d) = {P(n, file[n]) : n \in Pool(T, file, template, d)}
    BY <1>1 DEF Drawn, OrigIdx
  <2>2. ASSUME NEW n \in Pool(T, file, template, d)
        PROVE  P(n, file[n]) \in GoodPrompts(T)
    <3>1. n \in DOMAIN file /\ Suits(template, d, T[file[n]])
      BY <2>2 DEF Pool
    <3>2. /\ n \in Nat /\ file[n] \in DOMAIN T
          /\ file[n] = Numbered(T, template)[n]
      BY <3>1, GroundRow
    <3>3. file[n] \in Nat
      BY <3>2, SourceOfRaw, SourceRows DEF IInv, FilesTrace
    <3> HIDE DEF file
    <3>4. P(n, file[n]) \in Prompts
      BY <3>2, <3>3 DEF Prompts
    <3> QED
      BY <3>1, <3>2, <3>4 DEF GoodPrompts
  <2> QED
    BY <2>1, <2>2
<1>2. CASE template \notin Grounded
  <2>1. Drawn(template, d) = {P(0, 0)}
    BY <1>2 DEF Drawn
  <2>2. P(0, 0) \in Prompts
    BY DEF Prompts
  <2>3. P(0, 0) \in GoodPrompts(T)
    BY <1>2, <2>2 DEF GoodPrompts
  <2> QED
    BY <2>1, <2>3
<1> QED
  BY <1>1, <1>2

LEMMA BuildKeeps ==
  ASSUME IInv, BuildPrompts
  PROVE  IInv'
<1>1. /\ builds < MaxBuilds /\ builds' = builds + 1
      /\ NoFile \notin {context, diet} /\ ~IsTorn(context) /\ ~IsTorn(diet)
      /\ UNCHANGED <<raw, unified, tagged, context, diet, nodes>>
  BY DEF BuildPrompts
<1>2. PICK base \in [1..(N - NIndian) -> Draws(BaseTemplates)],
           indian \in [1..NIndian -> Draws(IndianTemplates)] :
        Writes("build_prompts", prompts', base \o indian, FALSE)
  BY DEF BuildPrompts
<1>3. T' = T
  BY <1>1 DEF T
<1> DEFINE good == GoodPrompts(T)
<1>4. Draws(BaseTemplates) \subseteq good /\ Draws(IndianTemplates) \subseteq good
  <2>1. \A t \in BaseTemplates \cup IndianTemplates, d \in Diets :
          Drawn(t, d) \subseteq good
    BY <1>1, DrawnAreGood
  <2> HIDE DEF good
  <2>2. ASSUME NEW ts \in SUBSET (BaseTemplates \cup IndianTemplates), NEW p \in Draws(ts)
        PROVE  p \in good
    <3>1. PICK t \in ts, d \in Diets : p \in Drawn(t, d)
      BY <2>2 DEF Draws
    <3> QED
      BY <2>1, <3>1
  <2> QED
    BY <2>2
<1> HIDE DEF good
<1>5. base \o indian \in Seq(good) /\ Len(base \o indian) = N
  <2>1. N - NIndian \in Nat /\ NIndian \in Nat /\ N \in Nat
    BY PromptAssumption
  <2>2. base \in [1..(N - NIndian) -> good] /\ indian \in [1..NIndian -> good]
    BY <1>2, <1>4
  <2>3. /\ base \in Seq(good) /\ Len(base) = N - NIndian
        /\ indian \in Seq(good) /\ Len(indian) = NIndian
    BY <2>1, <2>2
  <2> QED
    BY <2>1, <2>3
<1>6. LeftOf(good, prompts', base \o indian)
  BY <1>2, <1>5, WritesLeaves
<1>7. PromptsGood'
  BY <1>3, <1>5, <1>6 DEF PromptsGood, LeftOf, good
<1>8. FilesTrace'
  BY <1>1, <1>3 DEF IInv, FilesTrace
<1>9. SharesNumbered'
  BY <1>1 DEF IInv, SharesNumbered
<1>10. /\ last' = [script |-> "build_prompts", end |-> last'.end]
       /\ last'.end \in {"done", "raised", "killed"} /\ kills' \in 0..MaxKills
  BY <1>2, WritesEnds, ScriptEnds DEF IInv, Counted
<1>11. Counted'
  BY <1>1, <1>10, PromptAssumption DEF IInv, Counted
<1>12. DietIsNew' /\ SharesAreNew'
  BY <1>10, OthersAreNotDone DEF DietIsNew, SharesAreNew
<1> QED
  BY <1>7, <1>8, <1>9, <1>11, <1>12 DEF IInv

LEMMA SplitKeeps ==
  ASSUME IInv, SplitPrompts
  PROVE  IInv'
<1>1. /\ prompts # NoFile
      /\ UNCHANGED <<raw, unified, tagged, context, diet, prompts, builds>>
  BY DEF SplitPrompts
<1>2. \/ nodes' = [k \in 0..1 |-> Share(k)] /\ Ends("split_prompts", "done")
      \/ /\ \E n, m \in CutAt : nodes' =
              [k \in 0..1 |-> {p \in Share(k) :
                                 p.request_id <= IF k = 0 THEN n ELSE m}]
         /\ Killed("split_prompts")
  BY DEF SplitPrompts
<1>3. T' = T
  BY <1>1 DEF T
<1>4. FilesTrace'
  BY <1>1, <1>3 DEF IInv, FilesTrace
<1>5. PromptsGood'
  BY <1>1, <1>3 DEF IInv, PromptsGood
<1>6. SharesNumbered'
  <2>1. DOMAIN prompts = 1..Len(prompts) /\ Len(prompts) \in Nat /\ Len(prompts) <= N
    BY <1>1 DEF IInv, PromptsGood
  <2>2. \A k \in 0..1 : \A p \in Share(k) : p.request_id \in 1..N
    BY <2>1, PromptAssumption DEF Share, RequestId
  <2>3. \A k \in 0..1 : nodes'[k] \subseteq Share(k)
    BY <1>2
  <2> QED
    BY <2>2, <2>3 DEF SharesNumbered
<1>7. /\ last' = [script |-> "split_prompts", end |-> last'.end]
      /\ last'.end \in {"done", "raised", "killed"} /\ kills' \in 0..MaxKills
  <2>1. Killed("split_prompts") \/ \E end \in {"done", "raised"} : Ends("split_prompts", end)
    BY <1>2
  <2> QED
    BY <2>1, ScriptEnds DEF IInv, Counted
<1>8. Counted'
  BY <1>1, <1>7 DEF IInv, Counted
<1>9. DietIsNew'
  BY <1>7, OthersAreNotDone DEF DietIsNew
<1>10. SharesAreNew'
  <2> SUFFICES ASSUME last' = [script |-> "split_prompts", end |-> "done"]
               PROVE  nodes' = [k \in 0..1 |-> Share(k)']
    BY <1>1 DEF SharesAreNew, Done
  <2>1. ~Killed("split_prompts")
    BY DEF Killed
  <2>2. \A k \in 0..1 : Share(k)' = Share(k)
    BY <1>1 DEF Share
  <2> QED
    BY <1>2, <2>1, <2>2
<1> QED
  BY <1>4, <1>5, <1>6, <1>8, <1>9, <1>10 DEF IInv

LEMMA StutterKeeps ==
  ASSUME IInv, UNCHANGED vars
  PROVE  IInv'
<1>1. T' = T
  BY DEF vars, T
<1>2. FilesTrace' /\ PromptsGood' /\ SharesNumbered' /\ Counted'
  BY <1>1 DEF IInv, vars, FilesTrace, PromptsGood, SharesNumbered, Counted
<1>3. DietIsNew'
  BY <1>1 DEF IInv, vars, DietIsNew, Done
<1>4. SharesAreNew'
  <2>1. \A k \in 0..1 : Share(k)' = Share(k)
    BY DEF vars, Share
  <2> QED
    BY <2>1 DEF IInv, vars, SharesAreNew, Done
<1> QED
  BY <1>2, <1>3, <1>4 DEF IInv

\* Whatever the operator runs and whichever scripts are killed, the files trace
\* back to the rows of the sources.
THEOREM PipelineInvariant == Spec => []IInv
<1>1. Init => IInv
  BY StartsRight
<1>2. IInv /\ [Next]_vars => IInv'
  BY Pass1Keeps, Pass2Keeps, Pass3Keeps, BuildKeeps, SplitKeeps, StutterKeeps DEF Next
<1> QED
  BY <1>1, <1>2, PTL DEF Spec

-----------------------------------------------------------------------------
(* What it gives.                                                          *)

LEMMA SourcesTyped ==
  ASSUME IInv
  PROVE  /\ Source(T) /\ Torn \notin DOMAIN T
         /\ Rows(T) \in Seq(DOMAIN T) /\ Greedy(T) \in Seq(DOMAIN T)
BY SourceOfRaw, SourceRows DEF IInv, FilesTrace, Source

\* Types: the files hold numbers of rows, prompts, and maybe a torn line.
THEOREM TypesAreKept == Spec => []TypeOK
<1>1. IInv => TypeOK
  <2> SUFFICES ASSUME IInv PROVE TypeOK
    OBVIOUS
  <2>1. \A f \in {unified, tagged, context, diet} : f \in File(DOMAIN T)
    BY DEF IInv, FilesTrace, LeftOf, File
  <2>2. prompts \in File(Prompts)
    <3>1. GoodPrompts(T) \cup {Torn} \subseteq Prompts \cup {Torn}
      BY DEF GoodPrompts
    <3>2. Seq(GoodPrompts(T) \cup {Torn}) \subseteq Seq(Prompts \cup {Torn})
      BY <3>1
    <3> QED
      BY <3>2 DEF IInv, PromptsGood, File
  <2> QED
    BY <2>1, <2>2 DEF IInv, FilesTrace, SharesNumbered, Counted, TypeOK
<1> QED
  BY <1>1, PipelineInvariant, PTL

\* No two recipes of the diet file are near-duplicates, although it may be
\* what scripts that were killed have left: it is a first part of what is kept
\* of all rows, each compared with the ones kept before it (pass 3).
THEOREM DietHasNoNearDuplicates == Spec => []NoNearDuplicates
<1>1. IInv => NoNearDuplicates
  <2> SUFFICES ASSUME IInv, diet # NoFile,
                      NEW i \in DOMAIN diet, NEW j \in DOMAIN diet,
                      i < j, Torn \notin {diet[i], diet[j]}
               PROVE  ~Near(T[diet[i]].signature, T[diet[j]].signature)
    BY DEF NoNearDuplicates
  <2> DEFINE g == Greedy(T)
  <2>1. LeftOf(DOMAIN T, diet, g)
    BY DEF IInv, FilesTrace
  <2>2. \A x, y \in 1..Len(g) : x < y => ~Near(T[g[x]].signature, T[g[y]].signature)
    BY SourcesTyped, KeptApart DEF Greedy
  <2>3. g \in Seq(DOMAIN T)
    BY SourcesTyped
  <2> HIDE DEF g
  <2>4. i \in 1..Len(g) /\ j \in 1..Len(g) /\ diet[i] = g[i] /\ diet[j] = g[j]
    <3>1. diet \in Seq(DOMAIN T \cup {Torn}) /\ Len(diet) <= Len(g)
      BY <2>1 DEF LeftOf
    <3>2. i \in 1..Len(diet) /\ j \in 1..Len(diet) /\ Len(g) \in Nat
      BY <2>3, <3>1
    <3> QED
      BY <2>1, <3>1, <3>2 DEF LeftOf
  <2> QED
    BY <2>2, <2>4
<1> QED
  BY <1>1, PipelineInvariant, PTL

\* A pass 3 that ends drops a recipe only for an earlier one that is kept and
\* is its near-duplicate.
THEOREM DroppedAreRepresented == Spec => []DroppedIsRepresented
<1>1. IInv => DroppedIsRepresented
  <2> SUFFICES ASSUME IInv, Done("pass3"),
                      NEW i \in DOMAIN tagged, IsCandidate(T[tagged[i]])
               PROVE  \/ tagged[i] \in Range(diet)
                      \/ \E j \in 1..(i - 1) :
                           /\ tagged[j] \in Range(diet)
                           /\ Near(T[tagged[j]].signature, T[tagged[i]].signature)
    BY DEF DroppedIsRepresented
  <2>1. /\ tagged # NoFile /\ ~IsTorn(tagged)
        /\ ~Dedup(T, tagged).raised /\ diet = Dedup(T, tagged).kept
    BY DEF IInv, DietIsNew
  <2>2. FirstPart(DOMAIN T, Readable(tagged), Rows(T))
    BY <2>1, SourcesTyped, ReadableIsWhole DEF IInv, FilesTrace
  <2>3. tagged \in Seq(DOMAIN T)
    BY <2>1, <2>2 DEF Readable, FirstPart
  <2>4. i \in 1..Len(tagged)
    BY <2>3
  <2> QED
    BY <2>1, <2>3, <2>4, KeptRepresents
<1> QED
  BY <1>1, PipelineInvariant, PTL

\* What a prompt asks for can be done with its recipe, whatever files a dead
\* script left behind for build_prompts.py.
THEOREM PromptsFit == Spec => []PromptsFitTheirDiet
<1>1. IInv => PromptsFitTheirDiet
  <2> SUFFICES ASSUME IInv, prompts # NoFile,
                      NEW i \in DOMAIN prompts, prompts[i] # Torn
               PROVE  LET p == prompts[i]
                      IN  /\ p.template = "constraint_cooking"
                               => ~Offends(p.recipe, p.dietary_preference)
                          /\ p.template = "adaptation"
                               => Offends(p.recipe, p.dietary_preference)
    BY DEF PromptsFitTheirDiet
  <2> DEFINE p == prompts[i]
  <2>1. p \in GoodPrompts(T)
    BY DEF IInv, PromptsGood
  <2> HIDE DEF p
  <2>2. p.dietary_preference \in Diets
    BY <2>1 DEF GoodPrompts, Prompts
  <2>3. p.template \in Grounded =>
          /\ p.recipe \in DOMAIN T
          /\ Suits(p.template, p.dietary_preference, T[p.recipe])
    BY <2>1 DEF GoodPrompts
  <2>4. raw \in DOMAIN Corpora
    BY DEF IInv, FilesTrace
  <2>5. CASE p.template = "constraint_cooking"
    BY <2>2, <2>3, <2>4, <2>5, SuitedFits DEF Grounded, p
  <2>6. CASE p.template = "adaptation"
    BY <2>2, <2>3, <2>4, <2>6, SuitedFits DEF Grounded, p
  <2> QED
    BY <2>5, <2>6 DEF p
<1> QED
  BY <1>1, PipelineInvariant, PTL

\* A grounding_row_id points to the recipe of its prompt in every version of
\* the file that has the row: later ones are other first parts of the same.
THEOREM PointersStayValid == Spec => []PointersTrace
<1>1. IInv => PointersTrace
  <2> SUFFICES ASSUME IInv, prompts # NoFile,
                      NEW i \in DOMAIN prompts, prompts[i] # Torn,
                      prompts[i].template \in Grounded,
                      GroundFile(prompts[i].template) # NoFile,
                      prompts[i].grounding_row_id
                        \in DOMAIN GroundFile(prompts[i].template),
                      GroundFile(prompts[i].template)[prompts[i].grounding_row_id]
                        # Torn
               PROVE  GroundFile(prompts[i].template)[prompts[i].grounding_row_id]
                        = prompts[i].recipe
    BY DEF PointersTrace
  <2> DEFINE p    == prompts[i]
             file == GroundFile(p.template)
             g    == Numbered(T, p.template)
             n    == p.grounding_row_id
  <2>1. p \in GoodPrompts(T)
    BY DEF IInv, PromptsGood
  <2>2. p.recipe = g[n]
    BY <2>1 DEF GoodPrompts
  <2>3. LeftOf(DOMAIN T, file, g)
    BY DEF IInv, FilesTrace, GroundFile, Numbered
  <2>4. n \in DOMAIN file /\ file[n] # Torn
    OBVIOUS
  <2> HIDE DEF p, file, g, n
  <2>5. n \in 1..Len(file)
    BY <2>3, <2>4 DEF LeftOf
  <2>6. file[n] = g[n]
    BY <2>3, <2>4, <2>5 DEF LeftOf
  <2> QED
    BY <2>2, <2>6 DEF p, file, n
<1> QED
  BY <1>1, PipelineInvariant, PTL

\* A split that ends gives every prompt of the file to exactly one node, with
\* the request_id it has in the file, and each node its half of the base
\* prompts and of the Indian ones, give or take one (split_prompts.py).
THEOREM SplitsAreFair == Spec => []SplitIsFair
<1>1. IInv => SplitIsFair
  <2> SUFFICES ASSUME IInv, Done("split_prompts") PROVE SplitIsFair
    BY DEF SplitIsFair
  <2> DEFINE n == Len(prompts)
             a == N - NIndian
             Ids(k) == {p.request_id : p \in nodes[k]}
             mine(k) == {i \in 1..n : (i - 1) % 2 = k}
             Fair(S) == Cardinality(Ids(0) \cap S) - Cardinality(Ids(1) \cap S)
                          \in -1..1
  <2>1. prompts # NoFile /\ nodes = [k \in 0..1 |-> Share(k)]
    BY DEF IInv, SharesAreNew
  <2>2. n \in Nat /\ DOMAIN prompts = 1..n /\ n <= N
    BY <2>1 DEF IInv, PromptsGood
  <2>3. a \in Nat /\ a <= N /\ N \in Nat
    BY PromptAssumption
  <2>4. \A k \in 0..1 : Ids(k) = mine(k)
    <3> SUFFICES ASSUME NEW k \in 0..1 PROVE Ids(k) = mine(k)
      OBVIOUS
    <3>1. nodes[k] = {[request_id |-> i, line |-> prompts[i]] : i \in mine(k)}
      BY <2>1, <2>2 DEF Share, NodeOf, RequestId
    <3> HIDE DEF mine
    <3>2. Ids(k) \subseteq mine(k)
      BY <3>1
    <3>3. ASSUME NEW i \in mine(k)
          PROVE  i \in Ids(k)
      <4> DEFINE p == [request_id |-> i, line |-> prompts[i]]
      <4>1. p \in nodes[k] /\ p.request_id = i
        BY <3>1
      <4> QED
        BY <4>1
    <3> QED
      BY <3>2, <3>3
  <2>5. Ids(0) = mine(0) /\ Ids(1) = mine(1)
    BY <2>4
  <2> HIDE DEF n, a, Ids
  <2>6. mine(0) \cap mine(1) = {} /\ mine(0) \cup mine(1) = 1..n
    BY <2>2
  <2>7. ASSUME NEW b \in Nat, NEW c \in Nat, b <= c, c <= n, NEW S,
               S \cap (1..n) = (b + 1)..c
        PROVE  Fair(S)
    <3> DEFINE half(k) == {i \in (b + 1)..(b + (c - b)) : (i - 1) % 2 = k}
    <3>1. c - b \in Nat /\ b + (c - b) = c
      BY <2>7
    <3>2. Cardinality(half(0)) - Cardinality(half(1)) \in -1..1
      BY <3>1, HalvesDiffer
    <3>3. \A k \in 0..1 : mine(k) \cap S = half(k)
      BY <2>7, <3>1
    <3>4. mine(0) \cap S = half(0) /\ mine(1) \cap S = half(1)
      BY <3>3
    <3> HIDE DEF mine, half
    <3> QED
      BY <2>5, <3>2, <3>4
  <2>8. Fair(1..a)
    <3>1. CASE a <= n
      <4>1. (1..a) \cap (1..n) = (0 + 1)..a /\ 0 \in Nat /\ 0 <= a
        BY <2>2, <2>3, <3>1
      <4> QED
        BY <2>3, <2>7, <3>1, <4>1
    <3>2. CASE ~(a <= n)
      <4>1. (1..a) \cap (1..n) = (0 + 1)..n /\ 0 <= n /\ n <= n
        BY <2>2, <2>3, <3>2
      <4> QED
        BY <2>2, <2>7, <4>1
    <3> QED
      BY <3>1, <3>2
  <2>9. Fair((a + 1)..N)
    <3>1. CASE a <= n
      <4>1. ((a + 1)..N) \cap (1..n) = (a + 1)..n /\ n <= n
        BY <2>2, <2>3, <3>1
      <4> QED
        BY <2>2, <2>3, <2>7, <3>1, <4>1
    <3>2. CASE ~(a <= n)
      <4>1. ((a + 1)..N) \cap (1..n) = (n + 1)..n /\ n <= n
        BY <2>2, <2>3, <3>2
      <4> QED
        BY <2>2, <2>7, <4>1
    <3> QED
      BY <3>1, <3>2
  <2>10. Ids(0) \cap Ids(1) = {} /\ Ids(0) \cup Ids(1) = DOMAIN prompts
    BY <2>2, <2>5, <2>6
  <2>11. ASSUME NEW k \in 0..1, NEW p \in nodes[k]
         PROVE  p.line = prompts[p.request_id]
    BY <2>1 DEF Share, RequestId
  <2>12. Fair(1..(N - NIndian)) /\ Fair((N - NIndian + 1)..N)
    <3> HIDE DEF Fair
    <3> QED
      BY <2>8, <2>9 DEF a
  <2> QED
    BY <2>10, <2>11, <2>12 DEF SplitIsFair, Ids
<1> QED
  BY <1>1, PipelineInvariant, PTL
=============================================================================
