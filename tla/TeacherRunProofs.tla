-------------------------- MODULE TeacherRunProofs --------------------------
(***************************************************************************)
(* Proofs about TeacherRun, for any number of prompts, processes and       *)
(* faults and any size of chunk and buffer: as long as no two generates    *)
(* overlap, no prompt is answered twice and only kills spoil lines; a      *)
(* first run without a kill, an abandoned generate or a server that did    *)
(* not come up covers its prompts; every variable has its type; and a run  *)
(* that reports COMPLETE added lines in every second chunk it counted.     *)
(***************************************************************************)
EXTENDS TeacherRun, DataInduction

LEMMA Remainder ==
  ASSUME NEW x \in Int, NEW n \in Nat \ {0}
  PROVE  x % n \in 0..(n - 1)
OBVIOUS

LEMMA Parameters ==
  /\ NumPrompts \in Nat /\ MaxGens \in Nat
  /\ FlushEvery \in Nat \ {0}
BY TeacherRunAssumption DEF TeacherRunAssumption

-----------------------------------------------------------------------------
(* The inductive invariant.                                                *)

OutputType == answers \in [Prompts -> Nat] /\ errors \in [Prompts -> Nat]
GensType   == gens \in [Gens -> Process] /\ overlapped \in BOOLEAN

\* The prompts a buffer has rows of, and those process q will write or has
\* yet to write a row of.
Ids(b)  == {b[i].id : i \in 1..Len(b)}
Held(q) == q.todo \cup q.flight \cup Ids(q.buffer)

Distinct(b) == \A i, j \in 1..Len(b) : b[i].id = b[j].id => i = j

\* A process has each of its prompts in one place.
Apart(q) ==
  /\ q.todo \cap q.flight = {}
  /\ (q.todo \cup q.flight) \cap Ids(q.buffer) = {}
  /\ Distinct(q.buffer)

\* Without an overlap one process writes, and none of the prompts it holds
\* has a line.
SoleWriter ==
  ~overlapped => \A g \in Gens : gens[g].alive =>
    /\ \A h \in Gens : gens[h].alive => h = g
    /\ Apart(gens[g])
    /\ \A p \in Held(gens[g]) : answers[p] + errors[p] = 0

LinesOnce == ~overlapped => \A p \in Prompts : answers[p] + errors[p] <= 1

OnceInv == OutputType /\ GensType /\ SoleWriter /\ LinesOnce

-----------------------------------------------------------------------------
(* Buffers.                                                                *)

LEMMA RowOfBuffer ==
  ASSUME NEW b \in Seq(Row), NEW i \in 1..Len(b)
  PROVE  b[i] \in Row /\ b[i].id \in Prompts /\ b[i].ok \in BOOLEAN
<1>1. b[i] \in Row
  OBVIOUS
<1> QED
  BY <1>1 DEF Row

\* A row is appended.
LEMMA AppendedRow ==
  ASSUME NEW b \in Seq(Row), NEW r \in Row
  PROVE  /\ Append(b, r) \in Seq(Row) /\ Len(Append(b, r)) = Len(b) + 1
         /\ Ids(Append(b, r)) \subseteq Ids(b) \cup {r.id}
         /\ Distinct(b) /\ r.id \notin Ids(b) => Distinct(Append(b, r))
<1> DEFINE c == Append(b, r)
<1>1. /\ c \in Seq(Row) /\ Len(c) = Len(b) + 1 /\ Len(b) \in Nat
      /\ c[Len(b) + 1] = r
      /\ \A i \in 1..Len(b) : c[i] = b[i]
  OBVIOUS
<1> HIDE DEF c
<1>2. Ids(c) \subseteq Ids(b) \cup {r.id}
  <2> SUFFICES ASSUME NEW i \in 1..Len(c)
               PROVE  c[i].id \in Ids(b) \cup {r.id}
    BY DEF Ids
  <2>1. i \in 1..Len(b) \/ i = Len(b) + 1
    BY <1>1
  <2> QED
    BY <1>1, <2>1 DEF Ids
<1>3. ASSUME Distinct(b), r.id \notin Ids(b)
      PROVE  Distinct(c)
  <2> SUFFICES ASSUME NEW i \in 1..Len(c), NEW j \in 1..Len(c),
                      c[i].id = c[j].id
               PROVE  i = j
    BY DEF Distinct
  <2>1. (i \in 1..Len(b) \/ i = Len(b) + 1) /\ (j \in 1..Len(b) \/ j = Len(b) + 1)
    BY <1>1
  <2>2. CASE i \in 1..Len(b) /\ j \in 1..Len(b)
    BY <1>1, <1>3, <2>2 DEF Distinct
  <2>3. CASE i = Len(b) + 1 /\ j \in 1..Len(b)
    <3>1. r.id = b[j].id
      BY <1>1, <2>3
    <3> QED
      BY <1>3, <2>3, <3>1 DEF Ids
  <2>4. CASE j = Len(b) + 1 /\ i \in 1..Len(b)
    <3>1. r.id = b[i].id
      BY <1>1, <2>4
    <3> QED
      BY <1>3, <2>4, <3>1 DEF Ids
  <2> QED
    BY <2>1, <2>2, <2>3, <2>4
<1> QED
  BY <1>1, <1>2, <1>3 DEF c

\* The first n rows are taken off.
LEMMA RestOfBuffer ==
  ASSUME NEW b \in Seq(Row), NEW n \in 0..Len(b)
  PROVE  /\ SubSeq(b, n + 1, Len(b)) \in Seq(Row)
         /\ Ids(SubSeq(b, n + 1, Len(b))) \subseteq Ids(b)
         /\ Distinct(b) =>
              /\ Distinct(SubSeq(b, n + 1, Len(b)))
              /\ \A i \in 1..n : b[i].id \notin Ids(SubSeq(b, n + 1, Len(b)))
<1> DEFINE c == SubSeq(b, n + 1, Len(b))
<1>1. /\ c \in Seq(Row) /\ Len(c) = Len(b) - n /\ Len(b) \in Nat /\ n \in Nat
      /\ \A i \in 1..Len(c) : c[i] = b[n + i]
  OBVIOUS
<1> HIDE DEF c
<1>2. \A i \in 1..Len(c) : n + i \in 1..Len(b) /\ c[i].id = b[n + i].id
  BY <1>1
<1>3. Ids(c) \subseteq Ids(b)
  BY <1>2 DEF Ids
<1>4. ASSUME Distinct(b)
      PROVE  Distinct(c)
  <2> SUFFICES ASSUME NEW i \in 1..Len(c), NEW j \in 1..Len(c),
                      c[i].id = c[j].id
               PROVE  i = j
    BY DEF Distinct
  <2>1. n + i = n + j
    BY <1>2, <1>4 DEF Distinct
  <2> QED
    BY <1>1, <2>1
<1>5. ASSUME Distinct(b), NEW i \in 1..n, NEW j \in 1..Len(c),
             b[i].id = c[j].id
      PROVE  FALSE
  <2>1. i \in 1..Len(b) /\ n + j \in 1..Len(b) /\ b[i].id = b[n + j].id
    BY <1>1, <1>2, <1>5
  <2>2. i = n + j
    BY <1>5, <2>1 DEF Distinct
  <2> QED
    BY <1>1, <2>2
<1> QED
  BY <1>1, <1>3, <1>4, <1>5 DEF c, Ids

\* Rows f to n that are of prompt p and its outcome ok.
Hits(b, f, n, p, ok) == {i \in f..n : b[i] = [id |-> p, ok |-> ok]}

\* Hits are counted; in a buffer without repetition there is one at most.
LEMMA HitsOfPrompt ==
  ASSUME NEW b \in Seq(Row), NEW n \in 0..Len(b), NEW f \in {1, 2},
         NEW p \in Prompts
  PROVE  /\ Cardinality(Hits(b, f, n, p, TRUE)) \in Nat
         /\ Cardinality(Hits(b, f, n, p, FALSE)) \in Nat
         /\ (\A i \in 1..n : b[i].id # p) =>
              /\ Cardinality(Hits(b, f, n, p, TRUE)) = 0
              /\ Cardinality(Hits(b, f, n, p, FALSE)) = 0
         /\ Distinct(b) =>
              Cardinality(Hits(b, f, n, p, TRUE))
                + Cardinality(Hits(b, f, n, p, FALSE)) <= 1
<1> DEFINE A == Hits(b, f, n, p, TRUE)
           E == Hits(b, f, n, p, FALSE)
<1>1. f \in Int /\ n \in Int /\ f..n \subseteq 1..n /\ 1..n \subseteq 1..Len(b)
  OBVIOUS
<1>2. IsFiniteSet(f..n) /\ A \in SUBSET (f..n) /\ E \in SUBSET (f..n)
  BY <1>1, FS_Interval DEF Hits
<1>3. IsFiniteSet(A) /\ IsFiniteSet(E)
  BY <1>2, FS_Subset
<1>4. Cardinality(A) \in Nat /\ Cardinality(E) \in Nat
  BY <1>3, FS_CardinalityType
<1>5. /\ \A i \in A : i \in 1..n /\ b[i].id = p /\ b[i].ok = TRUE
      /\ \A i \in E : i \in 1..n /\ b[i].id = p /\ b[i].ok = FALSE
  BY <1>1 DEF Hits
<1> HIDE DEF A, E
<1>6. ASSUME \A i \in 1..n : b[i].id # p
      PROVE  Cardinality(A) = 0 /\ Cardinality(E) = 0
  BY <1>5, <1>6, FS_EmptySet
<1>7. ASSUME Distinct(b)
      PROVE  Cardinality(A) + Cardinality(E) <= 1
  <2>1. \A i, j \in A \cup E : i = j
    BY <1>1, <1>5, <1>7 DEF Distinct
  <2>2. A = {} \/ E = {}
    BY <1>5, <2>1
  <2>3. ASSUME NEW S, IsFiniteSet(S), \A i, j \in S : i = j
        PROVE  Cardinality(S) = 0 \/ Cardinality(S) = 1
    <3>1. CASE S = {}
      BY <3>1, FS_EmptySet
    <3>2. CASE S # {}
      <4>1. PICK x : x \in S
        BY <3>2
      <4>2. S = {x}
        BY <2>3, <4>1
      <4> QED
        BY <4>2, FS_Singleton
    <3> QED
      BY <3>1, <3>2
  <2>4. /\ Cardinality(A) = 0 \/ Cardinality(A) = 1
        /\ Cardinality(E) = 0 \/ Cardinality(E) = 1
    BY <1>3, <2>1, <2>3
  <2>5. Cardinality(A) = 0 \/ Cardinality(E) = 0
    BY <2>2, FS_EmptySet
  <2> QED
    BY <2>4, <2>5
<1> QED
  BY <1>4, <1>6, <1>7 DEF A, E

-----------------------------------------------------------------------------
(* The file.                                                               *)

\* The file after x[p] lines with and y[p] lines without an answer to each
\* prompt p have been added.
LEMMA LinesAdded ==
  ASSUME OutputType, NEW x \in [Prompts -> Nat], NEW y \in [Prompts -> Nat],
         answers' = [p \in Prompts |-> answers[p] + x[p]],
         errors'  = [p \in Prompts |-> errors[p] + y[p]]
  PROVE  /\ OutputType'
         /\ \A p \in Prompts :
              /\ answers'[p] >= answers[p] /\ errors'[p] >= errors[p]
              /\ x[p] = 0 => answers'[p] = answers[p]
              /\ y[p] = 0 => errors'[p] = errors[p]
              /\ x[p] + y[p] <= 1 =>
                   answers'[p] + errors'[p] <= answers[p] + errors[p] + 1
<1>1. ASSUME NEW p \in Prompts
      PROVE  /\ answers[p] \in Nat /\ errors[p] \in Nat
             /\ x[p] \in Nat /\ y[p] \in Nat
             /\ answers'[p] = answers[p] + x[p]
             /\ errors'[p] = errors[p] + y[p]
  BY DEF OutputType
<1>2. ASSUME NEW p \in Prompts
      PROVE  answers'[p] \in Nat /\ errors'[p] \in Nat
  BY <1>1
<1>3. OutputType'
  BY <1>2 DEF OutputType
<1> QED
  BY <1>1, <1>3

\* Spill adds the rows it moves, and takes no line away.
LEMMA SpillAdds ==
  ASSUME OutputType, NEW g \in Gens, NEW b \in Seq(Row), NEW n \in 0..Len(b),
         NEW part, Spill(g, b, n, part)
  PROVE  /\ OutputType'
         /\ \A p \in Prompts :
              answers'[p] >= answers[p] /\ errors'[p] >= errors[p]
         /\ \A p \in Prompts : (\A i \in 1..n : b[i].id # p) =>
              answers'[p] = answers[p] /\ errors'[p] = errors[p]
         /\ Distinct(b) => \A p \in Prompts :
              answers'[p] + errors'[p] <= answers[p] + errors[p] + 1
<1> DEFINE f == IF tail = (IF gens[g].cut THEN g ELSE Clean) THEN 1 ELSE 2
           x == [p \in Prompts |-> Cardinality(Hits(b, f, n, p, TRUE))]
           y == [p \in Prompts |-> Cardinality(Hits(b, f, n, p, FALSE))]
<1>1. f \in {1, 2}
  OBVIOUS
<1>2. /\ answers' = [p \in Prompts |->
           answers[p] + Cardinality(Hits(b, f, n, p, TRUE))]
      /\ errors' = [p \in Prompts |->
           errors[p] + Cardinality(Hits(b, f, n, p, FALSE))]
  BY Zenon DEF Spill, Hits
<1> HIDE DEF f
<1>3. ASSUME NEW p \in Prompts
      PROVE  /\ x[p] = Cardinality(Hits(b, f, n, p, TRUE))
             /\ y[p] = Cardinality(Hits(b, f, n, p, FALSE))
             /\ x[p] \in Nat /\ y[p] \in Nat
             /\ (\A i \in 1..n : b[i].id # p) => x[p] = 0 /\ y[p] = 0
             /\ Distinct(b) => x[p] + y[p] <= 1
  BY <1>1, HitsOfPrompt
<1>4. x \in [Prompts -> Nat] /\ y \in [Prompts -> Nat]
  BY <1>3
<1>5. /\ answers' = [p \in Prompts |-> answers[p] + x[p]]
      /\ errors'  = [p \in Prompts |-> errors[p] + y[p]]
  BY <1>2, <1>3
<1> HIDE DEF x, y
<1>6. /\ OutputType'
      /\ \A p \in Prompts :
           /\ answers'[p] >= answers[p] /\ errors'[p] >= errors[p]
           /\ x[p] = 0 => answers'[p] = answers[p]
           /\ y[p] = 0 => errors'[p] = errors[p]
           /\ x[p] + y[p] <= 1 =>
                answers'[p] + errors'[p] <= answers[p] + errors[p] + 1
  BY <1>4, <1>5, LinesAdded
<1> QED
  BY <1>3, <1>6

\* Where the buffer is without repetition and of prompts without a line, no
\* prompt has two lines after Spill.
LEMMA SpillKeepsOnce ==
  ASSUME OutputType, NEW g \in Gens, NEW b \in Seq(Row), NEW n \in 0..Len(b),
         NEW part, Spill(g, b, n, part), Distinct(b),
         \A p \in Ids(b) : answers[p] + errors[p] = 0,
         \A p \in Prompts : answers[p] + errors[p] <= 1
  PROVE  \A p \in Prompts : answers'[p] + errors'[p] <= 1
<1> SUFFICES ASSUME NEW p \in Prompts
             PROVE  answers'[p] + errors'[p] <= 1
  OBVIOUS
<1>1. CASE p \in Ids(b)
  <2>1. /\ answers[p] + errors[p] = 0
        /\ answers'[p] + errors'[p] <= answers[p] + errors[p] + 1
    BY <1>1, SpillAdds
  <2> QED
    BY <2>1
<1>2. CASE p \notin Ids(b)
  <2>1. \A i \in 1..n : b[i].id # p
    BY <1>2 DEF Ids
  <2>2. answers'[p] = answers[p] /\ errors'[p] = errors[p]
    BY <2>1, SpillAdds
  <2> QED
    BY <2>2
<1> QED
  BY <1>1, <1>2

-----------------------------------------------------------------------------
(* The steps of a process.                                                 *)

LEMMA ProcessFields ==
  ASSUME GensType, NEW g \in Gens
  PROVE  /\ gens[g] \in Process
         /\ gens[g].todo \in SUBSET Prompts /\ gens[g].flight \in SUBSET Prompts
         /\ gens[g].buffer \in Seq(Row)
         /\ gens[g].completed \in 0..(FlushEvery - 1)
         /\ gens[g].alive \in BOOLEAN /\ gens[g].cut \in BOOLEAN
<1>1. gens[g] \in Process
  BY DEF GensType
<1> QED
  BY <1>1 DEF Process

LEMMA NoProcess ==
  /\ Dead \in Process /\ Unborn \in Process
  /\ ~Dead.alive /\ ~Unborn.alive
<1>1. <<>> \in Seq(Row) /\ 0 \in 0..(FlushEvery - 1)
  BY Parameters
<1> QED
  BY <1>1 DEF Dead, Unborn, Process

\* Process g becomes q.  It is the only one that writes, unless two overlap.
LEMMA OneWrites ==
  ASSUME OnceInv, NEW g \in Gens, gens[g].alive,
         NEW q \in Process, gens' = [gens EXCEPT ![g] = q],
         overlapped' = overlapped, OutputType',
         ~overlapped => \A p \in Prompts : answers'[p] + errors'[p] <= 1,
         ~overlapped /\ q.alive =>
           Apart(q) /\ \A p \in Held(q) : answers'[p] + errors'[p] = 0
  PROVE  OnceInv'
<1>1. GensType'
  BY DEF OnceInv, GensType
<1>2. LinesOnce'
  BY DEF LinesOnce
<1>3. SoleWriter'
  <2> SUFFICES ASSUME ~overlapped, NEW k \in Gens, gens'[k].alive
               PROVE  /\ \A h \in Gens : gens'[h].alive => h = k
                      /\ Apart(gens'[k])
                      /\ \A p \in Held(gens'[k]) :
                           answers'[p] + errors'[p] = 0
    BY DEF SoleWriter
  <2>1. ASSUME NEW h \in Gens, gens'[h].alive
        PROVE  h = g
    <3>1. CASE h # g
      <4>1. gens'[h] = gens[h]
        BY <3>1 DEF OnceInv, GensType
      <4> QED
        BY <2>1, <3>1, <4>1 DEF OnceInv, SoleWriter
    <3> QED
      BY <3>1
  <2>2. k = g /\ gens'[g] = q
    BY <2>1 DEF OnceInv, GensType
  <2> QED
    BY <2>1, <2>2
<1> QED
  BY <1>1, <1>2, <1>3 DEF OnceInv

\* What is known of a process that is alive, as long as none overlap.
LEMMA Holder ==
  ASSUME OnceInv, NEW g \in Gens, gens[g].alive, ~overlapped
  PROVE  /\ Apart(gens[g])
         /\ \A p \in Held(gens[g]) : answers[p] + errors[p] = 0
         /\ \A p \in Prompts : answers[p] + errors[p] <= 1
BY DEF OnceInv, SoleWriter, LinesOnce

LEMMA SendStep ==
  ASSUME OnceInv, NEW g \in Gens, Send(g)
  PROVE  OnceInv'
<1>1. PICK p \in gens[g].todo :
        gens' = [gens EXCEPT ![g].todo = @ \ {p}, ![g].flight = @ \cup {p}]
  BY DEF Send
<1> DEFINE q == [gens[g] EXCEPT !.todo = @ \ {p}, !.flight = @ \cup {p}]
<1>2. /\ GensType /\ gens[g].alive /\ overlapped' = overlapped
      /\ answers' = answers /\ errors' = errors
  BY DEF OnceInv, Send, output, history
<1>3. gens' = [gens EXCEPT ![g] = q]
  BY <1>1, <1>2 DEF GensType, Process
<1>4. /\ q \in Process /\ q.todo = gens[g].todo \ {p}
      /\ q.flight = gens[g].flight \cup {p} /\ q.buffer = gens[g].buffer
  BY <1>2, ProcessFields DEF Process
<1> HIDE DEF q
<1>5. OutputType'
  BY <1>2 DEF OnceInv, OutputType
<1>6. ASSUME ~overlapped
      PROVE  /\ Apart(q) /\ \A r \in Held(q) : answers'[r] + errors'[r] = 0
             /\ \A r \in Prompts : answers'[r] + errors'[r] <= 1
  BY <1>2, <1>4, <1>6, Holder DEF Apart, Held
<1> QED
  BY <1>2, <1>3, <1>4, <1>5, <1>6, OneWrites

LEMMA CompleteStep ==
  ASSUME OnceInv, NEW g \in Gens, NEW p \in Prompts, NEW ok \in BOOLEAN,
         Complete(g, p, ok)
  PROVE  OnceInv'
<1> DEFINE b == gens[g].buffer
           r == [id |-> p, ok |-> ok]
           c == Append(b, r)
           flush == (gens[g].completed + 1) % FlushEvery = 0
           q == [gens[g] EXCEPT !.flight = @ \ {p},
                                !.completed = (@ + 1) % FlushEvery,
                                !.buffer = IF flush THEN <<>> ELSE c,
                                !.cut = @ /\ ~flush]
<1>1. /\ OutputType /\ GensType /\ gens[g].alive /\ p \in gens[g].flight
      /\ overlapped' = overlapped
  BY DEF OnceInv, Complete, history
<1>2. /\ gens' = [gens EXCEPT ![g].flight = @ \ {p},
                              ![g].completed = (@ + 1) % FlushEvery,
                              ![g].buffer = IF flush THEN <<>> ELSE c,
                              ![g].cut = @ /\ ~flush]
      /\ flush => Spill(g, c, Len(c), "none")
      /\ ~flush => answers' = answers /\ errors' = errors
  BY DEF Complete, output
<1>3. /\ b \in Seq(Row) /\ r \in Row /\ r.id = p
      /\ c \in Seq(Row) /\ Len(c) \in 0..Len(c)
  <2>1. b \in Seq(Row)
    BY <1>1, ProcessFields
  <2>2. r \in Row /\ r.id = p
    BY DEF Row
  <2>3. c \in Seq(Row)
    BY <2>1, <2>2, AppendedRow
  <2>4. ASSUME NEW d \in Seq(Row)
        PROVE  Len(d) \in 0..Len(d)
    OBVIOUS
  <2> HIDE DEF b, r, c
  <2> QED
    BY <2>1, <2>2, <2>3, <2>4
<1>4. gens' = [gens EXCEPT ![g] = q]
  BY <1>1, <1>2 DEF GensType, Process
<1>5. (gens[g].completed + 1) % FlushEvery \in 0..(FlushEvery - 1)
  <2>1. gens[g].completed \in 0..(FlushEvery - 1)
    BY <1>1, ProcessFields
  <2>2. gens[g].completed + 1 \in Int
    BY <2>1
  <2> QED
    BY <2>2, Parameters, Remainder
<1>6. /\ q \in Process /\ q.todo = gens[g].todo
      /\ q.flight = gens[g].flight \ {p}
      /\ q.buffer = IF flush THEN <<>> ELSE c
  <2>1. (IF flush THEN <<>> ELSE c) \in Seq(Row)
    BY <1>3
  <2>2. (gens[g].cut /\ ~flush) \in BOOLEAN
    OBVIOUS
  <2> HIDE DEF c, flush
  <2> QED
    BY <1>1, <1>5, <2>1, <2>2, ProcessFields DEF Process
<1>7. OutputType'
  <2>1. CASE flush
    BY <1>1, <1>2, <1>3, <2>1, SpillAdds
  <2>2. CASE ~flush
    BY <1>1, <1>2, <2>2 DEF OutputType
  <2> QED
    BY <2>1, <2>2
<1>8. ASSUME ~overlapped
      PROVE  /\ Apart(q) /\ \A s \in Held(q) : answers'[s] + errors'[s] = 0
             /\ \A s \in Prompts : answers'[s] + errors'[s] <= 1
  <2>1. /\ Apart(gens[g])
        /\ \A s \in Held(gens[g]) : answers[s] + errors[s] = 0
        /\ \A s \in Prompts : answers[s] + errors[s] <= 1
    BY <1>1, <1>8, Holder
  <2>2. p \notin Ids(b) /\ Distinct(b) /\ p \notin gens[g].todo
    BY <1>1, <2>1 DEF Apart
  <2>3. Distinct(c) /\ Ids(c) \subseteq Ids(b) \cup {p}
    BY <1>3, <2>2, AppendedRow
  <2>4. /\ gens[g].todo \cap (gens[g].flight \ {p}) = {}
        /\ (gens[g].todo \cup (gens[g].flight \ {p})) \cap Ids(c) = {}
    BY <2>1, <2>2, <2>3 DEF Apart
  <2>5. /\ Ids(c) \subseteq Held(gens[g])
        /\ gens[g].todo \cup (gens[g].flight \ {p}) \subseteq Held(gens[g])
    BY <1>1, <2>3 DEF Held
  <2>6. CASE ~flush
    <3>1. q.buffer = c
      BY <1>6, <2>6
    <3>2. Apart(q) /\ Held(q) \subseteq Held(gens[g])
      BY <1>6, <2>3, <2>4, <2>5, <3>1 DEF Apart, Held
    <3> QED
      BY <1>2, <2>1, <2>6, <3>2
  <2>7. CASE flush
    <3>1. Ids(<<>>) = {} /\ Distinct(<<>>)
      BY DEF Ids, Distinct
    <3>2. q.buffer = <<>>
      BY <1>6, <2>7
    <3>3. Apart(q) /\ Held(q) = gens[g].todo \cup (gens[g].flight \ {p})
      BY <1>6, <2>4, <3>1, <3>2 DEF Apart, Held
    <3>4. \A s \in Ids(c) : answers[s] + errors[s] = 0
      BY <2>1, <2>5
    <3>5. \A s \in Prompts : answers'[s] + errors'[s] <= 1
      BY <1>1, <1>2, <1>3, <2>1, <2>3, <2>7, <3>4, SpillKeepsOnce
    <3>6. ASSUME NEW s \in Held(q)
          PROVE  answers'[s] + errors'[s] = 0
      <4>1. s \in Prompts /\ s \in Held(gens[g]) /\ s \notin Ids(c)
        BY <1>1, <2>4, <2>5, <3>3, <3>6, ProcessFields
      <4>2. \A i \in 1..Len(c) : c[i].id # s
        BY <4>1 DEF Ids
      <4>3. answers'[s] = answers[s] /\ errors'[s] = errors[s]
        BY <1>1, <1>2, <1>3, <2>7, <4>1, <4>2, SpillAdds
      <4> QED
        BY <2>1, <4>1, <4>3
    <3> QED
      BY <3>3, <3>5, <3>6
  <2> QED
    BY <2>6, <2>7
<1> HIDE DEF q, flush
<1> QED
  BY <1>1, <1>4, <1>6, <1>7, <1>8, OneWrites

\* Rows and a part of a row leave the buffer: their prompts get a line, or
\* none if the line is not readable, and are no longer held.
LEMMA OverflowStep ==
  ASSUME OnceInv, NEW g \in Gens, Overflow(g)
  PROVE  OnceInv'
<1> DEFINE b == gens[g].buffer
<1>1. PICK n \in 0..Len(b), part \in Parts :
        /\ Spill(g, b, n, part)
        /\ gens' = [gens EXCEPT ![g].buffer = SubSeq(@, n + 1, Len(@)),
                                ![g].cut = (part # "none")]
  BY DEF Overflow
<1> DEFINE c == SubSeq(b, n + 1, Len(b))
           q == [gens[g] EXCEPT !.buffer = c, !.cut = (part # "none")]
<1>2. /\ OutputType /\ GensType /\ gens[g].alive /\ b \in Seq(Row)
      /\ overlapped' = overlapped
  BY ProcessFields DEF OnceInv, Overflow, history
<1>3. /\ c \in Seq(Row) /\ Ids(c) \subseteq Ids(b)
      /\ Distinct(b) => /\ Distinct(c)
                        /\ \A i \in 1..n : b[i].id \notin Ids(c)
  BY <1>2, RestOfBuffer
<1>4. gens' = [gens EXCEPT ![g] = q]
  BY <1>1, <1>2 DEF GensType, Process
<1> HIDE DEF b, c
<1>5. /\ q \in Process /\ q.todo = gens[g].todo
      /\ q.flight = gens[g].flight /\ q.buffer = c
  BY <1>2, <1>3, ProcessFields DEF Process
<1> HIDE DEF q
<1>6. OutputType'
  BY <1>1, <1>2, SpillAdds
<1>7. ASSUME ~overlapped
      PROVE  /\ Apart(q) /\ \A s \in Held(q) : answers'[s] + errors'[s] = 0
             /\ \A s \in Prompts : answers'[s] + errors'[s] <= 1
  <2>1. /\ Apart(gens[g])
        /\ \A s \in Held(gens[g]) : answers[s] + errors[s] = 0
        /\ \A s \in Prompts : answers[s] + errors[s] <= 1
    BY <1>2, <1>7, Holder
  <2>2. Distinct(b) /\ (gens[g].todo \cup gens[g].flight) \cap Ids(b) = {}
    BY <2>1 DEF Apart, b
  <2>3. Apart(q)
    BY <1>3, <1>5, <2>1, <2>2 DEF Apart
  <2>4. Ids(b) \subseteq Held(gens[g]) /\ Held(q) \subseteq Held(gens[g])
    BY <1>3, <1>5 DEF Held, b
  <2>5. \A s \in Prompts : answers'[s] + errors'[s] <= 1
    BY <1>1, <1>2, <2>1, <2>2, <2>4, SpillKeepsOnce
  <2>6. ASSUME NEW s \in Held(q)
        PROVE  answers'[s] + errors'[s] = 0
    <3>1. \A i \in 1..n : b[i].id # s
      <4>1. CASE s \in Ids(c)
        BY <1>3, <2>2, <4>1
      <4>2. CASE s \notin Ids(c)
        <5>1. s \notin Ids(b)
          BY <1>5, <2>2, <2>6, <4>2 DEF Held
        <5>2. \A i \in 1..Len(b) : b[i].id # s
          BY <5>1 DEF Ids
        <5>3. 1..n \subseteq 1..Len(b)
          BY <1>1, <1>2
        <5> QED
          BY <5>2, <5>3
      <4> QED
        BY <4>1, <4>2
    <3>2. s \in Prompts
      <4>1. Ids(b) \subseteq Prompts
        BY <1>2, RowOfBuffer DEF Ids
      <4> QED
        BY <1>2, <1>3, <1>5, <2>6, <4>1, ProcessFields DEF Held
    <3>3. answers'[s] = answers[s] /\ errors'[s] = errors[s]
      BY <1>1, <1>2, <3>1, <3>2, SpillAdds
    <3> QED
      BY <2>1, <2>4, <2>6, <3>3
  <2> QED
    BY <2>3, <2>5, <2>6
<1> QED
  BY <1>2, <1>4, <1>5, <1>6, <1>7, OneWrites

\* The process ends with a last flush, or is killed and loses its buffer.
LEMMA EndStep ==
  ASSUME OnceInv, NEW g \in Gens, Close(g) \/ KillGenerate(g)
  PROVE  OnceInv'
<1> DEFINE b == gens[g].buffer
<1>1. /\ OutputType /\ GensType /\ gens[g].alive /\ b \in Seq(Row)
      /\ overlapped' = overlapped /\ gens' = [gens EXCEPT ![g] = Dead]
  BY ProcessFields DEF OnceInv, Close, KillGenerate, history
<1>2. Len(b) \in 0..Len(b)
  BY <1>1
<1>3. \/ Spill(g, b, Len(b), "none")
      \/ answers' = answers /\ errors' = errors
  BY DEF Close, KillGenerate, output
<1> HIDE DEF b
<1>4. OutputType'
  <2>1. CASE Spill(g, b, Len(b), "none")
    BY <1>1, <1>2, <2>1, SpillAdds
  <2>2. CASE answers' = answers /\ errors' = errors
    BY <1>1, <2>2 DEF OutputType
  <2> QED
    BY <1>3, <2>1, <2>2
<1>5. ASSUME ~overlapped
      PROVE  \A s \in Prompts : answers'[s] + errors'[s] <= 1
  <2>1. /\ Distinct(b) /\ \A s \in Ids(b) : answers[s] + errors[s] = 0
        /\ \A s \in Prompts : answers[s] + errors[s] <= 1
    BY <1>1, <1>5, Holder DEF Apart, Held, b
  <2>2. CASE Spill(g, b, Len(b), "none")
    BY <1>1, <1>2, <2>1, <2>2, SpillKeepsOnce
  <2>3. CASE answers' = answers /\ errors' = errors
    BY <2>1, <2>3
  <2> QED
    BY <1>3, <2>2, <2>3
<1> QED
  BY <1>1, <1>4, <1>5, NoProcess, OneWrites

LEMMA InterruptStep ==
  ASSUME OnceInv, NEW g \in Gens, Interrupt(g)
  PROVE  OnceInv'
<1> DEFINE q == [gens[g] EXCEPT !.stop = TRUE]
<1>1. /\ OutputType /\ GensType /\ gens[g].alive
      /\ overlapped' = overlapped /\ answers' = answers /\ errors' = errors
      /\ gens' = [gens EXCEPT ![g].stop = TRUE]
  BY DEF OnceInv, Interrupt, output, history
<1>2. gens' = [gens EXCEPT ![g] = q]
  BY <1>1 DEF GensType, Process
<1>3. /\ q \in Process /\ q.todo = gens[g].todo
      /\ q.flight = gens[g].flight /\ q.buffer = gens[g].buffer
  BY <1>1, ProcessFields DEF Process
<1> HIDE DEF q
<1>4. OutputType'
  BY <1>1 DEF OutputType
<1>5. ASSUME ~overlapped
      PROVE  /\ Apart(q) /\ \A s \in Held(q) : answers'[s] + errors'[s] = 0
             /\ \A s \in Prompts : answers'[s] + errors'[s] <= 1
  BY <1>1, <1>3, <1>5, Holder DEF Apart, Held
<1> QED
  BY <1>1, <1>2, <1>3, <1>4, <1>5, OneWrites

\* generate starts with prompts that have no line, and alone unless it
\* overlaps another, or ends at once.
LEMMA RunGenerateStep ==
  ASSUME OnceInv, RunGenerate
  PROVE  OnceInv'
<1> DEFINE k == Current + 1
           new == [Dead EXCEPT !.alive = TRUE, !.todo = Batch]
<1>0. PICK q : q = IF Undecodable THEN Dead ELSE new
  OBVIOUS
<1>1. /\ OutputType /\ GensType /\ LinesOnce /\ SoleWriter
      /\ overlapped' = (overlapped \/ (Alive # {} /\ ~Undecodable))
      /\ answers' = answers /\ errors' = errors
      /\ gens' = [gens EXCEPT ![k] = q]
  BY <1>0 DEF OnceInv, RunGenerate, output
<1>2. Batch \subseteq Prompts
      /\ \A p \in Batch : answers[p] + errors[p] = 0
  <2>1. Batch \subseteq Prompts /\ \A p \in Batch : ~(Readable(p) > 0)
    BY DEF Batch, Capped, CompletedIds
  <2>2. ASSUME NEW p \in Batch
        PROVE  answers[p] + errors[p] = 0
    <3>1. answers[p] \in Nat /\ errors[p] \in Nat /\ ~(Readable(p) > 0)
      BY <1>1, <2>1 DEF OutputType
    <3> QED
      BY <3>1 DEF Readable
  <2> QED
    BY <2>1, <2>2
<1>3. /\ new \in Process /\ new.todo = Batch /\ new.flight = {}
      /\ new.buffer = <<>>
  BY <1>2, NoProcess DEF Process, Dead, Unborn
<1> HIDE DEF new, k
<1>4. \A h \in Gens : gens'[h] = (IF h = k THEN q ELSE gens[h])
  BY <1>1 DEF GensType
<1>5. OutputType' /\ GensType'
  BY <1>0, <1>1, <1>3, NoProcess DEF OutputType, GensType
<1>6. LinesOnce'
  BY <1>1 DEF LinesOnce
<1>7. SoleWriter'
  <2> SUFFICES ASSUME ~overlapped', NEW g \in Gens, gens'[g].alive
               PROVE  /\ \A h \in Gens : gens'[h].alive => h = g
                      /\ Apart(gens'[g])
                      /\ \A p \in Held(gens'[g]) :
                           answers'[p] + errors'[p] = 0
    BY DEF SoleWriter
  <2>1. CASE Undecodable
    <3>1. ~overlapped /\ q = Dead
      BY <1>0, <1>1, <2>1
    <3>2. \A h \in Gens : gens'[h].alive => h # k /\ gens'[h] = gens[h]
      BY <1>4, <3>1, NoProcess
    <3> QED
      BY <1>1, <3>1, <3>2 DEF SoleWriter
  <2>2. CASE ~Undecodable
    <3>1. q = new /\ \A h \in Gens : ~gens[h].alive
      BY <1>0, <1>1, <2>2 DEF Alive
    <3>2. \A h \in Gens : gens'[h].alive => h = k
      BY <1>4, <3>1
    <3>3. g = k /\ gens'[g] = new
      BY <1>4, <3>1, <3>2
    <3>4. Ids(<<>>) = {} /\ Distinct(<<>>)
      BY DEF Ids, Distinct
    <3>5. Apart(new) /\ Held(new) = Batch
      BY <1>3, <3>4 DEF Apart, Held
    <3> QED
      BY <1>1, <1>2, <3>2, <3>3, <3>5
  <2> QED
    BY <2>1, <2>2
<1> QED
  BY <1>5, <1>6, <1>7 DEF OnceInv

\* The other steps change neither the processes nor the file.
LEMMA OtherStep ==
  ASSUME OnceInv,
         UNCHANGED <<answers, errors, gens, overlapped>>
  PROVE  OnceInv'
<1>1. UNCHANGED OutputType /\ UNCHANGED GensType
  BY DEF OutputType, GensType
<1>2. UNCHANGED LinesOnce
  BY DEF LinesOnce
<1>3. SoleWriter'
  BY DEF OnceInv, SoleWriter
<1> QED
  BY <1>1, <1>2, <1>3 DEF OnceInv

\* Which steps those are.
LEMMA OtherSteps ==
  ASSUME \/ StartChunk \/ StartupFails \/ WaitReturns \/ CountChunk
         \/ AllChunksDone \/ Launch \/ NoSpace \/ VllmDies \/ SshDrops
         \/ Hang \/ KillOrchestrator
  PROVE  UNCHANGED <<output, gens, overlapped>>
BY DEF StartChunk, StartupFails, WaitReturns, CountChunk, AllChunksDone,
       Launch, NoSpace, VllmDies, SshDrops, Hang, KillOrchestrator, history

-----------------------------------------------------------------------------
(* The theorems.                                                           *)

LEMMA InitOnce == Init => OnceInv
<1> SUFFICES ASSUME Init PROVE OnceInv
  OBVIOUS
<1>1. OutputType /\ GensType
  BY NoProcess DEF Init, OutputType, GensType
<1>2. SoleWriter
  BY NoProcess DEF Init, SoleWriter
<1>3. LinesOnce
  BY DEF Init, LinesOnce
<1> QED
  BY <1>1, <1>2, <1>3 DEF OnceInv

LEMMA NextOnce == OnceInv /\ [Next]_vars => OnceInv'
<1> SUFFICES ASSUME OnceInv, [Next]_vars
             PROVE  OnceInv'
  OBVIOUS
<1>1. ASSUME NEW g \in Gens, GenerateStep(g)
      PROVE  OnceInv'
  BY <1>1, SendStep, CompleteStep, EndStep DEF GenerateStep
<1>2. ASSUME NEW g \in Gens, Overflow(g)
      PROVE  OnceInv'
  BY <1>2, OverflowStep
<1>3. ASSUME NEW g \in Gens, Interrupt(g) \/ KillGenerate(g)
      PROVE  OnceInv'
  BY <1>3, InterruptStep, EndStep
<1>4. CASE RunGenerate
  BY <1>4, RunGenerateStep
<1>5. CASE \/ StartChunk \/ StartupFails \/ WaitReturns \/ CountChunk
           \/ AllChunksDone \/ Launch \/ NoSpace \/ VllmDies \/ SshDrops
           \/ Hang \/ KillOrchestrator
  BY <1>5, OtherSteps, OtherStep DEF output
<1>6. CASE UNCHANGED vars
  BY <1>6, OtherStep DEF vars, output, history
<1> QED
  BY <1>1, <1>2, <1>3, <1>4, <1>5, <1>6 DEF Next, OrchestratorStep

LEMMA AlwaysOnce == Spec => []OnceInv
BY InitOnce, NextOnce, PTL DEF Spec

\* Nor has a row that lacks only its newline a line already.
BareInv ==
  ~overlapped => \A r \in bare : r \in Row /\ answers[r.id] + errors[r.id] = 0

LEMMA SpillBare ==
  ASSUME OutputType, NEW g \in Gens, NEW b \in Seq(Row), NEW n \in 0..Len(b),
         NEW part, part # "none" => n < Len(b), Spill(g, b, n, part),
         Distinct(b), \A p \in Ids(b) : answers[p] + errors[p] = 0,
         \A r \in bare : r \in Row /\ answers[r.id] + errors[r.id] = 0
  PROVE  \A r \in bare' : r \in Row /\ answers'[r.id] + errors'[r.id] = 0
<1> SUFFICES ASSUME NEW r \in bare'
             PROVE  r \in Row /\ answers'[r.id] + errors'[r.id] = 0
  OBVIOUS
<1>1. \/ r \in bare /\ n = 0
      \/ r = b[n + 1] /\ part = "bare"
  <2>1. \/ ~(n > 0 \/ part # "none") /\ bare' = bare
        \/ part = "bare" /\ bare' = {b[n + 1]}
        \/ bare' = {}
    BY DEF Spill
  <2> QED
    BY <2>1
<1>2. CASE r \in bare /\ n = 0
  <2>1. r \in Row /\ r.id \in Prompts /\ answers[r.id] + errors[r.id] = 0
    BY <1>2 DEF Row
  <2>2. \A i \in 1..n : b[i].id # r.id
    BY <1>2
  <2> QED
    BY <2>1, <2>2, SpillAdds
<1>3. CASE r = b[n + 1] /\ part = "bare"
  <2>1. n + 1 \in 1..Len(b) /\ 1..n \subseteq 1..Len(b) /\ n + 1 \notin 1..n
    BY <1>3
  <2>2. r \in Row /\ r.id \in Prompts /\ r.id \in Ids(b)
    BY <1>3, <2>1, RowOfBuffer DEF Ids
  <2>3. \A i \in 1..n : b[i].id # r.id
    BY <1>3, <2>1 DEF Distinct
  <2> QED
    BY <2>2, <2>3, SpillAdds
<1> QED
  BY <1>1, <1>2, <1>3

LEMMA NextBare == OnceInv /\ BareInv /\ [Next]_vars => BareInv'
<1> SUFFICES ASSUME OnceInv, BareInv, [Next]_vars, ~overlapped'
             PROVE  \A r \in bare' : r \in Row /\ answers'[r.id] + errors'[r.id] = 0
  BY DEF BareInv
<1>1. ~overlapped
  <2>1. ASSUME NEW g \in Gens, \/ GenerateStep(g) \/ Overflow(g)
                               \/ Interrupt(g) \/ KillGenerate(g)
        PROVE  overlapped' = overlapped
    BY <2>1 DEF GenerateStep, Send, Complete, Close, Overflow, Interrupt,
                KillGenerate, history
  <2>2. RunGenerate => ~overlapped
    BY DEF RunGenerate
  <2>3. UNCHANGED vars => overlapped' = overlapped
    BY DEF vars, history
  <2> QED
    BY <2>1, <2>2, <2>3, OtherSteps, SMTT(30) DEF Next, OrchestratorStep
<1>2. \A r \in bare : r \in Row /\ answers[r.id] + errors[r.id] = 0
  BY <1>1 DEF BareInv
<1>3. ASSUME UNCHANGED output
      PROVE  \A r \in bare' : r \in Row /\ answers'[r.id] + errors'[r.id] = 0
  BY <1>2, <1>3 DEF output
<1>4. ASSUME NEW g \in Gens, gens[g].alive, NEW b \in Seq(Row),
             NEW n \in 0..Len(b), NEW part, part # "none" => n < Len(b),
             Spill(g, b, n, part), Distinct(b), Ids(b) \subseteq Held(gens[g])
      PROVE  \A r \in bare' : r \in Row /\ answers'[r.id] + errors'[r.id] = 0
  <2>1. \A p \in Ids(b) : answers[p] + errors[p] = 0
    BY <1>1, <1>4, Holder
  <2> QED
    BY <1>2, <1>4, <2>1, SpillBare DEF OnceInv
<1>5. ASSUME NEW g \in Gens, gens[g].alive
      PROVE  /\ gens[g].buffer \in Seq(Row) /\ Distinct(gens[g].buffer)
             /\ Ids(gens[g].buffer) \subseteq Held(gens[g])
             /\ gens[g].flight \subseteq Held(gens[g])
             /\ gens[g].flight \cap Ids(gens[g].buffer) = {}
             /\ Len(gens[g].buffer) \in 0..Len(gens[g].buffer)
  <2>1. gens[g].buffer \in Seq(Row)
    BY <1>5, ProcessFields DEF OnceInv
  <2>2. Len(gens[g].buffer) \in 0..Len(gens[g].buffer)
    BY <2>1
  <2>3. Apart(gens[g])
    BY <1>1, <1>5, Holder
  <2> QED
    BY <2>1, <2>2, <2>3 DEF Apart, Held
<1>6. ASSUME NEW g \in Gens, NEW p \in Prompts, NEW ok \in BOOLEAN,
             Complete(g, p, ok)
      PROVE  \A r \in bare' : r \in Row /\ answers'[r.id] + errors'[r.id] = 0
  <2> DEFINE row == [id |-> p, ok |-> ok]
             c == Append(gens[g].buffer, row)
  <2>1. /\ gens[g].alive /\ p \in gens[g].flight
        /\ Spill(g, c, Len(c), "none") \/ UNCHANGED output
    BY <1>6 DEF Complete
  <2>2. row \in Row /\ row.id = p
    BY DEF Row
  <2>3. c \in Seq(Row) /\ Distinct(c) /\ Ids(c) \subseteq Held(gens[g])
    <3>1. /\ gens[g].buffer \in Seq(Row) /\ Distinct(gens[g].buffer)
          /\ Ids(gens[g].buffer) \subseteq Held(gens[g])
          /\ p \in Held(gens[g]) /\ p \notin Ids(gens[g].buffer)
      BY <1>5, <2>1
    <3> HIDE DEF row
    <3> QED
      BY <2>2, <3>1, AppendedRow
  <2> HIDE DEF c
  <2>4. Len(c) \in 0..Len(c)
    BY <2>3
  <2> QED
    BY <1>3, <1>4, <2>1, <2>3, <2>4
<1>7. ASSUME NEW g \in Gens, Overflow(g)
      PROVE  \A r \in bare' : r \in Row /\ answers'[r.id] + errors'[r.id] = 0
  BY <1>4, <1>5, <1>7 DEF Overflow
<1>8. ASSUME NEW g \in Gens, Close(g)
      PROVE  \A r \in bare' : r \in Row /\ answers'[r.id] + errors'[r.id] = 0
  BY <1>4, <1>5, <1>8 DEF Close
<1>9. ASSUME NEW g \in Gens, Send(g) \/ Interrupt(g) \/ KillGenerate(g)
      PROVE  UNCHANGED output
  BY <1>9 DEF Send, Interrupt, KillGenerate
<1>10. ASSUME RunGenerate \/ UNCHANGED vars
       PROVE  UNCHANGED output
  BY <1>10 DEF RunGenerate, vars
<1> QED
  BY <1>3, <1>6, <1>7, <1>8, <1>9, <1>10, OtherSteps
  DEF Next, OrchestratorStep, GenerateStep

LEMMA AlwaysBare == Spec => [](OnceInv /\ BareInv)
<1>1. Init => BareInv
  BY DEF Init, BareInv
<1> QED
  BY <1>1, InitOnce, NextOnce, NextBare, PTL DEF Spec

\* As long as no two generates ran side by side, no prompt has two readable
\* lines, whatever was killed in the middle of a line or at its newline
\* (generate.py's --skip-completed).
THEOREM OnePromptOneLine == Spec => []AtMostOneLine
<1>1. OnceInv /\ BareInv => AtMostOneLine
  <2> SUFFICES ASSUME OnceInv, BareInv, ~overlapped, NEW p \in Prompts
               PROVE  Readable(p) <= 1
    BY DEF AtMostOneLine
  <2>1. /\ answers[p] \in Nat /\ errors[p] \in Nat
        /\ answers[p] + errors[p] <= 1
        /\ (\E r \in bare : r.id = p) => answers[p] + errors[p] = 0
    BY DEF OnceInv, OutputType, LinesOnce, BareInv
  <2> QED
    BY <2>1 DEF Readable
<1> QED
  BY <1>1, AlwaysBare, PTL

\* No step of a process takes a readable line from the output file.
LEMMA StepsGrow ==
  ASSUME OnceInv, [Next]_vars
  PROVE  \A p \in Prompts : answers'[p] >= answers[p] /\ errors'[p] >= errors[p]
<1>1. /\ OutputType
      /\ \A p \in Prompts : answers[p] \in Nat /\ errors[p] \in Nat
  BY DEF OnceInv, OutputType
<1>2. ASSUME UNCHANGED <<answers, errors>>
      PROVE  \A p \in Prompts :
               answers'[p] >= answers[p] /\ errors'[p] >= errors[p]
  BY <1>1, <1>2
<1>3. ASSUME NEW g \in Gens, NEW b \in Seq(Row), NEW n \in 0..Len(b),
             NEW part, Spill(g, b, n, part)
      PROVE  \A p \in Prompts :
               answers'[p] >= answers[p] /\ errors'[p] >= errors[p]
  BY <1>1, <1>3, SpillAdds
<1>4. ASSUME NEW g \in Gens
      PROVE  gens[g].buffer \in Seq(Row)
  BY ProcessFields DEF OnceInv
<1>5. ASSUME NEW b \in Seq(Row)
      PROVE  Len(b) \in 0..Len(b)
  OBVIOUS
<1>6. ASSUME NEW g \in Gens, NEW p \in Prompts, NEW ok \in BOOLEAN,
             Complete(g, p, ok)
      PROVE  \A r \in Prompts :
               answers'[r] >= answers[r] /\ errors'[r] >= errors[r]
  <2> DEFINE c == Append(gens[g].buffer, [id |-> p, ok |-> ok])
  <2>1. Spill(g, c, Len(c), "none") \/ UNCHANGED <<answers, errors>>
    BY <1>6 DEF Complete, output
  <2>2. c \in Seq(Row)
    BY <1>4, AppendedRow DEF Row
  <2> HIDE DEF c
  <2> QED
    BY <1>2, <1>3, <1>5, <2>1, <2>2
<1>7. ASSUME NEW g \in Gens, Overflow(g)
      PROVE  \A p \in Prompts :
               answers'[p] >= answers[p] /\ errors'[p] >= errors[p]
  BY <1>3, <1>4, <1>7 DEF Overflow
<1>8. ASSUME NEW g \in Gens, Close(g)
      PROVE  \A p \in Prompts :
               answers'[p] >= answers[p] /\ errors'[p] >= errors[p]
  BY <1>3, <1>4, <1>5, <1>8 DEF Close
<1>9. ASSUME NEW g \in Gens, Send(g) \/ Interrupt(g) \/ KillGenerate(g)
      PROVE  UNCHANGED <<answers, errors>>
  BY <1>9 DEF Send, Interrupt, KillGenerate, output
<1>10. ASSUME RunGenerate
       PROVE  UNCHANGED <<answers, errors>>
  BY <1>10 DEF RunGenerate, output
<1>11. ASSUME UNCHANGED vars
       PROVE  UNCHANGED <<answers, errors>>
  BY <1>11 DEF vars, output
<1> QED
  BY <1>2, <1>6, <1>7, <1>8, <1>9, <1>10, <1>11, OtherSteps
  DEF Next, OrchestratorStep, GenerateStep, output

-----------------------------------------------------------------------------
(* The inductive invariant.                                                *)

Line(p) == answers[p] + errors[p]    \* readable lines of prompt p
Upto(k) == k * ChunkSize             \* the last prompt of the first k chunks

\* What the last line of such a run is worth is asked of these runs only.
Smooth ==
  launches <= 1 /\ ~coldFails /\ kills = 0 /\ orphans = 0 /\ phase # "hung"

\* Counters are counters, and the generates were started in order.
CountInv == {launches, kills, orphans, chunk} \subseteq Nat

BornInv ==
  /\ \E n \in 0..MaxGens : Born = 1..n
  /\ \A g \in Gens : gens[g].alive => gens[g].born

\* No character is cut but the one process g is about to go on with.
Sound(g) ==
  /\ ~broken /\ torn \in {Clean, g}
  /\ tail = Clean => torn = Clean /\ bare = {}

\* Nobody writes, and the file ends with a newline.
Quiet == tail = Clean /\ Sound(Clean) /\ \A g \in Gens : ~gens[g].alive

\* The prompts of the first k chunks have a line, and no other has.
Covered(k) ==
  \A p \in Prompts : Line(p) = IF p <= Upto(k) THEN 1 ELSE 0

\* Process g, and no other, is at work on the prompts that follow the first k
\* chunks: each has a line or will get one.
Working(g, k) ==
  /\ g \in Gens /\ gens[g].alive
  /\ \A h \in Gens : gens[h].alive => h = g
  /\ tail = IF gens[g].cut THEN g ELSE Clean
  /\ Sound(g)
  /\ gens[g].cut => gens[g].buffer # <<>>
  /\ \A p \in Prompts :
       /\ p <= Upto(k) => Line(p) = 1
       /\ p <= Upto(k + 1) => Line(p) = 1 \/ p \in Held(gens[g])
       /\ p > Upto(k + 1) => Line(p) = 0 /\ p \notin Held(gens[g])

SmoothInv ==
  Smooth =>
    /\ ~overlapped
    /\ launches = 0 =>
         phase = "off" /\ exit = "none" /\ chunk = 0 /\ Covered(0)
    /\ phase = "off" => Quiet
    /\ phase \in {"between", "startup"} => Quiet /\ Covered(chunk)
    /\ phase = "wait" =>
         Working(Current, chunk) \/ (Quiet /\ Covered(chunk + 1))
    /\ phase = "count" => Quiet /\ Covered(chunk + 1)
    /\ exit = "complete" => phase = "off" /\ Covered(NChunks)
    /\ phase \in {"off", "between", "startup", "wait", "count"}

CoverInv == OnceInv /\ CountInv /\ BornInv /\ SmoothInv

-----------------------------------------------------------------------------
(* Chunks.                                                                 *)

LEMMA ChunkFacts ==
  /\ ChunkSize \in Nat \ {0} /\ TotalPerNode \in Nat \ {0}
  /\ NumPrompts \in Nat /\ MaxGens \in Nat
BY TeacherRunAssumption

LEMMA UptoFacts ==
  /\ Upto(0) = 0
  /\ \A k \in Nat : Upto(k) \in Nat /\ Upto(k + 1) = Upto(k) + ChunkSize
BY ChunkFacts DEF Upto

LEMMA Quotient ==
  ASSUME NEW y \in Nat, NEW c \in Nat \ {0}
  PROVE  y \div c \in Nat /\ y - c < (y \div c) * c
<1>1. y \div c \in Nat
  OBVIOUS
<1>2. y - c < (y \div c) * c
  OBVIOUS
<1> QED
  BY <1>1, <1>2

\* The chunks are enough for --total-per-node.
LEMMA DivideUp ==
  ASSUME NEW x \in Nat, NEW c \in Nat \ {0}
  PROVE  (x + c - 1) \div c \in Nat /\ x <= ((x + c - 1) \div c) * c
<1> DEFINE y == x + c - 1
           d == y \div c
<1>1. y \in Nat
  OBVIOUS
<1>2. d \in Nat /\ y - c < d * c
  BY <1>1, Quotient
<1> HIDE DEF d
<1>3. d * c \in Int
  BY <1>2
<1>4. x <= d * c
  BY <1>2, <1>3
<1> QED
  BY <1>2, <1>4 DEF d

LEMMA ChunksSuffice == NChunks \in Nat /\ TotalPerNode <= Upto(NChunks)
BY ChunkFacts, DivideUp DEF NChunks, Upto

\* After k chunks a generate takes the next ChunkSize prompts.
LEMMA BatchIsNext ==
  ASSUME OutputType, NEW k \in Nat, Covered(k), bare = {}
  PROVE  Batch = {p \in Prompts : Upto(k) < p /\ p <= Upto(k + 1)}
<1> DEFINE left == Prompts \ CompletedIds
<1>1. Upto(k) \in Nat /\ Upto(k + 1) = Upto(k) + ChunkSize
  BY UptoFacts
<1>2. left = {p \in Prompts : Upto(k) < p}
  BY <1>1, ChunkFacts DEF Covered, Line, CompletedIds, Readable, Prompts
<1> HIDE DEF left
<1>3. ASSUME NEW p \in left
      PROVE  Cardinality(Before(left, p)) = p - 1 - Upto(k)
  <2>1. p \in 1..NumPrompts /\ Upto(k) < p
    BY <1>2 DEF Prompts
  <2>2. Before(left, p) = (Upto(k) + 1)..(p - 1)
    <3>1. \A q : q \in left /\ q < p <=> q \in (Upto(k) + 1)..(p - 1)
      BY <1>1, <1>2, <2>1, ChunkFacts DEF Prompts
    <3>2. Before(left, p) = {q \in left : q < p}
      BY DEF Before
    <3> HIDE DEF Before
    <3> QED
      BY <3>1, <3>2
  <2>3. Cardinality((Upto(k) + 1)..(p - 1))
          = IF Upto(k) + 1 > p - 1 THEN 0 ELSE (p - 1) - (Upto(k) + 1) + 1
    <3>1. Upto(k) + 1 \in Int /\ p - 1 \in Int
      BY <1>1, <2>1
    <3> QED
      BY <3>1, FS_Interval
  <2> QED
    BY <1>1, <2>1, <2>2, <2>3
<1>4. ASSUME NEW p \in left
      PROVE  Cardinality(Before(left, p)) < ChunkSize <=> p <= Upto(k + 1)
  <2>1. p \in Int
    BY <1>2 DEF Prompts
  <2> QED
    BY <1>1, <1>3, <2>1, ChunkFacts
<1>5. Batch = {p \in left : Cardinality(Before(left, p)) < ChunkSize}
  BY DEF Batch, Capped, left
<1> QED
  BY <1>2, <1>4, <1>5

-----------------------------------------------------------------------------
(* A process at work.                                                      *)

LEMMA LineType ==
  ASSUME OutputType, NEW p \in Prompts
  PROVE  answers[p] \in Nat /\ errors[p] \in Nat /\ Line(p) \in Nat
BY DEF OutputType, Line

\* A row that leaves the buffer whole becomes a line, unless the file goes on
\* after somebody else's piece of a row.
LEMMA SpillDelivers ==
  ASSUME OutputType, NEW g \in Gens, NEW b \in Seq(Row), NEW n \in 0..Len(b),
         NEW part, Spill(g, b, n, part),
         tail = IF gens[g].cut THEN g ELSE Clean, NEW i \in 1..n
  PROVE  answers'[b[i].id] + errors'[b[i].id] >= 1
<1> DEFINE p == b[i].id
           A == Hits(b, 1, n, p, TRUE)
           E == Hits(b, 1, n, p, FALSE)
<1>1. i \in 1..Len(b) /\ n \in Nat
  OBVIOUS
<1>2. p \in Prompts /\ b[i].ok \in BOOLEAN /\ b[i] \in Row
  BY <1>1, RowOfBuffer
<1>3. b[i] = [id |-> p, ok |-> b[i].ok]
  BY <1>2 DEF Row
<1>4. i \in A \/ i \in E
  BY <1>2, <1>3 DEF Hits
<1>5. IsFiniteSet(A) /\ IsFiniteSet(E)
  <2>1. IsFiniteSet(1..n)
    <3>1. 1 \in Int /\ n \in Int
      BY <1>1
    <3> QED
      BY <3>1, FS_Interval
  <2>2. A \in SUBSET (1..n) /\ E \in SUBSET (1..n)
    BY DEF Hits
  <2> QED
    BY <2>1, <2>2, FS_Subset
<1>6. answers' = [s \in Prompts |->
                   answers[s] + Cardinality(Hits(b, 1, n, s, TRUE))]
      /\ errors' = [s \in Prompts |->
                   errors[s] + Cardinality(Hits(b, 1, n, s, FALSE))]
  BY Zenon DEF Spill, Hits
<1>7. answers'[p] = answers[p] + Cardinality(A)
      /\ errors'[p] = errors[p] + Cardinality(E)
  BY <1>2, <1>6
<1>8. Cardinality(A) \in Nat /\ Cardinality(E) \in Nat
      /\ (Cardinality(A) # 0 \/ Cardinality(E) # 0)
  <2> HIDE DEF A, E
  <2>1. Cardinality(A) \in Nat /\ Cardinality(E) \in Nat
    BY <1>5, FS_CardinalityType
  <2>2. A # {} \/ E # {}
    BY <1>4
  <2>3. Cardinality(A) # 0 \/ Cardinality(E) # 0
    BY <1>5, <2>2, FS_EmptySet
  <2> QED
    BY <2>1, <2>3
<1>9. answers[p] \in Nat /\ errors[p] \in Nat
  BY <1>2, LineType
<1> HIDE DEF A, E, p
<1>10. answers'[p] + errors'[p] >= 1
  BY <1>7, <1>8, <1>9
<1> QED
  BY <1>10 DEF p

\* The same of lines.
LEMMA SpillLines ==
  ASSUME OutputType, NEW g \in Gens, NEW b \in Seq(Row), NEW n \in 0..Len(b),
         NEW part, Spill(g, b, n, part)
  PROVE  /\ \A p \in Prompts : Line(p)' >= Line(p)
         /\ \A p \in Prompts :
              (\A i \in 1..n : b[i].id # p) => Line(p)' = Line(p)
         /\ tail = (IF gens[g].cut THEN g ELSE Clean) =>
              \A p \in Prompts :
                (\E i \in 1..n : b[i].id = p) => Line(p)' >= 1
<1>1. /\ OutputType'
      /\ \A p \in Prompts :
           answers'[p] >= answers[p] /\ errors'[p] >= errors[p]
      /\ \A p \in Prompts : (\A i \in 1..n : b[i].id # p) =>
           answers'[p] = answers[p] /\ errors'[p] = errors[p]
  BY SpillAdds
<1>2. \A p \in Prompts : /\ answers[p] \in Nat /\ errors[p] \in Nat
                         /\ answers'[p] \in Nat /\ errors'[p] \in Nat
  BY <1>1 DEF OutputType
<1>3. ASSUME tail = IF gens[g].cut THEN g ELSE Clean
      PROVE  \A p \in Prompts :
               (\E i \in 1..n : b[i].id = p) => Line(p)' >= 1
  <2>1. \A i \in 1..n : answers'[b[i].id] + errors'[b[i].id] >= 1
    BY <1>3, SpillDelivers
  <2> QED
    BY <2>1 DEF Line
<1> QED
  BY <1>1, <1>2, <1>3 DEF Line

LEMMA HeldIsPrompts ==
  ASSUME GensType, NEW g \in Gens
  PROVE  Held(gens[g]) \subseteq Prompts
<1>1. Ids(gens[g].buffer) \subseteq Prompts
  BY ProcessFields, RowOfBuffer DEF Ids
<1> QED
  BY <1>1, ProcessFields DEF Held

\* No row is lost when one is appended or the first are taken off.
LEMMA AppendedIds ==
  ASSUME NEW b \in Seq(Row), NEW r \in Row
  PROVE  Ids(b) \cup {r.id} \subseteq Ids(Append(b, r))
<1> DEFINE c == Append(b, r)
<1>1. /\ Len(c) = Len(b) + 1 /\ Len(b) \in Nat /\ c[Len(b) + 1] = r
      /\ \A i \in 1..Len(b) : c[i] = b[i]
  OBVIOUS
<1> HIDE DEF c
<1>2. \A i \in 1..Len(b) : i \in 1..Len(c) /\ c[i].id = b[i].id
  BY <1>1
<1>3. Len(b) + 1 \in 1..Len(c) /\ c[Len(b) + 1].id = r.id
  BY <1>1
<1> QED
  BY <1>2, <1>3 DEF Ids, c

LEMMA RestIds ==
  ASSUME NEW b \in Seq(Row), NEW n \in 0..Len(b), NEW i \in 1..Len(b), i > n
  PROVE  b[i].id \in Ids(SubSeq(b, n + 1, Len(b)))
<1> DEFINE c == SubSeq(b, n + 1, Len(b))
<1>1. /\ Len(c) = Len(b) - n /\ Len(b) \in Nat /\ n \in Nat
      /\ \A j \in 1..Len(c) : c[j] = b[n + j]
  BY SMTT(30)
<1> HIDE DEF c
<1>2. i - n \in 1..Len(c) /\ n + (i - n) = i
  BY <1>1
<1>3. c[i - n].id = b[i].id
  BY <1>1, <1>2
<1> QED
  BY <1>2, <1>3 DEF Ids, c

LEMMA SpillTail ==
  ASSUME NEW g \in Gens, NEW b, NEW n \in Nat, NEW part \in Parts,
         Spill(g, b, n, part)
  PROVE  /\ part # "none" /\ (n > 0 \/ tail = IF gens[g].cut THEN g ELSE Clean)
              => tail' = g
         /\ part = "none" /\ n > 0 => tail' = Clean
         /\ part = "none" /\ n = 0 => tail' = tail
         /\ Sound(g) => Sound(g)'
<1> DEFINE fresh == n > 0 \/ tail = (IF gens[g].cut THEN g ELSE Clean)
           wrote == n > 0 \/ part # "none"
<1>1. g # Clean /\ Mixed # Clean
  BY ChunkFacts DEF Gens, Clean, Mixed
<1>2. tail' = CASE part # "none" /\ fresh   -> g
                [] part # "none" /\ ~fresh  -> Mixed
                [] part = "none" /\ n > 0   -> Clean
                [] OTHER                    -> tail
  BY Zenon DEF Spill
<1>3. torn' = CASE part = "char"            -> g
                [] ~wrote                   -> torn
                [] OTHER                    -> Clean
  BY Zenon DEF Spill
<1>4. \/ ~wrote /\ bare' = bare
      \/ part = "bare" \/ bare' = {}
  BY DEF Spill
<1>5. ~broken /\ ~(wrote /\ torn \notin {Clean, g}) => ~broken'
  BY Zenon DEF Spill
<1>6. /\ wrote <=> n > 0 \/ part # "none"
      /\ n > 0 \/ tail = (IF gens[g].cut THEN g ELSE Clean) => fresh
  OBVIOUS
<1> HIDE DEF fresh, wrote
<1>7. ASSUME ~wrote
      PROVE  tail' = tail /\ torn' = torn
  BY <1>2, <1>3, <1>6, <1>7
<1>a. ASSUME wrote
      PROVE  /\ part = "none" => tail' = Clean
             /\ part # "none" /\ fresh => tail' = g
             /\ part # "none" => tail' # Clean
             /\ torn' \in {Clean, g} /\ (part = "none" => torn' = Clean)
  <2>1. /\ part = "none" => tail' = Clean
        /\ part # "none" /\ fresh => tail' = g
        /\ part # "none" => tail' # Clean
    BY <1>1, <1>2, <1>6, <1>a
  <2>2. torn' \in {Clean, g} /\ (part = "none" => torn' = Clean)
    BY <1>3, <1>a
  <2> QED
    BY <2>1, <2>2
<1>8. ASSUME Sound(g)
      PROVE  Sound(g)'
  <2>1. ~broken' /\ torn' \in {Clean, g}
    BY <1>5, <1>7, <1>a, <1>8 DEF Sound
  <2>2. ASSUME tail' = Clean
        PROVE  torn' = Clean /\ bare' = {}
    BY <1>4, <1>6, <1>7, <1>a, <1>8, <2>2 DEF Sound
  <2> QED
    BY <2>1, <2>2 DEF Sound
<1> QED
  BY <1>6, <1>7, <1>a, <1>8

\* Process g goes on as q: what it held is a line or held by q, and nothing
\* else has become one.
LEMMA WorkGoesOn ==
  ASSUME OnceInv, OnceInv', ~overlapped, ~overlapped',
         NEW k \in Nat, NEW g, Working(g, k), NEW q,
         gens' = [gens EXCEPT ![g] = q],
         Held(q) \subseteq Held(gens[g]),
         \A p \in Held(gens[g]) : p \in Held(q) \/ Line(p)' >= 1,
         \A p \in Prompts : Line(p)' >= Line(p),
         \A p \in Prompts : p \notin Held(gens[g]) => Line(p)' = Line(p)
  PROVE  /\ \A h \in Gens : h # g => ~gens'[h].alive
         /\ gens'[g] = q
         /\ \A p \in Prompts :
              /\ p <= Upto(k) => Line(p)' = 1
              /\ p <= Upto(k + 1) => Line(p)' = 1 \/ p \in Held(q)
              /\ p > Upto(k + 1) => Line(p)' = 0 /\ p \notin Held(q)
<1>1. /\ g \in Gens /\ \A h \in Gens : gens[h].alive => h = g
      /\ OutputType /\ OutputType'
      /\ gens \in [Gens -> Process]
  BY DEF Working, OnceInv, GensType
<1>2. \A h \in Gens : gens'[h] = IF h = g THEN q ELSE gens[h]
  BY <1>1
<1>3. ASSUME NEW p \in Prompts
      PROVE  Line(p) \in Nat /\ Line(p)' \in Nat /\ Line(p)' <= 1
  BY <1>1 DEF OnceInv, LinesOnce, OutputType, Line
<1>4. ASSUME NEW p \in Prompts
      PROVE  /\ p <= Upto(k) => Line(p) = 1
             /\ p <= Upto(k + 1) => Line(p) = 1 \/ p \in Held(gens[g])
             /\ p > Upto(k + 1) => Line(p) = 0 /\ p \notin Held(gens[g])
  BY DEF Working
<1>5. ASSUME NEW p \in Prompts
      PROVE  /\ p <= Upto(k) => Line(p)' = 1
             /\ p <= Upto(k + 1) => Line(p)' = 1 \/ p \in Held(q)
             /\ p > Upto(k + 1) => Line(p)' = 0 /\ p \notin Held(q)
  <2> DEFINE old == Line(p)
             new == Line(p)'
  <2>1. /\ old \in Nat /\ new \in Nat /\ new <= 1 /\ new >= old
        /\ p \in Held(gens[g]) => p \in Held(q) \/ new >= 1
        /\ p \notin Held(gens[g]) => new = old
    BY <1>3
  <2>2. /\ p <= Upto(k) => old = 1
        /\ p <= Upto(k + 1) => old = 1 \/ p \in Held(gens[g])
        /\ p > Upto(k + 1) => old = 0 /\ p \notin Held(gens[g])
    BY <1>4
  <2> HIDE DEF old, new
  <2>3. /\ p <= Upto(k) => new = 1
        /\ p <= Upto(k + 1) => new = 1 \/ p \in Held(q)
        /\ p > Upto(k + 1) => new = 0 /\ p \notin Held(q)
    BY <2>1, <2>2
  <2> QED
    BY <2>3 DEF new
<1> QED
  BY <1>1, <1>2, <1>5

-----------------------------------------------------------------------------
(* The steps of a process.                                                 *)

\* While a process is alive the orchestrator waits for it.
LEMMA AtWork ==
  ASSUME CoverInv, Smooth, NEW g \in Gens, gens[g].alive
  PROVE  /\ ~overlapped /\ phase = "wait" /\ g = Current /\ chunk \in Nat
         /\ Working(g, chunk) /\ exit # "complete" /\ launches # 0
<1>1. SmoothInv /\ chunk \in Nat
  BY DEF CoverInv, CountInv
<1>2. ~Quiet
  BY DEF Quiet
<1>3. phase = "wait" /\ Working(Current, chunk)
  BY <1>1, <1>2 DEF SmoothInv
<1>4. g = Current
  BY <1>3 DEF Working
<1> QED
  BY <1>1, <1>3, <1>4 DEF SmoothInv

\* What a step of a process that leaves the counters alone has to show.
LEMMA ProcessSmooth ==
  ASSUME CoverInv, NEW g \in Gens, gens[g].alive,
         UNCHANGED <<phase, chunk, exit, launches, kills, orphans,
                     coldFails, overlapped>>,
         Current' = Current,
         Smooth => Working(g, chunk)' \/ (Quiet' /\ Covered(chunk + 1)')
  PROVE  CountInv' /\ SmoothInv'
<1>1. CountInv'
  BY DEF CoverInv, CountInv
<1>2. ASSUME Smooth'
      PROVE  SmoothInv'
  <2>1. Smooth
    BY <1>2 DEF Smooth
  <2>2. /\ ~overlapped' /\ phase' = "wait" /\ g = Current'
        /\ exit' # "complete" /\ launches' # 0 /\ chunk' = chunk
    BY <2>1, AtWork
  <2>3. Working(Current, chunk)' \/ (Quiet' /\ Covered(chunk + 1)')
    BY <2>1, <2>2
  <2> QED
    BY <2>2, <2>3 DEF SmoothInv
<1>3. ~Smooth' => SmoothInv'
  BY DEF SmoothInv
<1> QED
  BY <1>1, <1>2, <1>3

LEMMA BornOfProcess ==
  ASSUME BornInv, GensType, NEW g \in Gens, NEW q, gens[g].alive,
         gens' = [gens EXCEPT ![g] = q], q.born
  PROVE  BornInv' /\ Current' = Current
<1>1. \A h \in Gens : gens'[h] = IF h = g THEN q ELSE gens[h]
  BY DEF GensType
<1>2. Born' = Born
  BY <1>1 DEF Born, BornInv
<1> QED
  BY <1>1, <1>2 DEF BornInv, Current

LEMMA SendCover ==
  ASSUME CoverInv, OnceInv', NEW g \in Gens, Send(g)
  PROVE  CoverInv'
<1>1. PICK p \in gens[g].todo :
        gens' = [gens EXCEPT ![g].todo = @ \ {p}, ![g].flight = @ \cup {p}]
  BY DEF Send
<1> DEFINE q == [gens[g] EXCEPT !.todo = @ \ {p}, !.flight = @ \cup {p}]
<1>2. /\ OnceInv /\ GensType /\ gens[g].alive /\ gens[g] \in Process
      /\ BornInv /\ gens[g].born
      /\ UNCHANGED <<output, phase, chunk, exit, launches, kills, orphans,
                    coldFails, overlapped>>
  BY ProcessFields DEF CoverInv, BornInv, OnceInv, Send, history, control,
                       faults
<1>3. gens' = [gens EXCEPT ![g] = q]
  BY <1>1, <1>2 DEF GensType, Process
<1>4. /\ q.todo = gens[g].todo \ {p} /\ q.flight = gens[g].flight \cup {p}
      /\ q.buffer = gens[g].buffer /\ q.cut = gens[g].cut
      /\ q.born = gens[g].born /\ q.alive = gens[g].alive
  BY <1>2 DEF Process
<1> HIDE DEF q
<1>5. Held(q) = Held(gens[g])
  BY <1>4 DEF Held
<1>6. BornInv' /\ Current' = Current
  BY <1>2, <1>3, <1>4, BornOfProcess
<1>7. ASSUME Smooth PROVE Working(g, chunk)'
  <2>1. Working(g, chunk) /\ ~overlapped /\ chunk \in Nat
    BY <1>2, <1>7, AtWork
  <2>2. \A s : Line(s)' = Line(s)
    BY <1>2 DEF Line, output
  <2>3. /\ \A s \in Prompts : Line(s)' >= Line(s)
        /\ \A s \in Prompts : s \notin Held(gens[g]) => Line(s)' = Line(s)
        /\ \A s \in Held(gens[g]) : s \in Held(q) \/ Line(s)' >= 1
        /\ Held(q) \subseteq Held(gens[g])
    BY <1>2, <1>5, <2>2, LineType DEF OnceInv
  <2>4. /\ gens'[g] = q /\ \A h \in Gens : h # g => ~gens'[h].alive
        /\ \A s \in Prompts :
              /\ s <= Upto(chunk) => Line(s)' = 1
              /\ s <= Upto(chunk + 1) => Line(s)' = 1 \/ s \in Held(q)
              /\ s > Upto(chunk + 1) => Line(s)' = 0 /\ s \notin Held(q)
    BY <1>2, <1>3, <2>1, <2>3, WorkGoesOn
  <2>5. tail' = (IF q.cut THEN g ELSE Clean) /\ Sound(g)'
    BY <1>2, <1>4, <2>1 DEF Working, Sound, output
  <2>6. q.alive /\ (q.cut => q.buffer # <<>>)
    BY <1>2, <1>4, <2>1 DEF Working
  <2> QED
    BY <1>2, <2>4, <2>5, <2>6 DEF Working
<1> QED
  BY <1>2, <1>6, <1>7, ProcessSmooth DEF CoverInv

\* A process is still at work when its buffer and the file's end agree.
LEMMA StillWorking ==
  ASSUME OnceInv, OnceInv', ~overlapped, ~overlapped',
         NEW k \in Nat, NEW g, Working(g, k), NEW q,
         gens' = [gens EXCEPT ![g] = q],
         Held(q) \subseteq Held(gens[g]),
         \A p \in Held(gens[g]) : p \in Held(q) \/ Line(p)' >= 1,
         \A p \in Prompts : Line(p)' >= Line(p),
         \A p \in Prompts : p \notin Held(gens[g]) => Line(p)' = Line(p),
         q.alive, q.cut => q.buffer # <<>>,
         tail' = IF q.cut THEN g ELSE Clean, Sound(g)'
  PROVE  Working(g, k)'
<1>1. /\ \A h \in Gens : h # g => ~gens'[h].alive
      /\ gens'[g] = q
      /\ \A p \in Prompts :
           /\ p <= Upto(k) => Line(p)' = 1
           /\ p <= Upto(k + 1) => Line(p)' = 1 \/ p \in Held(q)
           /\ p > Upto(k + 1) => Line(p)' = 0 /\ p \notin Held(q)
  BY WorkGoesOn
<1> QED
  BY <1>1 DEF Working

LEMMA CompleteCover ==
  ASSUME CoverInv, OnceInv', NEW g \in Gens, NEW p \in Prompts,
         NEW ok \in BOOLEAN, Complete(g, p, ok)
  PROVE  CoverInv'
<1> DEFINE b == gens[g].buffer
           r == [id |-> p, ok |-> ok]
           c == Append(b, r)
           flush == (gens[g].completed + 1) % FlushEvery = 0
           q == [gens[g] EXCEPT !.flight = @ \ {p},
                                !.completed = (@ + 1) % FlushEvery,
                                !.buffer = IF flush THEN <<>> ELSE c,
                                !.cut = @ /\ ~flush]
<1>1. /\ OnceInv /\ OutputType /\ GensType
      /\ gens[g].alive /\ p \in gens[g].flight
      /\ gens[g] \in Process /\ BornInv /\ gens[g].born /\ b \in Seq(Row)
      /\ UNCHANGED <<phase, chunk, exit, launches, kills, orphans, coldFails,
                    overlapped>>
  BY ProcessFields DEF CoverInv, BornInv, OnceInv, Complete, history,
                       control, faults
<1>2. /\ gens' = [gens EXCEPT ![g].flight = @ \ {p},
                              ![g].completed = (@ + 1) % FlushEvery,
                              ![g].buffer = IF flush THEN <<>> ELSE c,
                              ![g].cut = @ /\ ~flush]
      /\ flush => Spill(g, c, Len(c), "none")
      /\ ~flush => UNCHANGED output
  BY DEF Complete
<1>3. r \in Row /\ r.id = p
  BY DEF Row
<1>4. gens' = [gens EXCEPT ![g] = q]
  BY <1>1, <1>2 DEF GensType, Process
<1>5. /\ q.todo = gens[g].todo /\ q.flight = gens[g].flight \ {p}
      /\ q.buffer = IF flush THEN <<>> ELSE c
      /\ q.cut = (gens[g].cut /\ ~flush)
      /\ q.born = gens[g].born /\ q.alive = gens[g].alive
  <2> HIDE DEF flush, c
  <2> QED
    BY <1>1 DEF Process
<1> HIDE DEF q, r
<1>6. /\ c \in Seq(Row) /\ Len(c) = Len(b) + 1 /\ Ids(c) = Ids(b) \cup {p}
      /\ Len(b) \in Nat /\ c # <<>>
  <2>1. c \in Seq(Row) /\ Len(c) = Len(b) + 1 /\ Ids(c) = Ids(b) \cup {p}
    BY <1>1, <1>3, AppendedRow, AppendedIds
  <2>2. Len(b) \in Nat
    BY <1>1
  <2>3. Len(c) # 0
    BY <2>1, <2>2
  <2>4. Len(<<>>) = 0
    OBVIOUS
  <2> HIDE DEF c
  <2> QED
    BY <2>1, <2>2, <2>3, <2>4
<1>7. BornInv' /\ Current' = Current
  BY <1>1, <1>4, <1>5, BornOfProcess
<1> HIDE DEF c, flush
<1>8. ASSUME Smooth PROVE Working(g, chunk)'
  <2>1. Working(g, chunk) /\ ~overlapped /\ chunk \in Nat
    BY <1>1, <1>8, AtWork
  <2>2. tail = IF gens[g].cut THEN g ELSE Clean
    BY <2>1 DEF Working
  <2>3. Ids(<<>>) = {}
    BY DEF Ids
  <2>4. CASE flush
    <3>1. /\ Spill(g, c, Len(c), "none")
          /\ Len(c) \in 0..Len(c) /\ Len(c) \in Nat /\ Len(c) > 0
      <4> DEFINE m == Len(c)
      <4>1. m = Len(b) + 1 /\ Len(b) \in Nat
        BY <1>6
      <4> HIDE DEF m
      <4>2. m \in 0..m /\ m \in Nat /\ m > 0
        BY <4>1
      <4> QED
        BY <1>2, <2>4, <4>2 DEF m
    <3>2. /\ \A s \in Prompts : Line(s)' >= Line(s)
          /\ \A s \in Prompts :
               (\A i \in 1..Len(c) : c[i].id # s) => Line(s)' = Line(s)
          /\ \A s \in Prompts :
               (\E i \in 1..Len(c) : c[i].id = s) => Line(s)' >= 1
      BY <1>1, <1>6, <2>2, <3>1, SpillLines
    <3>3. Held(q) = gens[g].todo \cup (gens[g].flight \ {p})
      BY <1>5, <2>3, <2>4 DEF Held
    <3>4. Held(gens[g]) = Held(q) \cup Ids(c)
      BY <1>1, <1>6, <3>3 DEF Held, b
    <3>5. \A s \in Prompts : s \in Ids(c) => Line(s)' >= 1
      BY <3>2 DEF Ids
    <3>6. Held(gens[g]) \subseteq Prompts
      BY <1>1, HeldIsPrompts
    <3>7. \A s \in Prompts : s \notin Ids(c) => Line(s)' = Line(s)
      BY <3>2 DEF Ids
    <3>8. /\ Held(q) \subseteq Held(gens[g])
          /\ \A s \in Held(gens[g]) : s \in Held(q) \/ Line(s)' >= 1
          /\ \A s \in Prompts : s \notin Held(gens[g]) => Line(s)' = Line(s)
      BY <3>4, <3>5, <3>7, <3>6
    <3>9. tail' = Clean /\ ~q.cut /\ q.alive /\ Sound(g)'
      <4>1. Sound(g) /\ "none" \in Parts
        BY <2>1 DEF Working, Parts
      <4> QED
        BY <1>1, <1>5, <2>4, <3>1, <4>1, SpillTail
    <3> QED
      BY <1>1, <1>4, <2>1, <3>2, <3>8, <3>9, StillWorking
  <2>5. CASE ~flush
    <3>1. \A s : Line(s)' = Line(s)
      BY <1>2, <2>5 DEF Line, output
    <3>2. Held(q) = Held(gens[g])
      BY <1>1, <1>5, <1>6, <2>5 DEF Held, b
    <3>3. /\ \A s \in Prompts : Line(s)' >= Line(s)
          /\ \A s \in Prompts : s \notin Held(gens[g]) => Line(s)' = Line(s)
          /\ \A s \in Held(gens[g]) : s \in Held(q) \/ Line(s)' >= 1
          /\ Held(q) \subseteq Held(gens[g])
      BY <1>1, <3>1, <3>2, LineType
    <3>4. q.alive /\ (q.cut => q.buffer # <<>>)
      BY <1>1, <1>5, <1>6, <2>5
    <3>5. tail' = (IF q.cut THEN g ELSE Clean) /\ Sound(g)'
      <4>1. UNCHANGED output /\ Sound(g) /\ (q.cut <=> gens[g].cut)
        BY <1>2, <1>5, <2>1, <2>5 DEF Working
      <4> QED
        BY <2>2, <4>1 DEF Sound, output
    <3> QED
      BY <1>1, <1>4, <2>1, <3>3, <3>4, <3>5, StillWorking
  <2> QED
    BY <2>4, <2>5
<1> QED
  BY <1>1, <1>7, <1>8, ProcessSmooth DEF CoverInv

LEMMA OverflowCover ==
  ASSUME CoverInv, OnceInv', NEW g \in Gens, Overflow(g)
  PROVE  CoverInv'
<1> DEFINE b == gens[g].buffer
<1>1. PICK n \in 0..Len(b), part \in Parts :
        /\ IF part = "none" THEN n > 0 ELSE n < Len(b)
        /\ Spill(g, b, n, part)
        /\ gens' = [gens EXCEPT ![g].buffer = SubSeq(@, n + 1, Len(@)),
                                ![g].cut = (part # "none")]
  BY DEF Overflow
<1> DEFINE c == SubSeq(b, n + 1, Len(b))
           q == [gens[g] EXCEPT !.buffer = c, !.cut = (part # "none")]
<1>2. /\ OnceInv /\ OutputType /\ GensType /\ gens[g].alive
      /\ gens[g] \in Process /\ BornInv /\ gens[g].born /\ b \in Seq(Row)
      /\ UNCHANGED <<phase, chunk, exit, launches, kills, orphans, coldFails,
                    overlapped>>
  BY ProcessFields DEF CoverInv, BornInv, OnceInv, Overflow, history,
                       control, faults
<1>3. gens' = [gens EXCEPT ![g] = q]
  BY <1>1, <1>2 DEF GensType, Process
<1>4. /\ Ids(c) \subseteq Ids(b)
      /\ \A i \in 1..Len(b) : i > n => b[i].id \in Ids(c)
      /\ n < Len(b) => c # <<>>
      /\ n \in Nat /\ 1..n \subseteq 1..Len(b)
  <2>1. /\ Ids(c) \subseteq Ids(b)
        /\ \A i \in 1..Len(b) : i > n => b[i].id \in Ids(c)
    BY <1>2, RestOfBuffer, RestIds
  <2>2. Len(b) \in Nat /\ n \in Nat
    BY <1>2
  <2>3. n < Len(b) => c # <<>>
    <3>1. Ids(<<>>) = {}
      BY DEF Ids
    <3>2. n < Len(b) => Len(b) \in 1..Len(b)
      BY <2>2
    <3> HIDE DEF c
    <3> QED
      BY <2>1, <3>1, <3>2
  <2> QED
    BY <2>1, <2>2, <2>3
<1> HIDE DEF b, c
<1>5. /\ q.todo = gens[g].todo /\ q.flight = gens[g].flight
      /\ q.buffer = c /\ q.cut = (part # "none")
      /\ q.born = gens[g].born /\ q.alive = gens[g].alive
  BY <1>2 DEF Process
<1> HIDE DEF q
<1>6. BornInv' /\ Current' = Current
  BY <1>2, <1>3, <1>5, BornOfProcess
<1>7. ASSUME Smooth PROVE Working(g, chunk)'
  <2>1. Working(g, chunk) /\ ~overlapped /\ chunk \in Nat
    BY <1>2, <1>7, AtWork
  <2>2. tail = IF gens[g].cut THEN g ELSE Clean
    BY <2>1 DEF Working
  <2>3. /\ \A s \in Prompts : Line(s)' >= Line(s)
        /\ \A s \in Prompts :
             (\A i \in 1..n : b[i].id # s) => Line(s)' = Line(s)
        /\ \A s \in Prompts :
             (\E i \in 1..n : b[i].id = s) => Line(s)' >= 1
    BY <1>1, <1>2, <2>2, SpillLines
  <2>4. \A s \in Prompts : s \in Ids(b) => s \in Ids(c) \/ Line(s)' >= 1
    <3> SUFFICES ASSUME NEW s \in Prompts, s \in Ids(b)
                 PROVE  s \in Ids(c) \/ \E i \in 1..n : b[i].id = s
      BY <2>3
    <3>1. PICK i \in 1..Len(b) : b[i].id = s
      BY DEF Ids
    <3>2. i > n \/ i \in 1..n
      BY <1>4
    <3> QED
      BY <1>4, <3>1, <3>2
  <2>5. Held(gens[g]) \subseteq Prompts
    BY <1>2, HeldIsPrompts
  <2>6. \A s \in Prompts : s \notin Ids(b) => Line(s)' = Line(s)
    BY <1>4, <2>3 DEF Ids
  <2>7. /\ Held(gens[g]) = gens[g].todo \cup gens[g].flight \cup Ids(b)
        /\ Held(q) = gens[g].todo \cup gens[g].flight \cup Ids(c)
    BY <1>5 DEF Held, b
  <2>8. /\ Held(q) \subseteq Held(gens[g])
        /\ \A s \in Held(gens[g]) : s \in Held(q) \/ Line(s)' >= 1
        /\ \A s \in Prompts : s \notin Held(gens[g]) => Line(s)' = Line(s)
    BY <1>4, <2>4, <2>6, <2>7, <2>5
  <2>9. tail' = (IF q.cut THEN g ELSE Clean) /\ Sound(g)'
    <3>1. /\ part # "none" => tail' = g
          /\ part = "none" /\ n > 0 => tail' = Clean
          /\ Sound(g)'
      BY <1>1, <1>4, <2>1, <2>2, SpillTail DEF Working
    <3> QED
      BY <1>1, <1>5, <3>1
  <2>10. q.alive /\ (q.cut => q.buffer # <<>>)
    BY <1>1, <1>2, <1>4, <1>5
  <2> QED
    BY <1>2, <1>3, <2>1, <2>3, <2>8, <2>9, <2>10, StillWorking
<1> QED
  BY <1>2, <1>6, <1>7, ProcessSmooth DEF CoverInv

LEMMA InterruptCover ==
  ASSUME CoverInv, OnceInv', NEW g \in Gens, Interrupt(g)
  PROVE  CoverInv'
<1> DEFINE q == [gens[g] EXCEPT !.stop = TRUE]
<1>1. /\ OnceInv /\ OutputType /\ GensType /\ gens[g].alive
      /\ gens[g] \in Process /\ BornInv /\ gens[g].born
      /\ gens' = [gens EXCEPT ![g].stop = TRUE]
      /\ UNCHANGED <<output, phase, chunk, exit, launches, kills, orphans,
                    coldFails, overlapped>>
  BY ProcessFields DEF CoverInv, BornInv, OnceInv, Interrupt, history,
                       control
<1>2. gens' = [gens EXCEPT ![g] = q]
  BY <1>1 DEF GensType, Process
<1>3. /\ q.todo = gens[g].todo /\ q.flight = gens[g].flight
      /\ q.buffer = gens[g].buffer /\ q.cut = gens[g].cut
      /\ q.born = gens[g].born /\ q.alive = gens[g].alive
  BY <1>1 DEF Process
<1> HIDE DEF q
<1>4. BornInv' /\ Current' = Current
  BY <1>1, <1>2, <1>3, BornOfProcess
<1>5. ASSUME Smooth PROVE Working(g, chunk)'
  <2>1. Working(g, chunk) /\ ~overlapped /\ chunk \in Nat
    BY <1>1, <1>5, AtWork
  <2>2. \A s : Line(s)' = Line(s)
    BY <1>1 DEF Line, output
  <2>3. Held(q) = Held(gens[g])
    BY <1>3 DEF Held
  <2>4. /\ \A s \in Prompts : Line(s)' >= Line(s)
        /\ \A s \in Prompts : s \notin Held(gens[g]) => Line(s)' = Line(s)
        /\ \A s \in Held(gens[g]) : s \in Held(q) \/ Line(s)' >= 1
        /\ Held(q) \subseteq Held(gens[g])
    BY <1>1, <2>2, <2>3, LineType
  <2>5. /\ tail' = (IF q.cut THEN g ELSE Clean) /\ Sound(g)'
        /\ q.alive /\ (q.cut => q.buffer # <<>>)
    BY <1>1, <1>3, <2>1 DEF Working, Sound, output
  <2> QED
    BY <1>1, <1>2, <2>1, <2>4, <2>5, StillWorking
<1> QED
  BY <1>1, <1>4, <1>5, ProcessSmooth DEF CoverInv

\* The process ends: what it held has all become lines.
LEMMA CloseCover ==
  ASSUME CoverInv, OnceInv', NEW g \in Gens, Close(g)
  PROVE  CoverInv'
<1> DEFINE b == gens[g].buffer
<1>1. /\ OnceInv /\ OutputType /\ GensType /\ gens[g].alive /\ BornInv
      /\ gens[g].todo = {} /\ gens[g].flight = {} /\ b \in Seq(Row)
      /\ gens' = [gens EXCEPT ![g] = Dead]
      /\ Spill(g, b, Len(b), "none")
      /\ UNCHANGED <<phase, chunk, exit, launches, kills, orphans, coldFails,
                    overlapped>>
  BY ProcessFields DEF CoverInv, OnceInv, Close, history, control, faults
<1>2. Dead.born /\ ~Dead.alive /\ Held(Dead) = {}
  BY DEF Dead, Unborn, Held, Ids
<1>3. BornInv' /\ Current' = Current
  BY <1>1, <1>2, BornOfProcess
<1>4. Held(gens[g]) = Ids(b) /\ Held(gens[g]) \subseteq Prompts
  BY <1>1, HeldIsPrompts DEF Held
<1>5. Len(b) \in Nat /\ Len(b) \in 0..Len(b) /\ (Len(b) = 0 => b = <<>>)
  BY <1>1
<1> HIDE DEF b
<1>6. ASSUME Smooth PROVE Quiet' /\ Covered(chunk + 1)'
  <2>1. Working(g, chunk) /\ ~overlapped /\ chunk \in Nat
    BY <1>1, <1>6, AtWork
  <2>2. /\ tail = IF gens[g].cut THEN g ELSE Clean
        /\ gens[g].cut => b # <<>>
    BY <2>1 DEF Working, b
  <2>3. /\ \A s \in Prompts : Line(s)' >= Line(s)
        /\ \A s \in Prompts :
             (\A i \in 1..Len(b) : b[i].id # s) => Line(s)' = Line(s)
        /\ \A s \in Prompts :
             (\E i \in 1..Len(b) : b[i].id = s) => Line(s)' >= 1
    BY <1>1, <1>5, <2>2, SpillLines
  <2>4. /\ \A s \in Prompts : s \in Ids(b) => Line(s)' >= 1
        /\ \A s \in Prompts : s \notin Ids(b) => Line(s)' = Line(s)
    BY <2>3 DEF Ids
  <2>5. /\ \A s \in Held(gens[g]) : s \in Held(Dead) \/ Line(s)' >= 1
        /\ \A s \in Prompts : s \notin Held(gens[g]) => Line(s)' = Line(s)
        /\ Held(Dead) \subseteq Held(gens[g])
    BY <1>2, <1>4, <2>4
  <2>6. /\ \A h \in Gens : h # g => ~gens'[h].alive
        /\ gens'[g] = Dead
        /\ \A s \in Prompts :
             /\ s <= Upto(chunk + 1) => Line(s)' = 1 \/ s \in Held(Dead)
             /\ s > Upto(chunk + 1) => Line(s)' = 0
    BY <1>1, <2>1, <2>3, <2>5, WorkGoesOn
  <2>7. tail' = Clean /\ Sound(g)'
    <3>1. Sound(g) /\ "none" \in Parts
      BY <2>1 DEF Working, Parts
    <3>2. /\ (Len(b) > 0 => tail' = Clean) /\ (Len(b) = 0 => tail' = tail)
          /\ Sound(g)'
      BY <1>1, <1>5, <3>1, SpillTail
    <3> QED
      BY <1>5, <2>2, <3>2
  <2>8. Quiet'
    BY <1>2, <2>6, <2>7 DEF Quiet, Sound
  <2>9. \A s \in Prompts : s <= Upto(chunk + 1) \/ s > Upto(chunk + 1)
    <3>1. Upto(chunk + 1) \in Nat
      BY <2>1, UptoFacts
    <3> QED
      BY <3>1 DEF Prompts
  <2>10. \A s \in Prompts :
           Line(s)' = IF s <= Upto(chunk + 1) THEN 1 ELSE 0
    BY <1>2, <2>6, <2>9
  <2> QED
    BY <1>1, <2>8, <2>10 DEF Covered, Upto
<1> QED
  BY <1>1, <1>3, <1>6, ProcessSmooth DEF CoverInv

\* A kill ends what is asked of the run.
LEMMA KillCover ==
  ASSUME CoverInv, OnceInv', NEW g \in Gens, KillGenerate(g)
  PROVE  CoverInv'
<1>1. /\ GensType /\ BornInv /\ CountInv /\ gens[g].alive /\ Dead.born
      /\ gens' = [gens EXCEPT ![g] = Dead] /\ kills' = kills + 1
      /\ UNCHANGED <<launches, orphans, chunk>>
  BY DEF CoverInv, OnceInv, KillGenerate, control, Dead, Unborn
<1>2. BornInv'
  BY <1>1, BornOfProcess
<1>3. CountInv' /\ ~Smooth'
  BY <1>1 DEF CountInv, Smooth
<1> QED
  BY <1>2, <1>3 DEF CoverInv, SmoothInv

-----------------------------------------------------------------------------
(* The steps of the orchestrator.                                          *)

LEMMA CurrentFacts ==
  ASSUME BornInv
  PROVE  Current \in 0..MaxGens /\ Born = 1..Current
<1>1. PICK n \in 0..MaxGens : Born = 1..n
  BY DEF BornInv
<1>2. n \in Nat
  BY <1>1, ChunkFacts
<1>3. Cardinality(1..n) = n
  <2>1. 1 \in Int /\ n \in Int
    BY <1>2
  <2>2. Cardinality(1..n) = IF 1 > n THEN 0 ELSE n - 1 + 1
    BY <2>1, FS_Interval
  <2> QED
    BY <1>2, <2>2
<1> QED
  BY <1>1, <1>3 DEF Current

\* Where neither the processes nor the file change, they cover what they did.
LEMMA FileStands ==
  ASSUME UNCHANGED <<output, gens>>
  PROVE  /\ BornInv' = BornInv /\ Current' = Current /\ Quiet' = Quiet
         /\ \A k : Covered(k)' = Covered(k)
         /\ \A g, k : Working(g, k)' = Working(g, k)
<1>1. \A p : Line(p)' = Line(p)
  BY DEF Line, output
<1>2. BornInv' = BornInv /\ Current' = Current
  BY DEF BornInv, Born, Current
<1>a. tail' = tail /\ \A g : Sound(g)' = Sound(g)
  BY DEF Sound, output
<1>3. Quiet' = Quiet
  BY <1>a DEF Quiet
<1>4. \A k : Covered(k)' = Covered(k)
  BY <1>1 DEF Covered, Upto
<1>5. \A g, k : Working(g, k)' = Working(g, k)
  BY <1>1, <1>a DEF Working, Upto
<1> QED
  BY <1>2, <1>3, <1>4, <1>5

LEMMA RunGenerateCover ==
  ASSUME CoverInv, OnceInv', RunGenerate
  PROVE  CoverInv'
<1>0. PICK k : k = Current + 1
  OBVIOUS
<1> DEFINE new == [Dead EXCEPT !.alive = TRUE, !.todo = Batch]
<1>a. PICK q : q = IF Undecodable THEN Dead ELSE new
  OBVIOUS
<1>1. /\ OutputType /\ GensType /\ BornInv /\ CountInv /\ SmoothInv
      /\ phase = "startup" /\ phase' = "wait" /\ Current < MaxGens
      /\ gens' = [gens EXCEPT ![k] = q]
      /\ overlapped' = (overlapped \/ (Alive # {} /\ ~Undecodable))
      /\ UNCHANGED <<output, chunk, exit, launches, kills, orphans, coldFails>>
  BY <1>0, <1>a DEF CoverInv, OnceInv, RunGenerate, faults
<1>2. Current \in 0..MaxGens /\ Born = 1..Current /\ MaxGens \in Nat
  BY <1>1, CurrentFacts, ChunkFacts
<1>3. k \in Gens /\ Current \in Nat
  BY <1>0, <1>1, <1>2 DEF Gens
<1>4. /\ q.born
      /\ ~Undecodable => /\ q.alive /\ ~q.cut /\ q.todo = Batch
                         /\ q.flight = {} /\ q.buffer = <<>>
  BY <1>a DEF Dead, Unborn
<1> HIDE DEF new
<1>5. \A h \in Gens : gens'[h] = IF h = k THEN q ELSE gens[h]
  BY <1>1 DEF GensType
<1>6. Born' = 1..k
  <2>1. Born' = Born \cup {k}
    BY <1>3, <1>4, <1>5 DEF Born
  <2>2. 1..Current \cup {k} = 1..k
    BY <1>0, <1>3
  <2> QED
    BY <1>2, <2>1, <2>2
<1>7. k \in 0..MaxGens
  BY <1>3, <1>2 DEF Gens
<1>8. BornInv'
  BY <1>1, <1>4, <1>5, <1>6, <1>7 DEF BornInv
<1>9. Current' = k
  <2>1. Cardinality(1..k) = k
    <3>1. 1 \in Int /\ k \in Int /\ k > 0
      BY <1>0, <1>3
    <3>2. Cardinality(1..k) = IF 1 > k THEN 0 ELSE k - 1 + 1
      BY <3>1, FS_Interval
    <3> QED
      BY <3>1, <3>2
  <2> QED
    BY <1>6, <2>1 DEF Current
<1>10. CountInv'
  BY <1>1 DEF CountInv
<1>11. ASSUME Smooth
       PROVE  /\ ~overlapped' /\ Working(k, chunk)'
              /\ exit # "complete" /\ launches # 0
  <2>1. /\ Quiet /\ Covered(chunk) /\ ~overlapped
        /\ exit # "complete" /\ launches # 0 /\ chunk \in Nat
    BY <1>1, <1>11 DEF SmoothInv, CountInv
  <2>a. ~Undecodable /\ bare = {} /\ Sound(k)' /\ tail' = Clean
    BY <1>1, <2>1 DEF Quiet, Sound, Undecodable, output
  <2>2. ~overlapped'
    BY <1>1, <2>1 DEF Quiet, Alive
  <2>3. Batch = {p \in Prompts : Upto(chunk) < p /\ p <= Upto(chunk + 1)}
    BY <1>1, <2>1, <2>a, BatchIsNext
  <2>4. Held(q) = Batch
    BY <1>4, <2>a DEF Held, Ids
  <2>5. /\ Upto(chunk) \in Nat /\ Upto(chunk + 1) \in Nat
        /\ Upto(chunk) <= Upto(chunk + 1)
    BY <2>1, UptoFacts, ChunkFacts
  <2>6. \A p \in Prompts : Line(p)' = IF p <= Upto(chunk) THEN 1 ELSE 0
    BY <1>1, <2>1 DEF Covered, Line, output
  <2>7. \A p \in Prompts :
          /\ p <= Upto(chunk) => Line(p)' = 1
          /\ p <= Upto(chunk + 1) => Line(p)' = 1 \/ p \in Held(q)
          /\ p > Upto(chunk + 1) => Line(p)' = 0 /\ p \notin Held(q)
    <3> SUFFICES ASSUME NEW p \in Prompts
                 PROVE  /\ p <= Upto(chunk) => Line(p)' = 1
                        /\ p <= Upto(chunk + 1) =>
                             Line(p)' = 1 \/ p \in Held(q)
                        /\ p > Upto(chunk + 1) =>
                             Line(p)' = 0 /\ p \notin Held(q)
      OBVIOUS
    <3>1. p \in Int
      BY DEF Prompts
    <3>2. p \in Held(q) <=> Upto(chunk) < p /\ p <= Upto(chunk + 1)
      BY <2>3, <2>4
    <3>3. Line(p)' = IF p <= Upto(chunk) THEN 1 ELSE 0
      BY <2>6
    <3> QED
      BY <2>5, <3>1, <3>2, <3>3
  <2>8. /\ gens'[k] = q /\ q.alive /\ ~q.cut
        /\ \A h \in Gens : gens'[h].alive => h = k
    BY <1>3, <1>4, <1>5, <2>1, <2>a DEF Quiet
  <2>9. Working(k, chunk)'
    BY <1>1, <1>3, <2>7, <2>8, <2>a DEF Working, Upto
  <2> QED
    BY <2>1, <2>2, <2>9
<1>12. ASSUME Smooth'
       PROVE  SmoothInv'
  <2>1. Smooth
    BY <1>1, <1>12 DEF Smooth
  <2> QED
    BY <1>1, <1>9, <1>11, <2>1 DEF SmoothInv
<1> QED
  BY <1>8, <1>10, <1>12 DEF CoverInv, SmoothInv

\* The steps after which nothing is asked of the run any more.
LEMMA FaultCover ==
  ASSUME CoverInv, OnceInv',
         StartupFails \/ SshDrops \/ Hang \/ KillOrchestrator
  PROVE  CoverInv'
<1>1. /\ UNCHANGED <<output, gens, launches, kills>>
      /\ \/ coldFails' = TRUE /\ orphans' = orphans
         \/ phase' = "hung" /\ orphans' = orphans
         \/ orphans' = orphans + 1
      /\ chunk' \in {chunk, 0} /\ CountInv /\ BornInv
  BY DEF CoverInv, StartupFails, SshDrops, Hang, KillOrchestrator, End,
         control, faults
<1>2. CountInv' /\ ~Smooth'
  BY <1>1 DEF CountInv, Smooth
<1>3. BornInv'
  BY <1>1, FileStands
<1> QED
  BY <1>2, <1>3 DEF CoverInv, SmoothInv

LEMMA LoopCover ==
  ASSUME CoverInv, OnceInv',
         \/ StartChunk \/ WaitReturns \/ CountChunk \/ AllChunksDone
         \/ Launch \/ NoSpace \/ VllmDies \/ UNCHANGED vars
  PROVE  CoverInv'
<1>1. /\ UNCHANGED <<output, gens, kills, orphans, coldFails, overlapped>>
      /\ CountInv /\ BornInv /\ SmoothInv /\ chunk \in Nat /\ launches \in Nat
  BY DEF CoverInv, CountInv, StartChunk, WaitReturns, CountChunk,
         AllChunksDone, Launch, NoSpace, VllmDies, history, faults, vars
<1>2. /\ BornInv' /\ Current' = Current /\ Quiet' = Quiet
      /\ \A k : Covered(k)' = Covered(k)
      /\ \A g, k : Working(g, k)' = Working(g, k)
  BY <1>1, FileStands
<1>3. launches' \in Nat /\ launches <= launches' /\ chunk' \in Nat
  BY <1>1 DEF StartChunk, WaitReturns, CountChunk, AllChunksDone, Launch,
              NoSpace, VllmDies, End, control, vars
<1>4. CountInv'
  BY <1>1, <1>3 DEF CountInv
<1>5. ASSUME Smooth'
      PROVE  Smooth
  <2>1. phase = "hung" => phase' = "hung"
    BY DEF StartChunk, WaitReturns, CountChunk, AllChunksDone, Launch, NoSpace,
           VllmDies, vars
  <2> QED
    BY <1>1, <1>3, <1>5, <2>1 DEF Smooth
<1>6. ASSUME Smooth, Smooth'
      PROVE  SmoothInv'
  <2>1. CASE StartChunk
    BY <1>1, <1>2, <1>6, <2>1 DEF SmoothInv, StartChunk
  <2>2. CASE WaitReturns
    <3>1. Quiet /\ Covered(chunk + 1)
      BY <1>1, <1>6, <2>2 DEF SmoothInv, WaitReturns, Working
    <3> QED
      BY <1>1, <1>2, <1>6, <2>2, <3>1
      DEF SmoothInv, WaitReturns, LeaveChunk, control
  <2>3. CASE CountChunk
    BY <1>1, <1>2, <1>6, <2>3 DEF SmoothInv, CountChunk, End
  <2>4. CASE AllChunksDone
    BY <1>1, <1>2, <1>6, <2>4 DEF SmoothInv, AllChunksDone, End
  <2>5. CASE Launch
    <3>1. launches = 0 /\ launches' = 1
      BY <1>1, <1>6, <2>5 DEF Launch, Smooth
    <3> QED
      BY <1>1, <1>2, <1>6, <2>5, <3>1 DEF SmoothInv, Launch, End, control
  <2>6. CASE NoSpace
    BY <1>1, <1>2, <1>6, <2>6 DEF SmoothInv, NoSpace, End
  <2>7. CASE VllmDies
    BY <1>1, <1>2, <1>6, <2>7 DEF SmoothInv, VllmDies, control
  <2>8. CASE UNCHANGED vars
    BY <1>1, <1>2, <1>6, <2>8 DEF SmoothInv, vars, control
  <2> QED
    BY <2>1, <2>2, <2>3, <2>4, <2>5, <2>6, <2>7, <2>8
<1> QED
  BY <1>2, <1>4, <1>5, <1>6 DEF CoverInv, SmoothInv

-----------------------------------------------------------------------------
(* The theorem.                                                            *)

LEMMA InitCover == Init => CoverInv
<1> SUFFICES ASSUME Init PROVE CoverInv
  OBVIOUS
<1>1. OnceInv
  BY InitOnce
<1>2. CountInv
  BY DEF Init, CountInv
<1>3. \A g \in Gens : ~gens[g].alive /\ ~gens[g].born
  BY DEF Init, Unborn
<1>4. BornInv
  <2>1. Born = 1..0
    BY <1>3 DEF Born
  <2> QED
    BY <1>3, <2>1, ChunkFacts DEF BornInv
<1>5. Quiet
  BY <1>3 DEF Quiet, Sound, Init
<1>6. Covered(0)
  BY UptoFacts DEF Covered, Line, Init, Prompts
<1>7. SmoothInv
  BY <1>5, <1>6 DEF SmoothInv, Init
<1> QED
  BY <1>1, <1>2, <1>4, <1>7 DEF CoverInv

LEMMA NextCover == CoverInv /\ [Next]_vars => CoverInv'
<1> SUFFICES ASSUME CoverInv, [Next]_vars
             PROVE  CoverInv'
  OBVIOUS
<1>1. OnceInv'
  BY NextOnce DEF CoverInv
<1>2. ASSUME NEW g \in Gens, GenerateStep(g)
      PROVE  CoverInv'
  BY <1>1, <1>2, SendCover, CompleteCover, CloseCover DEF GenerateStep
<1>3. ASSUME NEW g \in Gens, Overflow(g) \/ Interrupt(g) \/ KillGenerate(g)
      PROVE  CoverInv'
  BY <1>1, <1>3, OverflowCover, InterruptCover, KillCover
<1>4. CASE RunGenerate
  BY <1>1, <1>4, RunGenerateCover
<1>5. CASE StartupFails \/ SshDrops \/ Hang \/ KillOrchestrator
  BY <1>1, <1>5, FaultCover
<1>6. CASE \/ StartChunk \/ WaitReturns \/ CountChunk \/ AllChunksDone
           \/ Launch \/ NoSpace \/ VllmDies \/ UNCHANGED vars
  BY <1>1, <1>6, LoopCover
<1> QED
  BY <1>2, <1>3, <1>4, <1>5, <1>6 DEF Next, OrchestratorStep

LEMMA AlwaysCover == Spec => []CoverInv
BY InitCover, NextCover, PTL DEF Spec

\* An orchestrator that is there has not ended.
ExitInv == phase # "off" => exit = "none"

LEMMA AlwaysExit == Spec => []ExitInv
<1>1. Init => ExitInv
  BY DEF Init, ExitInv
<1>2. ExitInv /\ [Next]_vars => ExitInv'
  <2> SUFFICES ASSUME ExitInv, [Next]_vars
               PROVE  ExitInv'
    OBVIOUS
  <2>1. ASSUME NEW g \in Gens, \/ GenerateStep(g) \/ Overflow(g)
                               \/ Interrupt(g) \/ KillGenerate(g)
        PROVE  UNCHANGED <<phase, exit>>
    BY <2>1 DEF GenerateStep, Send, Complete, Close, Overflow, Interrupt,
                KillGenerate
  <2>2. CASE \/ StartChunk \/ StartupFails \/ RunGenerate \/ WaitReturns
             \/ VllmDies \/ SshDrops \/ Hang
    BY <2>2, Zenon DEF StartChunk, StartupFails, RunGenerate, WaitReturns,
                       VllmDies, SshDrops, Hang, ExitInv
  <2>3. CASE CountChunk
    BY <2>3 DEF CountChunk, End, ExitInv
  <2>4. CASE AllChunksDone \/ Launch \/ NoSpace \/ KillOrchestrator
    BY <2>4 DEF AllChunksDone, Launch, NoSpace, KillOrchestrator, End, ExitInv
  <2>5. CASE UNCHANGED vars
    BY <2>5 DEF vars, ExitInv
  <2> QED
    BY <2>1, <2>2, <2>3, <2>4, <2>5, SMTT(30)
    DEF Next, OrchestratorStep, ExitInv
<1> QED
  BY <1>1, <1>2, PTL DEF Spec

\* The chunks of such a run cover its prompts.
LEMMA CoverEnds ==
  ASSUME CoverInv, ExitInv
  PROVE  CompleteCoversPrompts
<1> SUFFICES ASSUME exit = "complete", launches = 1, ~coldFails, kills = 0,
                    orphans = 0, NEW p \in Prompts, p <= TotalPerNode
             PROVE  answers[p] + errors[p] = 1
  BY DEF CompleteCoversPrompts
<1>1. Covered(NChunks)
  BY DEF CoverInv, SmoothInv, Smooth, ExitInv
<1>2. p <= Upto(NChunks)
  <2>1. Upto(NChunks) \in Nat
    BY ChunksSuffice, UptoFacts
  <2> QED
    BY <2>1, ChunksSuffice, ChunkFacts DEF Prompts
<1> QED
  BY <1>1, <1>2 DEF Covered, Line

\* A first run that reports COMPLETE, in which every server came up and no
\* generate was killed or abandoned, has exactly one line for each prompt it
\* was to cover (run_chunk, run).
THEOREM CompleteRunCovers == Spec => []CompleteCoversPrompts
<1>1. CoverInv /\ ExitInv => CompleteCoversPrompts
  BY CoverEnds
<1> QED
  BY <1>1, AlwaysCover, AlwaysExit, PTL


-----------------------------------------------------------------------------
(* The number of lines.                                                    *)

LinesType == OutputType /\ garbled \in Nat

LEMMA LinesAreNatural ==
  ASSUME LinesType
  PROVE  Lines \in Nat
<1>1. IsFiniteSet(Prompts)
  <2>1. 1 \in Int /\ NumPrompts \in Int
    BY Parameters
  <2> QED
    BY <2>1, FS_Interval DEF Prompts
<1>2. /\ DOMAIN answers = Prompts /\ DOMAIN errors = Prompts
      /\ \A p \in Prompts : answers[p] \in Nat /\ errors[p] \in Nat
  BY DEF LinesType, OutputType
<1>3. SumFunction(answers) \in Nat /\ SumFunction(errors) \in Nat
  BY <1>1, <1>2, SumOfNaturals DEF SumFunction
<1> QED
  BY <1>3 DEF Lines, LinesType

LEMMA LinesGrow ==
  ASSUME LinesType, LinesType', garbled' >= garbled,
         \A p \in Prompts : answers'[p] >= answers[p] /\ errors'[p] >= errors[p]
  PROVE  Lines \in Nat /\ Lines' \in Nat /\ Lines' >= Lines
<1>1. IsFiniteSet(Prompts)
  <2>1. 1 \in Int /\ NumPrompts \in Int
    BY Parameters
  <2> QED
    BY <2>1, FS_Interval DEF Prompts
<1>2. /\ DOMAIN answers = Prompts /\ DOMAIN errors = Prompts
      /\ DOMAIN answers' = Prompts /\ DOMAIN errors' = Prompts
      /\ \A p \in Prompts : /\ answers[p] \in Int /\ answers'[p] \in Int
                            /\ answers[p] <= answers'[p]
                            /\ errors[p] \in Int /\ errors'[p] \in Int
                            /\ errors[p] <= errors'[p]
  BY DEF LinesType, OutputType
<1>3. SumFunctionOnSet(answers, Prompts) <= SumFunctionOnSet(answers', Prompts)
  BY <1>1, <1>2, SumMonotone
<1>4. SumFunctionOnSet(errors, Prompts) <= SumFunctionOnSet(errors', Prompts)
  BY <1>1, <1>2, SumMonotone
<1>5. /\ \A p \in Prompts : answers[p] \in Nat /\ errors[p] \in Nat
      /\ \A p \in Prompts : answers'[p] \in Nat /\ errors'[p] \in Nat
  BY DEF LinesType, OutputType
<1>6. /\ SumFunctionOnSet(answers, Prompts) \in Nat
      /\ SumFunctionOnSet(errors, Prompts) \in Nat
      /\ SumFunctionOnSet(answers', Prompts) \in Nat
      /\ SumFunctionOnSet(errors', Prompts) \in Nat
  BY <1>1, <1>5, SumOfNaturals
<1> DEFINE a == SumFunctionOnSet(answers, Prompts)
           e == SumFunctionOnSet(errors, Prompts)
           b == SumFunctionOnSet(answers', Prompts)
           f == SumFunctionOnSet(errors', Prompts)
<1>7. Lines = a + e + garbled /\ Lines' = b + f + garbled'
  BY <1>2 DEF Lines, SumFunction
<1>8. /\ {a, e, b, f, garbled, garbled'} \subseteq Nat
      /\ a <= b /\ e <= f
  BY <1>3, <1>4, <1>6 DEF LinesType
<1> HIDE DEF a, e, b, f
<1> QED
  BY <1>7, <1>8

-----------------------------------------------------------------------------
(* Types.                                                                  *)

CountersOK ==
  /\ launches \in 0..MaxLaunches /\ kills \in 0..MaxFaults
  /\ orphans \in 0..MaxFaults /\ outages \in 0..MaxFaults
  /\ sigints \in 0..MaxFaults /\ mishaps \in 0..MaxFaults

\* A chunk in work is one of the chunks.
LoopOK ==
  /\ phase \in {"off", "between", "startup", "wait", "count", "hung"}
  /\ chunk \in 0..NChunks /\ before \in Nat
  /\ phase \in {"startup", "wait", "count"} => chunk < NChunks
  /\ fails \in 0..1
  /\ exit \in {"none", "no_space", "bail_out", "complete", "killed"}
  /\ base \in Nat /\ blind \in Nat

FlagsOK == vllm \in BOOLEAN /\ started \in BOOLEAN /\ coldFails \in BOOLEAN

TailOK ==
  /\ garbled \in Nat /\ tail \in {Clean, Mixed} \cup Gens
  /\ bare \in SUBSET Row /\ torn \in {Clean} \cup Gens /\ broken \in BOOLEAN

TypeInv == OnceInv /\ CountersOK /\ LoopOK /\ FlagsOK /\ TailOK

LEMMA Bounds ==
  /\ MaxFaults \in Nat /\ MaxLaunches \in Nat /\ NChunks \in Nat
BY ChunksSuffice, TeacherRunAssumption

LEMMA SpillTypes ==
  ASSUME TailOK, NEW g \in Gens, NEW b \in Seq(Row), NEW n \in 0..Len(b),
         NEW part, part # "none" => n < Len(b), Spill(g, b, n, part)
  PROVE  TailOK' /\ garbled' >= garbled
<1>1. /\ garbled' \in {garbled, garbled + 1}
      /\ tail' \in {tail, Clean, Mixed, g} /\ torn' \in {torn, Clean, g}
  BY DEF Spill
<1>2. broken' \in BOOLEAN
  BY Zenon DEF Spill
<1>3. \/ bare' = bare \/ bare' = {}
      \/ part = "bare" /\ bare' = {b[n + 1]}
  BY DEF Spill
<1>4. part = "bare" => b[n + 1] \in Row
  <2>1. part = "bare" => n + 1 \in 1..Len(b)
    OBVIOUS
  <2> QED
    BY <2>1, RowOfBuffer
<1>5. bare' \in SUBSET Row
  BY <1>3, <1>4 DEF TailOK
<1> QED
  BY <1>1, <1>2, <1>5 DEF TailOK

\* The file only gets longer.
LEMMA StepsLengthen ==
  ASSUME TypeInv, [Next]_vars
  PROVE  TailOK' /\ Lines \in Nat /\ Lines' \in Nat /\ Lines' >= Lines
<1>1. OnceInv' /\ OutputType /\ OutputType'
  BY NextOnce DEF OnceInv, TypeInv
<1>2. \A p \in Prompts : answers'[p] >= answers[p] /\ errors'[p] >= errors[p]
  BY StepsGrow DEF TypeInv
<1>3. ASSUME UNCHANGED output
      PROVE  TailOK' /\ garbled' >= garbled
  BY <1>3 DEF TypeInv, TailOK, output
<1>4. ASSUME NEW g \in Gens, GenerateStep(g) \/ Overflow(g)
      PROVE  TailOK' /\ garbled' >= garbled
  <2>1. /\ TailOK /\ gens[g].buffer \in Seq(Row)
    BY ProcessFields DEF TypeInv, OnceInv
  <2>2. ASSUME NEW d \in Seq(Row)
        PROVE  Len(d) \in 0..Len(d)
    OBVIOUS
  <2>3. ASSUME NEW p \in Prompts, NEW ok \in BOOLEAN, Complete(g, p, ok)
        PROVE  TailOK' /\ garbled' >= garbled
    <3> DEFINE c == Append(gens[g].buffer, [id |-> p, ok |-> ok])
    <3>1. Spill(g, c, Len(c), "none") \/ UNCHANGED output
      BY <2>3 DEF Complete
    <3>2. c \in Seq(Row)
      BY <2>1, AppendedRow DEF Row
    <3> HIDE DEF c
    <3> QED
      BY <1>3, <2>1, <2>2, <3>1, <3>2, SpillTypes
  <2>4. CASE Send(g)
    BY <1>3, <2>4 DEF Send
  <2>5. CASE Close(g)
    BY <2>1, <2>2, <2>5, SpillTypes DEF Close
  <2>6. CASE Overflow(g)
    BY <2>1, <2>6, SpillTypes DEF Overflow
  <2> QED
    BY <1>4, <2>3, <2>4, <2>5, <2>6 DEF GenerateStep
<1>5. ASSUME NEW g \in Gens, Interrupt(g) \/ KillGenerate(g)
      PROVE  UNCHANGED output
  BY <1>5 DEF Interrupt, KillGenerate
<1>6. ASSUME OrchestratorStep \/ Launch \/ NoSpace \/ VllmDies \/ SshDrops
               \/ Hang \/ KillOrchestrator
      PROVE  UNCHANGED output
  BY <1>6, OtherSteps DEF OrchestratorStep, RunGenerate
<1>7. ASSUME UNCHANGED vars
      PROVE  UNCHANGED output
  BY <1>7 DEF vars
<1>8. TailOK' /\ garbled' >= garbled
  BY <1>3, <1>4, <1>5, <1>6, <1>7 DEF Next
<1> QED
  BY <1>1, <1>2, <1>8, LinesGrow DEF LinesType, TypeInv, TailOK

\* main's return leaves the loop in the state it starts from.
LEMMA EndTypes ==
  ASSUME LoopOK, NEW how \in {"no_space", "bail_out", "complete", "killed"},
         End(how), base' \in Nat, blind' \in Nat
  PROVE  LoopOK'
<1>1. NChunks' = NChunks /\ NChunks \in Nat
  BY Bounds DEF NChunks
<1>2. /\ phase' = "off" /\ exit' = how
      /\ chunk' = 0 /\ before' = 0 /\ fails' = 0
  BY DEF End
<1> QED
  BY <1>1, <1>2 DEF LoopOK

LEMMA LoopTypes ==
  ASSUME TypeInv, [Next]_vars
  PROVE  LoopOK'
<1>1. LoopOK /\ Lines \in Nat /\ NChunks \in Nat /\ NChunks' = NChunks
  BY StepsLengthen, Bounds DEF TypeInv, NChunks
<1>2. ASSUME UNCHANGED <<phase, chunk, before, fails, exit, base, blind>>
      PROVE  LoopOK'
  BY <1>1, <1>2, SMTT(30) DEF LoopOK
<1>3. ASSUME NEW g \in Gens,
             \/ GenerateStep(g) \/ Overflow(g) \/ Interrupt(g)
             \/ KillGenerate(g)
      PROVE  UNCHANGED <<phase, chunk, before, fails, exit, base, blind>>
  BY <1>3 DEF GenerateStep, Send, Complete, Close, Overflow, Interrupt,
              KillGenerate, history, control
<1>a. ASSUME NEW n \in Counted
      PROVE  n \in Nat /\ n <= Lines /\ Missed(n) \in Nat
  BY <1>1, <1>a DEF Counted, Missed
<1>4. CASE VllmDies \/ WaitReturns \/ SshDrops \/ Hang
  <2>1. /\ UNCHANGED <<chunk, before, fails, exit, base, blind>>
        /\ \/ phase' = phase \/ phase' = "hung"
           \/ phase = "wait" /\ phase' = "count"
    BY <1>4 DEF VllmDies, WaitReturns, SshDrops, Hang, LeaveChunk, control,
                history
  <2> QED
    BY <1>1, <2>1 DEF LoopOK
<1>5. CASE Launch
  <2>0. base' = Lines /\ blind' = 0
    BY <1>5, Zenon DEF Launch
  <2>1. base' \in Nat /\ blind' \in Nat
    BY <1>1, <2>0
  <2>2. CASE phase' = "between" /\ exit' = "none" /\ UNCHANGED control
    <3>1. UNCHANGED <<chunk, before, fails>>
      BY <2>2 DEF control
    <3> QED
      BY <1>1, <2>1, <2>2, <3>1 DEF LoopOK
  <2>3. CASE End("no_space")
    BY <1>1, <2>1, <2>3, EndTypes
  <2> QED
    BY <1>5, <2>2, <2>3 DEF Launch
<1>6. CASE NoSpace \/ AllChunksDone \/ KillOrchestrator
  <2>1. base' = base /\ blind' = blind
    BY <1>6 DEF NoSpace, AllChunksDone, KillOrchestrator, history
  <2>2. End("no_space") \/ End("complete") \/ End("killed")
    BY <1>6 DEF NoSpace, AllChunksDone, KillOrchestrator
  <2>3. base' \in Nat /\ blind' \in Nat
    BY <1>1, <2>1 DEF LoopOK
  <2> QED
    BY <1>1, <2>2, <2>3, EndTypes
<1>7. CASE StartChunk
  <2>1. /\ phase = "between" /\ phase' = "startup" /\ chunk < NChunks
        /\ UNCHANGED <<chunk, fails, exit, base>>
    BY <1>7 DEF StartChunk
  <2>2. PICK n \in Counted : before' = n /\ blind' = blind + Missed(n)
    BY <1>7 DEF StartChunk
  <2>3. before' \in Nat /\ blind' \in Nat
    BY <1>1, <1>a, <2>2 DEF LoopOK
  <2> QED
    BY <1>1, <2>1, <2>3 DEF LoopOK
<1>8. CASE StartupFails \/ RunGenerate
  <2>1. /\ phase = "startup" /\ phase' \in {"wait", "count"}
        /\ UNCHANGED <<chunk, before, fails, exit, base, blind>>
    BY <1>8 DEF StartupFails, RunGenerate
  <2> QED
    BY <1>1, <2>1 DEF LoopOK
<1>9. CASE CountChunk
  <2>1. /\ phase = "count" /\ base' = base /\ base \in Nat
        /\ blind' = blind /\ blind \in Nat
    BY <1>1, <1>9 DEF CountChunk, history, LoopOK
  <2>2. PICK failed \in BOOLEAN :
          IF FailsAfter(failed) >= 2
          THEN End("bail_out")
          ELSE /\ phase' = "between" /\ exit' = exit
               /\ chunk' = chunk + 1 /\ fails' = FailsAfter(failed)
               /\ before' = 0
    BY <1>9 DEF CountChunk
  <2>3. FailsAfter(failed) \in Nat
    BY <1>1 DEF LoopOK, FailsAfter
  <2>4. CASE FailsAfter(failed) >= 2
    BY <1>1, <2>1, <2>2, <2>4, EndTypes
  <2>5. CASE ~(FailsAfter(failed) >= 2)
    BY <1>1, <2>1, <2>2, <2>3, <2>5 DEF LoopOK
  <2> QED
    BY <2>4, <2>5
<1>10. CASE UNCHANGED vars
  BY <1>2, <1>10 DEF vars, history, control
<1> QED
  BY <1>2, <1>3, <1>4, <1>5, <1>6, <1>7, <1>8, <1>9, <1>10
  DEF Next, OrchestratorStep

LEMMA FlagTypes ==
  ASSUME FlagsOK, [Next]_vars
  PROVE  FlagsOK'
<1>1. ASSUME NEW g \in Gens,
             \/ GenerateStep(g) \/ Overflow(g) \/ Interrupt(g)
             \/ KillGenerate(g)
      PROVE  UNCHANGED <<vllm, started, coldFails>>
  BY <1>1 DEF GenerateStep, Send, Complete, Close, Overflow, Interrupt,
              KillGenerate, history, control
<1>2. CASE StartChunk \/ WaitReturns \/ SshDrops \/ VllmDies \/ Hang
  BY <1>2 DEF StartChunk, WaitReturns, SshDrops, VllmDies, Hang, LeaveChunk,
              FlagsOK, control, history
<1>3. CASE StartupFails \/ RunGenerate
  BY <1>3 DEF StartupFails, RunGenerate, FlagsOK
<1>4. CASE \/ AllChunksDone \/ Launch \/ NoSpace \/ KillOrchestrator
           \/ CountChunk
  BY <1>4 DEF CountChunk, AllChunksDone, Launch, NoSpace, KillOrchestrator,
              End, FlagsOK, control, history
<1>5. CASE UNCHANGED vars
  BY <1>5 DEF vars, control, history, FlagsOK
<1> QED
  BY <1>1, <1>2, <1>3, <1>4, <1>5, SMTT(30) DEF Next, OrchestratorStep, FlagsOK

LEMMA CounterTypes ==
  ASSUME CountersOK, [Next]_vars
  PROVE  CountersOK'
<1>1. MaxFaults \in Nat /\ MaxLaunches \in Nat
  BY Bounds
<1>2. ASSUME UNCHANGED <<launches, faults>>
      PROVE  CountersOK'
  BY <1>2 DEF CountersOK, faults
<1>3. ASSUME NEW g \in Gens, Interrupt(g) \/ KillGenerate(g)
      PROVE  CountersOK'
  BY <1>1, <1>3, SMTT(30) DEF Interrupt, KillGenerate, FaultsLeft, CountersOK
<1>a. ASSUME NEW n \in Counted
      PROVE  mishaps + Missed(n) \in 0..MaxFaults
  <2>1. n = Lines \/ (n = 0 /\ FaultsLeft)
    BY <1>a DEF Counted
  <2>2. Missed(n) \in {0, 1} /\ (n = Lines => Missed(n) = 0)
    BY DEF Missed
  <2> QED
    BY <1>1, <2>1, <2>2, SMTT(30) DEF FaultsLeft, CountersOK
<1>4. ASSUME NEW g \in Gens, GenerateStep(g) \/ Overflow(g)
      PROVE  UNCHANGED <<launches, faults>>
  BY <1>4 DEF GenerateStep, Send, Complete, Close, Overflow
<1>5. CASE Launch
  BY <1>1, <1>5 DEF Launch, CountersOK, faults
<1>6. CASE VllmDies \/ SshDrops \/ Hang \/ KillOrchestrator
  BY <1>1, <1>6, SMTT(30) DEF VllmDies, SshDrops, Hang, KillOrchestrator,
                              FaultsLeft, CountersOK
<1>7. CASE NoSpace \/ OrchestratorStep
  <2>1. CASE StartChunk \/ CountChunk
    <3>1. /\ UNCHANGED <<launches, kills, orphans, outages, sigints>>
          /\ \E n \in Counted : mishaps' = mishaps + Missed(n)
      BY <2>1 DEF StartChunk, CountChunk
    <3>2. mishaps' \in 0..MaxFaults
      BY <1>a, <3>1
    <3> QED
      BY <3>1, <3>2 DEF CountersOK
  <2>2. CASE \/ NoSpace \/ StartupFails \/ RunGenerate \/ WaitReturns
             \/ AllChunksDone
    <3>1. UNCHANGED <<launches, faults>>
      BY <2>2 DEF NoSpace, StartupFails, RunGenerate, WaitReturns,
                  AllChunksDone
    <3> QED
      BY <1>2, <3>1
  <2> QED
    BY <1>7, <2>1, <2>2 DEF OrchestratorStep
<1>8. CASE UNCHANGED vars
  BY <1>2, <1>8 DEF vars
<1> QED
  BY <1>2, <1>3, <1>4, <1>5, <1>6, <1>7, <1>8 DEF Next

LEMMA InitTypes == Init => TypeInv
<1> SUFFICES ASSUME Init PROVE TypeInv
  OBVIOUS
<1>1. OnceInv
  BY InitOnce
<1>2. CountersOK
  BY Bounds DEF Init, CountersOK
<1>a. TailOK
  BY DEF Init, TailOK
<1>3. LoopOK
  <2>1. phase = "off" /\ chunk = 0 /\ before = 0 /\ fails = 0
        /\ exit = "none" /\ base = 0 /\ blind = 0
    BY DEF Init
  <2> QED
    BY <2>1, Bounds DEF LoopOK
<1>4. FlagsOK
  BY DEF Init, FlagsOK
<1> QED
  BY <1>1, <1>2, <1>a, <1>3, <1>4 DEF TypeInv

LEMMA NextTypes == TypeInv /\ [Next]_vars => TypeInv'
BY NextOnce, CounterTypes, LoopTypes, FlagTypes, StepsLengthen DEF TypeInv

LEMMA AlwaysTypes == Spec => []TypeInv
BY InitTypes, NextTypes, PTL DEF Spec

\* Every variable has its type.
THEOREM TypesAreKept == Spec => []TypeOK
<1>1. TypeInv => TypeOK
  BY DEF TypeInv, TypeOK, OnceInv, OutputType, GensType, CountersOK, LoopOK,
         FlagsOK, TailOK
<1> QED
  BY <1>1, AlwaysTypes, PTL

-----------------------------------------------------------------------------
(* Lines that are spoilt.                                                  *)

\* The file ends in a row that the live process g is writing, or at a newline.
Continued == tail = Clean \/ \E g \in Gens : gens[g].alive /\ tail = g

\* A process that has written a part of a row has its rest in the buffer; a
\* row nobody will go on with has cost a kill and, as yet, no line.
SpoiltInv ==
  ~overlapped =>
    /\ \A g \in Gens : tail = g => gens[g].born
    /\ \A g \in Gens : gens[g].alive =>
         IF gens[g].cut
         THEN gens[g].buffer # <<>> /\ tail \in {g, Mixed}
         ELSE tail # g
    /\ garbled <= kills
    /\ ~Continued => garbled < kills

\* What a step of process g has to show, as long as it writes alone.
LEMMA SpoiltGoesOn ==
  ASSUME TypeInv, BornInv, SpoiltInv, NEW g \in Gens, gens[g].alive,
         \A h \in Gens : h # g => gens'[h] = gens[h],
         overlapped' = overlapped,
         ~overlapped =>
           /\ gens'[g].born
           /\ tail' = tail \/ tail' \in {Clean, Mixed, g}
           /\ gens'[g].alive =>
                IF gens'[g].cut
                THEN gens'[g].buffer # <<>> /\ tail' \in {g, Mixed}
                ELSE tail' # g
           /\ garbled' <= kills'
           /\ \/ garbled' < kills'
              \/ tail' = Clean
              \/ gens'[g].alive /\ tail' = g
  PROVE  SpoiltInv'
<1> SUFFICES ASSUME ~overlapped PROVE SpoiltInv'
  BY DEF SpoiltInv
<1>1. \A h \in Gens : gens[h].alive => h = g
  BY DEF TypeInv, OnceInv, SoleWriter
<1>2. \A h \in Gens : gens'[h].alive => h = g
  BY <1>1
<1>3. \A h \in Gens : h # Clean /\ h # Mixed
  BY ChunkFacts DEF Gens, Clean, Mixed
<1>4. \A h \in Gens : tail' = h => gens'[h].born
  BY <1>3 DEF SpoiltInv
<1> QED
  BY <1>2, <1>4 DEF SpoiltInv, Continued

\* A spill spoils a line only where a row was left that nobody goes on with,
\* and none is left then.
LEMMA SpillSpoils ==
  ASSUME TypeInv, SpoiltInv, ~overlapped, NEW g \in Gens, gens[g].alive,
         NEW b, NEW n \in Nat, NEW part \in Parts, Spill(g, b, n, part)
  PROVE  /\ n = 0 /\ part = "none" => tail' = tail /\ garbled' = garbled
         /\ part = "none" /\ n > 0 => tail' = Clean
         /\ part # "none" => tail' \in {g, Mixed}
         /\ garbled' <= kills
         /\ (n = 0 /\ part = "none") \/ garbled' < kills \/ tail' \in {Clean, g}
<1>1. kills \in Nat /\ garbled \in Nat
  BY Bounds DEF TypeInv, CountersOK, TailOK
<1>2. \A h \in Gens : gens[h].alive => h = g
  BY DEF TypeInv, OnceInv, SoleWriter
<1>3. g # Clean /\ g # Mixed /\ Clean # Mixed
  BY ChunkFacts DEF Gens, Clean, Mixed
<1> DEFINE whole == tail = (IF gens[g].cut THEN g ELSE Clean)
           fresh == n > 0 \/ whole
<1>4. /\ garbled' = IF n > 0 /\ ~whole THEN garbled + 1 ELSE garbled
      /\ part # "none" /\ fresh => tail' = g
      /\ part # "none" /\ ~fresh => tail' = Mixed
      /\ part = "none" /\ n > 0 => tail' = Clean
      /\ part = "none" /\ ~(n > 0) => tail' = tail
  BY DEF Spill
<1>5. garbled <= kills /\ (~whole => garbled < kills)
  <2>1. ~whole => ~Continued
    BY <1>2, <1>3 DEF SpoiltInv, Continued
  <2> QED
    BY <2>1 DEF SpoiltInv
<1> HIDE DEF whole
<1> QED
  BY <1>1, <1>4, <1>5

LEMMA SpoiltOfProcess ==
  ASSUME TypeInv, BornInv, SpoiltInv, NEW g \in Gens,
         GenerateStep(g) \/ Overflow(g) \/ Interrupt(g) \/ KillGenerate(g)
  PROVE  SpoiltInv'
<1>1. /\ gens[g].alive /\ overlapped' = overlapped /\ GensType
      /\ gens[g] \in Process
  BY ProcessFields DEF GenerateStep, Send, Complete, Close, Overflow,
                       Interrupt, KillGenerate, history, TypeInv, OnceInv
<1>2. gens[g].born /\ gens[g].buffer \in Seq(Row) /\ gens[g].cut \in BOOLEAN
  BY <1>1 DEF BornInv, Process
<1>3. kills \in Nat /\ garbled \in Nat
  BY Bounds DEF TypeInv, CountersOK, TailOK
<1>4. \A h \in Gens : h # g => gens'[h] = gens[h]
  BY <1>1 DEF GenerateStep, Send, Complete, Close, Overflow, Interrupt,
              KillGenerate, GensType
<1>5. ASSUME ~overlapped
      PROVE  /\ garbled <= kills
             /\ garbled < kills \/ tail = Clean \/ tail = g
             /\ IF gens[g].cut
                THEN gens[g].buffer # <<>> /\ tail \in {g, Mixed}
                ELSE tail # g
  <2>1. \A h \in Gens : gens[h].alive => h = g
    BY <1>1, <1>5 DEF TypeInv, OnceInv, SoleWriter
  <2> QED
    BY <1>1, <1>5, <2>1 DEF SpoiltInv, Continued
<1>6. CASE Send(g) \/ Interrupt(g)
  <2>1. /\ tail' = tail /\ garbled' = garbled /\ kills' = kills
        /\ gens'[g].alive /\ gens'[g].born
        /\ gens'[g].cut = gens[g].cut /\ gens'[g].buffer = gens[g].buffer
    BY <1>1, <1>2, <1>6 DEF Send, Interrupt, output, faults, GensType, Process
  <2> QED
    BY <1>1, <1>4, <1>5, <2>1, SpoiltGoesOn
<1>7. ASSUME NEW p \in Prompts, NEW ok \in BOOLEAN, Complete(g, p, ok)
      PROVE  SpoiltInv'
  <2> DEFINE c == Append(gens[g].buffer, [id |-> p, ok |-> ok])
             flush == (gens[g].completed + 1) % FlushEvery = 0
  <2>1. Len(c) \in Nat /\ Len(c) > 0 /\ c # <<>>
    <3>1. [id |-> p, ok |-> ok] \in Row
      BY DEF Row
    <3>2. ASSUME NEW b \in Seq(Row), NEW r \in Row
          PROVE  /\ Len(Append(b, r)) \in Nat /\ Len(Append(b, r)) > 0
                 /\ Append(b, r) # <<>>
      OBVIOUS
    <3> QED
      BY <1>2, <3>1, <3>2
  <2>2. /\ kills' = kills
        /\ gens' = [gens EXCEPT ![g].flight = @ \ {p},
                                ![g].completed = (@ + 1) % FlushEvery,
                                ![g].buffer = IF flush THEN <<>> ELSE c,
                                ![g].cut = @ /\ ~flush]
        /\ IF flush THEN Spill(g, c, Len(c), "none") ELSE UNCHANGED output
    BY <1>7 DEF Complete, faults
  <2> HIDE DEF c, flush
  <2>3. /\ gens'[g].alive /\ gens'[g].born
        /\ gens'[g].buffer = IF flush THEN <<>> ELSE c
        /\ gens'[g].cut = (gens[g].cut /\ ~flush)
    BY <1>1, <1>2, <2>2, SMTT(30) DEF GensType, Process
  <2>4. CASE flush
    <3>1. ~overlapped => tail' = Clean /\ garbled' <= kills
      BY <1>1, <2>1, <2>2, <2>4, SpillSpoils DEF Parts
    <3>2. Clean # g
      BY ChunkFacts DEF Gens, Clean
    <3> QED
      BY <1>1, <1>4, <2>2, <2>3, <2>4, <3>1, <3>2, SpoiltGoesOn
  <2>5. CASE ~flush
    <3>1. /\ tail' = tail /\ garbled' = garbled
          /\ gens'[g].buffer # <<>> /\ gens'[g].cut = gens[g].cut
      BY <1>2, <2>1, <2>2, <2>3, <2>5 DEF output
    <3> QED
      BY <1>1, <1>4, <1>5, <2>2, <2>3, <3>1, SpoiltGoesOn
  <2> QED
    BY <2>4, <2>5
<1>8. CASE Overflow(g)
  <2>1. PICK n \in 0..Len(gens[g].buffer), part \in Parts :
          /\ IF part = "none" THEN n > 0 ELSE n < Len(gens[g].buffer)
          /\ Spill(g, gens[g].buffer, n, part)
          /\ gens' = [gens EXCEPT ![g].buffer = SubSeq(@, n + 1, Len(@)),
                                  ![g].cut = (part # "none")]
    BY <1>8 DEF Overflow
  <2>2. n \in Nat /\ kills' = kills
    BY <1>2, <1>8 DEF Overflow, faults
  <2>3. /\ gens'[g].alive /\ gens'[g].born
        /\ gens'[g].buffer = SubSeq(gens[g].buffer, n + 1, Len(gens[g].buffer))
        /\ gens'[g].cut = (part # "none")
    BY <1>1, <1>2, <2>1 DEF GensType, Process
  <2>4. part # "none" => gens'[g].buffer # <<>>
    <3>1. ASSUME NEW b \in Seq(Row), NEW m \in Nat, m < Len(b)
          PROVE  SubSeq(b, m + 1, Len(b)) # <<>>
      <4>1. Len(SubSeq(b, m + 1, Len(b))) = Len(b) - m
        BY <3>1
      <4>2. Len(b) \in Nat /\ Len(b) - m # 0 /\ Len(<<>>) = 0
        BY <3>1
      <4> QED
        BY <4>1, <4>2
    <3> QED
      BY <1>2, <2>1, <2>2, <2>3, <3>1
  <2>5. ~overlapped =>
          /\ part = "none" => tail' = Clean
          /\ part # "none" => tail' \in {g, Mixed}
          /\ garbled' <= kills
          /\ garbled' < kills \/ tail' \in {Clean, g}
    BY <1>1, <2>1, <2>2, SpillSpoils
  <2>6. Clean # g /\ Mixed # g
    BY ChunkFacts DEF Gens, Clean, Mixed
  <2> QED
    BY <1>1, <1>4, <2>2, <2>3, <2>4, <2>5, <2>6, SpoiltGoesOn
<1>9. CASE Close(g)
  <2> DEFINE n == Len(gens[g].buffer)
  <2>1. n \in Nat /\ (n = 0 => gens[g].buffer = <<>>)
    <3>1. ASSUME NEW b \in Seq(Row)
          PROVE  Len(b) \in Nat /\ (Len(b) = 0 => b = <<>>)
      OBVIOUS
    <3> QED
      BY <1>2, <3>1
  <2>2. /\ Spill(g, gens[g].buffer, n, "none") /\ kills' = kills
        /\ gens' = [gens EXCEPT ![g] = Dead]
    BY <1>9 DEF Close, faults
  <2>3. gens'[g].born /\ ~gens'[g].alive
    BY <1>1, <2>2 DEF GensType, Dead, Unborn
  <2> HIDE DEF n
  <2>4. ASSUME ~overlapped
        PROVE  /\ garbled' <= kills
               /\ garbled' < kills \/ tail' = Clean
               /\ tail' = tail \/ tail' = Clean
    <3>1. /\ n = 0 => tail' = tail /\ garbled' = garbled
          /\ n > 0 => tail' = Clean
          /\ garbled' <= kills
      BY <1>1, <2>1, <2>2, <2>4, SpillSpoils DEF Parts
    <3>2. n = 0 => ~gens[g].cut
      BY <1>5, <2>1, <2>4
    <3> QED
      BY <1>5, <2>1, <2>4, <3>1, <3>2
  <2> QED
    BY <1>1, <1>4, <2>2, <2>3, <2>4, SpoiltGoesOn
<1>10. CASE KillGenerate(g)
  <2>1. /\ tail' = tail /\ garbled' = garbled /\ kills' = kills + 1
        /\ gens' = [gens EXCEPT ![g] = Dead]
    BY <1>10 DEF KillGenerate, output
  <2>2. gens'[g].born /\ ~gens'[g].alive
    BY <1>1, <2>1 DEF GensType, Dead, Unborn
  <2>3. ~overlapped => garbled' < kills' /\ garbled' <= kills'
    BY <1>3, <1>5, <2>1
  <2> QED
    BY <1>1, <1>4, <2>1, <2>2, <2>3, SpoiltGoesOn
<1> QED
  BY <1>6, <1>7, <1>8, <1>9, <1>10, SMTT(30) DEF GenerateStep

\* A generate that starts has not written; a row it finds is another's.
LEMMA SpoiltOfStart ==
  ASSUME TypeInv, BornInv, SpoiltInv, RunGenerate
  PROVE  SpoiltInv'
<1> DEFINE k == Current + 1
<1> SUFFICES ASSUME ~overlapped' PROVE SpoiltInv'
  BY DEF SpoiltInv
<1>1. /\ ~overlapped /\ (Alive = {} \/ Undecodable) /\ GensType
      /\ tail' = tail /\ garbled' = garbled /\ kills' = kills
      /\ gens' = [gens EXCEPT ![k] =
                    IF Undecodable THEN Dead
                    ELSE [Dead EXCEPT !.alive = TRUE, !.todo = Batch]]
  BY DEF RunGenerate, output, faults, TypeInv, OnceInv
<1>2. k \in Gens /\ ~gens[k].born /\ ~gens[k].alive
  <2>1. Current \in 0..MaxGens /\ Born = 1..Current /\ Current < MaxGens
    BY CurrentFacts DEF RunGenerate
  <2>2. k \in Gens /\ k \notin 1..Current
    BY <2>1, ChunkFacts DEF Gens
  <2> HIDE DEF k
  <2> QED
    BY <2>1, <2>2 DEF Born, BornInv
<1> HIDE DEF k
<1>3. \A h \in Gens : h # k => gens'[h] = gens[h]
  BY <1>1, <1>2 DEF GensType
<1>4. /\ gens'[k].born /\ ~gens'[k].cut
      /\ gens'[k].alive => ~Undecodable
  BY <1>1, <1>2 DEF GensType, Dead, Unborn
<1>5. tail # k
  BY <1>1, <1>2 DEF SpoiltInv
<1>6. \A h \in Gens : tail' = h => gens'[h].born
  BY <1>1, <1>3, <1>5 DEF SpoiltInv
<1>7. \A h \in Gens : gens'[h].alive =>
        IF gens'[h].cut
        THEN gens'[h].buffer # <<>> /\ tail' \in {h, Mixed}
        ELSE tail' # h
  BY <1>1, <1>3, <1>4, <1>5 DEF SpoiltInv
<1>8. Continued => Continued'
  BY <1>1, <1>2, <1>3 DEF Continued
<1> QED
  BY <1>1, <1>6, <1>7, <1>8 DEF SpoiltInv

LEMMA NextSpoilt ==
  TypeInv /\ BornInv /\ SpoiltInv /\ [Next]_vars => SpoiltInv'
<1> SUFFICES ASSUME TypeInv, BornInv, SpoiltInv, [Next]_vars
             PROVE  SpoiltInv'
  OBVIOUS
<1>1. ASSUME NEW g \in Gens, \/ GenerateStep(g) \/ Overflow(g)
                             \/ Interrupt(g) \/ KillGenerate(g)
      PROVE  SpoiltInv'
  BY <1>1, SpoiltOfProcess
<1>2. CASE RunGenerate
  BY <1>2, SpoiltOfStart
<1>3. ASSUME UNCHANGED <<output, gens, overlapped, kills>>
      PROVE  SpoiltInv'
  BY <1>3 DEF SpoiltInv, Continued, output
<1>4. CASE \/ StartChunk \/ StartupFails \/ WaitReturns \/ CountChunk
           \/ AllChunksDone \/ Launch \/ NoSpace \/ VllmDies \/ SshDrops
           \/ Hang \/ KillOrchestrator
  <2>1. kills' = kills
    BY <1>4 DEF StartChunk, StartupFails, WaitReturns, CountChunk,
                AllChunksDone, Launch, NoSpace, VllmDies, SshDrops, Hang,
                KillOrchestrator, faults
  <2> QED
    BY <1>3, <1>4, <2>1, OtherSteps
<1>5. CASE UNCHANGED vars
  BY <1>3, <1>5 DEF vars, history, faults
<1> QED
  BY <1>1, <1>2, <1>4, <1>5 DEF Next, OrchestratorStep

\* As long as no two generates ran side by side, at most one line was spoilt
\* for each generate that was killed (run's buffer and its flushes).
THEOREM SpoiltLinesAreKills == Spec => []TornLinesAreKills
<1>1. Init => SpoiltInv
  <2>1. Init => \A g \in Gens : ~gens[g].alive /\ tail # g
    BY ChunkFacts DEF Init, Unborn, Gens, Clean
  <2> QED
    BY <2>1 DEF Init, SpoiltInv, Continued
<1>2. CoverInv => BornInv
  BY DEF CoverInv
<1>3. SpoiltInv => TornLinesAreKills
  BY DEF SpoiltInv, TornLinesAreKills
<1> QED
  BY <1>1, <1>2, <1>3, AlwaysTypes, AlwaysCover, NextSpoilt, PTL DEF Spec

-----------------------------------------------------------------------------
(* A run that reports COMPLETE has got somewhere.                          *)

Half == ChunkSize \div 2

\* The x lines added are half a chunk for each of m chunks, and m is half of
\* what is owed.
Earned(x, owed) == \E m \in Nat : 2 * m >= owed /\ x >= m * Half

\* Owed for the chunks done, but not for one that just failed, nor for two for
\* each that was not counted before.
Owed == chunk - fails - 2 * blind

\* What a chunk in work was counted at is what the chunks before it earned;
\* if it was not counted, nothing is owed for it and the one before.
ProgressInv ==
  /\ phase = "between" => Earned(Lines - base, Owed)
  /\ phase \in {"startup", "wait", "count"} =>
       \/ before <= Lines /\ Earned(before - base, Owed)
       \/ Earned(Lines - base, chunk + 1 - 2 * blind)
  /\ phase = "off" => chunk = 0 /\ fails = 0
  /\ phase # "off" => exit = "none"
  /\ CompleteMeansProgress

LEMMA HalfIsNatural == Half \in Nat
BY ChunkFacts DEF Half

LEMMA EarnedGrows ==
  ASSUME NEW x \in Int, NEW y \in Int, x <= y, NEW d \in Int, NEW e \in Int,
         e <= d, Earned(x, d)
  PROVE  Earned(y, e)
<1>1. PICK m \in Nat : 2 * m >= d /\ x >= m * Half
  BY DEF Earned
<1>2. m * Half \in Nat /\ 2 * m >= e
  BY <1>1, HalfIsNatural, ProductGrows
<1> QED
  BY <1>1, <1>2 DEF Earned

\* A chunk that brought half its lines pays for itself and one that failed.
LEMMA EarnedByChunk ==
  ASSUME NEW x \in Int, NEW y \in Int, y - x >= Half, NEW d \in Int,
         Earned(x, d)
  PROVE  Earned(y, d + 2)
<1>1. PICK m \in Nat : 2 * m >= d /\ x >= m * Half
  BY DEF Earned
<1> DEFINE e == m * Half
<1>2. Half \in Nat /\ e \in Nat /\ (m + 1) * Half = e + Half
  BY HalfIsNatural, ProductGrows
<1>3. x >= e
  BY <1>1
<1> HIDE DEF e
<1>4. y >= e + Half
  BY <1>2, <1>3
<1>5. m + 1 \in Nat /\ 2 * (m + 1) >= d + 2
  BY <1>1
<1> QED
  BY <1>2, <1>4, <1>5 DEF Earned

LEMMA EarnedAtEnd ==
  ASSUME NEW x \in Int, NEW f \in 0..1, NEW b \in Nat,
         Earned(x, NChunks - f - 2 * b)
  PROVE  x >= ((NChunks \div 2) - b) * (ChunkSize \div 2)
<1> DEFINE h == NChunks \div 2
<1>1. PICK m \in Nat : 2 * m >= NChunks - f - 2 * b /\ x >= m * Half
  BY DEF Earned
<1>2. NChunks \in Nat /\ Half \in Nat
  BY Bounds, HalfIsNatural
<1>3. h \in Nat /\ 2 * h <= NChunks
  BY <1>2
<1> HIDE DEF h
<1>4. h - b <= m
  BY <1>1, <1>2, <1>3
<1>5. m * Half \in Nat
  BY <1>2, ProductGrows
<1>6. (h - b) * Half <= m * Half
  <2>1. CASE h >= b
    <3>1. h - b \in Nat
      BY <1>3, <2>1
    <3> QED
      BY <1>2, <1>4, <3>1, ProductGrows
  <2>2. CASE h < b
    <3>1. h * Half \in Nat /\ b * Half \in Nat /\ h * Half <= b * Half
      BY <1>2, <1>3, <2>2, ProductGrows
    <3>2. (h - b) * Half = h * Half - b * Half
      BY <1>2, <1>3
    <3> QED
      BY <1>5, <3>1, <3>2
  <2> QED
    BY <1>3, <2>1, <2>2
<1>7. (h - b) * Half \in Int
  BY <1>2, <1>3
<1> QED
  BY <1>1, <1>5, <1>6, <1>7 DEF h, Half

LEMMA ProgressStep ==
  ASSUME TypeInv, ProgressInv, [Next]_vars
  PROVE  ProgressInv'
<1>1. /\ Lines \in Nat /\ Lines' \in Nat /\ Lines' >= Lines /\ NChunks \in Nat
      /\ LoopOK
  BY StepsLengthen, Bounds DEF TypeInv
<1> DEFINE L == Lines
           M == Lines'
           Goal(b) == ((NChunks \div 2) - b) * (ChunkSize \div 2)
<1>a. L \in Nat /\ M \in Nat /\ M >= L
  BY <1>1
<1>b. /\ chunk \in Nat /\ fails \in 0..1 /\ before \in Nat /\ base \in Nat
      /\ blind \in Nat /\ Owed \in Int /\ Owed = chunk - fails - 2 * blind
      /\ phase = "between" => Earned(L - base, Owed)
      /\ phase \in {"startup", "wait", "count"} =>
           \/ before <= L /\ Earned(before - base, Owed)
           \/ Earned(L - base, chunk + 1 - 2 * blind)
      /\ phase = "off" => chunk = 0 /\ fails = 0
      /\ phase # "off" => exit = "none"
      /\ exit = "complete" => L - base >= Goal(blind)
  <2>1. /\ chunk \in Nat /\ fails \in 0..1 /\ before \in Nat /\ base \in Nat
        /\ blind \in Nat
    BY <1>1 DEF LoopOK
  <2>2. Owed \in Int /\ Owed = chunk - fails - 2 * blind
    BY <2>1 DEF Owed
  <2> QED
    BY <2>1, <2>2 DEF ProgressInv, CompleteMeansProgress
<1>c. ASSUME /\ phase' = "between" => Earned(M - base', Owed')
             /\ phase' \in {"startup", "wait", "count"} =>
                  \/ before' <= M /\ Earned(before' - base', Owed')
                  \/ Earned(M - base', chunk' + 1 - 2 * blind')
             /\ phase' = "off" => chunk' = 0 /\ fails' = 0
             /\ phase' # "off" => exit' = "none"
             /\ exit' = "complete" => M - base' >= Goal(blind')
      PROVE  ProgressInv'
  BY <1>c DEF ProgressInv, CompleteMeansProgress, NChunks, Earned, Half
<1>d. Goal(blind) \in Int
  <2>1. NChunks \div 2 \in Int /\ ChunkSize \div 2 \in Int
    BY Bounds, HalfIsNatural DEF Half
  <2> QED
    BY <1>b, <2>1
<1> HIDE DEF L, M, Goal
<1>e. L - base \in Int /\ M - base \in Int /\ L - base <= M - base
  BY <1>a, <1>b
<1>2. ASSUME UNCHANGED <<chunk, before, fails, exit, base, blind>>,
             \/ phase' = phase
             \/ phase = "wait" /\ phase' = "count"
             \/ phase = "startup" /\ phase' \in {"wait", "count"}
             \/ phase # "off" /\ phase' = "hung"
      PROVE  ProgressInv'
  <2>1. Owed' = Owed /\ chunk + 1 - 2 * blind \in Int
    BY <1>b, <1>2 DEF Owed
  <2>2. phase = "between" => Earned(M - base, Owed)
    BY <1>b, <1>e, EarnedGrows
  <2>3. Earned(L - base, chunk + 1 - 2 * blind)
          => Earned(M - base, chunk + 1 - 2 * blind)
    BY <1>e, <2>1, EarnedGrows
  <2>4. exit = "complete" => M - base >= Goal(blind)
    BY <1>a, <1>b, <1>d
  <2>5. before <= L => before <= M
    BY <1>a, <1>b
  <2> HIDE DEF Owed
  <2> QED
    BY <1>2, <1>b, <1>c, <2>1, <2>2, <2>3, <2>4, <2>5
<1>3. ASSUME NEW how \in {"no_space", "bail_out", "killed"}, End(how)
      PROVE  ProgressInv'
  <2>1. phase' = "off" /\ exit' # "complete" /\ chunk' = 0 /\ fails' = 0
    BY <1>3 DEF End
  <2> QED
    BY <2>1, <1>c
<1>4. CASE CountChunk
  <2>1. PICK after \in Counted, failed \in BOOLEAN :
          /\ ~failed => ~(after - before < ChunkSize \div 2)
          /\ IF FailsAfter(failed) >= 2
             THEN End("bail_out")
             ELSE /\ phase' = "between" /\ exit' = exit
                  /\ chunk' = chunk + 1 /\ fails' = FailsAfter(failed)
    BY <1>4 DEF CountChunk
  <2>2. phase = "count" /\ base' = base /\ blind' = blind
    BY <1>4 DEF CountChunk, history
  <2>3. CASE FailsAfter(failed) >= 2
    BY <1>3, <2>1, <2>3
  <2>4. CASE ~(FailsAfter(failed) >= 2)
    <3>1. /\ phase' = "between" /\ exit' = exit /\ exit = "none"
          /\ chunk' = chunk + 1 /\ fails' = FailsAfter(failed)
      BY <1>b, <2>1, <2>2, <2>4
    <3>2. /\ failed => fails = 0 /\ fails' = 1
          /\ ~failed => fails' = 0
      BY <1>b, <2>4, <3>1 DEF FailsAfter
    <3>3. /\ Owed' \in Int /\ Owed' <= Owed + 2
          /\ failed => Owed' = Owed
          /\ chunk + 1 - 2 * blind \in Int /\ Owed' <= chunk + 1 - 2 * blind
      BY <1>b, <2>2, <3>1, <3>2 DEF Owed
    <3>4. ASSUME before <= L, Earned(before - base, Owed)
          PROVE  Earned(M - base, Owed')
      <4>1. /\ before - base \in Int /\ before - base <= M - base
            /\ after \in Nat /\ after <= L
        BY <1>a, <1>b, <2>1, <3>4 DEF Counted, L
      <4>2. CASE failed
        BY <1>b, <1>e, <3>3, <3>4, <4>1, <4>2, EarnedGrows
      <4>3. CASE ~failed
        <5>1. after - before >= Half
          BY <1>b, <2>1, <4>1, <4>3, HalfIsNatural DEF Half
        <5>2. (M - base) - (before - base) >= Half
          BY <1>a, <1>b, <4>1, <5>1, HalfIsNatural
        <5>3. Earned(M - base, Owed + 2)
          BY <1>b, <1>e, <3>4, <4>1, <5>2, EarnedByChunk
        <5> QED
          BY <1>b, <1>e, <3>3, <5>3, EarnedGrows
      <4> QED
        BY <4>2, <4>3
    <3>5. ASSUME Earned(L - base, chunk + 1 - 2 * blind)
          PROVE  Earned(M - base, Owed')
      BY <1>e, <3>3, <3>5, EarnedGrows
    <3>6. Earned(M - base, Owed')
      BY <1>b, <2>2, <3>4, <3>5
    <3> QED
      BY <1>c, <2>2, <3>1, <3>6
  <2> QED
    BY <2>3, <2>4
<1>5. CASE StartChunk
  <2>1. /\ phase = "between" /\ phase' = "startup"
        /\ UNCHANGED <<chunk, fails, exit, base>>
    BY <1>5 DEF StartChunk
  <2>2. PICK n \in Counted : before' = n /\ blind' = blind + Missed(n)
    BY <1>5 DEF StartChunk
  <2>3. CASE n = L
    <3>1. before' = L /\ blind' = blind
      BY <1>b, <2>2, <2>3 DEF Missed, L
    <3>2. Owed' = Owed /\ before' <= M
      BY <1>a, <1>b, <2>1, <3>1 DEF Owed
    <3>3. Earned(before' - base', Owed')
      BY <1>b, <2>1, <3>1, <3>2
    <3> QED
      BY <1>b, <1>c, <2>1, <3>2, <3>3
  <2>4. CASE n # L
    <3>1. blind' = blind + 1
      BY <2>2, <2>4 DEF Missed, L
    <3>2. /\ chunk' + 1 - 2 * blind' \in Int
          /\ chunk' + 1 - 2 * blind' <= Owed
      BY <1>b, <2>1, <3>1
    <3>3. Earned(M - base, chunk' + 1 - 2 * blind')
      BY <1>b, <1>e, <2>1, <3>2, EarnedGrows
    <3> QED
      BY <1>b, <1>c, <2>1, <3>3
  <2> QED
    BY <2>3, <2>4
<1>6. CASE AllChunksDone
  <2>1. /\ phase = "between" /\ chunk = NChunks /\ phase' = "off"
        /\ base' = base /\ blind' = blind /\ chunk' = 0 /\ fails' = 0
    BY <1>6 DEF AllChunksDone, End, history
  <2>2. Earned(M - base, NChunks - fails - 2 * blind)
    BY <1>b, <1>e, <2>1, EarnedGrows
  <2>3. M - base >= Goal(blind)
    BY <1>b, <1>e, <2>2, EarnedAtEnd DEF Goal
  <2> QED
    BY <1>c, <2>1, <2>3
<1>7. CASE NoSpace \/ KillOrchestrator
  BY <1>3, <1>7 DEF NoSpace, KillOrchestrator
<1>8. CASE Launch
  <2>1. CASE phase' = "between" /\ exit' = "none" /\ UNCHANGED control
    <3>1. /\ phase = "off" /\ base' = L /\ blind' = 0
          /\ chunk' = chunk /\ fails' = fails
      BY <1>8, <2>1 DEF Launch, control, L
    <3>2. Earned(M - L, 0)
      <4>1. 0 * Half = 0
        BY HalfIsNatural
      <4>2. M - L \in Nat
        BY <1>a
      <4> QED
        BY <4>1, <4>2 DEF Earned
    <3>3. Owed' = 0
      BY <1>b, <3>1 DEF Owed
    <3> QED
      BY <1>c, <2>1, <3>1, <3>2, <3>3
  <2>2. CASE End("no_space")
    BY <1>3, <2>2
  <2> QED
    BY <1>8, <2>1, <2>2 DEF Launch
<1>9. CASE \/ VllmDies \/ WaitReturns \/ SshDrops \/ StartupFails
           \/ RunGenerate \/ Hang
  <2>1. /\ UNCHANGED <<chunk, before, fails, exit, base, blind>>
        /\ \/ phase' = phase
           \/ phase = "wait" /\ phase' = "count"
           \/ phase = "startup" /\ phase' \in {"wait", "count"}
           \/ phase # "off" /\ phase' = "hung"
    BY <1>9, SMTT(30) DEF VllmDies, WaitReturns, SshDrops, StartupFails,
                          RunGenerate, Hang, LeaveChunk, control, history
  <2> QED
    BY <1>2, <2>1
<1>10. ASSUME NEW g \in Gens,
             \/ GenerateStep(g) \/ Overflow(g) \/ Interrupt(g)
             \/ KillGenerate(g)
      PROVE  UNCHANGED <<phase, chunk, before, fails, exit, base, blind>>
  BY <1>10 DEF GenerateStep, Send, Complete, Close, Overflow, Interrupt,
              KillGenerate, history, control
<1>11. CASE UNCHANGED vars
  BY <1>2, <1>11 DEF vars, history, control
<1> QED
  BY <1>2, <1>4, <1>5, <1>6, <1>7, <1>8, <1>9, <1>10, <1>11
  DEF Next, OrchestratorStep

LEMMA InitProgress == Init => ProgressInv
<1> SUFFICES ASSUME Init PROVE ProgressInv
  OBVIOUS
<1>1. phase = "off" /\ chunk = 0 /\ fails = 0 /\ exit = "none"
  BY DEF Init
<1> QED
  BY <1>1 DEF ProgressInv, CompleteMeansProgress

LEMMA AlwaysProgress == Spec => [](TypeInv /\ ProgressInv)
<1>1. Init => TypeInv /\ ProgressInv
  BY InitTypes, InitProgress
<1>2. TypeInv /\ ProgressInv /\ [Next]_vars => (TypeInv /\ ProgressInv)'
  BY NextTypes, ProgressStep
<1> QED
  BY <1>1, <1>2, PTL DEF Spec

\* A run that reports COMPLETE added half a chunk of lines in at least every
\* second chunk, whatever was killed, restarted or left behind (main's
\* bail-out after two failed chunks in a row).
THEOREM CompleteRunProgresses == Spec => []CompleteMeansProgress
<1>1. ProgressInv => CompleteMeansProgress
  BY DEF ProgressInv
<1> QED
  BY <1>1, AlwaysProgress, PTL
=============================================================================
