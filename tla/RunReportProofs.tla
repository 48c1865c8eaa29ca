-------------------------- MODULE RunReportProofs --------------------------
(***************************************************************************)
(* Proofs about RunReport, for any campaign files, edits and resumes: what *)
(* the rows of a report are.                                               *)
(***************************************************************************)
EXTENDS RunReport, DataInduction

-----------------------------------------------------------------------------
(* The inductive invariant.                                                *)

\* The metric that an attempt's job leaves for an operation.
Metric(a, j, op, m) ==
  [attempt |-> a, job |-> j, op |-> op, metric |-> m,
   value |-> Rate(fio[a][j].job, fio[a][j].share, op, m)]

\* What ran was a job of one of the versions of the file.
Listed(j, job) == \E f \in DOMAIN Files : j \in DOMAIN Files[f] /\ job = Files[f][j]

Entry == {NotRun} \cup
  [run : {TRUE}, job : Job, share : UNION {Shares(job) : job \in Job},
   done : SUBSET Ops, process : 0..MaxResumes]

ShapeInv ==
  /\ yaml \in DOMAIN Files \cup {Gone, Broken} /\ loaded \in DOMAIN Files
  /\ resumes \in 0..MaxResumes
  /\ fio \in [Attempts -> [Jobs -> Entry]]

EntryInv ==
  \A a \in Attempts, j \in Jobs : fio[a][j] # NotRun =>
    /\ Listed(j, fio[a][j].job)
    /\ fio[a][j].share \in Shares(fio[a][j].job)
    /\ fio[a][j].done \subseteq OpsOf(fio[a][j].job)

\* The table holds the metrics of what ran, all of them and no other.
MetricInv ==
  /\ \A x \in metrics : \E a \in Attempts, j \in Jobs :
       /\ fio[a][j] # NotRun
       /\ \E op \in fio[a][j].done, m \in BothMetrics : x = Metric(a, j, op, m)
  /\ \A a \in Attempts, j \in Jobs : fio[a][j] # NotRun =>
       \A op \in fio[a][j].done, m \in BothMetrics :
         Metric(a, j, op, m) \in metrics

ReportInv == ShapeInv /\ EntryInv /\ MetricInv

-----------------------------------------------------------------------------
(* What one job records.                                                   *)

LEMMA ListedJob ==
  ASSUME NEW j, NEW job, Listed(j, job)
  PROVE  j \in Jobs /\ job \in Job
BY ReportAssumption DEF Listed, Jobs

LEMMA OpsOfJob == ASSUME NEW job PROVE OpsOf(job) \subseteq Ops /\ OpsOf(job) # {}
BY DEF OpsOf, Ops

\* What the threads of a job read, and their sum.
LEMMA SharesOfJob ==
  ASSUME NEW j, NEW job, Listed(j, job), NEW share \in Shares(job)
  PROVE  /\ job.numjobs \in Nat \ {0} /\ DOMAIN share = 1..job.numjobs
         /\ \A k \in 1..job.numjobs : share[k] \in Nat \ {0}
         /\ \A k, l \in 1..job.numjobs : share[k] - share[l] <= Skew
         /\ IsFiniteSet(1..job.numjobs) /\ Cardinality(1..job.numjobs) = job.numjobs
         /\ Total(share) = SumFunctionOnSet(share, 1..job.numjobs)
         /\ Total(share) \in Nat \ {0}
<1> DEFINE n == job.numjobs
           I == 1..n
<1>1. n \in Nat \ {0} /\ Amounts[n] \subseteq Nat \ {0}
  BY ListedJob, ReportAssumption DEF Job, Listed
<1>2. /\ share \in [I -> Amounts[n]]
      /\ \A k, l \in DOMAIN share : share[k] - share[l] <= Skew
  BY DEF Shares
<1>3. \A k \in I : share[k] \in Nat \ {0}
  BY <1>1, <1>2
<1>4. IsFiniteSet(I) /\ Cardinality(I) = n /\ 1 \in I
  <2>1. 1 \in Int /\ n \in Int
    BY <1>1
  <2>2. IsFiniteSet(I) /\ Cardinality(I) = IF 1 > n THEN 0 ELSE n - 1 + 1
    BY <2>1, FS_Interval
  <2>3. 1 \in I
    BY <1>1
  <2> HIDE DEF I
  <2> QED
    BY <1>1, <2>2, <2>3
<1>5. Total(share) = SumFunctionOnSet(share, I)
  BY <1>2 DEF Total, SumFunction
<1> HIDE DEF I
<1>6. SumFunctionOnSet(share, I) \in Nat /\ share[1] <= SumFunctionOnSet(share, I)
  BY <1>3, <1>4, SumOfNaturals
<1>7. share[1] \in Nat \ {0}
  BY <1>3, <1>4
<1>8. Total(share) \in Nat \ {0}
  BY <1>5, <1>6, <1>7
<1> QED
  BY <1>1, <1>2, <1>3, <1>4, <1>5, <1>8 DEF I

\* An operation that a job does is not idle.
LEMMA MovedSome ==
  ASSUME NEW j, NEW job, Listed(j, job), NEW share \in Shares(job), NEW op
  PROVE  Moved(job, share, op) \in Nat \ {0}
BY SharesOfJob DEF Moved

\* What fio reports of it is a ratio of positive numbers.
LEMMA RateOfJob ==
  ASSUME NEW j, NEW job, Listed(j, job), NEW share \in Shares(job), NEW op, NEW m
  PROVE  Rate(job, share, op, m) \in [amount : Nat \ {0}, time : Nat \ {0}]
<1> DEFINE x == Moved(job, share, op)
<1>1. x \in Nat \ {0} /\ IosPerUnit \in Nat \ {0}
  BY MovedSome, ReportAssumption
<1>2. job.runtime \in Nat \ {0}
  BY ListedJob DEF Job
<1> HIDE DEF x
<1>3. IosPerUnit * x \in Nat \ {0}
  BY <1>1
<1> QED
  BY <1>1, <1>2, <1>3 DEF Rate, x

\* The parser keeps both metrics of each operation with IO.
LEMMA RecordsOfJob ==
  ASSUME NEW j, NEW job, Listed(j, job), NEW share \in Shares(job),
         NEW done \in SUBSET OpsOf(job)
  PROVE  Records(Summary(job, share, done)) =
           {[op |-> op, metric |-> m, value |-> Rate(job, share, op, m)] :
              op \in done, m \in BothMetrics}
<1> DEFINE S == Summary(job, share, done)
<1>1. \A op \in Ops, m \in BothMetrics :
        S[op][m] = IF op \in done THEN Rate(job, share, op, m)
                                  ELSE [amount |-> 0, time |-> job.runtime]
  BY DEF Summary
<1>2. \A op, m : Rate(job, share, op, m).amount # 0
  <2> TAKE op, m
  <2>1. Rate(job, share, op, m) \in [amount : Nat \ {0}, time : Nat \ {0}]
    BY RateOfJob
  <2> QED
    BY <2>1
<1>3. done \subseteq Ops /\ "iops" \in BothMetrics
  BY OpsOfJob DEF BothMetrics
<1> HIDE DEF S
<1>4. \A op \in Ops, m \in BothMetrics : S[op][m].amount # 0 <=> op \in done
  <2> TAKE op \in Ops, m \in BothMetrics
  <2>1. CASE op \in done
    BY <1>1, <1>2, <2>1
  <2>2. CASE op \notin done
    <3>1. S[op][m] = [amount |-> 0, time |-> job.runtime]
      BY <1>1, <2>2
    <3> QED
      BY <2>2, <3>1
  <2> QED
    BY <2>1, <2>2
<1>5. {o \in Ops : \E m \in BothMetrics : S[o][m].amount # 0} = done
  BY <1>3, <1>4
<1>6. \A op \in done, m \in BothMetrics : S[op][m] = Rate(job, share, op, m)
  BY <1>1, <1>3
<1>7. Records(S) = {[op |-> op, metric |-> m, value |-> S[op][m]] :
                      op \in done, m \in BothMetrics}
  BY <1>5 DEF Records
<1> QED
  BY <1>6, <1>7 DEF S

-----------------------------------------------------------------------------
(* The steps.                                                              *)

LEMMA InitReport == Init => ReportInv
<1> SUFFICES ASSUME Init PROVE ReportInv
  OBVIOUS
<1>1. fio \in [Attempts -> [Jobs -> Entry]]
  BY DEF Init, Entry
<1>2. \A a \in Attempts, j \in Jobs : fio[a][j] = NotRun
  BY DEF Init
<1>3. ShapeInv
  BY <1>1, ReportAssumption DEF Init, ShapeInv
<1>4. EntryInv /\ MetricInv
  BY <1>2 DEF Init, EntryInv, MetricInv
<1> QED
  BY <1>3, <1>4 DEF ReportInv

LEMMA QuietReport ==
  ASSUME ReportInv, UNCHANGED <<fio, metrics>>,
         yaml' \in DOMAIN Files \cup {Gone, Broken}, loaded' \in DOMAIN Files,
         resumes' \in 0..MaxResumes
  PROVE  ReportInv'
<1>1. \A a, j, op, m : Metric(a, j, op, m)' = Metric(a, j, op, m)
  BY DEF Metric
<1>2. ShapeInv'
  BY DEF ReportInv, ShapeInv
<1>3. EntryInv'
  BY DEF ReportInv, EntryInv, Listed
<1>4. MetricInv'
  BY <1>1 DEF ReportInv, MetricInv
<1> QED
  BY <1>2, <1>3, <1>4 DEF ReportInv

LEMMA JobReport ==
  ASSUME ReportInv, NEW a \in Attempts, NEW j \in Jobs, JobOk(a, j)
  PROVE  ReportInv'
<1> DEFINE job == Files[loaded][j]
<1>1. PICK share \in Shares(job), done \in SUBSET OpsOf(job) :
        LET new == {[attempt |-> a, job |-> j, op |-> r.op,
                     metric |-> r.metric, value |-> r.value] :
                      r \in Records(Summary(job, share, done))}
        IN  /\ fio' = [fio EXCEPT ![a][j] =
                         [run |-> TRUE, job |-> job, share |-> share,
                          done |-> done, process |-> resumes]]
            /\ metrics' = new \cup
                 {m \in metrics : Key(m) \notin {Key(n) : n \in new}}
  BY DEF JobOk
<1> DEFINE entry == [run |-> TRUE, job |-> job, share |-> share,
                     done |-> done, process |-> resumes]
           new == {[attempt |-> a, job |-> j, op |-> r.op,
                    metric |-> r.metric, value |-> r.value] :
                     r \in Records(Summary(job, share, done))}
<1>2. /\ UNCHANGED <<yaml, loaded, resumes>>
      /\ Listed(j, job) /\ fio[a][j] = NotRun /\ ShapeInv
  BY DEF JobOk, Listed, ReportInv, ShapeInv
<1>3. job \in Job
  BY <1>2, ListedJob
<1>4. /\ entry \in Entry /\ entry # NotRun /\ entry.job = job
      /\ entry.share = share /\ entry.done = done
  <2>1. entry.run = TRUE /\ NotRun.run = FALSE
    BY DEF NotRun
  <2> QED
    BY <1>2, <1>3, <2>1, OpsOfJob DEF Entry, ShapeInv
<1>5. /\ \A b \in Attempts, k \in Jobs :
            fio'[b][k] = IF b = a /\ k = j THEN entry ELSE fio[b][k]
      /\ fio' \in [Attempts -> [Jobs -> Entry]]
  <2> HIDE DEF entry
  <2>1. fio \in [Attempts -> [Jobs -> Entry]]
    BY <1>2 DEF ShapeInv
  <2>2. fio' = [fio EXCEPT ![a][j] = entry]
    BY <1>1 DEF entry
  <2> QED
    BY <1>4, <2>1, <2>2
<1>6. ShapeInv'
  BY <1>2, <1>5 DEF ShapeInv
<1>7. EntryInv'
  BY <1>2, <1>4, <1>5 DEF EntryInv, ReportInv, Listed
<1>8. new = {Metric(a, j, op, m)' : op \in done, m \in BothMetrics}
  <2>1. \A op, m : Metric(a, j, op, m)'
          = [attempt |-> a, job |-> j, op |-> op, metric |-> m,
             value |-> Rate(job, share, op, m)]
    BY <1>4, <1>5 DEF Metric
  <2>2. Records(Summary(job, share, done)) =
          {[op |-> op, metric |-> m, value |-> Rate(job, share, op, m)] :
             op \in done, m \in BothMetrics}
    BY <1>2, RecordsOfJob
  <2>3. new = {[attempt |-> a, job |-> j, op |-> op, metric |-> m,
                value |-> Rate(job, share, op, m)] :
                 op \in done, m \in BothMetrics}
    <3> DEFINE R == Records(Summary(job, share, done))
               T == {[op |-> op, metric |-> m, value |-> Rate(job, share, op, m)] :
                       op \in done, m \in BothMetrics}
    <3>1. R = T
      BY <2>2
    <3>2. ASSUME NEW op \in done, NEW m \in BothMetrics
          PROVE  \E r \in T :
                   r.op = op /\ r.metric = m /\ r.value = Rate(job, share, op, m)
      <4> HIDE DEF job
      <4>1. [op |-> op, metric |-> m, value |-> Rate(job, share, op, m)] \in T
        OBVIOUS
      <4> QED
        BY <4>1
    <3>3. \A r \in T : \E op \in done, m \in BothMetrics :
            r.op = op /\ r.metric = m /\ r.value = Rate(job, share, op, m)
      <4> HIDE DEF job
      <4> QED
        OBVIOUS
    <3>4. new = {[attempt |-> a, job |-> j, op |-> r.op,
                  metric |-> r.metric, value |-> r.value] : r \in T}
      BY <3>1
    <3> DEFINE N == {[attempt |-> a, job |-> j, op |-> op, metric |-> m,
                      value |-> Rate(job, share, op, m)] :
                        op \in done, m \in BothMetrics}
    <3>5. new \subseteq N
      <4> HIDE DEF T, job
      <4> QED
        BY <3>3, <3>4
    <3>6. N \subseteq new
      <4> HIDE DEF T, job
      <4> QED
        BY <3>2, <3>4
    <3> HIDE DEF N, new
    <3>7. new = N
      BY <3>5, <3>6
    <3> QED
      BY <3>7 DEF N
  <2> HIDE DEF new, job
  <2> QED
    BY <2>1, <2>3
<1>9. metrics' = new \cup metrics
  <2>1. \A x \in metrics : ~(x.attempt = a /\ x.job = j)
    BY <1>2 DEF ReportInv, MetricInv, Metric
  <2>2. \A n \in new : n.attempt = a /\ n.job = j
    OBVIOUS
  <2>3. \A x \in metrics, n \in new : Key(x) # Key(n)
    BY <2>1, <2>2 DEF Key
  <2> QED
    BY <1>1, <2>3
<1>10. \A b \in Attempts, k \in Jobs : ~(b = a /\ k = j) =>
         \A op, m : Metric(b, k, op, m)' = Metric(b, k, op, m)
  BY <1>5 DEF Metric
<1>11. MetricInv'
  <2> HIDE DEF new, entry, job
  <2>1. /\ fio'[a][j] # NotRun /\ fio'[a][j].job = job
        /\ fio'[a][j].done = done
    BY <1>4, <1>5
  <2>2. ASSUME NEW x \in metrics'
        PROVE  \E b \in Attempts, k \in Jobs :
                 /\ fio'[b][k] # NotRun
                 /\ \E op \in fio'[b][k].done, m \in BothMetrics :
                      x = Metric(b, k, op, m)'
    <3>1. CASE x \in new
      BY <1>8, <2>1, <3>1
    <3>2. CASE x \in metrics
      <4>1. PICK b \in Attempts, k \in Jobs :
              /\ fio[b][k] # NotRun
              /\ \E op \in fio[b][k].done, m \in BothMetrics :
                   x = Metric(b, k, op, m)
        BY <3>2 DEF ReportInv, MetricInv
      <4>2. ~(b = a /\ k = j)
        BY <1>2, <4>1
      <4>3. fio'[b][k] = fio[b][k]
        BY <1>5, <4>2
      <4> QED
        BY <1>10, <4>1, <4>2, <4>3
    <3> QED
      BY <1>9, <2>2, <3>1, <3>2
  <2>3. ASSUME NEW b \in Attempts, NEW k \in Jobs, fio'[b][k] # NotRun,
               NEW op \in fio'[b][k].done, NEW m \in BothMetrics
        PROVE  Metric(b, k, op, m)' \in metrics'
    <3>1. CASE b = a /\ k = j
      BY <1>8, <1>9, <2>1, <2>3, <3>1
    <3>2. CASE ~(b = a /\ k = j)
      <4>1. fio'[b][k] = fio[b][k]
        BY <1>5, <3>2
      <4>2. Metric(b, k, op, m) \in metrics
        BY <2>3, <4>1 DEF ReportInv, MetricInv
      <4> QED
        BY <1>9, <1>10, <3>2, <4>2
    <3> QED
      BY <3>1, <3>2
  <2> QED
    BY <2>2, <2>3 DEF MetricInv
<1> QED
  BY <1>6, <1>7, <1>11 DEF ReportInv

LEMMA NextReport == ReportInv /\ [Next]_vars => ReportInv'
<1> SUFFICES ASSUME ReportInv, [Next]_vars PROVE ReportInv'
  OBVIOUS
<1>1. CASE \E a \in Attempts, j \in Jobs : JobOk(a, j)
  BY <1>1, JobReport
<1>2. CASE \E f \in DOMAIN Files \cup {Gone, Broken} : EditCampaign(f)
  BY <1>2, QuietReport DEF EditCampaign, ReportInv, ShapeInv
<1>3. CASE Resume
  <2>1. MaxResumes \in Nat
    BY ReportAssumption
  <2>2. loaded' \in DOMAIN Files /\ resumes' \in 0..MaxResumes
    BY <1>3, <2>1 DEF Resume, ReportInv, ShapeInv
  <2> QED
    BY <1>3, <2>2, QuietReport DEF Resume, ReportInv, ShapeInv
<1>4. CASE UNCHANGED vars
  BY <1>4, QuietReport DEF vars, ReportInv, ShapeInv
<1> QED
  BY <1>1, <1>2, <1>3, <1>4 DEF Next

LEMMA AlwaysReport == Spec => []ReportInv
BY InitReport, NextReport, PTL DEF Spec

-----------------------------------------------------------------------------
(* The theorems.                                                           *)

\* What was run and what was recorded of it keep their types.
THEOREM ReportTypeCorrect == Spec => []TypeOK
<1>1. ASSUME ReportInv PROVE TypeOK
  <2>1. ASSUME NEW x \in metrics
        PROVE  x \in [attempt : Attempts, job : Jobs, op : Ops,
                      metric : BothMetrics,
                      value : [amount : Nat \ {0}, time : Nat \ {0}]]
    <3>1. PICK a \in Attempts, j \in Jobs :
            /\ fio[a][j] # NotRun
            /\ \E op \in fio[a][j].done, m \in BothMetrics : x = Metric(a, j, op, m)
      BY <1>1 DEF ReportInv, MetricInv
    <3>2. PICK op \in fio[a][j].done, m \in BothMetrics : x = Metric(a, j, op, m)
      BY <3>1
    <3>3. Rate(fio[a][j].job, fio[a][j].share, op, m)
            \in [amount : Nat \ {0}, time : Nat \ {0}]
      BY <1>1, <3>1, RateOfJob DEF ReportInv, EntryInv
    <3>4. op \in Ops
      BY <1>1, <3>1, OpsOfJob DEF ReportInv, EntryInv
    <3> QED
      BY <3>2, <3>3, <3>4 DEF Metric
  <2>2. \A a \in Attempts, j \in Jobs : fio[a][j] # NotRun =>
          /\ fio[a][j].job \in Job /\ fio[a][j].share \in Shares(fio[a][j].job)
          /\ fio[a][j].done \subseteq OpsOf(fio[a][j].job)
    BY <1>1, ListedJob DEF ReportInv, EntryInv
  <2> QED
    BY <1>1, <2>1, <2>2 DEF TypeOK, ReportInv, ShapeInv
<1> QED
  BY <1>1, AlwaysReport, PTL

\* A value in the report is the one that was measured.
LEMMA ValueOfRow ==
  ASSUME ReportInv, NEW a \in Attempts, NEW j \in Jobs, fio[a][j] # NotRun,
         NEW op \in fio[a][j].done, NEW m \in BothMetrics
  PROVE  Values(a, j, op, m) = {Rate(fio[a][j].job, fio[a][j].share, op, m)}
<1> DEFINE v == Rate(fio[a][j].job, fio[a][j].share, op, m)
<1>1. Metric(a, j, op, m) \in metrics /\ Metric(a, j, op, m).value = v
      /\ Key(Metric(a, j, op, m)) = <<a, j, op, m>>
  BY DEF ReportInv, MetricInv, Metric, Key
<1>2. ASSUME NEW x \in metrics, Key(x) = <<a, j, op, m>>
      PROVE  x.value = v
  <2>1. PICK b \in Attempts, k \in Jobs :
          /\ fio[b][k] # NotRun
          /\ \E o \in fio[b][k].done, n \in BothMetrics : x = Metric(b, k, o, n)
    BY <1>2 DEF ReportInv, MetricInv
  <2>2. PICK o \in fio[b][k].done, n \in BothMetrics : x = Metric(b, k, o, n)
    BY <2>1
  <2>3. b = a /\ k = j /\ o = op /\ n = m
    BY <1>2, <2>2 DEF Key, Metric
  <2> QED
    BY <2>2, <2>3 DEF Metric
<1> HIDE DEF v
<1> QED
  BY <1>1, <1>2 DEF Values, v

\* The rows of an attempt's section are the operations that jobs did in it,
\* each with the one value that was measured, in any report that renders,
\* over a campaign file as it was run, edited or gone (_build_section).
THEOREM RowsAreMeasured == Spec => []RowsOfTheAttempt
<1>1. ASSUME ReportInv PROVE RowsOfTheAttempt
  <2>1. \A j : PrimaryMetric(j) \in BothMetrics
    BY DEF PrimaryMetric, BothMetrics
  <2>2. ASSUME NEW a \in Attempts, NEW p \in Present(a)
        PROVE  /\ p[1] \in Jobs /\ fio[a][p[1]] # NotRun
               /\ p[2] \in fio[a][p[1]].done
    <3>1. PICK x \in metrics : x.attempt = a /\ p = <<x.job, x.op>>
      BY <2>2 DEF Present
    <3> QED
      BY <1>1, <3>1 DEF ReportInv, MetricInv, Metric
  <2>3. ASSUME NEW a \in Attempts, NEW row \in Section(a)
        PROVE  /\ fio[a][row.job] # NotRun
               /\ row.op \in fio[a][row.job].done
               /\ row.values = {Rate(fio[a][row.job].job, fio[a][row.job].share,
                                     row.op, row.metric)}
    <3>1. PICK p \in Present(a) :
            /\ row.job = p[1] /\ row.op = p[2]
            /\ row.metric = PrimaryMetric(p[1])
            /\ row.values = Values(a, p[1], p[2], PrimaryMetric(p[1]))
      BY <2>3 DEF Section
    <3> QED
      BY <1>1, <2>1, <2>2, <3>1, ValueOfRow
  <2>4. ASSUME NEW a \in Attempts, NEW j \in Jobs, fio[a][j] # NotRun,
               NEW op \in fio[a][j].done
        PROVE  \E row \in Section(a) : row.job = j /\ row.op = op
    <3>1. Metric(a, j, op, "iops") \in metrics
      BY <1>1, <2>4 DEF ReportInv, MetricInv, BothMetrics
    <3>2. <<j, op>> \in Present(a)
      BY <3>1 DEF Present, Metric
    <3> DEFINE p == <<j, op>>
               row == [job |-> p[1], op |-> p[2], metric |-> PrimaryMetric(p[1]),
                       values |-> Values(a, p[1], p[2], PrimaryMetric(p[1])),
                       wrap |-> \E v \in Values(a, p[1], p[2], PrimaryMetric(p[1])) :
                                  Wraps(p[1], p[2], PrimaryMetric(p[1]), v)]
    <3>3. row \in Section(a)
      BY <3>2, Zenon DEF Section
    <3>4. row.job = j /\ row.op = op
      OBVIOUS
    <3> QED
      BY <3>3, <3>4
  <2> QED
    BY <2>3, <2>4 DEF RowsOfTheAttempt
<1> QED
  BY <1>1, AlwaysReport, PTL

-----------------------------------------------------------------------------
(* What a flag says of the blocks read.                                    *)

\* What Window and Own are, for a job of several threads.
LEMMA RegionsOfJob ==
  ASSUME NEW j, NEW job, Listed(j, job), job.numjobs > 1
  PROVE  /\ Own(job) \in Nat \ {0} /\ job.offset_increment \in Nat \ {0}
         /\ Own(job) <= job.offset_increment
         /\ Region(job) = Own(job)
         /\ 10 * Skew <= job.numjobs * Own(job) /\ Skew \in Nat
         /\ \A k \in 1..job.numjobs :
              /\ Window(job, k) \in Nat /\ Own(job) <= Window(job, k)
              /\ k < job.numjobs => \/ Window(job, k) = Own(job)
                                    \/ /\ Own(job) = job.offset_increment
                                       /\ Own(job) < Window(job, k)
<1> DEFINE n == job.numjobs
           inc == job.offset_increment
           size == job.size
<1>1. /\ n \in Nat /\ n > 1 /\ inc \in Nat /\ inc # 0 /\ size \in Nat
      /\ FileUnits \in Nat /\ Skew \in Nat
      /\ size = 0 => n * inc <= FileUnits
      /\ 10 * Skew <= n * Region(job)
  BY ListedJob, ReportAssumption, RegionAssumption DEF Job, Listed, Unset, Sizes
<1>2. Own(job) = IF size \in 1..inc THEN size ELSE inc
  BY DEF Own
<1>3. Region(job) = Own(job)
  <2> DEFINE C == {size, inc} \ {0}
  <2>1. Region(job) = CHOOSE x \in C : \A y \in C : x <= y
    BY DEF Region, Min, Unset
  <2>2. Own(job) \in C /\ \A y \in C : Own(job) <= y
    BY <1>1, <1>2
  <2>3. C \subseteq Nat /\ Own(job) \in Nat
    BY <1>1, <1>2
  <2>4. \A x, y \in C : x <= y /\ y <= x => x = y
    BY <2>3
  <2> HIDE DEF C
  <2>5. \E x \in C : \A y \in C : x <= y
    BY <2>2
  <2>6. Region(job) \in C /\ \A y \in C : Region(job) <= y
    BY <2>1, <2>5
  <2> QED
    BY <2>2, <2>4, <2>6
<1>4. ASSUME NEW k \in 1..n
      PROVE  /\ Window(job, k) \in Nat /\ Own(job) <= Window(job, k)
             /\ k < n => \/ Window(job, k) = Own(job)
                         \/ Own(job) = inc /\ Own(job) < Window(job, k)
  <2>1. CASE size # 0
    BY <1>1, <1>2, <2>1 DEF Window, Unset
  <2>2. CASE size = 0
    <3>1. Window(job, k) = FileUnits - (k - 1) * inc /\ Own(job) = inc
      BY <1>1, <1>2, <2>2 DEF Window, Unset
    <3>2. (k - 1) * inc = k * inc - inc /\ k * inc <= n * inc /\ k * inc \in Nat
      <4>1. k \in Nat /\ k <= n
        BY <1>1
      <4>2. k * inc <= n * inc /\ k * inc \in Nat
        BY <1>1, <4>1, ProductGrows
      <4> QED
        BY <1>1, <4>1, <4>2
    <3>3. k < n => k * inc + inc <= n * inc
      <4> HAVE k < n
      <4>1. k + 1 \in Nat /\ k + 1 <= n /\ k \in Nat
        BY <1>1
      <4>2. (k + 1) * inc <= n * inc
        BY <1>1, <4>1, ProductGrows
      <4> QED
        BY <1>1, <4>1, <4>2
    <3>4. n * inc <= FileUnits /\ n * inc \in Nat
      BY <1>1, <2>2
    <3> DEFINE x == k * inc
               y == n * inc
               z == (k - 1) * inc
    <3>5. /\ x \in Nat /\ y \in Nat /\ z = x - inc /\ x <= y /\ y <= FileUnits
          /\ k < n => x + inc <= y
          /\ Window(job, k) = FileUnits - z
      BY <3>1, <3>2, <3>3, <3>4
    <3> HIDE DEF x, y, z
    <3>6. FileUnits \in Nat /\ inc \in Nat /\ inc # 0 /\ n \in Nat /\ Own(job) = inc
      BY <1>1, <3>1
    <3> QED
      BY <3>5, <3>6
  <2> QED
    BY <2>1, <2>2
<1> QED
  BY <1>1, <1>2, <1>3, <1>4

LEMMA RemainderOf ==
  ASSUME NEW i \in Nat, NEW w \in Nat \ {0}, i < w
  PROVE  i % w = i
OBVIOUS

\* Where thread p[1] reads its unit p[2].
Place(job, p) == (p[1] - 1) * job.offset_increment + (p[2] % Window(job, p[1]))

Reads(job, share, ramp) ==
  Piles([k \in 1..job.numjobs |-> ramp + share[k]], 1..job.numjobs)

LEMMA BlocksArePlaces ==
  ASSUME NEW j, NEW job, Listed(j, job), NEW share \in Shares(job), NEW ramp \in Nat
  PROVE  /\ Blocks(job, share, ramp) = {Place(job, p) : p \in Reads(job, share, ramp)}
         /\ IsFiniteSet(Reads(job, share, ramp))
         /\ IsFiniteSet(Blocks(job, share, ramp))
<1> DEFINE I == 1..job.numjobs
           R == Reads(job, share, ramp)
           B == Blocks(job, share, ramp)
           h == [k \in I |-> ramp + share[k]]
<1>1. DOMAIN share = I /\ IsFiniteSet(I) /\ \A k \in I : share[k] \in Nat
  BY SharesOfJob
<1> HIDE DEF I
<1>2. \A k \in I : h[k] = ramp + share[k] /\ h[k] \in Nat
  BY <1>1
<1>3. R = {p \in I \X Nat : p[2] < h[p[1]]}
  BY DEF Reads, Piles, I
<1>4. \A k \in I, i \in Nat : i < h[k] <=> i \in 0..(ramp + share[k] - 1)
  BY <1>1, <1>2
<1>a. \A k \in I : 0..(ramp + share[k] - 1) \subseteq Nat
  BY <1>1
<1> HIDE DEF R, h
<1>5. ASSUME NEW b \in B PROVE \E p \in R : b = Place(job, p)
  <2>1. PICK k \in I : \E i \in 0..(ramp + share[k] - 1) :
          b = (k - 1) * job.offset_increment + (i % Window(job, k))
    BY <1>1 DEF Blocks
  <2>2. PICK i \in 0..(ramp + share[k] - 1) :
          b = (k - 1) * job.offset_increment + (i % Window(job, k))
    BY <2>1
  <2>3. i \in Nat /\ i < h[k]
    BY <1>4, <1>a, <2>2
  <2>4. <<k, i>> \in R
    BY <1>3, <2>3
  <2>5. b = Place(job, <<k, i>>)
    BY <2>2 DEF Place
  <2> QED
    BY <2>4, <2>5
<1>6. ASSUME NEW p \in R PROVE Place(job, p) \in B
  <2>1. p[1] \in I /\ p[2] \in 0..(ramp + share[p[1]] - 1)
    BY <1>3, <1>4
  <2> QED
    BY <1>1, <2>1 DEF Blocks, Place
<1>7. B = {Place(job, p) : p \in R}
  BY <1>5, <1>6
<1>8. IsFiniteSet(R)
  BY <1>1, <1>2, PilesCount DEF R, Reads, h, I
<1>9. IsFiniteSet(B)
  <2> DEFINE f == [p \in R |-> Place(job, p)]
             T == {Place(job, p) : p \in R}
  <2>1. f \in Surjection(R, T)
    BY DEF Surjection
  <2> HIDE DEF f, T
  <2>2. IsFiniteSet(T)
    BY <1>8, <2>1, FS_Surjection
  <2> QED
    BY <1>7, <2>2 DEF T
<1> QED
  BY <1>7, <1>8, <1>9 DEF R

\* A job's threads have read more than their regions and a tenth of them.
TooMuch(job, units) == 10 * units > 11 * Region(job) * job.numjobs

\* The report's product of a rate and a runtime is the units read, if the
\* runtime is the one the job was run with.
LEMMA AmplifiedAsRun ==
  ASSUME NEW j, NEW job, Listed(j, job), NEW share \in Shares(job), NEW op,
         job.numjobs > 1
  PROVE  Amplified(job, Rate(job, share, op, "bw_mbps"))
           <=> TooMuch(job, Moved(job, share, op))
<1> DEFINE x == Moved(job, share, op)
           t == job.runtime
           y == 10 * x
           z == 11 * Region(job) * job.numjobs
<1>1. x \in Nat /\ t \in Nat \ {0}
  BY MovedSome, ListedJob DEF Job
<1>2. Region(job) \in Nat /\ job.numjobs \in Nat
  BY RegionsOfJob, SharesOfJob
<1>3. y \in Nat /\ z \in Nat
  BY <1>1, <1>2
<1>4. Amplified(job, Rate(job, share, op, "bw_mbps")) <=> y * t > z * t
  BY DEF Amplified, Rate
<1>5. TooMuch(job, x) <=> y > z
  BY DEF TooMuch
<1> HIDE DEF x, t, y, z
<1>6. y > z => y * t > z * t
  <2> SUFFICES ASSUME y > z PROVE y * t > z * t
    OBVIOUS
  <2>1. (y - z) * t = y * t - z * t /\ y - z \in Nat \ {0}
    BY <1>1, <1>3
  <2>2. (y - z) * t > 0
    BY <1>1, <2>1
  <2>3. y * t \in Int /\ z * t \in Int
    BY <1>1, <1>3
  <2> QED
    BY <2>1, <2>2, <2>3
<1>7. y <= z => y * t <= z * t
  <2> SUFFICES ASSUME y <= z PROVE y * t <= z * t
    OBVIOUS
  <2>1. (z - y) * t = z * t - y * t /\ z - y \in Nat
    BY <1>1, <1>3
  <2>2. (z - y) * t >= 0
    BY <1>1, <2>1
  <2>3. y * t \in Int /\ z * t \in Int
    BY <1>1, <1>3
  <2> QED
    BY <2>1, <2>2, <2>3
<1>8. y * t > z * t <=> y > z
  <2>1. y * t \in Int /\ z * t \in Int
    BY <1>1, <1>3
  <2> QED
    BY <1>3, <1>6, <1>7, <2>1
<1> QED
  BY <1>4, <1>5, <1>8 DEF x

\* A sequential read whose mean is more than its regions and a tenth of them
\* has met what it, or the next thread, has read.
LEMMA TooMuchIsReread ==
  ASSUME NEW j, NEW job, Listed(j, job), NEW share \in Shares(job),
         job.numjobs > 1, TooMuch(job, Total(share))
  PROVE  Reread(job, share, 0) > 0
<1> DEFINE n == job.numjobs
           inc == job.offset_increment
           own == Own(job)
           I == 1..n
           R == Reads(job, share, 0)
           B == Blocks(job, share, 0)
<1>1. /\ n \in Nat \ {0} /\ n > 1 /\ own \in Nat \ {0} /\ Skew \in Nat
      /\ \A k \in I : share[k] \in Nat \ {0}
      /\ \A k, l \in I : share[k] - share[l] <= Skew
      /\ 10 * Skew <= n * own
      /\ Total(share) \in Nat /\ Total(share) = SumFunctionOnSet(share, I)
      /\ IsFiniteSet(I) /\ Cardinality(I) = n
      /\ own <= inc /\ inc \in Nat \ {0}
  BY SharesOfJob, RegionsOfJob
<1>2. 10 * Total(share) > 11 * (own * n) /\ n * own = own * n /\ own * n \in Nat
  BY <1>1, RegionsOfJob DEF TooMuch
<1>3. \E k \in I : k < n /\ share[k] > own
  <2> SUFFICES ASSUME \A k \in I : k < n => share[k] <= own PROVE FALSE
    BY <1>1
  <2> DEFINE J == I \ {n}
             z == [k \in J |-> 0]
  <2>1. n \in I /\ 1 \in I /\ 1 < n /\ J \in SUBSET I /\ \A k \in J : k < n
    BY <1>1
  <2>2. IsFiniteSet(J) /\ Cardinality(J) = n - 1
    <3> HIDE DEF I
    <3>1. IsFiniteSet(I) /\ n \in I
      BY <1>1, <2>1
    <3>2. Cardinality(I) = n /\ n \in Nat
      BY <1>1
    <3>3. /\ IsFiniteSet(I \ {n})
          /\ Cardinality(I \ {n}) = Cardinality(I) - 1
      BY <3>1, FS_RemoveElement
    <3> QED
      BY <3>2, <3>3
  <2>3. share[n] <= own + Skew /\ share[n] \in Nat
    <3>1. share[1] <= own /\ share[n] - share[1] <= Skew
          /\ share[1] \in Nat /\ share[n] \in Nat
      BY <1>1, <2>1
    <3> QED
      BY <1>1, <3>1
  <2>4. /\ SumLaws(share, I) /\ SumLaws(share, J)
    <3>1. \A k \in I : share[k] \in Int
      BY <1>1
    <3> HIDE DEF I, J
    <3> QED
      BY <1>1, <2>1, <3>1, SumObeysLaws
  <2>5. SumFunctionOnSet(z, J) = 0
    <3> HIDE DEF J
    <3> QED
      BY <2>2, SumOfZeros
  <2>6. SumFunctionOnSet(share, J) <= (n - 1) * own
    <3>1. \A k \in J : share[k] \in Int /\ z[k] \in Int /\ share[k] <= z[k] + own
      BY <1>1, <2>1
    <3> HIDE DEF J, z
    <3>2. SumFunctionOnSet(share, J) <= SumFunctionOnSet(z, J) + Cardinality(J) * own
      <4>1. own \in Int
        BY <1>1
      <4> HIDE DEF own
      <4> QED
        BY <2>2, <3>1, <4>1, SumDistance
    <3>3. (n - 1) * own \in Int
      BY <1>1
    <3> QED
      BY <2>2, <2>5, <3>2, <3>3
  <2>7. Total(share) = share[n] + SumFunctionOnSet(share, J) /\ SumFunctionOnSet(share, J) \in Int
    BY <1>1, <2>1, <2>4 DEF SumLaws
  <2>8. (n - 1) * own = own * n - own
    BY <1>1
  <2> DEFINE p == own * n
             q == SumFunctionOnSet(share, J)
             t == Total(share)
  <2>9. /\ p \in Nat /\ q \in Int /\ t \in Nat /\ q <= p - own /\ t = share[n] + q
        /\ 10 * Skew <= p /\ 10 * t > 11 * p
    BY <1>1, <1>2, <2>6, <2>7, <2>8
  <2> HIDE DEF p, q, t
  <2>10. own \in Nat /\ Skew \in Nat
    BY <1>1
  <2> QED
    BY <2>3, <2>9, <2>10
<1>4. PICK k \in I : k < n /\ share[k] > own
  BY <1>3
<1>5. /\ k \in Nat \ {0} /\ k + 1 \in I /\ share[k + 1] > 0
      /\ \A l \in I : Window(job, l) \in Nat \ {0}
      /\ Window(job, k) = own \/ (own = inc /\ own < Window(job, k))
  <2>1. k + 1 \in I
    BY <1>1, <1>4
  <2> QED
    BY <1>1, <1>4, <2>1, RegionsOfJob, SMTT(30)
<1>6. \A l \in I, i \in Nat : i < share[l] => <<l, i>> \in R
  <2>1. \A l \in I : share[l] = 0 + share[l]
    BY <1>1
  <2> QED
    BY <2>1 DEF Reads, Piles
<1>7. \E p, q \in R : p # q /\ Place(job, p) = Place(job, q)
  <2>1. CASE Window(job, k) = own
    <3>1. <<k, 0>> \in R /\ <<k, own>> \in R /\ <<k, 0>> # <<k, own>>
      BY <1>1, <1>4, <1>6
    <3>2. 0 % own = 0 /\ own % own = 0
      BY <1>1
    <3>3. Place(job, <<k, 0>>) = Place(job, <<k, own>>)
      BY <2>1, <3>2 DEF Place
    <3> QED
      BY <3>1, <3>3
  <2>2. CASE own = inc /\ own < Window(job, k)
    <3>1. <<k, inc>> \in R /\ <<k + 1, 0>> \in R /\ <<k, inc>> # <<k + 1, 0>>
      BY <1>1, <1>4, <1>5, <1>6, <2>2
    <3>2. inc % Window(job, k) = inc /\ 0 % Window(job, k + 1) = 0
      <4>1. /\ inc \in Nat /\ inc < Window(job, k)
            /\ Window(job, k) \in Nat \ {0} /\ Window(job, k + 1) \in Nat \ {0}
        BY <1>1, <1>5, <2>2
      <4> QED
        BY <4>1, RemainderOf
    <3>3. (k - 1) * inc + inc = (k + 1 - 1) * inc + 0
      BY <1>1, <1>5
    <3>4. Place(job, <<k, inc>>) = Place(job, <<k + 1, 0>>)
      BY <3>2, <3>3 DEF Place
    <3> QED
      BY <3>1, <3>4
  <2> QED
    BY <1>5, <2>1, <2>2
<1>8. B = {Place(job, p) : p \in R} /\ IsFiniteSet(R) /\ IsFiniteSet(B)
  BY BlocksArePlaces
<1>9. Cardinality(B) < Cardinality(R)
  <2> HIDE DEF R, B
  <2> DEFINE f == [p \in R |-> Place(job, p)]
  <2>1. f \in Surjection(R, B)
    BY <1>8 DEF Surjection
  <2>2. f \notin Injection(R, B)
    BY <1>7 DEF Injection, IsInjective
  <2> HIDE DEF f
  <2>3. Cardinality(B) <= Cardinality(R) /\ Cardinality(B) # Cardinality(R)
    BY <1>8, <2>1, <2>2, FS_Surjection
  <2>4. Cardinality(B) \in Nat /\ Cardinality(R) \in Nat
    BY <1>8, FS_CardinalityType
  <2> QED
    BY <2>3, <2>4
<1>10. Cardinality(R) = Total(share)
  <2> DEFINE h == [l \in I |-> 0 + share[l]]
  <2>1. \A l \in I : h[l] \in Nat /\ share[l] \in Nat /\ h[l] = share[l]
    BY <1>1
  <2>2. R = Piles(h, I)
    BY DEF Reads
  <2>3. Piles(h, I) = Piles(share, I)
    BY <2>1 DEF Piles
  <2> HIDE DEF h, R, I
  <2> QED
    BY <1>1, <2>1, <2>2, <2>3, PilesCount
<1>11. Reread(job, share, 0) = Total(share) + 0 * n - Cardinality(B)
  BY DEF Reread
<1> HIDE DEF B, R
<1>12. Cardinality(B) \in Nat
  BY <1>8, FS_CardinalityType
<1> QED
  BY <1>1, <1>9, <1>10, <1>11, <1>12

\* A sequential read whose mean is at most its regions and a tenth of them
\* owes little to a cache: the units that each thread reads of its own region
\* are all different.
LEMMA LittleIsReread ==
  ASSUME NEW j, NEW job, Listed(j, job), NEW share \in Shares(job),
         job.numjobs > 1, ~TooMuch(job, Total(share)), NEW ramp \in Nat
  PROVE  10 * Reread(job, share, ramp)
           <= job.numjobs * (Own(job) + 10 * (Skew + ramp))
<1> DEFINE n == job.numjobs
           inc == job.offset_increment
           own == Own(job)
           I == 1..n
           B == Blocks(job, share, ramp)
           T == Total(share)
           m == [k \in I |-> IF ramp + share[k] < own THEN ramp + share[k] ELSE own]
           Z == Piles(m, I)
<1>1. /\ n \in Nat \ {0} /\ n > 1 /\ own \in Nat \ {0} /\ Skew \in Nat
      /\ \A k \in I : share[k] \in Nat \ {0}
      /\ \A k, l \in I : share[k] - share[l] <= Skew
      /\ T \in Nat /\ T = SumFunctionOnSet(share, I)
      /\ IsFiniteSet(I) /\ Cardinality(I) = n
      /\ own <= inc /\ inc \in Nat \ {0}
      /\ \A k \in I : Window(job, k) \in Nat /\ own <= Window(job, k)
  BY SharesOfJob, RegionsOfJob
<1>2. 10 * T <= 11 * (own * n) /\ n * own = own * n /\ own * n \in Nat
  <2>1. ~(10 * T > 11 * own * n)
    BY RegionsOfJob DEF TooMuch
  <2> QED
    BY <1>1, <2>1
<1>3. ASSUME NEW k \in I
      PROVE  10 * share[k] <= 11 * own + 10 * Skew
  <2> DEFINE z == [l \in I |-> 0]
             c == Skew - share[k]
  <2>1. SumFunctionOnSet(z, I) = 0
    <3> HIDE DEF I
    <3> QED
      BY <1>1, SumOfZeros
  <2>2. 0 <= T + n * c
    <3>1. c \in Int
      BY <1>1
    <3>2. \A l \in I : z[l] \in Int /\ share[l] \in Int /\ z[l] <= share[l] + c
      BY <1>1, SMTT(30)
    <3> HIDE DEF z, c, I, T
    <3>3. SumFunctionOnSet(z, I) <= SumFunctionOnSet(share, I) + Cardinality(I) * c
      BY <1>1, <3>1, <3>2, SumDistance
    <3> QED
      BY <1>1, <2>1, <3>3
  <2> SUFFICES ASSUME 11 * own + 10 * Skew + 1 <= 10 * share[k] PROVE FALSE
    BY <1>1, SMTT(30)
  <2> DEFINE x == 10 * share[k]
             y == 11 * own + 10 * Skew + 1
  <2>3. x \in Nat /\ y \in Nat /\ y <= x /\ n \in Nat
    BY <1>1, SMTT(30)
  <2>4. n * y <= n * x
    <3> HIDE DEF x, y
    <3> QED
      BY <2>3, ProductGrows
  <2>a. share[k] \in Nat /\ own \in Nat /\ Skew \in Nat /\ n \in Nat /\ n > 0 /\ T \in Nat
    BY <1>1
  <2>5. n * x = 10 * (n * share[k]) /\ n * y = 11 * (own * n) + 10 * (n * Skew) + n
    BY <2>a
  <2>6. n * c = n * Skew - n * share[k]
    BY <2>a
  <2>7. n * share[k] \in Nat /\ n * Skew \in Nat /\ n > 0 /\ T \in Nat
    BY <2>a
  <2> DEFINE u == n * share[k]
             v == n * Skew
             w == own * n
  <2>8. /\ u \in Nat /\ v \in Nat /\ w \in Nat /\ n \in Nat /\ n > 0 /\ T \in Nat
        /\ 0 <= T + (v - u) /\ 10 * T <= 11 * w /\ 11 * w + 10 * v + n <= 10 * u
    BY <1>2, <2>2, <2>3, <2>4, <2>5, <2>6, <2>7
  <2> HIDE DEF u, v, w, n, T
  <2> QED
    BY <2>8
<1>4. \A k \in I : m[k] \in Nat /\ m[k] <= own /\ m[k] <= ramp + share[k]
  BY <1>1
<1>5. \A k \in I : 10 * share[k] <= 10 * m[k] + (own + 10 * Skew)
  <2> SUFFICES ASSUME NEW k \in I
               PROVE  10 * share[k] <= 10 * m[k] + (own + 10 * Skew)
    OBVIOUS
  <2>1. 10 * share[k] <= 11 * own + 10 * Skew
    BY <1>3
  <2>2. CASE ramp + share[k] < own
    <3>1. m[k] = ramp + share[k]
      BY <2>2
    <3>2. share[k] \in Nat /\ own \in Nat /\ Skew \in Nat
      BY <1>1
    <3> HIDE DEF m
    <3> QED
      BY <3>1, <3>2
  <2>3. CASE ~(ramp + share[k] < own)
    <3>1. m[k] = own
      BY <2>3
    <3> QED
      BY <1>1, <2>1, <3>1
  <2> QED
    BY <2>2, <2>3
<1>6. 10 * T <= 10 * SumFunctionOnSet(m, I) + n * (own + 10 * Skew)
  <2> DEFINE f == [k \in I |-> 10 * share[k]]
             g == [k \in I |-> 10 * m[k]]
             c == own + 10 * Skew
  <2>1. \A k \in I : f[k] \in Int /\ g[k] \in Int /\ f[k] <= g[k] + c
    <3> HIDE DEF m
    <3> QED
      BY <1>1, <1>4, <1>5, SMTT(30)
  <2>2. c \in Int /\ \A k \in I : share[k] \in Int /\ m[k] \in Int
    BY <1>1, <1>4
  <2>3. /\ SumFunctionOnSet(f, I) = 10 * SumFunctionOnSet(share, I)
        /\ SumFunctionOnSet(g, I) = 10 * SumFunctionOnSet(m, I)
    <3> HIDE DEF I, m
    <3> QED
      BY <1>1, <2>2, SumTenfold
  <2> HIDE DEF f, g, c, I, m, T
  <2>4. SumFunctionOnSet(f, I) <= SumFunctionOnSet(g, I) + Cardinality(I) * c
    BY <1>1, <2>1, <2>2, SumDistance
  <2> QED
    BY <1>1, <2>3, <2>4 DEF c
<1>7. Cardinality(Z) = SumFunctionOnSet(m, I) /\ SumFunctionOnSet(m, I) \in Nat
  <2> HIDE DEF m, I
  <2> QED
    BY <1>1, <1>4, PilesCount, SumOfNaturals
<1>8. IsFiniteSet(B) /\ B = {Place(job, p) : p \in Reads(job, share, ramp)}
  BY BlocksArePlaces
<1>9. ASSUME NEW p \in Z
      PROVE  /\ p \in I \X Nat /\ p[2] < own
             /\ Place(job, p) = (p[1] - 1) * inc + p[2]
             /\ p \in Reads(job, share, ramp)
  <2>1. p \in I \X Nat /\ p[2] < m[p[1]]
    BY DEF Piles
  <2> HIDE DEF m
  <2>2. p[1] \in I /\ p[2] \in Nat
    BY <2>1
  <2>3. p[2] < own /\ p[2] < ramp + share[p[1]] /\ p[2] < Window(job, p[1])
    BY <1>1, <1>4, <2>1, <2>2, SMTT(30)
  <2>4. p[2] % Window(job, p[1]) = p[2]
    <3>1. Window(job, p[1]) \in Nat \ {0}
      BY <1>1, <2>2
    <3> QED
      BY <2>2, <2>3, <3>1, RemainderOf
  <2>5. p \in Reads(job, share, ramp)
    BY <2>1, <2>2, <2>3 DEF Reads, Piles
  <2> QED
    BY <2>1, <2>3, <2>4, <2>5 DEF Place
<1>10. ASSUME NEW p \in Z, NEW q \in Z, Place(job, p) = Place(job, q)
       PROVE  p = q
  <2>1. p \in I \X Nat /\ q \in I \X Nat /\ p[2] < own /\ q[2] < own
    BY <1>9
  <2>a. (p[1] - 1) * inc + p[2] = (q[1] - 1) * inc + q[2]
    BY <1>9, <1>10
  <2>2. ASSUME NEW k \in I, NEW l \in I, NEW i \in Nat, NEW h \in Nat,
               i < own, h < own, (k - 1) * inc + i = (l - 1) * inc + h
        PROVE  ~(k < l)
    <3> SUFFICES ASSUME k < l PROVE FALSE
      OBVIOUS
    <3>1. k \in Nat /\ l - 1 \in Nat /\ k <= l - 1 /\ inc \in Nat
      BY <1>1
    <3>2. k * inc <= (l - 1) * inc /\ k * inc \in Nat /\ (l - 1) * inc \in Nat
      BY <3>1, ProductGrows
    <3>3. (k - 1) * inc = k * inc - inc
      BY <3>1
    <3> DEFINE x == k * inc
               y == (l - 1) * inc
    <3>4. x \in Nat /\ y \in Nat /\ x <= y /\ x - inc + i = y + h
      BY <2>2, <3>2, <3>3
    <3>5. own <= inc /\ own \in Nat /\ inc \in Nat
      BY <1>1
    <3> HIDE DEF x, y
    <3> QED
      BY <2>2, <3>4, <3>5
  <2>3. p[1] \in I /\ q[1] \in I /\ p[2] \in Nat /\ q[2] \in Nat
    BY <2>1
  <2>4. ~(p[1] < q[1]) /\ ~(q[1] < p[1])
    BY <2>1, <2>2, <2>3, <2>a
  <2>5. p[1] = q[1]
    BY <2>3, <2>4
  <2>6. p[2] = q[2]
    <3> DEFINE x == (p[1] - 1) * inc
    <3>1. x \in Int /\ x + p[2] = x + q[2]
      BY <1>1, <2>3, <2>5, <2>a
    <3> HIDE DEF x
    <3> QED
      BY <2>3, <3>1
  <2> QED
    BY <2>1, <2>5, <2>6
<1>11. Cardinality(Z) <= Cardinality(B) /\ Cardinality(B) \in Nat
  <2> DEFINE f == [p \in Z |-> Place(job, p)]
  <2> HIDE DEF Z, B
  <2>1. \A p \in Z : Place(job, p) \in B
    BY <1>8, <1>9
  <2>2. f \in Injection(Z, B)
    BY <1>10, <2>1 DEF Injection, IsInjective
  <2> HIDE DEF f
  <2> QED
    BY <1>8, <2>2, FS_Injection, FS_CardinalityType
<1>12. Reread(job, share, ramp) = T + ramp * n - Cardinality(B)
  BY DEF Reread
<1>13. n * (own + 10 * (Skew + ramp)) = n * (own + 10 * Skew) + 10 * (ramp * n)
  BY <1>1
<1>14. ramp * n \in Nat /\ n * (own + 10 * Skew) \in Nat
  BY <1>1
<1> DEFINE x == ramp * n
           y == n * (own + 10 * Skew)
           M == SumFunctionOnSet(m, I)
           R == Reread(job, share, ramp)
           C == Cardinality(B)
<1>15. /\ R = T + x - C /\ 10 * T <= 10 * M + y /\ M <= C
       /\ x \in Nat /\ y \in Nat /\ M \in Nat /\ C \in Nat /\ T \in Nat
       /\ n * (own + 10 * (Skew + ramp)) = y + 10 * x
  BY <1>1, <1>6, <1>7, <1>11, <1>12, <1>13, <1>14
<1> HIDE DEF x, y, M, R, C, T
<1>16. 10 * R <= y + 10 * x
  BY <1>15
<1> QED
  BY <1>15, <1>16 DEF R

-----------------------------------------------------------------------------
(* The theorems about flags.                                               *)

\* The rows of the jobs that were run as the file has them.
LEMMA FaithfulRow ==
  ASSUME ReportInv, NEW a \in Attempts, NEW row \in Faithful(a)
  PROVE  /\ row.job \in Jobs /\ Known(row.job)
         /\ Listed(row.job, Meta(row.job))
         /\ fio[a][row.job].share \in Shares(Meta(row.job))
         /\ row.op \in OpsOf(Meta(row.job))
         /\ row.metric = PrimaryMetric(row.job)
         /\ row.wrap <=>
              Wraps(row.job, row.op, PrimaryMetric(row.job),
                    Rate(Meta(row.job), fio[a][row.job].share, row.op,
                         PrimaryMetric(row.job)))
<1>1. Known(row.job) /\ Meta(row.job) = fio[a][row.job].job /\ row \in Section(a)
  BY DEF Faithful
<1>a. PICK p \in Present(a) :
        row = [job |-> p[1], op |-> p[2], metric |-> PrimaryMetric(p[1]),
               values |-> Values(a, p[1], p[2], PrimaryMetric(p[1])),
               wrap |-> \E v \in Values(a, p[1], p[2], PrimaryMetric(p[1])) :
                          Wraps(p[1], p[2], PrimaryMetric(p[1]), v)]
  BY <1>1, Zenon DEF Section
<1>2. /\ row.job = p[1] /\ row.op = p[2] /\ row.metric = PrimaryMetric(p[1])
      /\ row.wrap = \E v \in Values(a, p[1], p[2], PrimaryMetric(p[1])) :
                      Wraps(p[1], p[2], PrimaryMetric(p[1]), v)
  BY <1>a, Zenon
<1>3. PICK x \in metrics : x.attempt = a /\ p = <<x.job, x.op>>
  BY DEF Present
<1>4. /\ p[1] \in Jobs /\ fio[a][p[1]] # NotRun
      /\ p[2] \in fio[a][p[1]].done
  BY <1>3 DEF ReportInv, MetricInv, Metric
<1>5. PrimaryMetric(p[1]) \in BothMetrics
  BY DEF PrimaryMetric, BothMetrics
<1>6. Values(a, p[1], p[2], PrimaryMetric(p[1]))
        = {Rate(fio[a][p[1]].job, fio[a][p[1]].share, p[2],
                PrimaryMetric(p[1]))}
  BY <1>4, <1>5, ValueOfRow
<1>7. /\ Listed(p[1], fio[a][p[1]].job)
      /\ fio[a][p[1]].share \in Shares(fio[a][p[1]].job)
      /\ p[2] \in OpsOf(fio[a][p[1]].job)
  BY <1>4 DEF ReportInv, EntryInv
<1>8. row.wrap <=> Wraps(p[1], p[2], PrimaryMetric(p[1]),
                         Rate(fio[a][p[1]].job, fio[a][p[1]].share, p[2],
                              PrimaryMetric(p[1])))
  BY <1>2, <1>6
<1> QED
  BY <1>1, <1>2, <1>4, <1>7, <1>8

\* A job whose row is flagged, and that is still in the file as it was run
\* and for the runtime it was run, has read something twice in the measured
\* time (_detect_wrap).
THEOREM FlagsAreRereads == Spec => []FlagMeansReread
<1>1. ASSUME ReportInv PROVE FlagMeansReread
  <2> SUFFICES ASSUME NEW a \in Attempts, NEW row \in Faithful(a), row.wrap
               PROVE  Reread(Meta(row.job), fio[a][row.job].share, 0) > 0
    BY DEF FlagMeansReread
  <2> DEFINE job == Meta(row.job)
             share == fio[a][row.job].share
  <2>1. /\ Listed(row.job, job) /\ share \in Shares(job) /\ row.op = "read"
        /\ job.numjobs > 1
        /\ Amplified(job, Rate(job, share, row.op, "bw_mbps"))
    BY <1>1, FaithfulRow DEF Wraps, Inspected
  <2>2. Moved(job, share, row.op) = Total(share)
    BY <2>1 DEF Moved
  <2> HIDE DEF job, share
  <2>3. TooMuch(job, Total(share))
    BY <2>1, <2>2, AmplifiedAsRun
  <2>4. Reread(job, share, 0) > 0
    BY <2>1, <2>3, TooMuchIsReread
  <2> QED
    BY <2>4 DEF job, share
<1> QED
  BY <1>1, AlwaysReport, PTL

\* A sequential read of several threads that is not flagged, and is still in
\* the file as it was run and for the runtime it was run, owes at most a tenth of its regions to a cache, but for the
\* ramp and the distance of its threads (_detect_wrap).
THEOREM UnflaggedReadsAreFresh == Spec => []NoFlagMeansLittle
<1>1. ASSUME ReportInv PROVE NoFlagMeansLittle
  <2> SUFFICES ASSUME NEW a \in Attempts, NEW row \in Faithful(a), ~row.wrap,
                      Meta(row.job).numjobs > 1, Meta(row.job).rw = "read"
               PROVE  10 * Reread(Meta(row.job), fio[a][row.job].share, Ramp)
                        <= Meta(row.job).numjobs
                             * (Own(Meta(row.job)) + 10 * (Skew + Ramp))
    BY DEF NoFlagMeansLittle
  <2> DEFINE job == Meta(row.job)
             share == fio[a][row.job].share
  <2>1. /\ Known(row.job) /\ Listed(row.job, job) /\ share \in Shares(job)
        /\ row.op \in OpsOf(job)
        /\ ~Wraps(row.job, row.op, PrimaryMetric(row.job),
                  Rate(job, share, row.op, PrimaryMetric(row.job)))
    BY <1>1, FaithfulRow
  <2>2. row.op = "read" /\ PrimaryMetric(row.job) = "bw_mbps"
    BY <2>1 DEF OpsOf, PrimaryMetric, RandKinds
  <2>3. Moved(job, share, row.op) = Total(share)
    BY <2>2 DEF Moved
  <2>6. job.numjobs > 1
    OBVIOUS
  <2>4. ~TooMuch(job, Total(share))
    <3>1. ~Amplified(job, Rate(job, share, row.op, "bw_mbps"))
      BY <2>1, <2>2 DEF Wraps, Inspected
    <3> HIDE DEF job, share
    <3> QED
      BY <2>1, <2>3, <2>6, <3>1, AmplifiedAsRun
  <2>5. Ramp \in Nat
    BY ReportAssumption
  <2> HIDE DEF job, share
  <2>7. 10 * Reread(job, share, Ramp) <= job.numjobs * (Own(job) + 10 * (Skew + Ramp))
    BY <2>1, <2>4, <2>5, <2>6, LittleIsReread
  <2> QED
    BY <2>7 DEF job, share
<1> QED
  BY <1>1, AlwaysReport, PTL
=============================================================================
