----------------------------- MODULE RunReport -----------------------------
(***************************************************************************)
(* From what fio prints to what the report says: the parser                *)
(* (parsers/fio.py), the metrics table (record_metrics in store.py) and    *)
(* the report (report.py).                                                 *)
(*                                                                         *)
(* A report can be rendered at any time and only reads, so that it is a    *)
(* function of the state: of the metrics, which were measured under the    *)
(* scenarios the orchestrator had loaded, and of the campaign file, which  *)
(* may have been edited or be gone since.                                  *)
(*                                                                         *)
(* Data are counted in units of what a thread reads.  A metric is a rate:  *)
(* what all threads of a job moved in the runtime it was run with.  The    *)
(* report takes rates times the runtime that the file has by then.         *)
(***************************************************************************)
EXTENDS Integers, FiniteSets, FiniteSetsExt

CONSTANTS
  Files,      \* Files[f]: the jobs of a version of the campaign file
  Attempts,   \* repeats of the scenario
  FileUnits,  \* size of the testfile
  Ramp,       \* units a thread reads in ramp_time, unmeasured
  Skew,       \* how far apart fio's threads may be
  Amounts,    \* Amounts[n]: units each of n threads may read in runtime
  IosPerUnit, \* I/Os fio needs for a unit
  MaxIdle,    \* bound: jobs that did less than their operations
  MaxResumes  \* bound: resumes of the run

Gone   == "gone"    \* the campaign file is missing or not a valid campaign
Broken == "broken"  \* it is no YAML (YAMLError), or cannot be read (OSError)
Unset  == 0         \* a size that is not given
Jobs  == UNION {DOMAIN Files[f] : f \in DOMAIN Files}
Ops   == {"read", "write"}
BothMetrics == {"bw_mbps", "iops"}

SeqKinds  == {"read", "write", "rw"}
RandKinds == {"randread", "randwrite", "randrw"}
Sizes     == Nat

\* JobContext: a FioJob with the runtime of its scenario's fio_global.
\* Several threads need an offset_increment; suffix: the sizes of the job have
\* a unit, without which fio takes them and the report does not.
Job == [rw : SeqKinds \cup RandKinds, numjobs : Nat \ {0}, size : Sizes,
        offset_increment : Sizes, suffix : BOOLEAN, runtime : Nat \ {0}]

ASSUME ReportAssumption ==
  /\ DOMAIN Files # {} /\ {Gone, Broken} \cap DOMAIN Files = {}
  /\ \A f \in DOMAIN Files : \A j \in DOMAIN Files[f] :
       /\ Files[f][j] \in Job
       /\ Amounts[Files[f][j].numjobs] \subseteq Nat \ {0}
       /\ Files[f][j].numjobs > 1 => Files[f][j].offset_increment # Unset
  /\ FileUnits \in Nat \ {0} /\ Ramp \in Nat /\ Skew \in Nat
  /\ IosPerUnit \in Nat \ {0} /\ MaxIdle \in Nat /\ MaxResumes \in Nat

VARIABLES
  yaml,     \* the version of the campaign file on disk, Gone or Broken
  loaded,   \* the version the orchestrator runs
  fio,      \* fio[a][j]: what was run and done, or nothing
  metrics,  \* table metrics: [attempt, job, op, metric] and a value
  resumes

vars == <<yaml, loaded, fio, metrics, resumes>>

NotRun == [run |-> FALSE]

Init ==
  /\ yaml \in DOMAIN Files
  /\ loaded = yaml
  /\ fio = [a \in Attempts |-> [j \in Jobs |-> NotRun]]
  /\ metrics = {}
  /\ resumes = 0

-----------------------------------------------------------------------------
(* Measuring                                                               *)

OpsOf(job) ==
  CASE job.rw \in {"read", "randread"}   -> {"read"}
    [] job.rw \in {"write", "randwrite"} -> {"write"}
    [] OTHER                             -> Ops

\* What the threads of a job may read or write, none far ahead of another.
Shares(job) ==
  {s \in [1..job.numjobs -> Amounts[job.numjobs]] :
     \A k, l \in DOMAIN s : s[k] - s[l] <= Skew}

Total(share) == SumFunction(share)

\* The units of an operation.  A job that reads and writes writes less, here
\* a unit per thread.
Moved(job, share, op) ==
  IF op = "write" /\ "read" \in OpsOf(job) THEN job.numjobs ELSE Total(share)

\* What fio reports of an operation, as a ratio: a bandwidth or I/Os per second.
Rate(job, share, op, metric) ==
  [amount |-> IF metric = "iops" THEN IosPerUnit * Moved(job, share, op)
                                 ELSE Moved(job, share, op),
   time   |-> job.runtime]

\* fio's JSON, with group_reporting: one summary per operation, zero for the
\* ones that it has not done.
Summary(job, share, done) ==
  [op \in Ops |-> [m \in BothMetrics |->
     IF op \in done THEN Rate(job, share, op, m)
                    ELSE [amount |-> 0, time |-> job.runtime]]]

\* parse_fio_json(): an operation with IO has both metrics.
\* Variant: idle operations are not left out.
Records_Idle(summary) ==
  {[op |-> op, metric |-> m, value |-> summary[op][m]] :
     op \in Ops, m \in BothMetrics}
Records(summary) ==
  {[op |-> op, metric |-> m, value |-> summary[op][m]] :
     op \in {o \in Ops : \E m \in BothMetrics : summary[o][m].amount # 0},
     m \in BothMetrics}

Key(m) == <<m.attempt, m.job, m.op, m.metric>>

\* An attempt goes on only in the process that began it: a resumed one dies
\* on its row (start_scenario).
TakenOver(a) ==
  \E k \in Jobs : fio[a][k] # NotRun /\ fio[a][k].process # resumes

\* The jobs that did less than their operations.
Idlers ==
  {p \in Attempts \X Jobs : /\ fio[p[1]][p[2]] # NotRun
                            /\ fio[p[1]][p[2]].done # OpsOf(fio[p[1]][p[2]].job)}

\* A job ran with status 'ok': INSERT OR REPLACE of its metrics.  What it did
\* may be less than it was to do, or nothing, and then has no metrics.
JobOk(a, j) ==
  /\ j \in DOMAIN Files[loaded] /\ fio[a][j] = NotRun /\ ~TakenOver(a)
  /\ LET job == Files[loaded][j]
     IN  \E share \in Shares(job), done \in SUBSET OpsOf(job) :
           LET new == {[attempt |-> a, job |-> j, op |-> r.op,
                        metric |-> r.metric, value |-> r.value] :
                         r \in Records(Summary(job, share, done))}
           IN  /\ done # OpsOf(job) => Cardinality(Idlers) < MaxIdle
               /\ fio' = [fio EXCEPT ![a][j] =
                            [run |-> TRUE, job |-> job, share |-> share,
                             done |-> done, process |-> resumes]]
               /\ metrics' = new \cup
                    {m \in metrics : Key(m) \notin {Key(n) : n \in new}}
  /\ UNCHANGED <<yaml, loaded, resumes>>

\* The campaign is edited, well or badly, or its files are moved, by hand.
EditCampaign(f) ==
  /\ yaml' = f
  /\ UNCHANGED <<loaded, fio, metrics, resumes>>

\* harness resume loads the file again.
Resume ==
  /\ yaml \in DOMAIN Files /\ resumes < MaxResumes
  /\ loaded' = yaml
  /\ resumes' = resumes + 1
  /\ UNCHANGED <<yaml, fio, metrics>>

Next ==
  \/ \E a \in Attempts, j \in Jobs : JobOk(a, j)
  \/ \E f \in DOMAIN Files \cup {Gone, Broken} : EditCampaign(f)
  \/ Resume

Spec == Init /\ [][Next]_vars

-----------------------------------------------------------------------------
(* The report                                                              *)

\* job_lookup.get(): the job by the file on disk, if it is known.
Known(j) == yaml \in DOMAIN Files /\ j \in DOMAIN Files[yaml]
Meta(j)  == Files[yaml][j]

PrimaryMetric(j) ==
  IF Known(j) /\ Meta(j).rw \in RandKinds THEN "iops" ELSE "bw_mbps"

\* The operations of the attempt's jobs that have a metric.
Present(a) == {<<m.job, m.op>> : m \in {n \in metrics : n.attempt = a}}

\* metrics_by_key.get().  Variant: the key lacks the repeat.
Values_AnyRepeat(a, j, op, metric) ==
  {m.value : m \in {n \in metrics : <<n.job, n.op, n.metric>>
                                      = <<j, op, metric>>}}
Values(a, j, op, metric) ==
  {m.value : m \in {n \in metrics : Key(n) = <<a, j, op, metric>>}}

\* _per_thread_region_bytes().  Variant: the larger one.
Region_Larger(job) == Max({job.size, job.offset_increment})
Region(job) == Min({job.size, job.offset_increment} \ {Unset})

\* per_thread_bytes > region * 1.1, where per_thread_bytes is a thread's part
\* of the rate times the runtime.  Variant: slack to the other side.
Amplified_Early(job, value) ==
  10 * value.amount * job.runtime > 9 * Region(job) * job.numjobs * value.time
Amplified(job, value) ==
  10 * value.amount * job.runtime > 11 * Region(job) * job.numjobs * value.time

\* The rows _detect_wrap() looks at.
Inspected(j, op, metric) ==
  Known(j) /\ metric = "bw_mbps" /\ op = "read" /\ Meta(j).numjobs > 1

\* _detect_wrap()
Wraps(j, op, metric, value) ==
  Inspected(j, op, metric) /\ Amplified(Meta(j), value)

\* The rows of an attempt's section; a row whose metric is missing shows a
\* dash, which is no value.
Section(a) ==
  {[job |-> p[1], op |-> p[2], metric |-> PrimaryMetric(p[1]),
    values |-> Values(a, p[1], p[2], PrimaryMetric(p[1])),
    wrap |-> \E v \in Values(a, p[1], p[2], PrimaryMetric(p[1])) :
               Wraps(p[1], p[2], PrimaryMetric(p[1]), v)] :
     p \in Present(a)}

\* render_report() comes to its end: load_campaign() raised nothing that
\* _load_job_metadata() does not catch, and _parse_size_bytes() nothing.
Renders ==
  /\ yaml # Broken
  /\ \A a \in Attempts : \A row \in Section(a) :
       (Inspected(row.job, row.op, row.metric) /\ row.values # {})
         => Meta(row.job).suffix

-----------------------------------------------------------------------------
(* What fio's threads have read: thread k starts at its offset_increment   *)
(* and goes round in its size, or in the rest of the file.                 *)

Window(job, k) ==
  IF job.size # Unset THEN job.size
                      ELSE FileUnits - (k - 1) * job.offset_increment

Blocks(job, share, ramp) ==
  UNION {{(k - 1) * job.offset_increment + (i % Window(job, k)) :
            i \in 0..(ramp + share[k] - 1)} : k \in DOMAIN share}

\* How much of the file a thread reads before it meets what it or another
\* one has read.
Own(job) == IF job.size \in 1..job.offset_increment THEN job.size
                                                   ELSE job.offset_increment

\* The regions of a job's threads lie in the file, and its threads stay as
\* close as the report's slack of 10 %.
ASSUME RegionAssumption ==
  \A f \in DOMAIN Files : \A j \in DOMAIN Files[f] :
    LET job == Files[f][j]
    IN  job.numjobs > 1 =>
          /\ job.size = Unset => job.numjobs * job.offset_increment <= FileUnits
          /\ 10 * Skew <= job.numjobs * Region(job)

\* Units read from a cache: they were read before, by any thread.
Reread(job, share, ramp) ==
  Total(share) + ramp * job.numjobs - Cardinality(Blocks(job, share, ramp))

-----------------------------------------------------------------------------
(* Properties.                                                             *)

TypeOK ==
  /\ yaml \in DOMAIN Files \cup {Gone, Broken} /\ loaded \in DOMAIN Files
  /\ \A a \in Attempts, j \in Jobs :
       fio[a][j] # NotRun => /\ fio[a][j].job \in Job
                             /\ fio[a][j].share \in Shares(fio[a][j].job)
                             /\ fio[a][j].done \subseteq OpsOf(fio[a][j].job)
  /\ metrics \subseteq [attempt : Attempts, job : Jobs, op : Ops,
                        metric : BothMetrics,
                        value : [amount : Nat \ {0}, time : Nat \ {0}]]
  /\ resumes \in 0..MaxResumes

\* In a report that renders, an attempt's section has a row for each operation
\* that a job did in this attempt and no other, with the one value measured
\* in it, whether the campaign file is as it was run, edited or gone
\* (_build_section; "tables still render").  Which of the two metrics a row
\* shows is up to the file on disk.
RowsOfTheAttempt ==
  Renders => \A a \in Attempts :
    /\ \A row \in Section(a) :
         /\ fio[a][row.job] # NotRun
         /\ row.op \in fio[a][row.job].done
         /\ row.values = {Rate(fio[a][row.job].job, fio[a][row.job].share,
                               row.op, row.metric)}
    /\ \A j \in Jobs : fio[a][j] # NotRun =>
         \A op \in fio[a][j].done :
           \E row \in Section(a) : row.job = j /\ row.op = op

\* The rows whose job and runtime were run as the file on disk has them.
Faithful(a) ==
  {row \in Section(a) : Known(row.job) /\ Meta(row.job) = fio[a][row.job].job}

\* A row is flagged only if its threads read something twice in the measured
\* time (README, methodology guard 3), unless the job or the runtime of its
\* scenario was edited.  The flag looks at the mean: were the threads further
\* apart than the slack (RegionAssumption), the last one could have read on
\* into the rest of the file.
FlagMeansReread ==
  Renders => \A a \in Attempts : \A row \in Faithful(a) :
    row.wrap => Reread(Meta(row.job), fio[a][row.job].share, 0) > 0

\* A sequential read of several threads that is not flagged owes to a cache
\* at most a tenth of each thread's region, what the ramp has read of it,
\* and how far its threads are apart, unless the job or the runtime of its
\* scenario was edited.
NoFlagMeansLittle ==
  Renders => \A a \in Attempts : \A row \in Faithful(a) :
    LET job == Meta(row.job)
    IN  (~row.wrap /\ job.numjobs > 1 /\ job.rw = "read") =>
          10 * Reread(job, fio[a][row.job].share, Ramp)
            <= job.numjobs * (Own(job) + 10 * (Skew + Ramp))
=============================================================================
