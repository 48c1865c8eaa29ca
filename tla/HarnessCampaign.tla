-------------------------- MODULE HarnessCampaign --------------------------
(***************************************************************************)
(* The campaign orchestrator of benchmark-harness (orchestrator.py) and    *)
(* the part of its SQLite store (store.py) that decides what is run and    *)
(* what is resumed.                                                        *)
(*                                                                         *)
(* One orchestrator process at a time walks the campaign's bindings        *)
(* (scenario, target, repeat count), inserts a row per attempt, prepares   *)
(* the target, runs the scenario's jobs, settles the row, cleans up and    *)
(* settles the run.  Every database transaction and every remote call is   *)
(* a step, and the process may die between any two of them.                *)
(***************************************************************************)
EXTENDS Integers, Sequences, FiniteSets

CONSTANTS
  Scenarios,    \* scenario names
  Targets,      \* storage target names
  Bindings,     \* the resolved runs: sequence of [scenario, target, repeat]
  NumJobs,      \* NumJobs[s]: how many jobs scenario s declares
  CleanupModes, \* the values of Campaign.cleanup considered
  MaxRuns,      \* bound: runs in the database
  MaxSessions,  \* bound: orchestrator processes told apart in samples
  MaxCrashes,   \* bound: processes that die
  MaxEmpty      \* bound: ok outcomes whose fio output holds no rows

ASSUME CampaignAssumption ==
  /\ Bindings \in Seq([scenario : Scenarios, target : Targets, repeat : Nat])
  /\ NumJobs \in [Scenarios -> Nat \ {0}]
  /\ CleanupModes \subseteq {"after_campaign", "after_each_run", "never"}
  /\ MaxRuns \in Nat
  /\ MaxSessions \in Nat
  /\ MaxCrashes \in Nat
  /\ MaxEmpty \in Nat

VARIABLES
  cleanup,    \* the campaign's cleanup mode, never changed
  runs,       \* runs[r]: status of run r in table runs, or "absent"
  rows,       \* rows[r][k]: status of slot k in table scenarios, or "absent"
  samples,    \* table metrics: the rows of a job's ok outcome, as one
  empty,      \* history: ok outcomes whose fio output held no rows
  testfile,   \* testfile[t]: target t holds the workspace file
  swallowed,  \* targets whose cleanup failed unnoticed in this process
  pc,         \* where the process is; "idle": no process is alive
  run,        \* run_id of the process
  b,          \* index of the binding it is at
  rep,        \* repeat index within the binding
  job,        \* index of the next job of the scenario
  jobFailed,  \* scenario_failed
  overall,    \* overall_status
  session,    \* how many processes were started
  exit,       \* how the last process ended
  crashes     \* how many processes died

store   == <<runs, rows, samples, empty>>
cursor  == <<run, b, rep, job, jobFailed, overall, session>>
vars    == <<store, testfile, swallowed, pc, cursor, exit, crashes, cleanup>>

RunIds      == 1..MaxRuns        \* in order of creation
SlotsOf(c)  == {Bindings[c].scenario} \X (0..(Bindings[c].repeat - 1))
Slots       == UNION {SlotsOf(c) : c \in DOMAIN Bindings}
Settled     == {"ok", "failed"}
Exits       == Settled \cup {"none", "integrity_error", "killed"}

\* The attempt the process is at: primary key (scenario_name, repeat_idx).
slot     == <<Bindings[b].scenario, rep>>
scenario == Bindings[b].scenario
target   == Bindings[b].target
InLoop   == b <= Len(Bindings) /\ rep < Bindings[b].repeat

\* scenario_completed(): the attempt's row says 'ok'.
\* Variant: any row of the attempt counts as completed.
Completed_AnyRow == rows[run][slot] # "absent"
Completed == rows[run][slot] = "ok"

\* The primary key (run_id, scenario_name, repeat_idx) of table scenarios is
\* taken.  Variant: start_scenario() replaces the row of a failed attempt.
KeyTaken_Upsert == rows[run][slot] = "ok"
KeyTaken == rows[run][slot] # "absent"

\* The status an attempt ends with.  Variant: outcomes are not looked at.
Verdict_Blind == "ok"
Verdict_TimedOut == IF jobFailed THEN "timed_out" ELSE "ok"
Verdict == IF jobFailed THEN "failed" ELSE "ok"

\* overall_status after an attempt.  Variant: the last attempt decides.
OverallAfter_Last(failed) == IF failed THEN "failed" ELSE "ok"
OverallAfter(failed) == IF failed THEN "failed" ELSE overall

\* The target was cleaned at an earlier binding.  Variant: the set of seen
\* keys forgets the target and keeps the scenario kind only.
Seen_KindOnly == b > 1
Seen == \E c \in 1..(b - 1) : Bindings[c].target = target

Init ==
  /\ cleanup \in CleanupModes
  /\ runs = [r \in RunIds |-> "absent"]
  /\ rows = [r \in RunIds |-> [k \in Slots |-> "absent"]]
  /\ samples = {} /\ empty = {}
  /\ testfile = [t \in Targets |-> FALSE]
  /\ swallowed = {}
  /\ pc = "idle"
  /\ run = 0 /\ b = 1 /\ rep = 0 /\ job = 1
  /\ jobFailed = FALSE
  /\ overall = "ok"
  /\ session = 0
  /\ exit = "none"
  /\ crashes = 0

-----------------------------------------------------------------------------
(* The process starts and ends.                                            *)

\* A process starts walking the bindings of run r.
Begin(r) ==
  /\ pc' = "loop"
  /\ run' = r /\ b' = 1 /\ rep' = 0 /\ job' = 1
  /\ jobFailed' = FALSE
  /\ overall' = "ok"
  /\ session' = IF session < MaxSessions THEN session + 1 ELSE session
  /\ swallowed' = {}
  /\ exit' = "none"
  /\ UNCHANGED <<rows, samples, empty, testfile, crashes, cleanup>>

\* The process ends; what it held in memory is gone.
End(how) ==
  /\ pc' = "idle"
  /\ exit' = how
  /\ b' = 1 /\ rep' = 0 /\ job' = 1
  /\ jobFailed' = FALSE
  /\ overall' = "ok"
  /\ UNCHANGED <<run, session>>

\* harness run: a fresh run_id, inserted with status 'running'.
StartRun(r) ==
  /\ pc = "idle"
  /\ runs[r] = "absent"
  /\ \A q \in 1..(r - 1) : runs[q] # "absent"
  /\ runs' = [runs EXCEPT ![r] = "running"]
  /\ Begin(r)

\* harness resume: the newest run that is still 'running'.
ResumeLatest(r) ==
  /\ pc = "idle"
  /\ runs[r] = "running"
  /\ \A q \in (r + 1)..MaxRuns : runs[q] # "running"
  /\ Begin(r)
  /\ UNCHANGED runs

\* harness resume --run-id: any run of the database, whatever its status.
ResumeById(r) ==
  /\ pc = "idle"
  /\ runs[r] # "absent"
  /\ Begin(r)
  /\ UNCHANGED runs

\* The process dies, maybe after prepare() wrote the testfile.
Crash ==
  /\ pc # "idle"
  /\ crashes < MaxCrashes
  /\ crashes' = crashes + 1
  /\ testfile' \in IF pc = "prepare"
                   THEN {testfile, [testfile EXCEPT ![target] = TRUE]}
                   ELSE {testfile}
  /\ End("killed")
  /\ UNCHANGED <<store, swallowed, cleanup>>

-----------------------------------------------------------------------------
(* The walk over bindings and repeats.                                     *)

\* The attempt is already 'ok': skip it.
SkipCompleted ==
  /\ pc = "loop" /\ InLoop
  /\ Completed
  /\ rep' = rep + 1
  /\ UNCHANGED <<store, testfile, swallowed, pc, run, b, job, jobFailed,
                 overall, session, exit, crashes,
                 cleanup>>

\* INSERT of the attempt's row.
StartScenario ==
  /\ pc = "loop" /\ InLoop
  /\ ~Completed /\ ~KeyTaken
  /\ rows' = [rows EXCEPT ![run][slot] = "running"]
  /\ pc' = "prepare"
  /\ UNCHANGED <<runs, samples, empty, testfile, swallowed, cursor, exit, crashes,
                 cleanup>>

\* The row exists and is not 'ok': the INSERT hits the primary key, and
\* IntegrityError is outside the try block, so the process dies.
StartScenarioConflict ==
  /\ pc = "loop" /\ InLoop
  /\ ~Completed /\ KeyTaken
  /\ End("integrity_error")
  /\ UNCHANGED <<store, testfile, swallowed, crashes, cleanup>>

\* All repeats of a binding are done.
NextBinding ==
  /\ pc = "loop" /\ b <= Len(Bindings) /\ ~InLoop
  /\ b' = b + 1 /\ rep' = 0
  /\ UNCHANGED <<store, testfile, swallowed, pc, run, job, jobFailed,
                 overall, session, exit, crashes,
                 cleanup>>

\* All bindings are done: clean up if the campaign says so, else finish.
LeaveLoop ==
  /\ pc = "loop" /\ b > Len(Bindings)
  /\ IF cleanup = "after_campaign"
     THEN pc' = "clean" /\ b' = 1
     ELSE pc' = "finish" /\ b' = b
  /\ UNCHANGED <<store, testfile, swallowed, run, rep, job, jobFailed,
                 overall, session, exit, crashes,
                 cleanup>>

-----------------------------------------------------------------------------
(* One attempt: prepare, jobs, settle, sweep.                              *)

PrepareOk ==
  /\ pc = "prepare"
  /\ testfile' = [testfile EXCEPT ![target] = TRUE]
  /\ pc' = "jobs" /\ job' = 1 /\ jobFailed' = FALSE
  /\ UNCHANGED <<store, swallowed, run, b, rep, overall, session, exit,
                 crashes, cleanup>>

\* prepare() raised: the row is settled and the loop goes on to the next
\* repeat, past the cleanup; a half-written testfile may stay behind.
PrepareFailed ==
  /\ pc = "prepare"
  /\ testfile' \in {testfile, [testfile EXCEPT ![target] = TRUE]}
  /\ rows' = [rows EXCEPT ![run][slot] = "failed"]
  /\ overall' = OverallAfter(TRUE)
  /\ pc' = "loop" /\ rep' = rep + 1
  /\ UNCHANGED <<runs, samples, empty, swallowed, run, b, job, jobFailed, session,
                 exit, crashes,
                 cleanup>>

\* A job's outcome is 'ok': its metrics replace those of the same key.  fio
\* output without jobs, or without I/O in them, yields no rows: nothing is
\* stored then, and the outcome is 'ok' all the same.
Outcome == [run |-> run, slot |-> slot, job |-> job, target |-> target,
            session |-> session]

JobOk ==
  /\ pc = "jobs" /\ job <= NumJobs[scenario]
  /\ \/ /\ samples' = {m \in samples :
                         <<m.run, m.slot, m.job>> # <<run, slot, job>>}
                       \cup {Outcome}
        /\ UNCHANGED empty
     \/ /\ Cardinality(empty) < MaxEmpty
        /\ empty' = empty \cup {Outcome}
        /\ UNCHANGED samples
  /\ job' = job + 1
  /\ UNCHANGED <<runs, rows, testfile, swallowed, pc, run, b, rep, jobFailed,
                 overall, session, exit, crashes,
                 cleanup>>

\* A job's outcome is 'failed' or 'timed_out': the next job still runs.
JobNotOk ==
  /\ pc = "jobs" /\ job <= NumJobs[scenario]
  /\ jobFailed' = TRUE
  /\ job' = job + 1
  /\ UNCHANGED <<store, testfile, swallowed, pc, run, b, rep, overall,
                 session, exit, crashes,
                 cleanup>>

\* All jobs are done: settle the row.
FinishScenario ==
  /\ pc = "jobs" /\ job > NumJobs[scenario]
  /\ rows' = [rows EXCEPT ![run][slot] = Verdict]
  /\ overall' = OverallAfter(jobFailed)
  /\ IF cleanup = "after_each_run"
     THEN pc' = "sweep" /\ rep' = rep
     ELSE pc' = "loop" /\ rep' = rep + 1
  /\ UNCHANGED <<runs, samples, empty, testfile, swallowed, run, b, job, jobFailed,
                 session, exit, crashes,
                 cleanup>>

\* rm -f of the target's files, with the remote exit status ignored.
Cleanup(t) ==
  \/ /\ testfile' = [testfile EXCEPT ![t] = FALSE]
     /\ swallowed' = swallowed \ {t}
  \/ /\ swallowed' = swallowed \cup {t}
     /\ UNCHANGED testfile

CleanupAfterRun ==
  /\ pc = "sweep"
  /\ Cleanup(target)
  /\ pc' = "loop" /\ rep' = rep + 1
  /\ UNCHANGED <<store, run, b, job, jobFailed, overall, session, exit,
                 crashes, cleanup>>

-----------------------------------------------------------------------------
(* The end of the campaign.                                                *)

\* after_campaign: each target is cleaned once, at its first binding.
CleanupTarget ==
  /\ pc = "clean" /\ b <= Len(Bindings)
  /\ IF Seen
     THEN UNCHANGED <<testfile, swallowed>>
     ELSE Cleanup(target)
  /\ b' = b + 1
  /\ UNCHANGED <<store, pc, run, rep, job, jobFailed, overall, session, exit,
                 crashes, cleanup>>

LeaveCleanup ==
  /\ pc = "clean" /\ b > Len(Bindings)
  /\ pc' = "finish"
  /\ UNCHANGED <<store, testfile, swallowed, cursor, exit, crashes,
                 cleanup>>

\* Variant: a failed run is left open.
FinishRun_OnlyOk ==
  /\ pc = "finish"
  /\ runs' = IF overall = "ok" THEN [runs EXCEPT ![run] = overall] ELSE runs
  /\ End(overall)
  /\ UNCHANGED <<rows, samples, empty, testfile, swallowed, crashes, cleanup>>

FinishRun ==
  /\ pc = "finish"
  /\ runs' = [runs EXCEPT ![run] = overall]
  /\ End(overall)
  /\ UNCHANGED <<rows, samples, empty, testfile, swallowed, crashes, cleanup>>

-----------------------------------------------------------------------------

\* What a live process does on its own.
Step ==
  \/ SkipCompleted \/ StartScenario \/ StartScenarioConflict
  \/ NextBinding \/ LeaveLoop
  \/ PrepareOk \/ PrepareFailed
  \/ JobOk \/ JobNotOk \/ FinishScenario \/ CleanupAfterRun
  \/ CleanupTarget \/ LeaveCleanup \/ FinishRun

Next ==
  \/ \E r \in RunIds : StartRun(r) \/ ResumeLatest(r) \/ ResumeById(r)
  \/ Step
  \/ Crash

Spec == Init /\ [][Next]_vars

\* A live process goes on: it is one Python thread, and every remote call it
\* makes has a timeout or ends.
FairSpec == Spec /\ WF_vars(Step)

\* Besides, the operator resumes an interrupted run.
ResumingSpec ==
  FairSpec /\ WF_vars(\E r \in RunIds : ResumeLatest(r))

-----------------------------------------------------------------------------
(* Properties.                                                             *)

StoreTypeOK ==
  /\ cleanup \in CleanupModes
  /\ runs \in [RunIds -> {"absent", "running", "ok", "failed"}]
  /\ rows \in [RunIds -> [Slots -> {"absent", "running", "ok", "failed"}]]
  /\ samples \cup empty \subseteq
       [run : RunIds, slot : Slots, job : Nat \ {0},
        target : Targets, session : 0..MaxSessions]

TargetTypeOK ==
  /\ testfile \in [Targets -> BOOLEAN]
  /\ swallowed \subseteq Targets

ProcessTypeOK ==
  /\ pc \in {"idle", "loop", "prepare", "jobs", "sweep", "clean", "finish"}
  /\ run \in 0..MaxRuns
  /\ b \in 1..(Len(Bindings) + 1)
  /\ rep \in Nat
  /\ job \in Nat \ {0}
  /\ jobFailed \in BOOLEAN
  /\ overall \in Settled
  /\ session \in 0..MaxSessions
  /\ exit \in Exits
  /\ crashes \in 0..MaxCrashes

TypeOK == StoreTypeOK /\ TargetTypeOK /\ ProcessTypeOK

\* Every binding of a run that ended 'ok' was run on its own target: all jobs
\* of all repeats ended 'ok' there, and the store has their metrics unless
\* fio's output held none (run_campaign's overall_status over any number of
\* crashes and resumes).
OkRunMeasuredEveryBinding ==
  \A r \in RunIds : runs[r] = "ok" =>
    \A c \in DOMAIN Bindings : \A k \in SlotsOf(c) :
      \A j \in 1..NumJobs[Bindings[c].scenario] :
        \E m \in samples \cup empty :
          /\ m.run = r /\ m.slot = k /\ m.job = j
          /\ m.target = Bindings[c].target

\* A row says 'ok' only if every job of its scenario ended 'ok', and what fio
\* measured in it is in the store, however the attempt was interleaved with
\* crashes (_execute_scenario).
OkRowRanEveryJob ==
  \A r \in RunIds, k \in Slots : rows[r][k] = "ok" =>
    \A j \in 1..NumJobs[k[1]] :
      \E m \in samples \cup empty : m.run = r /\ m.slot = k /\ m.job = j

\* What record_metrics stored is never replaced, although its statement is
\* INSERT OR REPLACE: no job of a run is measured twice.
SamplesNeverReplaced == [][samples \subseteq samples']_vars

\* A process that finished a campaign with cleanup: after_campaign leaves
\* testfiles only on targets whose removal failed (_cleanup_targets).
AfterCampaignCleaned ==
  (cleanup = "after_campaign" /\ exit \in Settled) =>
    \A c \in DOMAIN Bindings :
      testfile[Bindings[c].target] => Bindings[c].target \in swallowed

\* If no process dies, a started run ends 'ok' or 'failed'.
UncrashedRunSettles ==
  [](crashes = 0) =>
    \A r \in RunIds : (runs[r] = "running") ~> (runs[r] \in Settled)

\* A run whose process died can be resumed to its end (harness resume).
InterruptedRunSettles ==
  \A r \in RunIds : (runs[r] = "running") ~> (runs[r] \in Settled)

\* The store keeps the promise of CampaignLedger.
Ledger == INSTANCE CampaignLedger WITH
            RunIds <- RunIds, Slots <- Slots, runs <- runs, rows <- rows
LedgerSpec == Ledger!Spec
=============================================================================
