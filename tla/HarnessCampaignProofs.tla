----------------------- MODULE HarnessCampaignProofs -----------------------
(***************************************************************************)
(* Proofs about HarnessCampaign, for every campaign and every number of    *)
(* runs, sessions and crashes: type correctness, the safety properties the *)
(* runs check, and that the store implements CampaignLedger.               *)
(***************************************************************************)
EXTENDS HarnessCampaign, TLAPS

\* No scenario name is bound to two targets.
OneTargetPerScenario ==
  \A c, d \in DOMAIN Bindings :
    Bindings[c].scenario = Bindings[d].scenario
      => Bindings[c].target = Bindings[d].target

\* Run r has an ok outcome of job j of slot k, and one on target t.
Sampled(r, k, j) ==
  \E m \in samples \cup empty : m.run = r /\ m.slot = k /\ m.job = j
SampledOn(r, k, j, t) ==
  \E m \in samples \cup empty : m.run = r /\ m.slot = k /\ m.job = j /\ m.target = t

\* The process has an attempt under way, or has just settled one.
InAttempt == pc \in {"prepare", "jobs"}
AtSlot    == pc \in {"prepare", "jobs", "sweep"}

\* The process is done with repeat i of binding c.
Visited(c, i) ==
  \/ c < b
  \/ c = b /\ i < rep
  \/ c = b /\ i = rep /\ pc = "sweep"
  \/ pc \in {"clean", "finish"}

-----------------------------------------------------------------------------
(* The inductive invariant.                                                *)

\* Where the process is.
CursorInv ==
  /\ pc # "idle" => run \in RunIds
  /\ AtSlot => InLoop
  /\ InAttempt => rows[run][slot] = "running"

\* The jobs done so far in an attempt without a failure have their outcomes,
\* and later jobs have none.
JobsInv ==
  pc = "jobs" =>
    /\ ~jobFailed => \A j \in 1..(job - 1) : SampledOn(run, slot, j, target)
    /\ \A j \in Nat : j >= job => ~Sampled(run, slot, j)

\* Before its jobs start, a slot has no outcomes.
FreshInv ==
  /\ \A r \in RunIds, k \in Slots :
       rows[r][k] = "absent" => \A j \in Nat : ~Sampled(r, k, j)
  /\ pc = "prepare" => \A j \in Nat : ~Sampled(run, slot, j)

\* An 'ok' row has all its outcomes, from the target of a binding of its slot.
OkRowInv ==
  \A r \in RunIds, k \in Slots : rows[r][k] = "ok" =>
    \E c \in DOMAIN Bindings :
      /\ k \in SlotsOf(c)
      /\ \A j \in 1..NumJobs[k[1]] : SampledOn(r, k, j, Bindings[c].target)

\* What the process has seen of its run.
WalkInv ==
  pc # "idle" =>
    /\ \A c \in DOMAIN Bindings : \A k \in SlotsOf(c) :
         Visited(c, k[2]) =>
           /\ rows[run][k] \in Settled
           /\ overall = "ok" => rows[run][k] = "ok"
    /\ overall = "failed" =>
         runs[run] = "running" /\ \E k \in Slots : rows[run][k] = "failed"

\* What the status of a run says of its rows.
RunInv ==
  \A r \in RunIds :
    /\ runs[r] = "absent" => \A k \in Slots : rows[r][k] = "absent"
    /\ runs[r] = "ok" => \A k \in Slots : rows[r][k] = "ok"
    /\ runs[r] = "failed" => /\ \A k \in Slots : rows[r][k] \in Settled
                             /\ \E k \in Slots : rows[r][k] = "failed"

\* The run of a live process is in the table.
OpenInv == pc # "idle" => runs[run] # "absent"

IInv ==
  /\ TypeOK /\ CursorInv /\ JobsInv /\ FreshInv /\ OkRowInv /\ WalkInv
  /\ RunInv /\ OpenInv

-----------------------------------------------------------------------------
(* Lemmas.                                                                 *)

\* What the campaign's bindings are made of.
LEMMA BindingFields ==
  /\ DOMAIN Bindings = 1..Len(Bindings) /\ Len(Bindings) \in Nat
  /\ \A c \in DOMAIN Bindings :
       /\ Bindings[c].scenario \in Scenarios
       /\ Bindings[c].target \in Targets
       /\ Bindings[c].repeat \in Nat
<1> DEFINE B == [scenario : Scenarios, target : Targets, repeat : Nat]
<1>1. Bindings \in Seq(B)
  BY CampaignAssumption DEF CampaignAssumption
<1>2. \A x \in B : /\ x.scenario \in Scenarios /\ x.target \in Targets
                   /\ x.repeat \in Nat
  OBVIOUS
<1> HIDE DEF B
<1>3. DOMAIN Bindings = 1..Len(Bindings) /\ Len(Bindings) \in Nat
  BY <1>1
<1>4. \A c \in DOMAIN Bindings : Bindings[c] \in B
  BY <1>1
<1> QED
  BY <1>2, <1>3, <1>4

LEMMA BoundsAreNat ==
  MaxRuns \in Nat /\ MaxSessions \in Nat /\ MaxCrashes \in Nat
BY CampaignAssumption DEF CampaignAssumption

\* The attempt the process is at is one of the campaign's slots.
LEMMA SlotIsSlot ==
  ASSUME TypeOK, InLoop
  PROVE  /\ b \in DOMAIN Bindings
         /\ slot \in SlotsOf(b) /\ slot \in Slots
         /\ slot[1] = scenario /\ slot[2] = rep
         /\ scenario \in Scenarios /\ target \in Targets
         /\ NumJobs[scenario] \in Nat
<1>1. b \in DOMAIN Bindings
  BY BindingFields DEF TypeOK, ProcessTypeOK, InLoop
<1>2. rep \in 0..(Bindings[b].repeat - 1)
  BY <1>1, BindingFields DEF TypeOK, ProcessTypeOK, InLoop
<1>3. slot \in SlotsOf(b)
  BY <1>2 DEF slot, SlotsOf
<1>4. slot \in Slots
  BY <1>1, <1>3 DEF Slots
<1>5. scenario \in Scenarios /\ target \in Targets
  BY <1>1, BindingFields DEF scenario, target
<1>6. NumJobs[scenario] \in Nat
  BY <1>5, CampaignAssumption DEF CampaignAssumption
<1> QED
  BY <1>1, <1>3, <1>4, <1>5, <1>6 DEF slot, scenario

\* Every step preserves the types, which are taken apart for the provers.
LEMMA StoreTypeStep ==
  ASSUME TypeOK, CursorInv, [Next]_vars
  PROVE  StoreTypeOK'
<1> USE DEF TypeOK, StoreTypeOK
<1>1. ASSUME NEW r \in RunIds, StartRun(r) \/ ResumeLatest(r) \/ ResumeById(r)
      PROVE  StoreTypeOK'
  BY <1>1 DEF StartRun, ResumeLatest, ResumeById, Begin
<1>2. CASE StartScenario
  BY <1>2 DEF StartScenario
<1>3. CASE PrepareFailed
  BY <1>3 DEF PrepareFailed
<1>4. CASE JobOk
  <2>1. /\ run \in RunIds /\ slot \in Slots /\ target \in Targets
    BY <1>4, SlotIsSlot DEF JobOk, CursorInv, AtSlot
  <2>2. job \in Nat \ {0} /\ session \in 0..MaxSessions
    BY DEF ProcessTypeOK
  <2>3. Outcome \in [run : RunIds, slot : Slots, job : Nat \ {0},
                     target : Targets, session : 0..MaxSessions]
    BY <2>1, <2>2 DEF Outcome
  <2>4. (samples \cup empty)' \subseteq samples \cup empty \cup {Outcome}
    BY <1>4 DEF JobOk
  <2>5. UNCHANGED <<cleanup, runs, rows>>
    BY <1>4 DEF JobOk
  <2> QED
    BY <2>3, <2>4, <2>5
<1>5. CASE FinishScenario
  BY <1>5 DEF FinishScenario, Verdict
<1>6. CASE FinishRun
  BY <1>6 DEF FinishRun, ProcessTypeOK, Settled
<1>7. CASE UNCHANGED <<store, cleanup>>
  BY <1>7 DEF store
<1>8. ASSUME \/ SkipCompleted \/ StartScenarioConflict \/ NextBinding
             \/ LeaveLoop \/ PrepareOk \/ JobNotOk \/ CleanupAfterRun
             \/ CleanupTarget \/ LeaveCleanup \/ Crash \/ UNCHANGED vars
      PROVE  UNCHANGED <<store, cleanup>>
  BY <1>8 DEF SkipCompleted, StartScenarioConflict, NextBinding, LeaveLoop,
    PrepareOk, JobNotOk, CleanupAfterRun, CleanupTarget, LeaveCleanup, Crash,
    vars
<1> QED
  BY <1>1, <1>2, <1>3, <1>4, <1>5, <1>6, <1>7, <1>8 DEF Next, Step

LEMMA TargetTypeStep ==
  ASSUME TypeOK, CursorInv, [Next]_vars
  PROVE  TargetTypeOK'
<1> USE DEF TypeOK, TargetTypeOK
<1>1. ASSUME NEW r \in RunIds, StartRun(r) \/ ResumeLatest(r) \/ ResumeById(r)
      PROVE  TargetTypeOK'
  BY <1>1 DEF StartRun, ResumeLatest, ResumeById, Begin
<1>2. CASE PrepareOk \/ PrepareFailed \/ Crash
  BY <1>2 DEF PrepareOk, PrepareFailed, Crash
<1>3. ASSUME NEW t \in Targets, Cleanup(t)
      PROVE  TargetTypeOK'
  BY <1>3 DEF Cleanup
<1>4. CASE CleanupAfterRun
  <2>1. target \in Targets
    BY <1>4, SlotIsSlot DEF CleanupAfterRun, CursorInv, AtSlot
  <2> QED
    BY <1>3, <1>4, <2>1 DEF CleanupAfterRun
<1>5. CASE CleanupTarget
  <2>1. b \in DOMAIN Bindings
    BY <1>5, BindingFields DEF CleanupTarget, ProcessTypeOK
  <2>2. target \in Targets
    BY <2>1, BindingFields DEF target
  <2> QED
    BY <1>3, <1>5, <2>2 DEF CleanupTarget
<1>6. CASE UNCHANGED <<testfile, swallowed>>
  BY <1>6
<1>7. ASSUME \/ SkipCompleted \/ StartScenario \/ StartScenarioConflict
             \/ NextBinding \/ LeaveLoop \/ JobOk \/ JobNotOk
             \/ FinishScenario \/ LeaveCleanup \/ FinishRun
             \/ UNCHANGED vars
      PROVE  UNCHANGED <<testfile, swallowed>>
  BY <1>7 DEF SkipCompleted, StartScenario, StartScenarioConflict, NextBinding,
    LeaveLoop, JobOk, JobNotOk, FinishScenario, LeaveCleanup, FinishRun, vars
<1> QED
  BY <1>1, <1>2, <1>4, <1>5, <1>6, <1>7 DEF Next, Step

LEMMA ProcessTypeStep ==
  ASSUME TypeOK, [Next]_vars
  PROVE  ProcessTypeOK'
<1> USE BoundsAreNat DEF TypeOK, ProcessTypeOK, Settled, Exits
<1>1. 1 \in 1..(Len(Bindings) + 1) /\ Len(Bindings) \in Nat
  BY BindingFields
<1>2. ASSUME NEW r \in RunIds, StartRun(r) \/ ResumeLatest(r) \/ ResumeById(r)
      PROVE  ProcessTypeOK'
  <2>1. Begin(r)
    BY <1>2 DEF StartRun, ResumeLatest, ResumeById
  <2>2. jobFailed' \in BOOLEAN
    BY <2>1 DEF Begin
  <2>3. /\ pc' = "loop" /\ run' \in 0..MaxRuns
        /\ b' \in 1..(Len(Bindings) + 1) /\ rep' \in Nat
        /\ job' \in Nat \ {0} /\ session' \in 0..MaxSessions
    BY <1>1, <2>1 DEF Begin, RunIds
  <2>4. overall' = "ok" /\ exit' = "none" /\ crashes' = crashes
    BY <2>1 DEF Begin
  <2> QED
    BY <2>2, <2>3, <2>4
<1>3. ASSUME NEW how \in Exits, End(how), crashes' \in 0..MaxCrashes
      PROVE  ProcessTypeOK'
  <2>1. jobFailed' \in BOOLEAN
    BY <1>3 DEF End
  <2>2. /\ pc' = "idle" /\ exit' = how /\ overall' = "ok"
        /\ b' \in 1..(Len(Bindings) + 1) /\ rep' \in Nat
        /\ job' \in Nat \ {0} /\ run' = run /\ session' = session
    BY <1>1, <1>3 DEF End
  <2> QED
    BY <1>3, <2>1, <2>2
<1>4. CASE StartScenarioConflict \/ FinishRun \/ Crash
  <2>1. CASE StartScenarioConflict
    BY <1>3, <2>1 DEF StartScenarioConflict
  <2>2. CASE FinishRun
    BY <1>3, <2>2 DEF FinishRun
  <2>3. CASE Crash
    BY <1>3, <2>3 DEF Crash
  <2> QED
    BY <1>4, <2>1, <2>2, <2>3
<1>5. CASE SkipCompleted \/ StartScenario
  BY <1>5 DEF SkipCompleted, StartScenario, cursor
<1>6. CASE NextBinding \/ LeaveLoop
  BY <1>1, <1>6, SMTT(30) DEF NextBinding, LeaveLoop
<1>7. CASE PrepareOk \/ PrepareFailed
  <2>1. jobFailed' \in BOOLEAN
    BY <1>7 DEF PrepareOk, PrepareFailed
  <2>2. /\ pc' \in {"jobs", "loop"} /\ run' = run /\ b' = b
        /\ rep' \in Nat /\ job' \in Nat \ {0} /\ overall' \in Settled
        /\ session' = session /\ exit' = exit /\ crashes' = crashes
    BY <1>7 DEF PrepareOk, PrepareFailed, OverallAfter
  <2> QED
    BY <2>1, <2>2
<1>8. CASE JobOk \/ JobNotOk
  <2>1. jobFailed' \in BOOLEAN
    BY <1>8 DEF JobOk, JobNotOk
  <2>2. /\ pc' = pc /\ run' = run /\ b' = b /\ rep' = rep
        /\ job' \in Nat \ {0} /\ overall' = overall
        /\ session' = session /\ exit' = exit /\ crashes' = crashes
    BY <1>8 DEF JobOk, JobNotOk
  <2> QED
    BY <2>1, <2>2
<1>9. CASE FinishScenario \/ CleanupAfterRun
  BY <1>9 DEF FinishScenario, OverallAfter, CleanupAfterRun
<1>10. CASE CleanupTarget \/ LeaveCleanup
  BY <1>1, <1>10, SMTT(30) DEF CleanupTarget, LeaveCleanup, cursor
<1>11. CASE UNCHANGED vars
  BY <1>11 DEF vars, cursor
<1> QED
  BY <1>2, <1>4, <1>5, <1>6, <1>7, <1>8, <1>9, <1>10, <1>11 DEF Next, Step

LEMMA TypeStep ==
  ASSUME TypeOK, CursorInv, [Next]_vars
  PROVE  TypeOK'
BY StoreTypeStep, TargetTypeStep, ProcessTypeStep DEF TypeOK

-----------------------------------------------------------------------------
(* Every step preserves the inductive invariant, conjunct by conjunct.     *)

LEMMA CursorStep ==
  ASSUME IInv, [Next]_vars
  PROVE  CursorInv'
<1> USE DEF CursorInv, AtSlot, InAttempt
<1>1. CASE \/ \E r \in RunIds : StartRun(r) \/ ResumeLatest(r) \/ ResumeById(r)
           \/ StartScenarioConflict \/ FinishRun \/ Crash
  BY <1>1 DEF StartRun, ResumeLatest, ResumeById, Begin,
     StartScenarioConflict, FinishRun, Crash, End
<1>2. CASE \/ SkipCompleted \/ NextBinding \/ LeaveLoop \/ PrepareFailed
           \/ CleanupAfterRun \/ CleanupTarget \/ LeaveCleanup
  BY <1>2 DEF IInv, SkipCompleted, NextBinding, LeaveLoop, PrepareFailed,
     CleanupAfterRun, CleanupTarget, LeaveCleanup, cursor
<1>3. CASE StartScenario
  <2>1. run \in RunIds /\ slot \in Slots
    BY <1>3, SlotIsSlot DEF IInv, StartScenario
  <2>2. rows'[run][slot] = "running"
    BY <1>3, <2>1 DEF IInv, TypeOK, StoreTypeOK, StartScenario
  <2> QED
    BY <1>3, <2>1, <2>2 DEF StartScenario, cursor, InLoop, slot
<1>4. CASE PrepareOk \/ JobOk \/ JobNotOk
  BY <1>4 DEF IInv, PrepareOk, JobOk, JobNotOk, store, InLoop, slot
<1>5. CASE FinishScenario
  BY <1>5 DEF IInv, FinishScenario, InLoop
<1>6. CASE UNCHANGED vars
  BY <1>6 DEF IInv, vars, store, cursor, InLoop, slot
<1> QED
  BY <1>1, <1>2, <1>3, <1>4, <1>5, <1>6 DEF Next, Step

\* What an ok job adds to the outcomes: one, and no sample is replaced.
LEMMA JobOkSamples ==
  ASSUME IInv, JobOk
  PROVE  /\ samples \subseteq samples'
         /\ \A r, k, j, t : SampledOn(r, k, j, t) => SampledOn(r, k, j, t)'
         /\ \A r, k, j, t : r = run /\ k = slot /\ j = job /\ t = target
              => SampledOn(r, k, j, t)'
         /\ \A r, k, j : Sampled(r, k, j)'
              => Sampled(r, k, j) \/ (r = run /\ k = slot /\ j = job)
<1>1. \A m \in samples : ~(m.run = run /\ m.slot = slot /\ m.job = job)
  BY DEF IInv, JobsInv, JobOk, Sampled, TypeOK, ProcessTypeOK
<1>2. /\ samples \subseteq samples'
      /\ (samples \cup empty)' = samples \cup empty \cup {Outcome}
  <2>1. CASE samples' = {m \in samples :
                           <<m.run, m.slot, m.job>> # <<run, slot, job>>}
                          \cup {Outcome} /\ empty' = empty
    BY <1>1, <2>1
  <2>2. CASE empty' = empty \cup {Outcome} /\ samples' = samples
    BY <2>2
  <2> QED
    BY <2>1, <2>2 DEF JobOk
<1>3. /\ Outcome.run = run /\ Outcome.slot = slot /\ Outcome.job = job
      /\ Outcome.target = target
  BY DEF Outcome
<1> QED
  BY <1>2, <1>3 DEF Sampled, SampledOn

\* No other step of an open run touches the samples.
LEMMA SamplesKept ==
  ASSUME [Next]_vars, ~JobOk
  PROVE  samples' = samples /\ empty' = empty
BY DEF Next, Step, StartRun, ResumeLatest, ResumeById, Begin, SkipCompleted,
   StartScenario, StartScenarioConflict, NextBinding, LeaveLoop, PrepareOk,
   PrepareFailed, JobNotOk, FinishScenario, CleanupAfterRun, CleanupTarget,
   LeaveCleanup, FinishRun, Crash, vars, store

LEMMA SamplesGrow ==
  ASSUME IInv, [Next]_vars
  PROVE  /\ samples \subseteq samples'
         /\ \A r, k, j, t : SampledOn(r, k, j, t) => SampledOn(r, k, j, t)'
BY JobOkSamples, SamplesKept DEF SampledOn

LEMMA JobsStep ==
  ASSUME IInv, [Next]_vars
  PROVE  JobsInv'
<1>1. CASE PrepareOk
  <2>1. /\ pc = "prepare" /\ job' = 1
        /\ UNCHANGED <<run, slot, samples, empty>>
    BY <1>1 DEF PrepareOk, store, slot
  <2> QED
    BY <2>1 DEF IInv, FreshInv, JobsInv, Sampled
<1>2. CASE JobOk
  <2>1. /\ pc = "jobs" /\ pc' = "jobs" /\ job' = job + 1 /\ job \in Nat
        /\ UNCHANGED <<run, slot, target, jobFailed>>
    BY <1>2 DEF IInv, TypeOK, ProcessTypeOK, JobOk, slot, target
  <2>2. ASSUME ~jobFailed, NEW j \in 1..job
        PROVE  SampledOn(run, slot, j, target)'
    <3>1. CASE j = job
      BY <1>2, <2>1, <3>1, JobOkSamples DEF SampledOn
    <3>2. CASE j \in 1..(job - 1)
      <4>1. SampledOn(run, slot, j, target)
        BY <2>1, <2>2, <3>2 DEF IInv, JobsInv
      <4> QED
        BY <1>2, <2>1, <4>1, JobOkSamples DEF SampledOn
    <3> QED
      BY <2>1, <3>1, <3>2
  <2>3. ASSUME NEW j \in Nat, j >= job + 1
        PROVE  ~Sampled(run, slot, j)'
    <3>1. ~Sampled(run, slot, j) /\ j # job
      BY <2>1, <2>3 DEF IInv, JobsInv
    <3> QED
      BY <1>2, <2>1, <3>1, JobOkSamples DEF Sampled
  <2> QED
    BY <2>1, <2>2, <2>3 DEF JobsInv
<1>3. CASE JobNotOk
  <2>1. /\ pc = "jobs" /\ job' = job + 1 /\ job \in Nat /\ jobFailed'
        /\ UNCHANGED <<run, slot, samples, empty>>
    BY <1>3 DEF IInv, TypeOK, ProcessTypeOK, JobNotOk, store, slot
  <2> QED
    BY <2>1 DEF IInv, JobsInv, Sampled
<1>4. CASE UNCHANGED vars
  BY <1>4 DEF IInv, JobsInv, Sampled, SampledOn, vars, store, cursor, slot,
     target
<1>5. CASE ~(PrepareOk \/ JobOk \/ JobNotOk \/ UNCHANGED vars)
  <2>1. pc' # "jobs"
    BY <1>5 DEF Next, Step, StartRun, ResumeLatest, ResumeById, Begin,
       SkipCompleted, StartScenario, StartScenarioConflict, NextBinding,
       LeaveLoop, PrepareFailed, FinishScenario, CleanupAfterRun,
       CleanupTarget, LeaveCleanup, FinishRun, Crash, End
  <2> QED
    BY <2>1 DEF JobsInv
<1> QED
  BY <1>1, <1>2, <1>3, <1>4, <1>5

\* Rows change only where the process is: an absent row is taken, a running
\* row is settled.
LEMMA RowStep ==
  ASSUME IInv, [Next]_vars
  PROVE  \A r \in RunIds, k \in Slots :
           \/ rows'[r][k] = rows[r][k]
           \/ /\ StartScenario /\ r = run /\ k = slot
              /\ rows[r][k] = "absent" /\ rows'[r][k] = "running"
           \/ /\ PrepareFailed /\ r = run /\ k = slot
              /\ rows[r][k] = "running" /\ rows'[r][k] = "failed"
           \/ /\ FinishScenario /\ r = run /\ k = slot
              /\ rows[r][k] = "running" /\ rows'[r][k] = Verdict
<1>1. CASE StartScenario
  BY <1>1 DEF IInv, TypeOK, StoreTypeOK, StartScenario, KeyTaken
<1>2. CASE PrepareFailed
  BY <1>2 DEF IInv, TypeOK, StoreTypeOK, CursorInv, InAttempt, PrepareFailed
<1>3. CASE FinishScenario
  BY <1>3 DEF IInv, TypeOK, StoreTypeOK, CursorInv, InAttempt, FinishScenario
<1>4. CASE ~(StartScenario \/ PrepareFailed \/ FinishScenario)
  BY <1>4 DEF Next, Step, StartRun, ResumeLatest, ResumeById, Begin,
     SkipCompleted, StartScenarioConflict, NextBinding, LeaveLoop, PrepareOk,
     JobOk, JobNotOk, CleanupAfterRun, CleanupTarget, LeaveCleanup, FinishRun,
     Crash, vars, store
<1> QED
  BY <1>1, <1>2, <1>3, <1>4

LEMMA FreshStep ==
  ASSUME IInv, [Next]_vars
  PROVE  FreshInv'
<1>1. ASSUME NEW r \in RunIds, NEW k \in Slots, rows'[r][k] = "absent",
             NEW j \in Nat
      PROVE  ~Sampled(r, k, j)'
  <2>1. rows[r][k] = "absent"
    BY <1>1, RowStep DEF Verdict
  <2>2. ~Sampled(r, k, j)
    BY <2>1 DEF IInv, FreshInv
  <2>3. CASE JobOk
    <3>1. rows[run][slot] = "running"
      BY <2>3 DEF IInv, CursorInv, InAttempt, JobOk
    <3> QED
      BY <2>1, <2>2, <2>3, <3>1, JobOkSamples
  <2>4. CASE ~JobOk
    BY <2>2, <2>4, SamplesKept DEF Sampled
  <2> QED
    BY <2>3, <2>4
<1>2. ASSUME pc' = "prepare", NEW j \in Nat
      PROVE  ~Sampled(run, slot, j)'
  <2>1. StartScenario \/ UNCHANGED vars
    BY <1>2 DEF Next, Step, StartRun, ResumeLatest, ResumeById, Begin,
       SkipCompleted, StartScenarioConflict, NextBinding, LeaveLoop,
       PrepareOk, PrepareFailed, JobOk, JobNotOk, FinishScenario,
       CleanupAfterRun, CleanupTarget, LeaveCleanup, FinishRun, Crash, End
  <2>2. CASE StartScenario
    <3>1. run \in RunIds /\ slot \in Slots /\ rows[run][slot] = "absent"
      BY <2>2, SlotIsSlot DEF IInv, CursorInv, StartScenario, KeyTaken
    <3>2. UNCHANGED <<run, slot, samples, empty>>
      BY <2>2 DEF StartScenario, cursor, slot
    <3> QED
      BY <3>1, <3>2 DEF IInv, FreshInv, Sampled
  <2>3. CASE UNCHANGED vars
    BY <1>2, <2>3 DEF IInv, FreshInv, Sampled, vars, store, cursor, slot
  <2> QED
    BY <2>1, <2>2, <2>3
<1> QED
  BY <1>1, <1>2 DEF FreshInv

LEMMA OkRowStep ==
  ASSUME IInv, [Next]_vars
  PROVE  OkRowInv'
<1> SUFFICES ASSUME NEW r \in RunIds, NEW k \in Slots, rows'[r][k] = "ok"
    PROVE  \E c \in DOMAIN Bindings :
             /\ k \in SlotsOf(c)
             /\ \A j \in 1..NumJobs[k[1]] :
                  SampledOn(r, k, j, Bindings[c].target)'
  BY DEF OkRowInv
<1>1. CASE rows[r][k] = "ok"
  BY <1>1, SamplesGrow DEF IInv, OkRowInv
<1>2. CASE rows[r][k] # "ok"
  <2>1. FinishScenario /\ r = run /\ k = slot /\ ~jobFailed
    BY <1>2, RowStep DEF Verdict
  <2>2. /\ pc = "jobs" /\ job > NumJobs[scenario] /\ InLoop
        /\ job \in Nat
    BY <2>1 DEF IInv, TypeOK, ProcessTypeOK, CursorInv, AtSlot, FinishScenario
  <2>3. /\ b \in DOMAIN Bindings /\ slot \in SlotsOf(b)
        /\ slot[1] = scenario /\ NumJobs[scenario] \in Nat
    BY <2>2, SlotIsSlot DEF IInv
  <2>4. \A j \in 1..(job - 1) : SampledOn(run, slot, j, target)
    BY <2>1, <2>2 DEF IInv, JobsInv
  <2>5. \A j \in 1..NumJobs[slot[1]] : SampledOn(run, slot, j, target)
    BY <2>2, <2>3, <2>4
  <2> QED
    BY <2>1, <2>3, <2>5, SamplesGrow DEF target
<1> QED
  BY <1>1, <1>2

LEMMA OpenStep ==
  ASSUME IInv, [Next]_vars
  PROVE  OpenInv'
<1>1. CASE \E r \in RunIds : StartRun(r) \/ ResumeLatest(r) \/ ResumeById(r)
  BY <1>1 DEF IInv, TypeOK, StoreTypeOK, OpenInv, StartRun, ResumeLatest,
     ResumeById, Begin
<1>2. CASE StartScenarioConflict \/ FinishRun \/ Crash
  BY <1>2 DEF OpenInv, StartScenarioConflict, FinishRun, Crash, End
<1>3. CASE Step /\ ~StartScenarioConflict /\ ~FinishRun
  BY <1>3 DEF IInv, OpenInv, Step, SkipCompleted, StartScenario, NextBinding,
     LeaveLoop, PrepareOk, PrepareFailed, JobOk, JobNotOk, FinishScenario,
     CleanupAfterRun, CleanupTarget, LeaveCleanup, store, cursor
<1>4. CASE UNCHANGED vars
  BY <1>4 DEF IInv, OpenInv, vars, store, cursor
<1> QED
  BY <1>1, <1>2, <1>3, <1>4 DEF Next, Step

\* The status of a run changes only where it is opened and where it ends.
LEMMA RunsKept ==
  ASSUME [Next]_vars, ~FinishRun, \A r \in RunIds : ~StartRun(r)
  PROVE  runs' = runs
BY DEF Next, Step, ResumeLatest, ResumeById, SkipCompleted, StartScenario,
   StartScenarioConflict, NextBinding, LeaveLoop, PrepareOk, PrepareFailed,
   JobOk, JobNotOk, FinishScenario, CleanupAfterRun, CleanupTarget,
   LeaveCleanup, Crash, vars, store

\* A process that is done with every binding has seen every slot.
LEMMA AllVisited ==
  ASSUME IInv, pc = "finish"
  PROVE  \A k \in Slots : /\ rows[run][k] \in Settled
                          /\ overall = "ok" => rows[run][k] = "ok"
BY DEF IInv, WalkInv, Visited, Slots

\* A process that settles a row works on a run that is still open.
LEMMA AttemptOpen ==
  ASSUME IInv, run \in RunIds, NEW k \in Slots,
         rows[run][k] \in {"absent", "running"}, pc # "idle"
  PROVE  runs[run] = "running"
BY DEF IInv, RunInv, OpenInv, TypeOK, StoreTypeOK, Settled

LEMMA RunStep ==
  ASSUME IInv, [Next]_vars
  PROVE  RunInv'
<1>1. ASSUME NEW r \in RunIds, StartRun(r)
      PROVE  RunInv'
  BY <1>1 DEF IInv, TypeOK, StoreTypeOK, RunInv, StartRun, Begin
<1>2. CASE FinishRun
  <2>1. /\ pc = "finish" /\ run \in RunIds /\ UNCHANGED rows
        /\ overall \in Settled
        /\ runs' = [runs EXCEPT ![run] = overall]
    BY <1>2 DEF IInv, CursorInv, TypeOK, ProcessTypeOK, FinishRun
  <2>2. overall = "failed" => \E k \in Slots : rows[run][k] = "failed"
    BY <2>1 DEF IInv, WalkInv
  <2>3. runs \in [RunIds -> {"absent", "running", "ok", "failed"}]
    BY DEF IInv, TypeOK, StoreTypeOK
  <2>4. ASSUME NEW r \in RunIds, r # run
        PROVE  runs'[r] = runs[r] /\ rows'[r] = rows[r]
    BY <2>1, <2>3, <2>4
  <2>5. runs'[run] = overall /\ rows'[run] = rows[run]
    BY <2>1, <2>3
  <2>6. /\ overall = "ok" => \A k \in Slots : rows[run][k] = "ok"
        /\ \A k \in Slots : rows[run][k] \in Settled
    BY <2>1, AllVisited
  <2> SUFFICES ASSUME NEW r \in RunIds
      PROVE  /\ runs'[r] = "absent" => \A k \in Slots : rows'[r][k] = "absent"
             /\ runs'[r] = "ok" => \A k \in Slots : rows'[r][k] = "ok"
             /\ runs'[r] = "failed" =>
                  /\ \A k \in Slots : rows'[r][k] \in Settled
                  /\ \E k \in Slots : rows'[r][k] = "failed"
    BY DEF RunInv
  <2>7. CASE r = run
    BY <2>1, <2>2, <2>5, <2>6, <2>7 DEF Settled
  <2>8. CASE r # run
    BY <2>4, <2>8 DEF IInv, RunInv
  <2> QED
    BY <2>7, <2>8
<1>3. ASSUME ~FinishRun, \A r \in RunIds : ~StartRun(r)
      PROVE  RunInv'
  <2>1. runs' = runs
    BY <1>3, RunsKept
  <2>2. ASSUME NEW r \in RunIds, NEW k \in Slots, rows'[r][k] # rows[r][k]
        PROVE  runs[r] = "running"
    <3>1. r = run /\ pc # "idle" /\ rows[run][k] \in {"absent", "running"}
      BY <2>2, RowStep DEF StartScenario, PrepareFailed, FinishScenario
    <3> QED
      BY <3>1, AttemptOpen
  <2> QED
    BY <2>1, <2>2 DEF IInv, RunInv
<1> QED
  BY <1>1, <1>2, <1>3

\* A step passes a slot only by skipping it or by settling it.
LEMMA VisitStep ==
  ASSUME IInv, [Next]_vars, pc # "idle", pc' # "idle",
         NEW c \in DOMAIN Bindings, NEW k \in SlotsOf(c), Visited(c, k[2])'
  PROVE  \/ Visited(c, k[2])
         \/ k = slot /\ (SkipCompleted \/ PrepareFailed \/ FinishScenario)
<1> USE DEF Visited
<1>1. /\ b \in Nat /\ rep \in Nat /\ c \in Nat /\ c <= Len(Bindings)
      /\ k[2] \in Nat /\ k[2] < Bindings[c].repeat
      /\ Bindings[c].repeat \in Nat /\ Len(Bindings) \in Nat
  BY BindingFields DEF IInv, TypeOK, ProcessTypeOK, SlotsOf
<1>2. ASSUME c = b, k[2] = rep
      PROVE  k = slot
  <2>1. k \in {Bindings[b].scenario} \X (0..(Bindings[b].repeat - 1))
    BY <1>2 DEF SlotsOf
  <2>2. k = <<k[1], k[2]>> /\ k[1] = Bindings[b].scenario
    BY <2>1
  <2> QED
    BY <1>2, <2>2 DEF slot
<1>3. CASE SkipCompleted \/ PrepareFailed
  <2>1. b' = b /\ rep' = rep + 1 /\ pc' = "loop"
    BY <1>3 DEF SkipCompleted, PrepareFailed
  <2> QED
    BY <1>1, <1>2, <1>3, <2>1
<1>4. CASE FinishScenario
  BY <1>1, <1>2, <1>4 DEF FinishScenario
<1>5. CASE StartScenario \/ PrepareOk \/ JobOk \/ JobNotOk
  BY <1>1, <1>5 DEF StartScenario, PrepareOk, JobOk, JobNotOk, cursor
<1>6. CASE NextBinding
  BY <1>1, <1>6 DEF NextBinding, InLoop
<1>7. CASE LeaveLoop
  BY <1>1, <1>7 DEF LeaveLoop
<1>8. CASE CleanupAfterRun
  BY <1>1, <1>8 DEF CleanupAfterRun
<1>9. CASE CleanupTarget \/ LeaveCleanup
  BY <1>9 DEF CleanupTarget, LeaveCleanup
<1>10. CASE UNCHANGED vars
  BY <1>10 DEF vars, cursor
<1> QED
  BY <1>3, <1>4, <1>5, <1>6, <1>7, <1>8, <1>9, <1>10 DEF Next, Step,
     StartRun, ResumeLatest, ResumeById, StartScenarioConflict, FinishRun,
     Crash, End

\* overall_status changes only where a row is settled as failed.
LEMMA OverallStep ==
  ASSUME IInv, [Next]_vars, pc # "idle", pc' # "idle"
  PROVE  /\ run' = run /\ runs' = runs
         /\ \/ overall' = overall /\ ~PrepareFailed
              /\ (FinishScenario => Verdict = "ok")
            \/ /\ PrepareFailed \/ (FinishScenario /\ Verdict = "failed")
               /\ overall' = "failed"
BY DEF Next, Step, StartRun, ResumeLatest, ResumeById, SkipCompleted,
   StartScenario, StartScenarioConflict, NextBinding, LeaveLoop, PrepareOk,
   PrepareFailed, JobOk, JobNotOk, FinishScenario, CleanupAfterRun,
   CleanupTarget, LeaveCleanup, FinishRun, Crash, End, vars, store, cursor,
   OverallAfter, Verdict

LEMMA WalkStep ==
  ASSUME IInv, [Next]_vars
  PROVE  WalkInv'
<1>1. CASE pc' = "idle"
  BY <1>1 DEF WalkInv
<1>2. CASE pc = "idle" /\ pc' # "idle"
  <2>1. PICK r \in RunIds : StartRun(r) \/ ResumeLatest(r) \/ ResumeById(r)
    BY <1>2 DEF IInv, Next, Step, SkipCompleted, StartScenario,
       StartScenarioConflict, NextBinding, LeaveLoop, PrepareOk,
       PrepareFailed, JobOk, JobNotOk, FinishScenario, CleanupAfterRun,
       CleanupTarget, LeaveCleanup, FinishRun, Crash, vars
  <2>2. pc' = "loop" /\ b' = 1 /\ rep' = 0 /\ overall' = "ok"
    BY <2>1 DEF StartRun, ResumeLatest, ResumeById, Begin
  <2>3. ASSUME NEW c \in DOMAIN Bindings, NEW k \in SlotsOf(c)
        PROVE  ~Visited(c, k[2])'
    BY <2>2, BindingFields DEF Visited, SlotsOf
  <2> QED
    BY <2>2, <2>3 DEF WalkInv
<1>3. CASE pc # "idle" /\ pc' # "idle"
  <2>1. run' = run /\ runs' = runs /\ run \in RunIds
    BY <1>3, OverallStep DEF IInv, CursorInv
  <2>2. ASSUME NEW c \in DOMAIN Bindings, NEW k \in SlotsOf(c),
               Visited(c, k[2])'
        PROVE  /\ rows'[run][k] \in Settled
               /\ overall' = "ok" => rows'[run][k] = "ok"
    <3>1. k \in Slots
      BY DEF Slots
    <3>2. CASE Visited(c, k[2])
      <4>1. /\ rows[run][k] \in Settled
            /\ overall = "ok" => rows[run][k] = "ok"
        BY <1>3, <3>2 DEF IInv, WalkInv
      <4>2. rows'[run][k] = rows[run][k]
        BY <2>1, <3>1, <4>1, RowStep DEF Settled
      <4>3. overall' = "ok" => overall = "ok"
        BY <1>3, OverallStep
      <4> QED
        BY <4>1, <4>2, <4>3
    <3>3. CASE k = slot /\ SkipCompleted
      BY <2>1, <3>3 DEF SkipCompleted, Completed, store, Settled
    <3>4. CASE k = slot /\ PrepareFailed
      <4>1. rows'[run][k] = "failed" /\ overall' = "failed"
        BY <2>1, <3>1, <3>4 DEF IInv, TypeOK, StoreTypeOK, PrepareFailed,
           OverallAfter
      <4> QED
        BY <4>1 DEF Settled
    <3>5. CASE k = slot /\ FinishScenario
      <4>1. rows'[run][k] = Verdict /\ overall' = OverallAfter(jobFailed)
        BY <2>1, <3>1, <3>5 DEF IInv, TypeOK, StoreTypeOK, FinishScenario
      <4> QED
        BY <4>1 DEF Settled, Verdict, OverallAfter
    <3> QED
      BY <1>3, <2>2, <3>2, <3>3, <3>4, <3>5, VisitStep
  <2>3. ASSUME overall' = "failed"
        PROVE  runs[run] = "running" /\ \E k \in Slots : rows'[run][k] = "failed"
    <3>1. CASE overall = "failed"
      <4>1. PICK k \in Slots : rows[run][k] = "failed"
        BY <1>3, <3>1 DEF IInv, WalkInv
      <4>2. rows'[run][k] = "failed"
        BY <2>1, <4>1, RowStep
      <4> QED
        BY <1>3, <3>1, <4>2 DEF IInv, WalkInv
    <3>2. CASE PrepareFailed \/ (FinishScenario /\ Verdict = "failed")
      <4>1. slot \in Slots /\ rows[run][slot] = "running"
        BY <3>2, SlotIsSlot DEF IInv, CursorInv, AtSlot, InAttempt,
           PrepareFailed, FinishScenario
      <4>2. rows'[run][slot] = "failed"
        BY <2>1, <3>2, <4>1 DEF IInv, TypeOK, StoreTypeOK, PrepareFailed,
           FinishScenario
      <4>3. runs[run] = "running"
        BY <1>3, <2>1, <4>1, AttemptOpen
      <4> QED
        BY <4>1, <4>2, <4>3
    <3> QED
      BY <1>3, <2>3, <3>1, <3>2, OverallStep
  <2> QED
    BY <2>1, <2>2, <2>3 DEF WalkInv
<1> QED
  BY <1>1, <1>2, <1>3

-----------------------------------------------------------------------------
(* The theorems.                                                           *)

LEMMA InitInv == Init => IInv
<1> SUFFICES ASSUME Init PROVE IInv
  OBVIOUS
<1>1. StoreTypeOK
  BY DEF Init, StoreTypeOK
<1>2. TargetTypeOK
  BY DEF Init, TargetTypeOK
<1>3. ProcessTypeOK
  <2>1. jobFailed \in BOOLEAN
    BY DEF Init
  <2>2. /\ pc = "idle" /\ run = 0 /\ b = 1 /\ rep = 0 /\ job = 1
        /\ overall = "ok" /\ session = 0 /\ exit = "none" /\ crashes = 0
    BY DEF Init
  <2>3. 1 \in 1..(Len(Bindings) + 1)
    BY BindingFields
  <2> QED
    BY <2>1, <2>2, <2>3, BoundsAreNat DEF ProcessTypeOK, Settled, Exits
<1>4. /\ pc = "idle" /\ samples = {} /\ empty = {}
      /\ runs = [r \in RunIds |-> "absent"]
      /\ rows = [r \in RunIds |-> [k \in Slots |-> "absent"]]
  BY DEF Init
<1>5. CursorInv /\ JobsInv /\ WalkInv /\ OpenInv
  BY <1>4 DEF CursorInv, AtSlot, InAttempt, JobsInv, WalkInv, OpenInv
<1>6. FreshInv /\ OkRowInv /\ RunInv
  BY <1>4 DEF FreshInv, OkRowInv, RunInv, Sampled
<1> QED
  BY <1>1, <1>2, <1>3, <1>5, <1>6 DEF IInv, TypeOK

LEMMA NextInv == IInv /\ [Next]_vars => IInv'
<1> SUFFICES ASSUME IInv, [Next]_vars PROVE IInv'
  OBVIOUS
<1>1. TypeOK'
  BY TypeStep DEF IInv
<1> QED
  BY <1>1, CursorStep, JobsStep, FreshStep, OkRowStep, WalkStep, RunStep,
     OpenStep DEF IInv

\* The inductive invariant holds in every reachable state.
THEOREM Invariance == Spec => []IInv
BY InitInv, NextInv, PTL DEF Spec

\* The orchestrator's state keeps its types (orchestrator.py, store.py).
THEOREM TypeCorrect == Spec => []TypeOK
<1>1. IInv => TypeOK
  BY DEF IInv
<1> QED
  BY <1>1, Invariance, PTL

\* A scenario row says 'ok' only if every job of the scenario ended 'ok', with
\* its metrics stored unless fio's output held none, over any number of
\* crashes and resumes (_execute_scenario).
THEOREM OkRowsRanEveryJob == Spec => []OkRowRanEveryJob
<1>1. IInv => OkRowRanEveryJob
  <2> SUFFICES ASSUME IInv, NEW r \in RunIds, NEW k \in Slots,
                      rows[r][k] = "ok", NEW j \in 1..NumJobs[k[1]]
      PROVE  \E m \in samples \cup empty : m.run = r /\ m.slot = k /\ m.job = j
    BY DEF OkRowRanEveryJob
  <2>1. PICK c \in DOMAIN Bindings : SampledOn(r, k, j, Bindings[c].target)
    BY DEF IInv, OkRowInv
  <2> QED
    BY <2>1 DEF SampledOn
<1> QED
  BY <1>1, Invariance, PTL

\* Where no scenario name is bound to two targets, a run that ended 'ok' has
\* run every job of every repeat of every binding to an ok outcome on the
\* binding's own target (run_campaign).
THEOREM OkRunsAreMeasured ==
  ASSUME OneTargetPerScenario
  PROVE  Spec => []OkRunMeasuredEveryBinding
<1>1. IInv => OkRunMeasuredEveryBinding
  <2> SUFFICES ASSUME IInv, NEW r \in RunIds, runs[r] = "ok",
                      NEW c \in DOMAIN Bindings, NEW k \in SlotsOf(c),
                      NEW j \in 1..NumJobs[Bindings[c].scenario]
      PROVE  SampledOn(r, k, j, Bindings[c].target)
    BY DEF OkRunMeasuredEveryBinding, SampledOn
  <2>1. k \in Slots /\ k[1] = Bindings[c].scenario
    BY DEF Slots, SlotsOf
  <2>2. rows[r][k] = "ok"
    BY <2>1 DEF IInv, RunInv
  <2>3. PICK d \in DOMAIN Bindings :
          k \in SlotsOf(d) /\ SampledOn(r, k, j, Bindings[d].target)
    BY <2>1, <2>2 DEF IInv, OkRowInv
  <2>4. Bindings[d].scenario = Bindings[c].scenario
    BY <2>1, <2>3 DEF SlotsOf
  <2>5. Bindings[d].target = Bindings[c].target
    BY <2>4 DEF OneTargetPerScenario
  <2> QED
    BY <2>3, <2>5
<1> QED
  BY <1>1, Invariance, PTL

\* What record_metrics stored is never replaced (store.py).
THEOREM SamplesAreKept == Spec => SamplesNeverReplaced
<1>1. IInv /\ [Next]_vars => [samples \subseteq samples']_vars
  BY SamplesGrow
<1> QED
  BY <1>1, Invariance, PTL DEF Spec, SamplesNeverReplaced

-----------------------------------------------------------------------------
(* The store implements CampaignLedger.                                    *)

\* The end of a run closes it, or repeats the 'ok' it already had.
LEMMA FinishCloses ==
  ASSUME IInv, FinishRun
  PROVE  Ledger!Next \/ UNCHANGED <<runs, rows>>
<1>1. /\ pc = "finish" /\ run \in RunIds /\ rows' = rows
      /\ overall \in {"ok", "failed"}
      /\ runs' = [runs EXCEPT ![run] = overall]
      /\ runs \in [RunIds -> {"absent", "running", "ok", "failed"}]
  BY DEF IInv, CursorInv, TypeOK, ProcessTypeOK, StoreTypeOK, FinishRun, Settled
<1>2. \A k \in Slots : /\ rows[run][k] \in {"ok", "failed"}
                       /\ overall = "ok" => rows[run][k] = "ok"
  BY <1>1, AllVisited DEF Settled
<1>3. overall = "failed" => /\ runs[run] = "running"
                            /\ \E k \in Slots : rows[run][k] = "failed"
  BY <1>1 DEF IInv, WalkInv
<1>4. runs[run] \in {"running", "ok", "failed"}
  BY <1>1 DEF IInv, OpenInv
<1>5. CASE runs[run] = "running"
  <2>1. overall = IF \A k \in Slots : rows[run][k] = "ok"
                  THEN "ok" ELSE "failed"
    BY <1>1, <1>2, <1>3
  <2>2. Ledger!Close(run)
    BY <1>1, <1>2, <1>5, <2>1 DEF Ledger!Close, Ledger!Settled
  <2> QED
    BY <1>1, <2>2 DEF Ledger!Next
<1>6. CASE runs[run] = "ok"
  <2>1. overall = "ok"
    BY <1>1, <1>3, <1>6
  <2> QED
    BY <1>1, <1>6, <2>1
<1>7. CASE runs[run] = "failed"
  <2>1. PICK k \in Slots : rows[run][k] = "failed"
    BY <1>1, <1>7 DEF IInv, RunInv
  <2>2. overall = "ok"
    BY <1>1, <1>3, <1>7
  <2> QED
    BY <1>2, <2>1, <2>2
<1> QED
  BY <1>4, <1>5, <1>6, <1>7

LEMMA StepImplements ==
  ASSUME IInv, [Next]_vars
  PROVE  Ledger!Next \/ UNCHANGED <<runs, rows>>
<1>1. ASSUME NEW r \in RunIds, StartRun(r)
      PROVE  Ledger!Next
  BY <1>1 DEF StartRun, Begin, Ledger!Next, Ledger!Open
<1>2. CASE StartScenario
  <2>1. run \in RunIds /\ slot \in Slots /\ rows[run][slot] = "absent"
    BY <1>2, SlotIsSlot DEF IInv, CursorInv, StartScenario, KeyTaken
  <2>2. runs[run] = "running"
    BY <1>2, <2>1, AttemptOpen DEF StartScenario
  <2>3. Ledger!Attempt(run, slot)
    BY <1>2, <2>1, <2>2 DEF StartScenario, Ledger!Attempt
  <2> QED
    BY <2>1, <2>3 DEF Ledger!Next
<1>3. CASE PrepareFailed \/ FinishScenario
  <2>1. run \in RunIds /\ slot \in Slots /\ rows[run][slot] = "running"
    BY <1>3, SlotIsSlot DEF IInv, CursorInv, AtSlot, InAttempt,
       PrepareFailed, FinishScenario
  <2>2. runs[run] = "running"
    BY <1>3, <2>1, AttemptOpen DEF PrepareFailed, FinishScenario
  <2>3. \E status \in {"ok", "failed"} : Ledger!Settle(run, slot, status)
    BY <1>3, <2>1, <2>2 DEF PrepareFailed, FinishScenario, Verdict,
       Ledger!Settle
  <2> QED
    BY <2>1, <2>3 DEF Ledger!Next, Ledger!Settled
<1>4. CASE FinishRun
  BY <1>4, FinishCloses
<1>5. ASSUME ~StartScenario, ~PrepareFailed, ~FinishScenario, ~FinishRun,
             \A r \in RunIds : ~StartRun(r)
      PROVE  UNCHANGED <<runs, rows>>
  <2>1. runs' = runs
    BY <1>5, RunsKept
  <2>2. rows' = rows
    BY <1>5 DEF Next, Step, ResumeLatest, ResumeById, Begin, SkipCompleted,
       StartScenarioConflict, NextBinding, LeaveLoop, PrepareOk, JobOk,
       JobNotOk, CleanupAfterRun, CleanupTarget, LeaveCleanup, Crash, vars,
       store
  <2> QED
    BY <2>1, <2>2
<1> QED
  BY <1>1, <1>2, <1>3, <1>4, <1>5

\* The database goes through the states CampaignLedger allows: each slot of a
\* run is attempted once and settled once, and a run is closed once, with the
\* verdict of its rows.
THEOREM LedgerImplemented == Spec => LedgerSpec
<1>1. Init => Ledger!Init
  BY DEF Init, Ledger!Init
<1>2. IInv /\ [Next]_vars => [Ledger!Next]_(Ledger!vars)
  BY StepImplements DEF Ledger!vars
<1> QED
  BY <1>1, <1>2, Invariance, PTL DEF Spec, LedgerSpec, Ledger!Spec

-----------------------------------------------------------------------------
(* Cleanup after the campaign.                                             *)

\* The target of binding c holds no file, or its removal failed.
Clean(c) == testfile[Bindings[c].target] => Bindings[c].target \in swallowed

CleanInv ==
  /\ pc # "idle" => exit = "none"
  /\ cleanup = "after_campaign" =>
       /\ pc = "clean" => \A c \in 1..(b - 1) : Clean(c)
       /\ pc = "finish" \/ exit \in Settled
            => \A c \in DOMAIN Bindings : Clean(c)

LEMMA CleanStep ==
  ASSUME TypeOK, CleanInv, [Next]_vars
  PROVE  CleanInv'
<1>1. CASE \E r \in RunIds : StartRun(r) \/ ResumeLatest(r) \/ ResumeById(r)
  BY <1>1 DEF CleanInv, StartRun, ResumeLatest, ResumeById, Begin, Settled
<1>2. CASE StartScenarioConflict \/ Crash
  BY <1>2 DEF CleanInv, StartScenarioConflict, Crash, End, Settled
<1>3. CASE \/ SkipCompleted \/ StartScenario \/ NextBinding \/ PrepareOk
           \/ PrepareFailed \/ JobOk \/ JobNotOk \/ FinishScenario
           \/ CleanupAfterRun
  <2>1. pc # "idle" /\ pc' \notin {"clean", "finish"} /\ exit' = exit
    BY <1>3 DEF SkipCompleted, StartScenario, NextBinding, PrepareOk,
       PrepareFailed, JobOk, JobNotOk, FinishScenario, CleanupAfterRun
  <2> QED
    BY <2>1 DEF CleanInv, Settled
<1>4. CASE LeaveLoop
  BY <1>4 DEF CleanInv, LeaveLoop, Settled
<1>5. CASE CleanupTarget
  <2>1. /\ pc = "clean" /\ pc' = "clean" /\ exit' = "none" /\ b' = b + 1
        /\ cleanup' = cleanup /\ b \in DOMAIN Bindings /\ b \in Nat
        /\ DOMAIN Bindings = 1..Len(Bindings) /\ target \in Targets
    BY <1>5, BindingFields DEF TypeOK, ProcessTypeOK, CleanInv, CleanupTarget,
       target
  <2> SUFFICES ASSUME cleanup = "after_campaign", NEW c \in 1..b
      PROVE  Clean(c)'
    BY <2>1 DEF CleanInv, Settled
  <2>2. c \in 1..(b - 1) => Clean(c)
    BY <2>1 DEF CleanInv
  <2>3. Bindings[c].target \in Targets
    BY <2>1, BindingFields
  <2>4. CASE Seen
    <3>1. UNCHANGED <<testfile, swallowed>>
      BY <1>5, <2>4 DEF CleanupTarget
    <3>2. c = b => \E d \in 1..(b - 1) : Bindings[d].target = Bindings[c].target
      BY <2>4 DEF Seen, target
    <3>3. Clean(c)
      BY <2>1, <2>2, <3>2 DEF CleanInv, Clean
    <3> QED
      BY <3>1, <3>3 DEF Clean
  <2>5. CASE ~Seen
    <3>1. Cleanup(target)
      BY <1>5, <2>5 DEF CleanupTarget
    <3>2. CASE Bindings[c].target = target
      BY <2>1, <3>1, <3>2 DEF Cleanup, Clean, TypeOK, TargetTypeOK
    <3>3. CASE Bindings[c].target # target
      <4>1. c \in 1..(b - 1)
        BY <2>1, <3>3 DEF target
      <4> QED
        BY <2>1, <2>2, <2>3, <3>1, <3>3, <4>1
        DEF Cleanup, Clean, TypeOK, TargetTypeOK
    <3> QED
      BY <3>2, <3>3
  <2> QED
    BY <2>4, <2>5
<1>6. CASE LeaveCleanup
  <2>1. /\ pc = "clean" /\ pc' = "finish" /\ exit' = exit /\ exit = "none"
        /\ b > Len(Bindings) /\ b \in Nat /\ cleanup' = cleanup
        /\ UNCHANGED <<testfile, swallowed>>
    BY <1>6 DEF TypeOK, ProcessTypeOK, CleanInv, LeaveCleanup
  <2>2. DOMAIN Bindings \subseteq 1..(b - 1)
    BY <2>1, BindingFields
  <2> QED
    BY <2>1, <2>2 DEF CleanInv, Clean, Settled
<1>7. CASE FinishRun
  BY <1>7 DEF CleanInv, Clean, FinishRun, End
<1>8. CASE UNCHANGED vars
  BY <1>8 DEF CleanInv, Clean, vars, cursor
<1> QED
  BY <1>1, <1>2, <1>3, <1>4, <1>5, <1>6, <1>7, <1>8 DEF Next, Step

\* A campaign with cleanup: after_campaign that ran to its end leaves a
\* testfile only where the removal failed (_cleanup_targets).
THEOREM CampaignIsCleaned == Spec => []AfterCampaignCleaned
<1>1. Init => CleanInv
  BY DEF Init, CleanInv, Settled
<1>2. TypeOK /\ CleanInv /\ [Next]_vars => CleanInv'
  BY CleanStep
<1>3. CleanInv => AfterCampaignCleaned
  BY DEF CleanInv, Clean, AfterCampaignCleaned
<1> QED
  BY <1>1, <1>2, <1>3, TypeCorrect, PTL DEF Spec
=============================================================================
