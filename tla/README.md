# A TLA+ verification project for aihomelab

aihomelab is a two-workstation AI lab: a storage benchmark harness, a script that
brings a two-node Lustre cluster up and down, and the reproduction kits of several
measurements, among them an overnight data-generation run. None of these programs is
large, but each drives remote machines for hours, dies half-way, and is started again by
hand over whatever it left behind. That is what is modelled here: what the programs promise
across crashes, lost ssh connections, restarts and repeated calls.

All paths below are relative to `src/`.

## 1. Inventory

Every part has an entry in `PROJECT.json` ("components"); the hazards of the code, each at
its line, are there too ("hazards").

### benchmark-harness

| Part | State it keeps | Operations | Interacts with |
|---|---|---|---|
| **orchestrator and store** (`harness/orchestrator.py`, `store.py`) | SQLite tables `runs`, `scenarios`, `metrics`; in memory the cursor over bindings and repeats, `overall_status` | `run_campaign`, `_execute_scenario`, `_cleanup_targets`, `find_latest_running_run`; `start_run`, `start_scenario`, `scenario_completed`, `record_metrics`, `finish_scenario`, `finish_run` | calls a runner; one transaction per store call |
| **fio runner and ssh** (`harness/runners/fio.py`, `ssh.py`) | on the target: the workspace file and its `.prefilled` marker | `prepare` (stat, marker test, prefill), `run_scenario`, `cleanup`, `preflight_target` | ssh with a local timeout; remote fio |
| **command line** (`harness/cli.py`) | none | `run`, `resume`, `preflight`, `validate`, `list-runs`, `report` | starts the orchestrator |
| **schema** (`harness/config.py`) | none | load and resolve a campaign, `parse_size_gib` | input of everything else |
| **fio parser, report** (`harness/parsers/fio.py`, `report.py`) | none | JSON to metrics; store to Markdown, wrap detection | reads the store and the campaign file as it is when the report is asked for |

*Hard here:* the process dies between any two transactions and is resumed, twice perhaps,
by id or by "the latest running run"; a scenario name is a key of the store while the
campaign is a list of (scenario, target) pairs; a local timeout does not end the remote
command; a failed probe reads as "there is no file"; cleanup ignores exit statuses.
*Correct means:* an `ok` in the store stands for measurements that were taken, on the
right target, over a file whose extents were all written; nothing stored is replaced;
every run comes to an end; a report shows what was measured, and warns of what a cache served.

### infra/scripts

- **lustre-cluster.sh**: `bringup` (seven phases: pools and modules and LNet on both
  nodes, LNet ping, MGS, MDT0, OSTs, registration check, clients), `teardown` (clients,
  OST1, then OST0/MDT0/MGS, with the pool exports), `status`. State: what is imported, loaded,
  configured and mounted on two nodes; on the laptop only `WORST_STATUS`. *Hard:* it must be
  idempotent over any partial state; failures are known to the laptop only through
  `PHASE=` lines a lost ssh does not print; a script outlives its ssh, and a mount in
  recovery the shell that started it. *Correct means:* the mount orders hold, the summary is true, and repeating
  the command converges.
- **check-cluster-readiness.sh**: read-only probes, worst status as exit code.

### artifacts: the data-generation pipeline (`concepts/llm-pipeline-on-a-workstation/reproduce`)

- **teacher run** (`data-gen/orchestrator.py`, `generate.py`): chunks of requests to a
  vLLM server that is restarted per chunk, one JSON line per answer appended to a file,
  which is also the only record of what is done. *Hard:* buffered rows cut in the middle
  by a kill, of a character even, two generators on one file, a server that dies under a chunk,
  a count of lines that fails, SIGINT between tasks. *Correct means:* no prompt is answered twice,
  lines are lost to kills only, COMPLETE means progress, every launch ends.
- **source passes** (`pass1_schema_unify.py`, `pass2_vegan_classify.py`, `pass3_dedup.py`):
  three corpora become one file of rows, tagged with a diet, of which the near-duplicates among
  the diet-friendly ones are dropped. **prompts** (`build_prompts.py`, `split_prompts.py`):
  templates filled with recipes of two of those files, dealt out to two nodes. *Hard:* each
  writes its output in place and reads what a killed one left; near-duplicates are no
  equivalence; a prompt points to its recipe by a place in a file. *Correct means:* what a prompt
  asks for can be done with its recipe, and the pointer leads back to it.
- **dataset preparation** (`filter_clean.py`, `to_chat_format.py`, `split_dataset.py`,
  `spot_check_phase2_output.py`): sequential file passes. *Hard:* how far the
  group-stratified split ends from its fractions; files of one split replaced one after the
  other.
- **finetune-eval**, **serve**: commands for an external trainer and server.

### artifacts: the measurement kits

- **multi-node training kit**: two hosts started by hand that meet at a rendezvous and
  share a checkpoint directory by NFS or sync it by rsync, then restore from it.
- **single-node training kit**, **Lustre checkpoint kit**: one training with monitors
  running beside it.
- **Lustre set-up kit**, **fio baseline kit**, **vLLM cold-load kit**: one-time
  installation and loops over measurements.

*Hard:* the two hosts' order of arrival, monitors that must end with the run, checkpoints
copied while they are written.

## 2. The modules

| Module | Models | Kind |
|---|---|---|
| `CampaignLedger` | what the store promises, without the orchestrator | abstract specification |
| `HarnessCampaign` | orchestrator, store, resume, crash | detailed specification; implements `CampaignLedger` |
| `MCHarnessCampaign` | three campaigns for TLC | instance |
| `HarnessCampaignProofs` | theorems about `HarnessCampaign` | proofs |
| `FioTestfile` | one target's workspace file, marker, runner and remote fio | detailed specification |
| `CampaignTarget` | the preflight of a target and the bindings of a campaign on it | extends `FioTestfile`; implements it |
| `MCCampaignTarget` | campaigns of one and two sizes | instance |
| `CampaignTargetProofs` | theorems about `FioTestfile` and `CampaignTarget` | proofs |
| `RunReport` | fio parser, table `metrics`, report over an edited campaign file | detailed specification |
| `MCRunReport` | four versions of a campaign file | instance |
| `RunReportProofs` | theorems about `RunReport` | proofs |
| `LustreCluster` | `lustre-cluster.sh` and the two nodes | detailed specification |
| `LustreClusterProofs` | theorems about `LustreCluster` | proofs |
| `TeacherRun` | `orchestrator.py` and `generate.py` of data-gen | detailed specification |
| `TeacherRunProofs` | theorems about `TeacherRun` | proofs |
| `GroundingCorpus` | what the source passes compute, row by row | operators |
| `PromptBuild` | the source passes, `build_prompts.py`, `split_prompts.py` as processes over files | composes `GroundingCorpus` |
| `PromptBuildProofs` | theorems about `PromptBuild` | proofs |
| `MCKitchen`, `MCPromptBuild` | two small corpora; what TLC runs over them | instances |
| `DatasetPrep` | `filter_clean.py`, `to_chat_format.py`, `split_dataset.py` | detailed specification |
| `DatasetPrepProofs` | theorems about `DatasetPrep` | proofs |
| `MCDatasetPrep` | a small data set for TLC | instance |
| `MCRecipeSplit` | `DatasetPrep` over prompts that `PromptBuild`'s operators make | composition and instance |
| `DataInduction` | induction over numbers and finite sets, recursion, sums | lemmas of the proofs |

Definitions whose name ends in `_Something` directly before a definition are *variants*:
the same definition as a plausible bug would have it. A run must refute its property when
the definition is replaced by the variant (`PROJECT.json`, "mutants"), which shows that the
property depends on that line of the code.

### HarnessCampaign

One orchestrator process at a time. `pc` says where it is, `run`, `b`, `rep`, `job` are
`run_id` and the loop indices, `overall` and `jobFailed` the two status locals; `runs`,
`rows`, `samples` are the three tables. Each action is one transaction or one remote call:

| Action | Code |
|---|---|
| `StartRun`, `ResumeLatest`, `ResumeById` | `cli.run`, `cli.resume`, `start_run`, `find_latest_running_run` |
| `SkipCompleted` | `scenario_completed()` is true |
| `StartScenario`, `StartScenarioConflict` | `start_scenario()`: the INSERT, or its IntegrityError, which leaves `run_campaign` |
| `PrepareOk`, `PrepareFailed` | `runner.prepare()` and its except branch with `continue` |
| `JobOk`, `JobNotOk` | one iteration over `run_jobs()`'s outcomes; `record_metrics()` |
| `FinishScenario` | `finish_scenario()` and `overall_status` |
| `CleanupAfterRun`, `CleanupTarget` | `cleanup()` after a run, `_cleanup_targets()` |
| `FinishRun` | `finish_run()` |
| `Crash` | the process dies; so does it on an exception nothing catches |

Resume by id restarts any run, settled ones included, as the code does. `session` tags a
sample with the process that took it. It is history: it makes a replaced sample visible. `empty` is history, too: a job whose
fio ended well may have printed no job or no I/O, and then `record_metrics()` has nothing to store;
the attempt is `ok` all the same. An `ok` therefore promises that every job ran, and a sample
only of those that did something.

### FioTestfile

A file is a size and a written prefix in units; the marker is a Boolean. `pc` follows
`prepare()`: `stat`, `test`, `launch`, `prefill`, then `jobs`, then the two removals of
`cleanup()`. A local timeout or a dead orchestrator turns the running prefill into a
*ghost*: a remote fio that goes on writing, and touches the marker when it is done, on
the path that then exists. `causes` is history. It names the five ways in which the code
lets the marker go wrong, set by the very step at which each happens:

- `lost_probe`: the stat's ssh failed over a marked file that is too small; fio extends it;
- `smaller_prefill`: a prefill smaller than the unmarked file that is there marks all of it;
- `ghost`: an abandoned prefill touches the marker over a removed or a larger file;
- `reboot_in_rm`: the node reboots between the two removals of `cleanup()`;
- `abandoned_rm`: `cleanup()`'s ssh, which has a timeout of 30 s and whose failure is ignored,
  leaves an `rm` behind that removes the file, and then the marker, of a later binding
  (`CleanupAbandoned`; `rms` counts the removals that are still to come).

The safety properties say that there is *no sixth way*; `testfile_unwritten` shows that
one of the five needs no failure of network or node at all. `LayOut` is a job's own fio, which
lays out what a file that was removed or cut lacks of `size=`.

### CampaignTarget

`FioTestfile` takes scenarios in any order. `CampaignTarget` gives them the order of a campaign:
`plan` is what is still to come, `begun` what was begun. `StartChecked` is `harness run`: the
preflight (`preflight_target`) over the largest size, whose stat, too, may be lost
(`hidden`); `StartUnchecked` is `--no-preflight` and `harness resume`, which has none.
The size the code compares with is the largest of the campaign, here "no size is larger than
the file". `RefusedForItsOwnFile` is what a preflight that passed is worth. It is less than
it seems: a campaign of a small scenario and then a large one passes over a fresh target, and
the large one is refused for the file the small one made; and what an interrupted prefill
leaves is refused by the next repeat, not retried.

### RunReport

The state is what was run (`fio`, ground truth), the table `metrics`, the campaign file on
disk and the version the orchestrator had loaded; the report is a function of it
(`Section`), since it only reads. `EditCampaign` is an operator who edits the file, breaks it or moves it away
between a run, its resume and its report. A metric is a rate, an amount over the runtime the job
was run with; `Amplified` takes it times the runtime the file has by now, as the code does, and
divides it evenly, while `Shares` lets the threads be apart by `Skew`. An operation that did
nothing has no metrics (`Records`). `Renders` says when there is a report at all: not over a file
that is no YAML or cannot be read, nor when a row is inspected whose size has no unit.
`Blocks` says what those threads have really read, each from its own offset and
around in its window, with what the unmeasured `ramp_time` read before; `Reread` is what a
cache may have served. The two properties bound the warning from both sides.

### GroundingCorpus and PromptBuild

Texts are known by what the passes look for in them: an ingredient by the blocklist
categories it hits and whether a plant-based modifier occurs in it, a signature by what it is
near to. `Near` is a parameter and no equivalence. A file is a sequence of rows,
or of the numbers of rows; `Torn` is the line a killed writer leaves, which the next `json.loads`
dies of. `Writes` is a script that comes to its end, raises in the middle, or is killed.
`last` is how the latest script ended, history. Two things the model says of the
corpus itself: pass 2 has no pool for rows without ingredients, so the narrative and
encyclopedic rows the docstrings call grounding never ground a prompt (`HasContent`); and
what offends a diet is judged per ingredient line, by the name alone.

### LustreCluster

`left[n]` is what is left of the script piped to node n, a sequence of operations;
`phase` the phase, `worst` the laptop's `WORST_STATUS`. The scripts of a phase run in
parallel, and `EndPhase` is the `wait` for both, followed by the laptop's own checks and
the `halt_on_red`. The phases are data (`BringupPhases`, `TeardownPhases`), so the order in
the script is the order in the model. `mounted` and `hung` are the nodes' kernels:
a server mount that outlasts the script's recovery timeout goes to `hung`, and the script
leaves an operation `Linger`, because the orphaned mount inherited the output of its ssh,
which therefore stays open until the mount returns. A script whose ssh is lost or interrupted becomes an *orphan*: the node goes on with what is
left of it, a client mount that waits for its servers among it, or gives it up, whatever command
the laptop runs by then. `disturbed` is history: an ssh was lost, a node rebooted, a hung
mount completed or an orphan worked while the command ran. `--abort-recovery` is modelled for an
operator who lists every target; it frees the mounts left in recovery in the first phase on their
node, which is why `BringupOrder` excepts them. `SafeMeansDown` is about the moment the
teardown ends: the script looks for no orphan, so one may still mount a client afterwards.

### TeacherRun

The orchestrator's `phase` (`between`, `startup`, `wait`, `count`, and `hung` when one of its calls
does not return) and its locals; each `generate.py` process is a record with the prompts it has to
do, the requests in flight, and its output buffer; the output file is, per prompt, how many readable
lines it has with and without an error, plus the number of garbled lines and what follows the last
newline. `Spill` is what a buffered append does: any number of whole rows and perhaps a part of the
next: a piece, a piece that ends within a character, or all but the newline. The row after a part
another process left is glued to it and no line of either is readable; a row that lacks only its
newline is readable until then (`bare`), and a file that stops within a character cannot be read at
all (`Undecodable`): the generate that tries ends at once. `Counted` is `count_lines()`, which is 0
when anything fails (`blind` counts the chunks begun with such a count).
`RunGenerate` reads the file (`--skip-completed`), takes the next chunk and opens
the file to append. `Interrupt` sets `stop_event`, whose only reader is the loop that creates
the tasks; that loop has no await, so the handler runs after it.

### DatasetPrep

The three scripts run one at a time, in any order, over the file the teacher is still adding
to (`Arrive`). A row is the number of its line there, a file the set of its rows, so that
the same row in two files can be told. `pc` is the script's step: `scan`, `place`, or the name of
the file that is replaced next. `Stop` is a script that ends at any step, by its own
`sys.exit` or by being killed. `Place` keeps the deficits as exact integers: the
targets are fractions in floating point, so which of two equal deficits wins is left open,
and so is which of two groups of a size the shuffle puts first. `mixed` is history: one of
the three files has been replaced and another not yet. Of the `Histories` a line carries only its
prompt and the length of its answer (0 for a line that is unreadable or not clean).

## 3. The runs

| Run | Question | Bounds | Result |
|---|---|---|---|
| `campaign` | What does `ok` mean, is everything cleaned, is the ledger kept, does an uncrashed run settle? | two bindings of two scenarios on two targets, one of them repeated or with several jobs (`MCHarnessCampaign`), 2 runs, 2 sessions told apart, 1 crash, 1 job without rows, all three cleanup modes; 1,600,739 states | holds |
| `campaign_resume` | Does resuming settle an interrupted run? | the same, 1 run | **refuted** |
| `campaign_shared` | Is every binding of an `ok` run measured when two bindings share a scenario? | one scenario on two targets, no crash | **refuted** |
| `testfile` | Does the marker go wrong in the five named ways only? Why is a binding refused? | campaigns of one or two sizes, with and without preflight, 2 abandoned prefills or cleanups, 1 lost probe, 1 reboot; 4,781,226 states | holds |
| `testfile_unwritten` | Are jobs always over written extents? | no ghost, no lost probe, no reboot | **refuted** |
| `lustre` | Are the summaries true, are the orders kept, does bringup converge, beside scripts that have lost their ssh? | 1 operation that fails or hangs or 1 lost ssh or interrupt (whose script may leave a mount hung as well), 1 reboot; 327,212 states | holds |
| `teacher` | Is no prompt answered twice, which lines are lost, what does COMPLETE mean, does every launch end? | 3 prompts, chunks of 2, 2 launches, 2 generates, 2 faults; 588,577 states | holds |
| `teacher_sigint` | Does SIGINT stop launches? | 2 prompts, 1 chunk | **refuted** |
| `dataset` | Does each prompt keep its longest answer, once, is no excerpt in two files, are the files near their targets? | 5 prompts, 3 excerpts or none, 6 lines, targets 1/2, 1/4, 1/4; 1,561,134 states | holds |
| `prompts` | Do duplicates go, and only they? Can a prompt be met, does it point to its recipe, are the halves fair? | two corpora of five recipes with a chain of near-duplicates, 3 prompts built once, one kill at the start or in the middle of a file, the passes in any order and any number; 264,884 states | holds |
| `recipe_split` | Do rows of one recipe land in one file? | three prompts of two templates on two recipes | **refuted** |
| `report` | Do rows show what was measured? When is a wrap flagged, and when not? | 2 repeats of a job of two threads and a mixed one, one of them idle, 4 versions of the campaign file, of which one has another runtime and one sizes without a unit, and a broken one, 1 resume, shares around the region, its slack and twice round; 178,584 states | holds |

Why the bounds are enough. *Campaign*: two runs tell the latest from another, two sessions
the process that stored a sample from a later one, one crash reaches every interrupted
state, after which any number of resumes follow. *Testfile*: two sizes are one that is too small and
one that fits; two ghosts race each other and the runner; a unit may stand for any part
of a file. *Lustre*: commands are unbounded, so each fault is met from
every state that earlier commands left, before or after a reboot; a script without an ssh works beside any
number of later commands. *Teacher*: two chunks of which the second is not
full, a second launch after the first died, two faults together (a kill in the middle of
a line and then a lost connection or a count that fails). `Concurrency = 1` makes a task wait for the semaphore.
*Prompts*: a chain of three signatures of which only neighbours are near is the least
that tells "near a kept one" from "near a dropped one"; the passes go on after the prompts are
built, so that prompts of one version meet files of another. *Report*: a window that is the size, the offset or the rest of the
file; a share that just fills the region, is within its slack, over it, and twice round.
*Dataset*: groups of two rows and of one, a prompt answered twice with the longer answer
first or last, an unclean line, and more than one filter and split over growing input.
The proofs of section 5 drop the bounds for every safety property of every passing run.

`CHECK_DEADLOCK FALSE` is in the two teacher configurations only: there launches are
bounded, and the system stops when they are used up.

### Fairness

- *Campaign*: weak fairness of `Step`, the process's own next step: one Python thread.
  A fio job is killed at its timeout; where `timeout_seconds` is not set the code waits for
  ever, and fairness assumes that the remote command ends. `StartRun`, `Resume…` and `Crash`
  are not fair. `ResumingSpec` adds an operator who resumes, which makes the refutation
  stronger: even so the run does not settle.
- *Lustre*: weak fairness of the laptop's and the nodes' work. A server mount ends by
  the script's timeout; for the client mounts and the ssh of a running command, which have none, it
  is assumed. What a script without an ssh does is not fair: it may wait for ever.
  `BringupConverges` is about an operator, so it needs one: `bringup --abort-recovery` is started
  again and again (strong fairness, since a teardown may be running in between), and a command
  that hangs on an orphaned mount is interrupted. A late mount is not fair: the property
  does not count on recovery ending by itself.
- *Teacher*: weak fairness per generate (a request ends at `--request-timeout`) and of the
  orchestrator, as long as its calls return: the wait for the server has a deadline, but its ssh calls and
  `p.wait()` have no timeout. One that does not return is a step of its own (`Hang`), after which
  nothing of the orchestrator is fair, and `OrchestratorEnds` says that it ends *or is stuck in such
  a call*: what remains is that its loop over chunks and its polls cannot go on for ever. Overflow of
  the buffer, faults and launches are not fair.

## 4. What the refuted properties show

Each is something a comment, a README or a message of the repository says
(`PROJECT.json`, "findings", quotes the lines).

1. `campaign_resume`: a process that dies inside an attempt leaves a row `running`; every
   resume INSERTs the same key again and dies on IntegrityError outside the try block.
2. `campaign_shared`: the store's key has no target, so the second target of a scenario is
   skipped as completed and the run ends `ok`.
3. `testfile_unwritten`: a failed large prefill leaves a large file without a marker, a
   smaller prefill marks it, a large scenario trusts the marker.
4. `teacher_sigint`: requests that wait for the semaphore are sent after SIGINT.
5. `recipe_split`: `grounding_row_id` numbers the rows of two files; one recipe has a number
   in each, and the split takes them for two excerpts.

More disagreements need no run of their own. The comment at `runners/fio.py:260` says that the next run
retries a prefill that failed; `prepare()` refuses its leftovers as too small before it
looks at the marker (`RefusedForItsOwnFile` names this case). `lustre-cluster.sh:583` announces
"clients first", but a teardown does not halt when a client cannot be unmounted
(`TeardownPhases` has no such check; `SafeMeansDown` says what its last line is then worth).
The docstring at `report.py:128` promises a report of raw metrics over a campaign file that is "missing
or unreadable", but a YAMLError or an OSError is not caught (`Renders`); and the wrap detection, which
"flag[s] rows where per-thread bytes consumed > per-thread region" (line 278), takes the rate that was
measured times the runtime the file has by now, so that an edited runtime flags a job that stayed in its
region (`Amplified`; `Faithful` excepts such rows). The help of `--skip-completed` (`generate.py:287`)
calls a run resumable, but a generate killed within a multibyte character leaves a file that cannot be
decoded, and every later one ends on UnicodeDecodeError before its first request (`Undecodable`).

## 5. What is proved

Checked by TLAPS, for every value of the constants that satisfies the named assumptions: every
safety invariant and action property of the passing runs, and both refinements. TLC evaluates the
assumptions in the runs:

- `CampaignAssumption`, `TestfileAssumption`, `TargetAssumption`, `TeacherRunAssumption`,
  `LustreAssumption`, `DatasetAssumption`, `PromptAssumption`, `ReportAssumption`: types, that a scenario
  has a job, that a campaign has a binding, that several threads are given an offset;
- `CorpusAssumption`: the rows of a source are a sequence, of which a torn line is no member, and the
  categories an ingredient hits are categories of the blocklist;
- `RegionAssumption`: the regions of a job's threads lie in the file, and the distance between
  its threads is within the report's slack of 10 %. Only `FlagsAreRereads` needs the second part:
  the flag looks at the mean, so threads that are further apart could be flagged although
  the last of them only read on into the rest of the file and nothing was read twice.

**DataInduction** replaces the library's induction theorems, whose parameter is an operator: a
predicate is a set here (`NatUpwards`, `SubsetInduction`, from the well-foundedness of the strict
subsets of a finite set). From it follow that a recursive function over 0..N exists
(`RecursionExists`), the laws of a sum over a finite set (`SumObeysLaws`, `SumMonotone`,
`SumDistance`) and that piles of f[x] units have the sum of f units in all (`PilesCount`).

**HarnessCampaignProofs**, for every campaign and any number of runs, processes and
crashes: `TypeCorrect`; `OkRowsRanEveryJob`; `OkRunsAreMeasured`; `SamplesAreKept`;
`LedgerImplemented`; `CampaignIsCleaned`. `OkRunsAreMeasured` has the extra
hypothesis `OneTargetPerScenario`: it is what finding 2 shows the code to need.

The inductive invariant is the conjunction of:
- `CursorInv`: a live process is in its loop, and an attempt under way has a `running` row;
- `JobsInv`: the jobs done without failure have their samples, or had no rows, later jobs have none;
- `FreshInv`: a slot without a row has no samples. With `JobsInv` this is why INSERT OR
  REPLACE never replaces anything;
- `OkRowInv`: an `ok` row has its samples, or the note that there were none, all from the target of one
  of its bindings;
- `WalkInv`: what the loop has passed is settled, and all of it `ok` while `overall` is;
- `RunInv`, `OpenInv`: what the status of a run says of its rows.

None of the properties is inductive alone. For example, that an `ok` run measured everything rests on
what a process that resumed the run saw when it skipped completed rows (`WalkInv`), and
that on what another process stored before it died (`OkRowInv`). A run settled earlier and
resumed by id keeps its verdict only because `RunInv` says its rows already force it. The
refinement is one lemma, `StepImplements`: every step is a step of the ledger or leaves
`runs` and `rows` alone. `CampaignIsCleaned` has an invariant of its own, on what
`_cleanup_targets` has visited.

**CampaignTargetProofs**, of `FioTestfile`, for any set of sizes and any number of ghosts, lost probes and
reboots: `TestfileTypeCorrect`, `MarkerIsSound`, `MeasuredIsWritten`,
`PrefillNeverExtends`. The invariant adds to the properties: what the prefill has counted it
has written (`PrefillInv`), the size the runner read is still there (`StatInv`), no smaller file
waits where a prefill starts unless a probe was lost (`LaunchInv`), and only unlinked
ghosts outlive the file (`LinkInv`). `MarkerIsSound` and `MeasuredIsWritten` hold each
other up: the marker vouches for the file only because the prefill that touched it
covered it, and a job trusts the file only through the marker. A removal that was abandoned breaks
both, and says so in `causes`, but for one that finds neither marker nor jobs: then the prefill under
way has lost its file (`linked`), which is noted when it touches the marker.

Of `CampaignTarget`: `CampaignImplements`, that a campaign is one order of the scenarios of
`FioTestfile`, from which `CampaignMeasuresWritten` follows; and `RefusalsAreHomeMade`. The
invariant of the latter (`FitInv`) speaks of the past: a file on the target of a campaign that passed is large
enough for all that was begun and all that is to come, or no smaller than a binding that was
begun (`Fits`). It holds when the preflight passes, survives every growth of the file, whoever
writes, and is true of each file a prefill of the campaign makes.

**TeacherRunProofs**, for any number of prompts, processes, launches and faults and any chunk
and buffer. For `OnePromptOneLine` the invariant adds `SoleWriter`: without an overlap one
process is alive, each of its prompts is in one place (to do, in flight, or one row of its
buffer), and none of them has a readable line. A kill loses rows, and a row glued to what a killed
process left is not readable; `SpillAdds` says that moving rows can only add a line to the
prompts it moves, and take the newline-less one at the end of the file, so neither breaks the
invariant, and the next generate starts from the prompts that still have none. For
`SpoiltLinesAreKills` a file that does not end at a line owes it to the process alive or to one
kill more than there are spoilt lines.

`CompleteRunCovers` is asked of a first run without a kill, an abandoned
generate or a server that did not come up (`Smooth`); servers may die under it, SIGINT may reach
a generate, and a full buffer may leave half a row in the file at any time. `SmoothInv` follows such a run from
chunk to chunk: between generates the prompts of the chunks so far have one line and no
other prompt has (`Covered`); while one works, every prompt of its chunk has a line or is held
by it, and a piece of a row at the end of the file is its own, so the row becomes readable (`Working`).
`BatchIsNext` says that a generate takes the next chunk's prompts, from the
cardinality of what is before each, and `ChunksSuffice` that the rounded-up number of chunks
reaches the last prompt. `StartChunk` up to `CountChunk` hand `Covered` on.

`TypesAreKept` and `CompleteRunProgresses` hold of every run. They need the number of lines, a sum
over all prompts, never to fall (`StepsLengthen`). `Earned` is what the bail-out is
worth: half a chunk of lines for every second chunk counted, the one that failed just now left aside,
since the next failure would end the run; `ProgressInv` carries it from count to count, less what the chunks
whose lines were not counted beforehand may have claimed (`blind`).

**LustreClusterProofs**, for any number of failures, lost connections and reboots, and so from any
partial state a command may find: `LustreTypeCorrect`, `BringupTellsTheTruth`,
`TeardownTellsTheTruth`, `MountsInOrder`, `UnmountsInOrder`. The invariant relates the nodes to
the script that is left: in an undisturbed bringup, what earlier phases mount is mounted, and what
this one mounts is mounted or still to do, unless something was red (`BringupInv`), since
`halt_on_red` keeps a red phase from being followed by another. A teardown has no such halt,
so its order rests on the scripts: within one, nothing is unmounted before what needs it
(`Sorted`), and what needs it has not been passed over (`OrderInv`); that "Safe to
poweroff" is true rests on `worst`, which stays 0 only as long as everything passed is
unmounted and exported (`TeardownInv`).

**DatasetPrepProofs**, for any prompts, excerpts, weights and lines of the teacher, and scripts that
may stop anywhere: `DatasetTypeCorrect`, `CleanIsLongest`, `OneRowPerPrompt`,
`OneFilePerExcerpt`. `ScanInv` says what the filter has kept of the lines it read; `CleanInv` and
`ChatInv` hand it on from file to file. A row is in one split or in a group not yet
placed (`PlaceInv`), because groups are a partition (`GroupsDisjoint`); while the three files are replaced,
those that come first are of this split and the data set counts as mixed (`WriteInv`).
`DedupedCount` is the bijection between prompts and kept lines behind --max-drop-frac.

`SplitsAreNearTarget` has the invariant that with M for the weight of a largest group, no split is
more than two thirds of M above its target, and that of the splits that were given a group none
is more than M above another (`Balanced`). A group goes to a largest deficit, the deficits sum up to
what is not placed yet (`DeficitSum`), and of three numbers with sum 0 and these bounds none is
further from 0 than two thirds of M.

**PromptBuildProofs**, for any sources, any relation `Near`, any numbers of prompts, and scripts run in
any order and killed anywhere. The invariant (`IInv`, model-checked before it was proved) rests on one observation: whatever died
in between, every version of a file is a first part of one and the same file, maybe with a torn
line at its end (`LeftOf`). For three files that is the rows of the sources (`Rows`), for the diet file what a
deduplication of all of them keeps (`Greedy`), because what is kept of the first lines depends on them
alone (`AfterAgrees`) and is never taken back (`KeptGrows`). Everything follows from it:
`DietHasNoNearDuplicates` from `KeptApart`, which compares a row with those kept before it
and needs neither symmetry nor transitivity of `Near`; `DroppedAreRepresented` from `KeptRepresents` and from what a pass 3 that
ended has written (`DietIsNew`); `PointersStayValid` because a number means the same row in every version;
`PromptsFit` because a prompt carries the row it was made of (`GoodPrompts`), and what a tag says of its ingredients (`TagSays`);
`SplitsAreFair` from `HalvesDiffer`, that of consecutive numbers half are even, give or take one.

**RunReportProofs**, for any versions of a campaign file: `ReportTypeCorrect` and `RowsAreMeasured`. The
invariant is that the table holds the metrics of what ran, all of them and no other
(`MetricInv`): no attempt runs a job twice, so nothing is ever replaced, and the key has the repeat.

`FlagsAreRereads` and `UnflaggedReadsAreFresh` count blocks. `Reads` are the units the threads read, one by one, as many
as their shares sum up to, and `Place` says where; the blocks are their places (`BlocksArePlaces`). If
the mean is more than a tenth above the region, every thread has read more than its
own (`TooMuchIsReread`), so two units have one place. If it is not, the units
each thread reads of its own region have different places, and what it reads beyond is
bounded by the slack, the ramp and `Skew` (`LittleIsReread`).

Model-checked only: the liveness properties (`UncrashedRunSettles`, `BringupConverges`,
`OrchestratorEnds`), since TLAPS reasons neither about fairness nor about `ENABLED`, and the
refuted properties of the other runs.

## 6. What is not modelled, and why

- Two harness processes on one database: the harness is used by one operator, and nothing
  in it mentions a second. Dry runs, which write nothing.
- The fio configuration renderer; the syntax of sizes (`FioTestfile` counts in the
  runner's GiB, after they were rounded down); latency percentiles, percent of the
  vendor's figures and the difference to a baseline run in a report.
- The training kits: launch scripts of an external trainer. What could go wrong between two
  hosts (the rendezvous, a checkpoint half written when it is synced) is in the trainer and in
  the layout of its checkpoints, which the repository does not hold; a model would have to
  guess both.
- check-cluster-readiness.sh: probes one after the other, without a state.
- `status` and `--install-sudoers` of lustre-cluster.sh: reading, and an interactive
  installation. Two laptops, or two commands at once.
- The content of prompts, answers and reports; floating-point metrics.
- The log file of an earlier chunk read as the new one's (a window of milliseconds).
- Installation scripts, one-off docker commands, analysis scripts: straight-line.

## 7. Plan

Done: campaign, testfile, preflight, report, Lustre cluster, source passes, prompts, teacher run,
dataset preparation, and proofs of all their safety properties. Left, in this order:

1. Sizes in bytes below the GiB the runner counts in.
2. **Readiness**: the probes of check-cluster-readiness.sh over states of `LustreCluster`.

## 8. Running

In this directory, with the TLA+ tools and the community modules:

    tlc -workers 2 -config campaign.cfg MCHarnessCampaign
    tlc -workers 2 -config testfile.cfg MCCampaignTarget
    tlapm HarnessCampaignProofs.tla
    tlapm CampaignTargetProofs.tla
    tlapm TeacherRunProofs.tla
    tlapm LustreClusterProofs.tla
    tlapm DatasetPrepProofs.tla
    tlapm RunReportProofs.tla
    tlapm PromptBuildProofs.tla
    tlapm DataInduction.tla

`PROJECT.json` lists each run's module and configuration. The passing ones take from a few
seconds to two minutes, each proof module some minutes.
