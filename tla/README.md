# DBPlanBench in TLA+

DBPlanBench optimises the physical plans of SQL queries with an LLM: it samples
JSON patches of a plan, checks that a patched plan still gives the result of the
engine's own plan, measures it, and grows a tree of patches over several steps.
This directory holds TLA+ models of the parts of that program where order,
failure and restarts matter, the TLC configurations that check them on small
instances, and TLAPS proofs of the facts that hold for every instance.

Paths below are relative to the repository. The Python package is `src/src`;
`src/datafusion_patched` is a vendored Apache DataFusion binding of which only
`src/physical_plan.rs` is this project's own code.

    tlc -workers 2 -config <run>.cfg <module>     checks a run of the table below
    tlapm <Module>Proofs.tla                      checks a module's proofs

## 1. Inventory

### Components, their state and their operations

| component | code | state | operations |
|---|---|---|---|
| optimisation call | `dbplanbench.py` `optimize_queries` 703-1101 | a run directory, see 3.1 | create a directory, resume it, give up early, return the best patches |
| sampling loop | `sampling/orchestrator.py`, `sample_plans.py`, `accumulate_samples.py`, `prepare_sampling.py` | `base_sampling.json`, `step_k/*.json`, `final_sampling.json` | prepare, rebuild, sample, evaluate, accumulate, top up |
| evaluation pool | `sampling/evaluate_sampled_plans.py`, `modal_controller/utils.py` 487-559 | futures in flight, samples judged | judge at once, submit, harvest, write |
| result-set validation | `modal_controller/utils.py` 90-211 | the baseline, the first candidate, what has arrived | submit runs, compare an answer, refute early, cancel |
| operation submission | `modal_controller/utils.py` 219-386, `constants.py` | a semaphore, a rate gate, cached runners | acquire, run, fetch, retry, give up |
| local data cache | `dbplanbench_utils.py` 80-157 | a folder, a lock file, temporary directories | check, lock, generate, rename, unlock |
| LLM plan optimizer | `sampling/gpt_plan_optimizer.py` | none | ask, retry with back-off, parse |
| patches | `sampling/utils.py` | none | apply a list of JSON patches, diff two plans |
| query generation | `query_gen/*.py`, `dbplanbench.py` 43-148 | `generate_config.json`, `outcome_k.json`, `final_queries.json` | generate, validate, deduplicate, accept, resume |
| plan transfer | `sampling/plan_scaler.py` | none (a function of two plans and a patch) | match scans, renumber nodes, rewrite references, validate |
| succinct plans | `physical_plan.rs` | none | flatten a plan to numbered nodes, detect cycles, rebuild the tree |
| benchmarks, engine plans, scaling, validation API | `dbplanbench.py` 1104-1953 | futures and lists of answers within a call, the runner cache between calls | plan, validate, transfer, benchmark, put answers in order |
| database operations, local runner, data generation | `modal_controller/operations`, `local_runner.py`, `db_base.py`, `generate_benchmark_data.py` | processes, containers, parquet files | run one engine call, write the tables |
| result types | `dbplanbench_types.py` | none | data classes and their JSON form |

### How they interact

`optimize_queries` plans and measures the base plans, then calls the sampling
loop. A step of the loop is three calls that talk through files only:
`sample_plans_from_file` reads `final_sampling.json` and writes the LLM's answers
to `sampled_plans.json`; `evaluate_sampled_plans` reads that and writes
`evaluated_sampled_plans.json`; `accumulate_samples` merges it into
`final_sampling.json`. The evaluation runs a pool of threads; each thread runs a
validation and then a benchmark; each of those runs its own executor of threads,
and all of them submit operations through one process-wide semaphore. Local
operations first call `ensure_local_data`, from any number of processes.

What `optimize_queries` found at one scale factor goes to another with
`scale_optimizations`: it plans the queries there (`get_engine_plans`), transfers
the base plan and each patch (`transfer_plan`), validates what comes out, and
returns patches that `benchmark_plans` measures. All plans travel in the exchange
format of `physical_plan.rs`: the engine writes numbered nodes, Python edits them,
the engine builds a plan from what it gets.

### What is hard in it, and what makes it correct

* **Restarts.** The run directory is the only memory. A call may be killed
  between two writes or in the middle of one (`write_json` truncates in place),
  and may be resumed with another `n_steps`. Correct: the tree stays a tree, a
  node's patch chain is the plan that was measured for it, no sample is lost or
  counted twice, no later call answers worse, nothing is paid for twice.
* **Order of answers.** A validation compares answers as they arrive. Correct:
  the verdict depends on the answers, not on their order.
* **Work left behind.** A refuted validation returns while its other operations
  run on. Correct: permits come back, the pool finishes, nothing overlaps that
  should not.
* **Nothing twice.** Queries are collected over steps and resumes; what a killed
  call had seen is gone. Correct: kept queries stay, none is kept twice, and what
  is returned is what was asked for.
* **Partial failure.** Every operation may fail once, always or by exception.
  Correct: a sample gets exactly one verdict, whatever failed; what is returned
  stays aligned with what was given when some of it fails.
* **Numbers as references.** A plan is a graph of numbered nodes; nodes and scans
  share the numbers, and a transfer has to move some of them. Correct: no two
  nodes meet, and every reference still means the node it meant.
* **Processes side by side.** Several calls need the same data folder. Correct:
  whoever returns sees complete data; the lock makes one of them generate it.

`PROJECT.json` lists each hazard at its line with the properties that cover it.

## 2. The plan

| order | module | what it adds | state |
|---|---|---|---|
| 1 | `SampleTree` | the tree of one query and its pure functions | done |
| 2 | `SamplingRun` | the run directory over several calls, on `SampleTree` | done |
| 3 | `ExperimentLog` | the abstract specification `SamplingRun` implements | done |
| 4 | `SampleTreeProofs`, `SamplingRunProofs` | facts for every bound | done, see 6 |
| 5 | `LocalData`, `LocalDataProofs` | the lock around the data folder | done |
| 6 | `SubmitOperation`, `EvaluateSamples`, `EvaluateSamplesProofs` | the evaluation behind one step of `SamplingRun` | done |
| 7 | `QueryGen`, `QueryGenProofs`, `CountingProofs` | `run_query_generation`: its files, kills, resumes, deduplication | done |
| 8 | `PlanFormat`, `PlanTransfer`, `PlanTransferProofs` | the exchange format both ways; patches, scan pairing, renumbering, references | done |
| 9 | `PlanApi`, `MCPlanApi`, `PlanApiProofs` | the calls that fan out over queries and patches, composed with 8 | done |
| 10 | composition | `EvaluateSamples` shown to implement the one step `EvaluatePlans` that `SamplingRun` takes for it | not done |
| 11 | proofs | the lineage of a plan | done, see 6 |
| 12 | proofs | the refinement of `ExperimentLog` | done, see 6 |
| 13 | proofs | the renumbering, and that a scaled plan is the optimised plan | done, see 6 |

The order is that of what a wrong answer costs: a corrupted tree returns plans
nobody validated; a wrong verdict puts a wrong plan into the tree; a wrong data
folder makes every measurement meaningless; the rest loses time or work, but for
a wrong transfer, which yields a plan that runs and is another one.

## 3. The models and the code

### 3.1 SampleTree and SamplingRun

`SampleTree` translates the functions on `sampled_plans`, the list of nodes of
one query. A plan is the sequence of the patches applied to the base plan and a
patch is named by the step file and the position it is written at, so "which plan is
this" is answered exactly while what a patch does is left out. The root's
`sample_id` is `None` in the file and 0 in the model, as `accumulate_samples`
itself reads it. `built` and `src` are history fields: what was validated and
timed for a node, and which sample it came from. `get_upstream_patches` is
`Walk`, `UpstreamPatches`; `get_base_plans_for_sampling` is `Candidates`,
`Ranked`, `BasePlans`; `_select_strategy` is `SelectStrategy`;
`accumulate_samples` is `AccumulateSamples` with `NewSampleId`, `NodeOf`, `Aged`.

`SamplingRun` keeps one variable per file of the run directory (`curated`,
`base`, `sampled[k]`, `evaluated[k]`, `final`, `result`), each absent, torn or
readable, and one call in progress (`pc`, `run`).

| action | code |
|---|---|
| `StartFresh`, `StartResume` | the two ways into `optimize_queries`, with the checks on the directory and the configuration |
| `EarlyExit` | `_build_early_exit_result` |
| `Curate` | `_evaluate_and_curate_base_plans` |
| `PrepareSampling` | `prepare_sampling` |
| `Restore`, `Replay` | the rebuild at the head of `run_sampling_steps` |
| `SamplePlans`, `EvaluatePlans`, `AccumulateStep` | `_run_step` |
| `TopUp` | the top-up of `best_of` after the step loop |
| `ProcessResults` | `_process_sampling_results` and the write of `result.json` |
| `Crash` | the process is killed |

An action is the code between two file writes, so `Crash` between actions is a
kill between two writes; with `AllowTorn` each write may also leave a truncated
file. What the LLM answers, which plans are valid and how fast they are is
nondeterministic. A parent walk that cycles leaves the call in `pc = "hung"`.

### 3.2 ExperimentLog

The promise of a run directory, for one query: steps are appended once and in
order, and each published answer is the best metric of the base plan and of all
steps logged. `SamplingRun!IsExperimentLog` is the refinement, with
`LoggedSteps` (the steps in the tree, in the order of their first samples, each with
the best metric measured in it) and `PublishedMetric` as the mapping. Run
`sampling_growth` checks it, and `ImplementsExperimentLog` proves it for every bound.

### 3.3 SubmitOperation and EvaluateSamples

`SubmitOperation` is one `submit_run_operation`: `Acquire` takes a permit of
`_SANDBOX_SEM`, `RunAttempt` is the sandbox and the end of the `with` block,
`Fetch` reads the result from S3 without the permit, `RunLocal` is `exec_local`;
`Retried` is the retry decision by error class and attempt. The back-off and the
rate gate only delay a start and are left out here.

`EvaluateSamples` extends it with the threads above: the main thread
(`JudgeAtOnce`, `Submit`, `AllSubmitted`, `Harvest`, `Write`) and one worker per
sample in work (`StartValidation`, `TakeAnswer`, `FinishEvaluation`), whose
executors start operations with `StartOp`. `TakeAnswer` is one turn of the
`as_completed` loop with all its consequences: refute and cancel, go on, or
submit the benchmark. A result set is a model value; two are compared for
equality only, as `compare_result_sets` decides. The order in which the main
thread visits the samples is random in the code and free in the model.

### 3.4 LocalData

One variable for the folder, one for the owner of the `flock`, and per call its
place in `ensure_local_data` and its temporary directory. `platform` says
whether `fcntl` exists; without it `_file_lock` does nothing. `Kill` may take a
call anywhere: its files stay, the kernel drops its lock.

### 3.5 QueryGen

One variable per file of the run directory (`config`, `outcomes[k]`, `final`)
and one call in progress. An outcome is reduced to the number of queries it
generated; a kept query remembers its text, its level and, as history, the
configuration it was collected for.

| action | code (`query_gen/orchestrator.py`) |
|---|---|
| `Start` | the configuration is read, compared and written (88-112) |
| `ClearOutcome`, `ClearFinal` | `resume=False` removes the old outputs, one by one (115-120) |
| `Load` | what was accepted, the next step, the totals; a complete directory is returned (122-250) |
| `Generate` | one batch, its validation and deduplication, `outcome_k.json` (252-352) |
| `Accept` | the choice per level, `final_queries.json`, and how to go on (356-420) |
| `GiveUp` | the steps are used up, or a validation raises (253-254) |
| `Crash` | the process is killed |

`AllocateTargets` is `_allocate_targets`, in whole numbers: a share's fraction is
a remainder, and of equal ones the first level wins. `ValidBatches` is what
`validate_queries` can find valid: the order in which its workers answer decides
which of two equal texts is the duplicate, so each text may be valid at any
level. `oversample_cap` is a whole number in the model, and `1.5 ** (step - 1)` the
quotient of two powers, which `Power` computes by a recursive function.

### 3.6 PlanFormat and PlanTransfer

`PlanFormat` is the part of `physical_plan.rs` that is this project's own. A plan
of the engine is the sequence of its nodes as `plan.apply` visits them; a node is
a label and its children. The label has `op`, the operator and its details; `reads`,
what a scan reads beyond that, that is the table of its files, the limit and the
ordering; `keys`, the fields its children are in; and `sf`, the data set of a scan. The
`op` of a scan is what the transfer compares of it. `ToSuccinct` is
`execution_plan_to_succinct_json` with `PopulateChildIds` for the fields; `FromSuccinct` is
`execution_plan_from_succinct_json`: `IsAcyclic`, `RootId` in the string order
of the ids, and `BuildTree`, where `Accepts` is what the engine's own
deserialization makes of the fields. `tables` are the scans of the `full_table_info`;
`Compacted(tables)` is the `succinct_table_info`, the same scans as
`compact_parquet_scan_stats` leaves them: without their options, columns and
statistics rewritten, and no longer something the engine deserializes.

`PlanTransfer` is `transfer_plan`, which is given the succinct form of scans only:
`ApplyPatch`; `PairScans` (scans of one signature, in the order of their ids) for the
scans of the plan and `RebindScans` for scans a patch has put among the nodes, which
become compacted scans of the target. The `Signature` is the columns, the projection,
the constraints and the predicate, and the form they are written in: it does not tell
two tables, limits or orderings apart. `ReadsInOrder` is what pairing by order relies
on and the code does not check: the k-th scan of a signature reads the same in both
plans. Then `TopoOrder` and `AssignNewNodeIds` (keep the number if it is free, else
take the lowest free one); `RewriteReferences`; and the check that no reference dangles. A patch works on whole nodes: an
operation on a field of a node is the `replace` of that node.

### 3.7 PlanApi

`PlanApi` is one call of `get_engine_plans`, `benchmark_queries`,
`scale_optimizations` (followed by `benchmark_plans` of what it returned, which is
how its result is used) or `validate_queries`. `futures` are those of the current executor, and the runner cache
of the process may hold a runner an earlier call left.

| action | code (`dbplanbench.py`) |
|---|---|
| `StartWorker` | the `ThreadPoolExecutor`: futures are taken up as submitted, `max_workers` at a time |
| `PlanQuery`, `ValidateQuery` | `_plan_worker` (1310-1327), `_worker` (1906-1921), with `_get_runner` |
| `TransferBase`, `TransferPatch` | `_process_query` (1615-1754): the base plan, then one turn of the loop over the patches |
| `Benchmark` | `worker` of `benchmark_plans` (1202-1224) |
| `TakeFuture` | one turn of an `as_completed` loop (1234-1238, 1334-1337, 1763-1764, 1930-1933) |
| `StartTransfer`, `StartBenchmark`, `Return` | from one phase to the next, and the results put in order |
| `RaiseOut` | `future.result()` raises; the executor still waits for its workers |

What the engine answers is nondeterministic: a plan, an error, none, or an
exception; a verdict is free for plans that can be built and a refusal for others.

## 4. What the runs check

| run | bounds | what it shows |
|---|---|---|
| `sampling_growth` | 1 query, 2 steps, 2 samples a step, 3 calls without kills | leaf and last flags, no step lost, returned plans were measured, refinement of `ExperimentLog` |
| `sampling_crash` | 3 steps, 1 sample, 4 calls, kills and torn writes, `n_steps` not lowered | ids are positions, completed steps are contiguous and written once, parents precede, lineage, no parent walk spins, nothing counted twice, no answer gets worse |
| `sampling_topup` | `best_of`, 2 queries, 1 or 2 samples, 4 calls | types; every query reaches its target, counting the first is enough |
| `local_data` | 3 calls, both platforms, kills, failures, fairness | complete data, one generation, a permanent folder, every call ends |
| `eval_verdicts` | 2 samples of all kinds, 3 validation and 2 benchmark runs, 2 permits, both backends | every verdict is exact, no permit is lost |
| `eval_pool` | 3 samples over 1 worker (2 in flight), 1 permit, both backends, fairness | every future is awaited or recorded, the call returns, all permits come back |
| `query_gen` | 3 texts, 2 levels, 2 configurations, 3 steps, 3 calls, kills and torn writes | what is returned was asked for, nothing twice, kept queries stay and are of their configuration, generated queries are counted once, a batch asks for what is missing |
| `plan_api` | 1 to 3 queries of 0 to 2 patches, 2 workers, 11 plan shapes of up to 5 nodes, scaling from each shape to each with every one-node change, patches that fail in every way; deadlock is checked | plans survive the exchange format, a transferred patch gives the same optimised plan (up to what scans of one signature read, and altogether if they come in the same order), nodes and scans keep apart, what is returned is aligned with what was given, the call ends |

Four runs show where the code does not do what its own documentation says; the
findings in `PROJECT.json` quote the lines.

| run | behaviour |
|---|---|
| `sampling_lost_step` | a kill between `evaluated_sampled_plans.json` and `accumulate_samples`: the resume takes the step for completed and never merges it |
| `sampling_counted_twice` | a `best_of` call completes step 1 and then tops up into step 1 again, as `max_completed` was read before the loop: the samples are merged twice |
| `sampling_hangs` | `n_steps` lowered, a kill, `n_steps` raised: a stale `sampled_plans.json` names a parent of the dropped tree, a node becomes its own ancestor, and `get_upstream_patches` does not end |
| `eval_local_overlap` | `exec_local` with one worker: the execution a refuted validation left behind runs beside the next sample's timed run |

These four set the assumptions of the passing runs: `sampling_growth` excludes
kills, where steps are lost; `sampling_crash` does not lower `n_steps`;
`NothingCountedTwice` is checked for the evolutionary strategies under kills;
for `best_of` `sampling_counted_twice` refutes it. `IdsArePositions`, `CompletedStepsContiguous` and
`StepFilesWrittenOnce` need none of these assumptions: the proofs in 6 cover
lowered `n_steps` too.

### Why the bounds are enough

A parent walk of length three shows every shape of chain (valid over invalid over
valid), which three steps give. A second sample in a step is needed for ranking,
ties and for two children of one parent. A call interacts with earlier ones only
through the files, and each fault found needs at most three calls; four leave
room for one more. Two metrics around the base metric separate better, worse and
not measured. Three validation runs are the least with a baseline, a first
candidate and a later one, in all orders; two benchmark runs give the partly
failed evaluation; three samples over a pool of two in flight make the main thread
block with one more to come. One retry shows both sides of each error class.
Three concurrent calls give a holder, a waiter and one that has not looked yet.
For `QueryGen`, three texts for targets of two or three queries make duplicates
and batches that fall short unavoidable, targets of 1 + 2 make shares that do not
divide, three steps reach `oversample_cap`, and three calls are one that is
killed, one that is killed after it and one that finishes.
For `PlanApi`, plans of up to five nodes have every kind of child field, a scan
used twice, a repartition above either side, and ids that the other plan uses for
a scan, so that nodes have to move; ids up to 12 separate the order of numbers from
that of strings; a patch is every one-node change of the source plan (sides
swapped, a node put in or taken out, a scan embedded in its full or its compacted
form) plus the ten of `FailingInputs`. Three shapes have two scans of one signature
that read different things, in the one order and in the other, so that the transfer
does exchange them: without the condition `ScansInOrder` TLC finds
`ScaledPlanIsOptimized` violated. Two workers over three queries give every order of answers and one
query that waits.
`MaxSessions` and `MaxSteps` bound the histories of `SamplingRun`; the proofs in 6
hold without these bounds.

### Fairness

`SamplingRun!FairSpec` has weak fairness of `CallStep`: a call is one sequential
program and every action of it is enabled until it ends; kills and new calls are
not fair. `LocalData!FairSpec` has weak fairness of each call's steps; a wait in
`flock` is a wait for a call that runs on or is killed, and generation ends.
`EvaluateSamples!FairSpec` has weak fairness of `Next` as a whole only: some
thread that can go on does. That is enough because every retry is counted and a
sandbox ends at the latest by its timeout (`sandbox_timeout`).

`QueryGen` states no liveness: a call that is not killed ends because its steps
are numbered and bounded, which the shape of its loop already says.

Liveness is checked where a call could wait or spin: `EveryCallEnds` (the lock),
`PoolFinishes` (the pool and the semaphore), and `CallReturns`, which
`sampling_hangs` refutes. At the larger bounds of `sampling_crash` the safety
property `WalksEnd` stands in for `CallReturns`: the parent walk is the only loop
of a call that is not numbered, so a call that does not spin in one ends.

Deadlock is checked in `plan_api`, whose only step after the end is `Terminated`:
the calls that fan out never wait for a worker that waits for them. The other
models stop when their calls have ended or their bound is reached; there
`EveryCallEnds` and `PoolFinishes` say that nothing is stuck before.

## 5. Behaviours outside the properties

Some behaviours are modelled, deliberate or undocumented in the code, and worth
knowing; no property calls them wrong.

* A topped-up `best_of` run that is resumed once more rebuilds from
  `n_steps = 1` only: the earlier top-up leaves the tree, and the missing samples
  are drawn again (`orchestrator.py` 151-153, 222-233).
* A first call that is killed before `result.json` exists leaves a directory
  that neither a fresh nor a resumed call accepts (`dbplanbench.py` 889-904).
* A resume with fewer steps than are completed rebuilds the tree without the
  later ones; a following resume with more steps does not replay them, as
  `final_sampling.json` exists (`orchestrator.py` 151-169).
* An error of the class `RETRY_ONLY_ONCE` that first appears at a second or later
  attempt gets no retry at all (`utils.py` 376).
* With `n_determinism_retries = 0` a validation compares nothing and accepts
  every plan that the engine's own plan runs for (`utils.py` 118).
* `resume=False` over a directory of another configuration writes the new one
  first and removes the old outputs afterwards. Killed in between, the directory
  holds queries of the old configuration under the new one, and a resume goes on
  with them; `FinalOfConfig` assumes that this kill does not happen
  (`AllowKilledRestart`; `query_gen/orchestrator.py` 110-120).
* A torn `generate_config.json` makes every later call raise, a torn
  `final_queries.json` every resume; a torn `outcome_k.json` counts as a step.
* `seen_queries` also grows by queries that were valid and not accepted, for the
  rest of the call; its docstring says accepted ones (`query_validator.py` 191).
* A `best_of` call that is killed after it has sampled leaves samples that a later
  resume uses as they are, also if that one asks for more: the call ends below
  `n_samples_per_step`, which `TopUpReachesTarget`, checked without kills, excludes
  (`orchestrator.py` 179, 222-233).
* A `UNION ALL` of two inputs goes out with its inputs in an array and comes back
  with "left" and "right", from which no engine plan can be built
  (`physical_plan.rs` 722): `EnginePlansRoundTrip` says that there is then no plan, and
  never another one.
* The root of a succinct plan is the first of its nodes without a parent, in the
  string order of the ids: an orphan "17" goes before the root "5".
* Scans of the two scales are paired by a signature without their files, limit and
  ordering (`plan_scaler.py` 229-259), and among those of one signature in the order of
  their ids (297). Two scans with the same columns, projection, constraints and
  predicate, of which one has another limit or table, change places if the engine plans
  them in another order at the target scale, and the transferred plan reads something
  else. `ScaledPlanIsOptimized` says that nothing else can change, and that nothing does
  if the order is the same (`ScansInOrder`); otherwise the comparison of results is all
  that guards the plan, and `skip_validation` turns that off.
* A scan that a patch puts among the nodes in its compacted form comes out as a
  compacted scan of the target (`plan_scaler.py` 510-526), paired by its place among
  the embedded scans only. The engine builds a plan of neither, although `transfer_plan`
  says that the structure is "runnable against the SF2 dataset" (588-589). In its full form
  it has another signature than any scan of the `succinct_table_info`, and the transfer
  fails.
* A reference that already dangles in a patched plan may, after the renumbering,
  be the number of a scan of the other scale. Only the validation stands between
  such a plan and the result; `ScaledPlanIsOptimized` is about patches without one.
* A plan that is a single scan has no node in the exchange format. Transferred to a
  plan with several scans, which keeps them all, it is rebuilt as the first of them
  (`plan_scaler.py` 674-701, `physical_plan.rs` 634); again only the validation stands between.
* A patch that puts a node at an id that a scan of the plan has is read in one way
  by the engine (a node) and in another by the transfer (the scan).
* `benchmark_queries` documents that planning failures are recorded and not raised
  (`dbplanbench.py` 1367). That is so for errors the engine answers; an exception in a
  planning worker, say of a runner that cannot be made, is raised by
  `future.result()` (1335) and takes the plans of the other queries with it.
* A query whose base plan cannot be scaled comes back as the one patch `None`
  beside the unscaled plan.
* The table in `src/src/README.md` (357) says that `generate_queries` returns
  fewer queries than requested when it fails; the code raises `RuntimeError`
  (`query_gen/orchestrator.py` 254, 406) and leaves them in
  `final_queries.json`.

## 6. What is proved

All proofs are for every value of the constants that the modules' assumptions
allow (`SamplingRunAssumption`, `LocalDataAssumption`,
`SubmitOperationAssumption`, `EvaluateSamplesAssumption`, `QueryGenAssumption`,
`PlanApiAssumption`: counts are positive naturals, enumerations are subsets of the code's names, error
marks are no results, texts and levels are finitely many, a plan of the engine is
visited from its root on, each other node after one it is a child of, and has as many
children as the fields of its operator take (`IsVisit`, `HasKids`), and a patch is any
finite list of operations on nodes with a label and references, to whatever numbers
(`IsPatch`)). `FinalOfConfigHolds` and
`GeneratedCountedHolds` further assume
`AllowKilledRestart = FALSE`, see 5; the theorems marked * assume
`AllowLowering = FALSE`, those marked ** that `best_of` is not among the strategies,
those marked *** `AllowCrash = AllowTorn = FALSE`, those marked **** only
`AllowCrash = FALSE`, see below. Nothing else is assumed.

| theorem | module | property |
|---|---|---|
| `AccumulateKeepsTree` | `SampleTreeProofs` | accumulating samples keeps the root first and ids equal to positions |
| `IdsArePositionsHolds` | `SamplingRunProofs` | `IdsArePositions` |
| `CompletedStepsContiguousHolds` | `SamplingRunProofs` | `CompletedStepsContiguous` |
| `StepFilesWrittenOnceHolds` | `SamplingRunProofs` | `StepFilesWrittenOnce` |
| `QueriesInStepHolds` | `SamplingRunProofs` | `QueriesInStep` |
| `TypeOKHolds` * | `SamplingRunProofs` | `TypeOK` |
| `ParentsPrecedeHolds` * | `SamplingRunProofs` | `ParentsPrecede` |
| `LineageFaithfulHolds` * | `SamplingRunProofs` | `LineageFaithful` |
| `LeafIsChildlessHolds` * | `SamplingRunProofs` | `LeafIsChildless` |
| `WalksEndHolds` * | `SamplingRunProofs` | `WalksEnd` |
| `ReturnedPlanWasMeasuredHolds` * | `SamplingRunProofs` | `ReturnedPlanWasMeasured` |
| `NothingCountedTwiceHolds` ** | `SamplingRunProofs` | `NothingCountedTwice` |
| `LastIsLatestStepHolds` ** | `SamplingRunProofs` | `LastIsLatestStep` |
| `ResumeNeverRegressesHolds` *, ** | `SamplingRunProofs` | `ResumeNeverRegresses` |
| `CompletedStepsKeptHolds` *, **, *** | `SamplingRunProofs` | `CompletedStepsKept` |
| `TopUpReachesTargetHolds` **** | `SamplingRunProofs` | `TopUpReachesTarget` |
| `ImplementsExperimentLog` *, **, *** | `SamplingRunProofs` | `IsExperimentLog` |
| `ReturnedMeansCompleteHolds` | `LocalDataProofs` | `ReturnedMeansComplete` |
| `NoWastedGenerationHolds` | `LocalDataProofs` | `NoWastedGeneration` |
| `FolderIsPermanentHolds` | `LocalDataProofs` | `FolderIsPermanent` |
| `TypeOKHolds` | `LocalDataProofs` | `TypeOK` |
| `VerdictExactHolds` | `EvaluateSamplesProofs` | `VerdictExact` |
| `PermitsBalancedHolds` | `EvaluateSamplesProofs` | `PermitsBalanced` |
| `JudgedOnceHolds` | `EvaluateSamplesProofs` | `JudgedOnce` |
| `TypeOKHolds` | `EvaluateSamplesProofs` | `TypeOK` |
| `NoTextTwiceHolds` | `QueryGenProofs` | `NoTextTwice` |
| `AcceptedIsKeptHolds` | `QueryGenProofs` | `AcceptedIsKept` |
| `OutcomesWrittenOnceHolds` | `QueryGenProofs` | `OutcomesWrittenOnce` |
| `FinalOfConfigHolds` | `QueryGenProofs` | `FinalOfConfig` |
| `TypeOKHolds` | `QueryGenProofs` | `TypeOK` |
| `ReturnedAsAskedHolds` | `QueryGenProofs` | `ReturnedAsAsked` |
| `RequestCoversHolds` | `QueryGenProofs` | `RequestCovers` |
| `GeneratedCountedHolds` | `QueryGenProofs` | `GeneratedCounted` |
| `ScansPairOneToOne` | `PlanTransferProofs` | pairing scans by signature and rank pairs each with one of its signature and its place among them, one to one; with one that reads the same if `ReadsInOrder` |
| `NumberingKept` | `PlanTransferProofs` | one more new number keeps the numbering one to one and off the scan ids |
| `NodesKeepTheirContent` | `PlanTransferProofs` | under a one-to-one numbering each node comes out once, with its label and its references mapped |
| `EveryNodeNumbered` | `PlanTransferProofs` | whatever nodes there are and however they refer to each other, the renumbering gives each a number of its own, none of a scan |
| `TypeOKHolds` | `PlanApiProofs` | `TypeOK` |
| `PlannedForItsQuery` | `PlanApiProofs` | a plan from the engine is that of its query at the scale asked for, whoever filled the runner cache |
| `ScaledPatchesAlignedHolds` | `PlanApiProofs` | `ScaledPatchesAligned` |
| `ResultsAlignedHolds` | `PlanApiProofs` | `ResultsAligned` |
| `RoundTrip` | `PlanTransferProofs` | a plan of the engine is rebuilt from the exchange format as it was, or not at all |
| `EnginePlansRoundTripHolds` | `PlanApiProofs` | `EnginePlansRoundTrip` |
| `NodesStayApartHolds` | `PlanApiProofs` | `NodesStayApart` |
| `ScaledPlanIsOptimizedHolds` | `PlanApiProofs` | `ScaledPlanIsOptimized` |

**SamplingRun.** The properties speak of files, but whether a step file can be
written twice depends on where the call is and what it read when it started. The
inductive invariant is `CallInv` (locals and which files exist at each `pc`), `FilesInv`
(every tree in every file is numbered by position), `StepsInv` (completed steps
are a prefix, and each call adds at most one step past `MaxSteps`, its top-up) and
`FreshInv` (a call that creates the directory has no step file ahead of it, which
is why it may write without looking). Each action is one lemma.

What the tree says of a plan needs a second invariant, `TInv`: the trees are `Sound`
(the root first, parents before children, the chain of every valid node the one that
was validated, leaves marked) and every sample on disk still `Fits` the tree: its
parent is there, and the patches and stats it was drawn with are still those the
walk from its parent gives. A kill between evaluating and accumulating, or a rebuild
from the base state, then adds nodes to a tree that means the same. What can break it is a
tree that shrinks under samples drawn from it. A resume with fewer steps than are
completed does that, and run `sampling_hangs` shows the outcome, so the theorems assume
`AllowLowering = FALSE`; with it, `HistoryInv` shows that a rebuild reaches every step
that samples could come from, and that the samples of a `best_of` directory, which may
have a step past the rebuild, have the root for parent. Under `TInv` lie the
facts of `SampleTreeProofs` about what the walk computes: iterating a step that goes
down in the tree ends at the root (`WalkEnds`), the walk of a node is that of its parent
with the node in front (`WalkOfParent`), so `UpstreamPatches` is the parent's
chain and the node's own patch (`UpstreamIs`), and neither changes when samples are
added (`UpstreamKept`). `EvenInv`, the third one, needs no condition: all queries have
trees of one shape, so that they have as many seeds in every step.

`OriginInv` says where nodes come from: the samples of a step file carry its step and
their place in it, and the trees hold samples of the steps behind the call only, each
once. So whatever is merged next, replayed or new, is new to the tree, and only it is
last. The top-up of `best_of` is the one merge for which this fails (run
`sampling_counted_twice`), hence the condition **. `MeasuredInv` traces what a call
returns back to the step files: every valid node is a recorded sample that was found
valid, with its built plan and metric (`Sourced`), the chain of a node holds patches of
such samples only (`ChainSourced`, by induction on positions, a parent being
earlier), and ranking lists exactly the candidates (`RankedRange`). As step files are
written once (`WrittenOnce`), what was recorded stays recorded, also for a result
of an earlier call.

`OfferInv` says that the metric a result gives for a query is still that of a node the
tree may rank (`Ranks`). Merging only adds nodes, so it can be lost by a rebuild alone;
a directory with a result is rebuilt only if fewer steps are asked for than are
completed, and a topped-up `best_of` directory always is (see 5), hence both conditions.
As the first node ranked is beaten by none (`RankedBest`), the next result is no worse,
also after kills. `KeptInv` says that a completed step is in the tree
or is about to be accumulated by the call at hand. It needs that no call is killed
between the two (run `sampling_lost_step` shows the loss), and that each step leaves a
node, that is, that each draws a sample: some node is always last (`SomeLast`), so each
strategy in use finds a seed (`BasePlansSome`).

`SupplyInv` is about the calls that the conditions ** leave out, the top-ups: what a
resumed `best_of` call counts as missing is what it draws, evaluates and merges. That
holds as the step it draws them in has no samples of an earlier call: samples that are
on disk were evaluated (`PairedInv`), and the top-up goes to the step after the last
evaluated one. A kill between the two breaks it (see 5); a torn write does not, as the
call that finds it raises.

The refinement of `ExperimentLog` adds `LoggedInv` to these: in the tree come the root, then
the steps by number, each with its first sample, up to the last completed one
(or, while a step is under way, the one before it). So the log is a list without gaps
(`LogOfIs`), and each action is one step of the abstract specification or none:
`AccumulateStep` appends the entry of its step and leaves the others as they are
(`StepBestKept`), `Restore` copies the base state only over a log that is empty, and
`Replay` never runs, as `KeptInv` says. What is published is the best of the log
(`AnswerIsBest`): every candidate that is ranked belongs to a step, and every entry of
the log but 0 is the metric of a candidate. That a valid sample has a metric at all is
`TimedInv`; a sample with an empty patch takes that of the plan it was drawn from. A
partial `result.json` cannot replace an answer, since a call writes one only before there is
a base state. A kill may leave a step out of the log (run `sampling_lost_step`), and a
call with fewer steps than are completed takes entries back (as run `sampling_hangs` does).

**LocalData.** `LockHeld` (who is past the lock owns it), `StillAbsent` (who
generates found no folder), `Generated` (what is renamed is complete) and
`FolderSeen` (who is about to return found or made the folder). The last one
needs no lock: that is why data is complete on platforms without `fcntl` too.

**EvaluateSamples.** `VerdictExact` is about the end. `ValidationInv` says what
the locals of a validation know in between: the baseline seen is the baseline's
answer, every candidate seen equals the first one, and that equals the baseline
if both are there. From it `LastAnswer` concludes that all runs agree whichever
came last, and `RefutingAnswer` that a refutation is witnessed by two answers that
differ or one that failed. `Frame` says that an answer never changes, so what
operations left behind do later disturbs no verdict. `MainInv` keeps futures and
verdicts in step, and `PermitsInv` counts the sandboxes by cardinality.

**QueryGen.** `KeptInv` says that what a call has accepted is what the file holds
if it can be read; a write therefore extends it. `DistinctInv` puts the accepted
texts among those seen and keeps those of a pending batch apart from them, which
is what a resume, whose set of seen texts is rebuilt, needs. `OutcomesInv` says
that the step of a call is behind every outcome, which rests on the maximum of
the step numbers. `ConfigInv` is `FinalOfConfig` with the queries
held in memory.

The counts rest on `CountingProofs`: a fold of `+` over a finite set is a sum that
can be taken apart at any element (`SumRemove`: the fold is a choice of some
iteration, and every order of adding up gives the same, `AddsUpOnce`), so sums can
be compared, split and scaled, and numbering places in an order leaves exactly k
elements among the first k (`FirstPlaces`). `Allocated` applies this to largest
remainders: what rounding loses is less than the number of levels with a remainder, so the
shares add up to the total, each is at least its floor, and a weight of zero gets
nothing. From it `FullIsExact`: a list that is within every target and as long as
their total meets each; and `RequestsCover`: as `NeedN` is at least what is missing
in all (`NeedCovers`), so is every share of it at least what is missing of its level.
`QInv` carries `Fits` through the calls, with the fact that a call which goes
on lacks queries (`LacksInv`). `TotalInv` says that the total of a call is the sum
over the outcomes before its step, and that of `final_queries.json` the sum up to an
outcome that is there: the next outcome is written behind it and leaves its sum alone.
A restart that is killed while it clears removes outcomes under the file, hence the
condition.

**PlanTransfer.** `Ascending` lists a set of numbers by rank; the lemmas on ranks
(two elements have different ones, each below the cardinality is taken) make the
pairing of scans one to one. `NewIdIsFree` says that the number `assign_new_node_ids`
gives is neither a scan id nor given out before, whichever way it was found;
`NumberingKept` is the induction step of its loop. From a one-to-one numbering
`NodesKeepTheirContent` concludes that rewriting loses and merges no node.

The loop runs over what the depth-first search lists, so it must list every node, and
none twice, or a node would be lost or numbered anew. The search is a recursive function
on what is visited so far whose recursion goes through a fold; `DfsExists` puts it together
from the states in which most is visited, as entering a node leaves fewer to visit
(`LeftShrinks`). `DfsLists` is its invariant: what is visited is listed once,
but for the nodes the search is still in, also on a graph with circles. As it is
started from every node, `TopoOrderLists` follows, and from it and `NumberingKept`
`EveryNodeNumbered`. A fold of the community modules is a choice of a function over
sets of positions; `FoldExists` and `FoldSteps` turn it into the steps of a loop, for
the patches as well (`PatchSteps`).

That two plans are the same but for their numbers is `Embeds`: a map of nodes to nodes
and of scans to scans that follows references, leaves no node out and joins no two
(`Renumbers`), and that keeps labels (`SameLabels`; compacted scans among the nodes only
have to be that, as the engine builds none of them). The second plan may have more scans.
`EmbeddedPlan` concludes that
both are rebuilt as the same tree, or as none: the circle check passes for both
(`EmbeddedAcyclic`, by the levels it goes through; `LevelsEnough` says that it goes
through enough of them), a single root goes to the single root (`EmbeddedRoots`), and every
node is built as the node it goes to (`EmbeddedBuild`).

`RoundTrip` rests on the order of `plan.apply`: children come later. So what is
written refers upwards only, which leaves no cycle (`SuccinctAcyclic`) and no node
without a parent before number 0, which is the first in the order of strings too
(`SuccinctRoot`); and the functions by which `TreeOf` and `BuildTree` are
defined exist, as they can be put together from the last node on (`TreesExist`) or
level by level (`AcyclicBuilds`, for any plan without a circle). By the same descent each node is rebuilt as its tree, unless it or one
below it has lost its children; every node being below the root, one loss leaves
no plan.

**PlanApi.** `ControlInv` ties the phase to the futures there are; `RunnersInv` says
that a cached runner is one of the scale it is filed under, and `PlannedInv` that
each plan is what its query gives at that scale; both hold in any order of answers.
`ScaledInv` follows `_process_query` through its loop: what is appended so far is as long
as the patches gone through. `ResultsInv` says of every measurement taken where it
goes, which makes the list at the end full and in order. `EnginePlansRoundTrip`
is `PlannedInv` and `RoundTrip` taken together: the scale changes the data of scans only, so
what a call holds is a plan of the engine in the sense of `IsVisit` (`AtScaleIs`).

What is measured of a scaled plan is a patch applied to a base, both computed by a worker
some phases earlier. `MadeInv` says of them that the base is the transferred
source plan and that each patch was made from the base and the transferred patched plan, also
while a worker is in the loop over its patches; `PatchMade` that applying such a patch gives
the second plan back. So the plan measured is what `transfer_plan` made
(`MadeApplies`): `NodesStayApart` is then a fact about the renumbering
(`TransferredApart`). For `ScaledPlanIsOptimized`, `TransferEmbeds` shows that the renumbered
plan is the patched source plan with other numbers (`Embeds`, the map being
`map_ref` itself): nodes keep what they are (`NodesKeepTheirContent`), and scans are
paired with scans of their signature (`ScansPairOneToOne`), each of which is, but for what it
reads, the scan of the source for another data set (`RescaledIs`). That makes the two plans
embedded in each other once both forget what scans read (`Unread`, `UnreadRenumbers`), for
any order of the target's scans; where `ReadsInOrder` holds, the paired scans read the
same and the plans themselves are embedded. The order of the
ids as strings, which `StringRank` gives for ids below 100 only, plays no part: the plans
it is about have one root.

That last condition came out of the proof. `IsClean` used to ask for at most one node
that nothing refers to, and the property was then false of a source plan without
any node (a lone scan) whose target has several scans: such a plan is rebuilt from the first
scan of the data set, whichever that is. TLC finds it with such an input, which the
bounds of `plan_api` did not have.

**Model-checked only.** The liveness properties `EveryCallEnds` and `PoolFinishes`
(fairness and `ENABLED` are out of the prover's reach), and that nothing is stuck in
`plan_api`.

## 7. What is not modelled

* The rate gate of `submit_run_operation` (`utils.py` 256-276): wall-clock time with
  random jitter. It delays starts, and a start may come at any time in the model.
* What an LLM answers, how long a plan takes and what the engine's optimizer does to
  a plan: nondeterministic, as the properties are about what the program does with
  them. In `SamplingRun` a patch is only named; what patches do is in `PlanTransfer`.
* In `dbplanbench.py`: the checks of arguments that raise before anything is done,
  `result.json` of a finished `scale_optimizations`, `get_full_metrics`, and the other
  runner options behind the key of the runner cache.
* Timing and filtering of generated queries (`query_gen`'s scripts over files), which
  keep no state between calls; the per-level summaries of query generation.
* Containers, subprocesses, S3, parquet files, the data generators: input and
  output around one engine call; what the program sees of them is an answer, an
  error of some class, or an exception.
* The vendored DataFusion binding, Python and Rust, but for `physical_plan.rs`. It is
  about two thirds of the lines of this repository and not this project's code.
