-------------------------------- MODULE PlanApi --------------------------------
(***************************************************************************)
(* The calls of dbplanbench.py that fan out over queries and plans:        *)
(* get_engine_plans, benchmark_queries, scale_optimizations (and the       *)
(* benchmark_plans of what it returns) and validate_queries.  Each is one  *)
(* or two phases, a phase is a ThreadPoolExecutor with one future per      *)
(* query or patch, and the main thread takes the futures as they complete. *)
(*                                                                         *)
(* The answers of the engine are nondeterministic; what the program makes  *)
(* of the plans in them is PlanFormat and PlanTransfer.                    *)
(***************************************************************************)
EXTENDS PlanTransfer

CONSTANTS
  Inputs,       \* the calls made, with their arguments: see below
  MaxWorkers,   \* max_workers
  SourceScale,  \* the scale factor the plans were optimised at
  TargetScale   \* scale_factor, or target_scale_factor

\* An input is [call, queries, skip]: "scale", "queries" or "validate", a sequence
\* of queries, and skip_validation.  A query is [source, target, patches]: the plans
\* the engine has for it at the two scales, as ToSuccinct takes them, and the
\* patches of the source plan.  A patch is [none, ops]; none is the patch None.
IsSequence(s) == Len(s) \in Nat /\ DOMAIN s = 1 .. Len(s)

\* A plan of the engine, before it is known which data set its scans read.
IsPlan(visited) ==
  /\ IsVisit(visited)
  /\ visited \in Seq([label : Labels, kids : Seq(Nat)])

ASSUME PlanApiAssumption ==
  /\ MaxWorkers \in Nat \ {0}
  /\ SourceScale < TargetScale
  /\ \A input \in Inputs :
       /\ input.call \in {"scale", "queries", "validate"} /\ input.skip \in BOOLEAN
       /\ IsSequence(input.queries) /\ input.queries # << >>
       /\ \A i \in DOMAIN input.queries :
            /\ IsSequence(input.queries[i].patches)
            /\ \A j \in DOMAIN input.queries[i].patches :
                 IsPatch(input.queries[i].patches[j].ops)
            /\ IsPlan(input.queries[i].source) /\ IsPlan(input.queries[i].target)

VARIABLES
  args,     \* the call and its arguments
  phase,    \* "plan", "validate", "transfer", "benchmark", "done" or "raised"
  runners,  \* _runner_cache: the scale of the runner under each scale factor
  futures,  \* the futures of the phase, by their task
  planned,  \* plans and errors of the first phase
  scaled,   \* query_results of scale_optimizations
  results   \* the results of the benchmark

vars == <<args, phase, runners, futures, planned, scaled, results>>

NoPatch == [none |-> TRUE, ops |-> << >>]
Patch(ops) == [none |-> FALSE, ops |-> ops]

NoPlan == [structure |-> << >>, tables |-> << >>]
NotPlanned(err) == [plan |-> NoPlan, err |-> err]

Queries == DOMAIN args.queries
Patches(i) == args.queries[i].patches

\* The plans of the engine at a scale.
AtScale(visited, sf) ==
  [k \in DOMAIN visited |->
     IF IsScan(visited[k].label) THEN [visited[k] EXCEPT !.label.sf = sf] ELSE visited[k]]
SourcePlan(i) == ToSuccinct(AtScale(args.queries[i].source, SourceScale))
EnginePlan(i, sf) == ToSuccinct(AtScale(args.queries[i].target, sf))

\* No answer yet.
Nothing == << >>

\* A task is <<query or plan, patch>>; the futures are submitted in the order of
\* their tasks, plan by plan and patch by patch.
Submit(tasks) == [k \in tasks |-> [st |-> "queued", out |-> Nothing]]

SubmittedBefore(k, l) == k[1] < l[1] \/ (k[1] = l[1] /\ k[2] < l[2])

PerQuery == Queries \X {1}

\* An earlier call of the process may have left a runner for the source scale.
Init ==
  /\ args \in Inputs
  /\ phase = IF args.call = "validate" THEN "validate" ELSE "plan"
  /\ runners \in {<< >>, [sf \in {SourceScale} |-> sf]}
  /\ futures = Submit(PerQuery)
  /\ planned = [i \in Queries |-> NotPlanned("pending")]
  /\ scaled = << >>
  /\ results = << >>

-----------------------------------------------------------------------------
\* The executor: workers take the futures in the order they were submitted.
Running == {k \in DOMAIN futures : futures[k].st = "running"}

\* Fault: the first worker is not counted.
FaultyStartWorker(k) ==
  /\ futures[k].st = "queued"
  /\ \A l \in DOMAIN futures : SubmittedBefore(l, k) => futures[l].st # "queued"
  /\ Cardinality(Running) <= MaxWorkers
  /\ futures' = [futures EXCEPT ![k].st = "running"]
  /\ UNCHANGED <<args, phase, runners, planned, scaled, results>>

StartWorker(k) ==
  /\ futures[k].st = "queued"
  /\ \A l \in DOMAIN futures : SubmittedBefore(l, k) => futures[l].st # "queued"
  /\ Cardinality(Running) < MaxWorkers
  /\ futures' = [futures EXCEPT ![k].st = "running"]
  /\ UNCHANGED <<args, phase, runners, planned, scaled, results>>

Ended(k, out) == [futures EXCEPT ![k].st = "ended", ![k].out = out]

\* Fault: one cached runner serves every scale.
FaultyRunnerScale(sf) ==
  IF runners = << >> THEN sf ELSE runners[CHOOSE key \in DOMAIN runners : TRUE]

\* _get_runner: the scale of the runner a call with this scale factor gets
RunnerScale(sf) == IF sf \in DOMAIN runners THEN runners[sf] ELSE sf

\* The cache once a runner for the target scale has been asked for.
Cached == [sf \in DOMAIN runners \cup {TargetScale} |-> RunnerScale(sf)]

\* _plan_worker.  An exception of the runner's constructor is the worker's.
PlanQuery(k) ==
  /\ phase = "plan" /\ k \in Running
  /\ runners' = Cached
  /\ \E out \in {NotPlanned("plan_error"), NotPlanned("no_plan"), NotPlanned("exception"),
                 [plan |-> EnginePlan(k[1], RunnerScale(TargetScale)),
                  err |-> "none"]} :
       futures' = Ended(k, out)
  /\ UNCHANGED <<args, phase, planned, scaled, results>>

\* What op_validate reports of a query whose plan can be rebuilt, or cannot: the
\* syntax, the plan, a run of the plan as it comes out of the exchange format.
Reports(buildable) ==
  {r \in [syntax : BOOLEAN, plan : BOOLEAN, runs : BOOLEAN, empty : BOOLEAN] :
     /\ r.plan => r.syntax
     /\ r.runs => r.plan /\ buildable
     /\ ~r.runs => r.empty}

\* check_query_validity and _categorize: the determinism check follows for a
\* query that ran and gave rows, and finds none, a difference, or an error.
Categories(report) ==
  CASE ~report.syntax -> {"syntax_error"}
    [] report.syntax /\ ~report.plan -> {"no_plan"}
    [] report.plan /\ ~report.runs -> {"cannot_run"}
    [] report.runs /\ report.empty -> {"empty_result"}
    [] report.runs /\ ~report.empty -> {"none", "nondeterministic", "validation_error"}

\* _worker of validate_queries
ValidateQuery(k) ==
  LET plan == EnginePlan(k[1], RunnerScale(TargetScale))
      found == UNION {Categories(r) : r \in Reports(FromSuccinct(plan) # Unbuildable)}
  IN  /\ phase = "validate" /\ k \in Running
      /\ runners' = Cached
      /\ \E err \in found \cup {"validation_error", "exception"} :
           futures' = Ended(k, IF err = "none" THEN [plan |-> plan, err |-> err]
                               ELSE NotPlanned(err))
      /\ UNCHANGED <<args, phase, planned, scaled, results>>

-----------------------------------------------------------------------------
\* validate_plan_result_set against the engine's plan of the target scale: a plan
\* that cannot be rebuilt fails, any other may; nothing fails if it is skipped.
Verdicts(i, plan) ==
  IF args.skip THEN {TRUE}
  ELSE IF Unbuildable \in {FromSuccinct(plan), FromSuccinct(planned[i].plan)}
  THEN {FALSE} ELSE BOOLEAN

\* jsonpatch.make_patch, for structures
MakePatch(old, new) ==
  LET changed == {id \in DOMAIN old \cup DOMAIN new :
                    ~(id \in DOMAIN old /\ id \in DOMAIN new /\ old[id] = new[id])}
      operation(id) ==
        [op |-> CASE id \notin DOMAIN old -> "add"
                  [] id \notin DOMAIN new -> "remove"
                  [] OTHER -> "replace",
         id |-> id, from |-> id, node |-> IF id \in DOMAIN new THEN new[id] ELSE old[id]]
  IN  [k \in 1 .. Cardinality(changed) |-> operation(Ascending(changed)[k])]

Transferred(i, ops) == TransferPlan(SourcePlan(i), planned[i].plan, ops)

\* The first error among the statuses of a query's patches.
Failure(statuses) ==
  LET failing == {j \in DOMAIN statuses : statuses[j] \notin {"transferred", "skipped_none"}}
  IN  IF failing = {} THEN "none" ELSE statuses[Min(failing)]

\* A query that is not scaled as a whole: the source plan without its patches.
Unscaled(i, status) ==
  [base |-> SourcePlan(i), patches |-> <<NoPatch>>,
   statuses |-> [j \in DOMAIN Patches(i) |-> status], failure |-> status]

\* The worker goes on to the next patch, or ends after the last.
Progress(k, out) ==
  IF Len(out.statuses) = Len(Patches(k[1]))
  THEN Ended(k, [out EXCEPT !.failure = Failure(out.statuses)])
  ELSE [futures EXCEPT ![k].out = out]

\* _process_query up to its loop: the base plan, transferred and validated
TransferBase(k) ==
  LET i == k[1]
      base == Transferred(i, << >>)
      plan == [planned[i].plan EXCEPT !.structure = base.val]
  IN  /\ phase = "transfer" /\ k \in Running /\ futures[k].out = Nothing
      /\ IF planned[i].err # "none"
         THEN futures' = Ended(k, Unscaled(i, "planning_failed"))
         ELSE IF ~base.ok
         THEN futures' = Ended(k, Unscaled(i, "base_transfer_failed"))
         ELSE \E valid \in Verdicts(i, plan) :
                futures' = IF valid
                           THEN Progress(k, [base |-> plan, patches |-> << >>,
                                             statuses |-> << >>, failure |-> "none"])
                           ELSE Ended(k, Unscaled(i, "base_validation_failed"))
      /\ UNCHANGED <<args, phase, runners, planned, scaled, results>>

\* What becomes of a patch: a status, and the patch of the transferred base.
PatchOutcomes(i, base, patch) ==
  LET opt == Transferred(i, patch.ops)
      plan == [planned[i].plan EXCEPT !.structure = opt.val]
  IN  IF patch.none THEN {<<"skipped_none", NoPatch>>}
      ELSE IF ~opt.ok THEN {<<"transfer_failed", NoPatch>>}
      ELSE {IF valid THEN <<"transferred", Patch(MakePatch(base.structure, opt.val))>>
            ELSE <<"validation_failed", NoPatch>> : valid \in Verdicts(i, plan)}

\* Fault: a patch that failed is left out of the list.
FaultyAppended(out, outcome) ==
  [out EXCEPT !.statuses = Append(@, outcome[1]),
              !.patches = IF outcome[2].none THEN @ ELSE Append(@, outcome[2])]

Appended(out, outcome) ==
  [out EXCEPT !.statuses = Append(@, outcome[1]), !.patches = Append(@, outcome[2])]

\* One turn of the loop over the patches.
TransferPatch(k) ==
  LET i == k[1]
      out == futures[k].out
  IN  /\ phase = "transfer" /\ k \in Running /\ out # Nothing
      /\ \E outcome \in PatchOutcomes(i, out.base, Patches(i)[Len(out.statuses) + 1]) :
           futures' = Progress(k, Appended(out, outcome))
      /\ UNCHANGED <<args, phase, runners, planned, scaled, results>>

-----------------------------------------------------------------------------
\* The plans a benchmark is given: the scaled ones, or one for each query that
\* could be planned (successful_indices), with the empty patch.
Successful == {i \in Queries : planned[i].err = "none"}

Entries ==
  IF args.call = "scale" THEN scaled
  ELSE [d \in 1 .. Cardinality(Successful) |->
          [base |-> planned[Ascending(Successful)[d]].plan, patches |-> <<Patch(<< >>)>>]]

\* The plan that is measured for a patch of an entry.
PatchedPlan(entry, j) ==
  LET patched == ApplyPatch(entry.base.structure, entry.patches[j].ops)
  IN  IF patched.ok THEN FromSuccinct([entry.base EXCEPT !.structure = patched.val])
      ELSE Unbuildable

Measured(tree) == [kind |-> "measured", tree |-> tree]
NotMeasured(kind) == [kind |-> kind, tree |-> Unbuildable]

\* One task for each patch of each entry.
BenchmarkTasks(entries) ==
  UNION {{d} \X DOMAIN entries[d].patches : d \in DOMAIN entries}

\* worker of benchmark_plans: exceptions are caught and become errors.
Benchmark(k) ==
  LET d == k[1]
      tree == PatchedPlan(Entries[d], k[2])
  IN  /\ phase = "benchmark" /\ k \in Running
      /\ \E out \in IF Entries[d].patches[k[2]].none THEN {NotMeasured("patch_missing")}
                    ELSE {NotMeasured("error")}
                           \cup (IF tree = Unbuildable THEN {} ELSE {Measured(tree)}) :
           futures' = Ended(k, out)
      /\ UNCHANGED <<args, phase, runners, planned, scaled, results>>

-----------------------------------------------------------------------------
\* An exception came out of future.result().
Failing ==
  \E k \in DOMAIN futures :
    /\ phase \in {"plan", "validate"} /\ futures[k].st = "taken"
    /\ futures[k].out.err = "exception"

\* Fault: the answers are listed as they come.
FaultyStored(list, j, out) == Append(list, out)

\* results[plan_idx][patch_idx] = measurement, after padding with {}
Stored(list, j, out) ==
  [x \in 1 .. (IF j > Len(list) THEN j ELSE Len(list)) |->
     IF x = j THEN out ELSE IF x <= Len(list) THEN list[x] ELSE NotMeasured("empty")]

\* One turn of an as_completed loop.  An exception leaves the loop, and the
\* "with" block of the executor still waits for its workers.
TakeFuture(k) ==
  LET out == futures[k].out
  IN  /\ phase \notin {"done", "raised"} /\ ~Failing
      /\ futures[k].st = "ended"
      /\ futures' = [futures EXCEPT ![k].st = "taken"]
      /\ planned' = IF phase \in {"plan", "validate"}
                    THEN [planned EXCEPT ![k[1]] = out] ELSE planned
      /\ scaled' = IF phase = "transfer" THEN [scaled EXCEPT ![k[1]] = out] ELSE scaled
      /\ results' = IF phase = "benchmark"
                    THEN [results EXCEPT ![k[1]] = Stored(@, k[2], out)] ELSE results
      /\ UNCHANGED <<args, phase, runners>>

AllTaken == ~Failing /\ \A k \in DOMAIN futures : futures[k].st = "taken"

\* Phase 2 of scale_optimizations
StartTransfer ==
  /\ phase = "plan" /\ args.call = "scale" /\ AllTaken
  /\ phase' = "transfer"
  /\ futures' = Submit(PerQuery)
  /\ scaled' = [i \in Queries |-> Nothing]
  /\ UNCHANGED <<args, runners, planned, results>>

\* benchmark_plans, from benchmark_queries or for the scaled plans
StartBenchmark ==
  /\ \/ phase = "plan" /\ args.call = "queries"
     \/ phase = "transfer"
  /\ AllTaken
  /\ phase' = "benchmark"
  /\ futures' = Submit(BenchmarkTasks(Entries))
  /\ results' = [d \in DOMAIN Entries |-> << >>]
  /\ UNCHANGED <<args, runners, planned, scaled>>

\* benchmark_queries puts the results of the plans back to their queries.
PerQueryResults(measured) ==
  [i \in Queries |-> IF i \in Successful THEN measured[RankIn(Successful, i) + 1]
                     ELSE <<NotMeasured("planning_failed")>>]

Return ==
  /\ phase \in {"validate", "benchmark"} /\ AllTaken
  /\ phase' = "done"
  /\ results' = IF args.call = "queries" THEN PerQueryResults(results) ELSE results
  /\ UNCHANGED <<args, runners, futures, planned, scaled>>

\* The call ends with the worker's exception.
RaiseOut ==
  /\ Failing /\ \A k \in DOMAIN futures : futures[k].st \in {"ended", "taken"}
  /\ phase' = "raised"
  /\ UNCHANGED <<args, runners, futures, planned, scaled, results>>

WorkerStep(k) ==
  \/ StartWorker(k) \/ PlanQuery(k) \/ ValidateQuery(k)
  \/ TransferBase(k) \/ TransferPatch(k) \/ Benchmark(k)

\* The call has ended; any other state in which nothing can happen is a deadlock.
Terminated == phase \in {"done", "raised"} /\ UNCHANGED vars

Next ==
  \/ \E k \in DOMAIN futures : WorkerStep(k) \/ TakeFuture(k)
  \/ StartTransfer \/ StartBenchmark \/ Return \/ RaiseOut
  \/ Terminated

Spec == Init /\ [][Next]_vars

-----------------------------------------------------------------------------
Errors == {"plan_error", "no_plan", "exception", "pending", "syntax_error",
           "cannot_run", "empty_result", "nondeterministic", "validation_error"}

Wholes == {"planning_failed", "base_transfer_failed", "base_validation_failed"}

Statuses == Wholes \cup {"transferred", "skipped_none", "transfer_failed",
                        "validation_failed"}

\* The type invariant; no more than max_workers workers are at work at a time.
TypeOK ==
  /\ phase \in {"plan", "validate", "transfer", "benchmark", "done", "raised"}
  /\ DOMAIN runners \subseteq {SourceScale, TargetScale}
  /\ \A k \in DOMAIN futures :
       futures[k].st \in {"queued", "running", "ended", "taken"}
  /\ Cardinality(Running) <= MaxWorkers
  /\ \A i \in Queries : planned[i].err \in Errors \cup {"none"}
  /\ \A i \in DOMAIN scaled : scaled[i] # Nothing => Range(scaled[i].statuses) \subseteq Statuses

\* A plan with a two-way union: the union's children are lost on the way out of
\* the engine, as a node with two children is expected to have sides.
LosesChildren(visited) ==
  \E n \in Range(visited) : n.label.keys = "inputs" /\ Len(n.kids) = 2

\* A plan the program has from the engine, from planning or from validation, is
\* rebuilt as the very plan the engine had for that query at the scale that was
\* asked for; only one that loses children cannot be rebuilt, and it is never
\* rebuilt as another plan.
EnginePlansRoundTrip ==
  \A i \in Queries : planned[i].err = "none" =>
    LET visited == args.queries[i].target
    IN  FromSuccinct(planned[i].plan)
          = IF LosesChildren(visited) THEN Unbuildable
            ELSE TreeOf(AtScale(visited, TargetScale))

\* The source plan of a query with a patch, and the same for another scale.
PatchedSource(i, ops) ==
  [SourcePlan(i) EXCEPT !.structure = ApplyPatch(SourcePlan(i).structure, ops).val]

LabelAtScale(label, sf) == IF IsScan(label) THEN [label EXCEPT !.sf = sf] ELSE label

PlanAtScale(plan, sf) ==
  [structure |-> [id \in DOMAIN plan.structure |->
                    [plan.structure[id] EXCEPT !.label = LabelAtScale(@, sf)]],
   tables |-> [id \in DOMAIN plan.tables |-> LabelAtScale(plan.tables[id], sf)]]

\* A plan as far as the signatures of its scans tell.
UnreadLabel(label) == IF IsScan(label) THEN [label EXCEPT !.reads = ""] ELSE label

Unread(plan) ==
  [structure |-> [id \in DOMAIN plan.structure |->
                    [label |-> UnreadLabel(plan.structure[id].label),
                     refs |-> plan.structure[id].refs]],
   tables |-> [id \in DOMAIN plan.tables |-> UnreadLabel(plan.tables[id])]]

\* The plan of the target scale with a patch that was made for it.
ScaledPlan(i, j) ==
  [scaled[i].base EXCEPT
     !.structure = ApplyPatch(@, scaled[i].patches[j].ops).val]

\* The engine plans a query at the other scale with its scans of one signature in
\* the order it had them in.
ScansInOrder(i) ==
  ReadsInOrder(Compacted(SourcePlan(i).tables), Compacted(EnginePlan(i, TargetScale).tables))

\* A plan whose nodes hang together: nothing missing, no id that is a node and a
\* scan, and one node nothing refers to.  A plan of no nodes is rebuilt from the
\* first scan of the data set, whichever that is.
IsClean(plan) ==
  /\ DOMAIN plan.structure \cap DOMAIN plan.tables = {}
  /\ References(plan.structure) \subseteq Ids(plan)
  /\ Cardinality(Roots(plan) \ DOMAIN plan.tables) = 1

\* A patch that is transferred gives at the target scale the plan it gave at the
\* source scale, with scans of the target that have the same columns, projection
\* and predicate: no reference goes to another node, whatever ids had to move.
\* They also read the same, table and limit included, if the target plan has the
\* scans of one signature in the same order; if not, they may be exchanged.
ScaledPlanIsOptimized ==
  phase \in {"benchmark", "done"} /\ args.call = "scale" =>
    \A i \in Queries : \A j \in DOMAIN scaled[i].statuses :
      LET source == PatchedSource(i, Patches(i)[j].ops)
          optimized == PlanAtScale(source, TargetScale)
      IN  scaled[i].statuses[j] = "transferred" /\ IsClean(source) =>
            /\ FromSuccinct(Unread(ScaledPlan(i, j))) = FromSuccinct(Unread(optimized))
            /\ ScansInOrder(i) => PatchedPlan(scaled[i], j) = FromSuccinct(optimized)

\* Whatever a patch has made of the plan, also one that does not hang together:
\* every node comes out of the renumbering as a node of its own, and none at the
\* number of a scan.
NodesStayApart ==
  phase \in {"benchmark", "done"} /\ args.call = "scale" =>
    \A i \in Queries : \A j \in DOMAIN scaled[i].statuses :
      scaled[i].statuses[j] = "transferred" =>
        LET nodes == ApplyPatch(scaled[i].base.structure, scaled[i].patches[j].ops).val
        IN  /\ Cardinality(DOMAIN nodes)
                  = Cardinality(DOMAIN PatchedSource(i, Patches(i)[j].ops).structure)
            /\ DOMAIN nodes \cap DOMAIN scaled[i].base.tables = {}

\* A query that came back whole has a patch exactly where its status says so, all
\* on one base; a query that failed as a whole has its source plan and no patch.
AlignedTo(i, s) ==
  /\ Len(s.statuses) = Len(Patches(i))
  /\ \/ /\ Len(s.patches) = Len(Patches(i))
        /\ s.base.tables = planned[i].plan.tables
        /\ \A j \in DOMAIN Patches(i) :
             /\ s.patches[j].none <=> s.statuses[j] # "transferred"
             /\ Patches(i)[j].none <=> s.statuses[j] = "skipped_none"
     \/ /\ s.patches = <<NoPatch>> /\ s.base = SourcePlan(i)
        /\ \A j \in DOMAIN Patches(i) : s.statuses[j] \in Wholes
        /\ s.failure \in Wholes
  /\ s.failure = "none" =>
       \A j \in DOMAIN Patches(i) : s.statuses[j] \in {"transferred", "skipped_none"}

\* What scale_optimizations returns is aligned to the queries and patches it was
\* given, with a status for each, and a query without a failure has none among
\* its patches.
ScaledPatchesAligned ==
  phase \in {"benchmark", "done"} /\ args.call = "scale" =>
    \A i \in Queries : AlignedTo(i, scaled[i])

\* The entry of a benchmark that is made for a query, and what a measurement says
\* of its j-th patch.
EntryOf(i) ==
  IF args.call = "scale" THEN scaled[i]
  ELSE [base |-> planned[i].plan, patches |-> <<Patch(<< >>)>>]

MeasuredAt(i, j, r) ==
  /\ r.kind # "empty"
  /\ r.kind = "measured" => r.tree = PatchedPlan(EntryOf(i), j)
  /\ r.kind = "patch_missing" <=> EntryOf(i).patches[j].none
  /\ r.kind = "planning_failed" <=> (args.call = "queries" /\ planned[i].err # "none")

\* In whatever order the workers answer, a measurement is found at the place of
\* the plan that was measured, no place is left empty, and a query without a
\* plan says so at its own place.
ResultsAligned ==
  phase = "done" /\ args.call # "validate" =>
    /\ DOMAIN results = Queries
    /\ \A i \in Queries :
         /\ Len(results[i]) = Len(EntryOf(i).patches)
         /\ \A j \in DOMAIN results[i] : MeasuredAt(i, j, results[i][j])
=============================================================================
