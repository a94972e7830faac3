----------------------------- MODULE SamplingRun -----------------------------
(***************************************************************************)
(* One run directory of optimize_queries, over several calls: the call     *)
(* that creates it and the later calls that resume it.                     *)
(*                                                                         *)
(* The state that survives a call is the directory's files; the state of a *)
(* call in progress is "pc" and "run".  An action is the code between two  *)
(* file writes, so a Crash between any two actions is a process killed     *)
(* between two writes; with AllowTorn a write may also be cut short, as    *)
(* Path.write_text truncates the file before it writes.                    *)
(*                                                                         *)
(* Modelled from dbplanbench.py (optimize_queries, _build_early_exit_      *)
(* result, _evaluate_and_curate_base_plans, _run_optimization_sampling,    *)
(* _process_sampling_results) and sampling/orchestrator.py.                *)
(***************************************************************************)
EXTENDS SampleTree

CONSTANTS
  Strategies,    \* strategies a run directory may be created with
  NumQueries,    \* queries are indexed 1 .. NumQueries
  BaseMetric,    \* metric of every base plan
  Metrics,       \* metrics a patched plan can be measured at
  MaxSteps,      \* bound: the largest n_steps a call asks for
  SampleCounts,  \* bound: the values of n_samples_per_step
  TopK,          \* top_k_patches
  MaxSessions,   \* bound: calls made on the directory
  AllowLowering, \* may a resume ask for fewer steps than are completed?
  AllowCrash,    \* may a call be killed between two writes?
  AllowTorn      \* may a call be killed in the middle of a write?

ASSUME SamplingRunAssumption ==
  /\ Strategies \subseteq {"pst_evol", "bol_evol", "best_of"}
  /\ NumQueries \in Nat \ {0}
  /\ BaseMetric \in Nat \ {0}
  /\ Metrics \subseteq Nat \ {0}
  /\ MaxSteps \in Nat
  /\ SampleCounts \subseteq Nat \ {0}
  /\ TopK \in Nat \ {0}
  /\ MaxSessions \in Nat \ {0}
  /\ {AllowLowering, AllowCrash, AllowTorn} \subseteq BOOLEAN

VARIABLES
  pc,         \* where the call in progress is; "idle" when there is none
  run,        \* its parameters and locals
  sessions,   \* calls made so far
  curated,    \* sampling/curated_queries.json
  base,       \* sampling/base_sampling.json
  sampled,    \* sampling/step_k/sampled_plans.json, for every k
  evaluated,  \* sampling/step_k/evaluated_sampled_plans.json, for every k
  final,      \* sampling/final_sampling.json
  result      \* result.json

callVars == <<pc, run, sessions>>
stepFiles == <<sampled, evaluated>>
vars == <<pc, run, sessions, curated, base, sampled, evaluated, final, result>>

Queries == 1 .. NumQueries

\* A top-up adds a step directory past n_steps, one in every call.
StepDirs == 1 .. MaxSteps + MaxSessions

\* best_of only supports n_steps <= 1.
StepTargets(strategy) == {n \in 0 .. MaxSteps : strategy = "best_of" => n <= 1}

Absent  == [st |-> "absent", data |-> << >>]
Torn    == [st |-> "torn", data |-> << >>]
File(d) == [st |-> "ok", data |-> d]

\* Whether a write is cut short.
Tears == IF AllowTorn THEN BOOLEAN ELSE {FALSE}

NoRun == [strategy |-> "none", resume |-> FALSE, n |-> 0, m |-> 0,
          maxCompleted |-> 0, step |-> 0, count |-> 0, topup |-> FALSE]

\* Fault: the step after the completed ones is taken for completed.
FaultyRebuildLimit(r) == r.maxCompleted + 1

RebuildLimit(r) == Min({r.maxCompleted, r.n})

Init ==
  /\ pc = "idle" /\ run = NoRun /\ sessions = 0
  /\ curated = Absent /\ base = Absent /\ final = Absent /\ result = Absent
  /\ sampled = [k \in StepDirs |-> Absent]
  /\ evaluated = [k \in StepDirs |-> Absent]

\* The call ends: by returning, by raising, or by being killed.
End == pc' = "idle" /\ run' = NoRun

-----------------------------------------------------------------------------
(* Starting a call. *)

\* queries, resume=False: the directory must not exist yet.
StartFresh ==
  /\ pc = "idle" /\ sessions = 0
  /\ \E strategy \in Strategies, m \in SampleCounts :
       \E n \in StepTargets(strategy) :
         run' = [NoRun EXCEPT !.strategy = strategy, !.n = n, !.m = m]
  /\ pc' = "curate" /\ sessions' = 1
  /\ UNCHANGED <<curated, base, stepFiles, final, result>>

CompletedSteps == {k \in StepDirs : evaluated[k].st # "absent"}
MaxCompleted == Max(CompletedSteps \cup {0})

\* run_dir, resume=True: result.json must be readable and, but for n_steps
\* (and n_samples_per_step of best_of), the configuration the same.
StartResume ==
  /\ pc = "idle" /\ sessions \in 1 .. MaxSessions - 1
  /\ result.st = "ok"
  /\ LET strategy == result.data.strategy
         targets  == StepTargets(strategy)
     IN  \E n \in targets, m \in SampleCounts :
           /\ strategy # "best_of" => m = result.data.m
           /\ AllowLowering \/ n >= Min({MaxCompleted, Max(targets)})
           /\ run' = [NoRun EXCEPT !.strategy = strategy, !.resume = TRUE,
                                   !.n = n, !.m = m]
  /\ pc' = IF base.st = "ok" THEN "restore" ELSE "curate"
  /\ sessions' = sessions + 1
  /\ UNCHANGED <<curated, base, stepFiles, final, result>>

-----------------------------------------------------------------------------
(* Phases D to F: validate and benchmark the base plans. *)

\* result.json: the configuration a resume is compared with, and the outcome.
ResultFile(outcome) ==
  File([strategy |-> run.strategy, m |-> run.m, outcome |-> outcome])

\* Some query or base plan fails: a partial result.json and the end.
EarlyExit ==
  /\ pc = "curate"
  /\ \E torn \in Tears :
       result' = IF torn THEN Torn ELSE ResultFile(<< >>)
  /\ End
  /\ UNCHANGED <<sessions, curated, base, stepFiles, final>>

\* A resumed call reuses the curated file, and raises on a torn one.
Curate ==
  /\ pc = "curate"
  /\ IF run.resume /\ curated.st # "absent"
     THEN /\ IF curated.st = "torn" THEN End ELSE pc' = "prepare" /\ run' = run
          /\ UNCHANGED curated
     ELSE \E torn \in Tears :
            /\ curated' = IF torn THEN Torn
                          ELSE File([q \in Queries |-> BaseMetric])
            /\ IF torn THEN End ELSE pc' = "prepare" /\ run' = run
  /\ UNCHANGED <<sessions, base, stepFiles, final, result>>

\* A torn base_sampling.json is tolerated when read and never rewritten.
PrepareSampling ==
  /\ pc = "prepare"
  /\ IF run.resume /\ base.st # "absent"
     THEN pc' = "restore" /\ run' = run /\ UNCHANGED base
     ELSE \E torn \in Tears :
            /\ base' = IF torn THEN Torn
                       ELSE File([q \in Queries |-> <<Root(curated.data[q])>>])
            /\ IF torn THEN End ELSE pc' = "restore" /\ run' = run
  /\ UNCHANGED <<sessions, curated, stepFiles, final, result>>

-----------------------------------------------------------------------------
(* run_sampling_steps: bring final_sampling.json up to date. *)

\* The step loop runs from rebuild_limit + 1 to n_steps, then the top-up.
ToStep(r, k) ==
  IF k <= r.n
  THEN /\ pc' = "sample"
       /\ run' = [r EXCEPT !.step = k,
                    !.count = SelectStrategy(r.strategy, k, r.m).count]
  ELSE pc' = "topup" /\ run' = [r EXCEPT !.step = 0, !.count = 0]

ToReplay(r, k) ==
  IF k <= RebuildLimit(r)
  THEN pc' = "replay" /\ run' = [r EXCEPT !.step = k]
  ELSE ToStep(r, k)

\* Fault: the loop starts at the last completed step, not after it.
FaultyRestore ==
  LET r == [run EXCEPT !.maxCompleted = MaxCompleted]
      startOver == ~r.resume \/ final.st = "absent" \/ r.n < r.maxCompleted
  IN  /\ pc = "restore"
      /\ IF startOver
         THEN \E torn \in Tears :
                /\ final' = IF torn THEN Torn ELSE base
                /\ IF torn THEN End ELSE ToReplay(r, 1)
         ELSE ToStep(r, Max({RebuildLimit(r), 1})) /\ UNCHANGED final
      /\ UNCHANGED <<sessions, curated, base, stepFiles, result>>

Restore ==
  LET r == [run EXCEPT !.maxCompleted = MaxCompleted]
      startOver == ~r.resume \/ final.st = "absent" \/ r.n < r.maxCompleted
  IN  /\ pc = "restore"
      /\ IF startOver
         THEN \E torn \in Tears :
                /\ final' = IF torn THEN Torn ELSE base
                /\ IF torn THEN End ELSE ToReplay(r, 1)
         ELSE ToStep(r, RebuildLimit(r) + 1) /\ UNCHANGED final
      /\ UNCHANGED <<sessions, curated, base, stepFiles, result>>

\* Fault: the step is merged into the base state, over what was there.
ForgetfulAccumulated(k) ==
  [q \in Queries |-> AccumulateSamples(base.data[q], evaluated[k].data[q])]

\* Fault: the entries of the other queries are dropped from the file.
LossyAccumulated(k) ==
  [q \in {1} |-> AccumulateSamples(final.data[q], evaluated[k].data[q])]

\* Fault: only the first query gets its samples.
FaultyAccumulated(k) ==
  [final.data EXCEPT ![1] = AccumulateSamples(@, evaluated[k].data[1])]

Accumulated(k) ==
  [q \in Queries |-> AccumulateSamples(final.data[q], evaluated[k].data[q])]

\* accumulate_samples on step k: it reads both files and rewrites the second.
MergeStep(k) ==
  \E torn \in Tears :
    final' = IF torn THEN Torn ELSE File(Accumulated(k))

MergeReadable(k) == evaluated[k].st = "ok" /\ final.st = "ok"

\* One accumulate_samples of the rebuild loop.
Replay ==
  /\ pc = "replay"
  /\ IF MergeReadable(run.step)
     THEN /\ MergeStep(run.step)
          /\ IF final'.st = "torn" THEN End ELSE ToReplay(run, run.step + 1)
     ELSE End /\ UNCHANGED final
  /\ UNCHANGED <<sessions, curated, base, stepFiles, result>>

-----------------------------------------------------------------------------
(***************************************************************************)
(* Parent walks, made one after the other over the nodes listed in "refs"  *)
(* (pairs of a query and an index): the first that misses its parent       *)
(* raises KeyError, the first that cycles never returns.                   *)
(***************************************************************************)
WalksOutcome(refs) ==
  LET bad == {n \in DOMAIN refs :
                ~WalkReachesRoot(final.data[refs[n][1]], refs[n][2])}
      ref == refs[Min(bad)]
  IN  CASE bad = {} -> "end"
        [] bad # {} /\ WalkDangles(final.data[ref[1]], ref[2]) -> "raise"
        [] OTHER -> "hang"

\* The call spins in a parent walk until it is killed.
Hang == pc' = "hung" /\ run' = run

-----------------------------------------------------------------------------
(* _run_step: sample, evaluate, accumulate. *)

\* A top-up of best_of uses the same strategy as its step 1.
SeedsOf(q) ==
  BasePlans(final.data[q], SelectStrategy(run.strategy, run.step, run.m).by)

Seeds ==
  FlattenSeq([q \in Queries |->
                [i \in DOMAIN SeedsOf(q) |-> <<q, SeedsOf(q)[i]>>]])

\* Each base plan of a query is sampled run.count times, in order.
BatchSize(q) == Len(SeedsOf(q)) * run.count
Slots == UNION {{q} \X (1 .. BatchSize(q)) : q \in Queries}

DrawnSamples(gen) ==
  [q \in Queries |->
     [i \in 1 .. BatchSize(q) |->
        NewSample(final.data[q], SeedsOf(q)[(i - 1) \div run.count + 1],
                  gen[<<q, i>>], <<run.step, i>>)]]

\* What the LLM may answer, for every sample of every query.
Answers == {"failed", "empty", "patch"}

\* Fault: a step is sampled again unless it was also evaluated.
FaultyReusesSampled == run.resume /\ evaluated[run.step].st # "absent"

ReusesSampled == run.resume /\ sampled[run.step].st # "absent"

SamplePlans ==
  /\ pc = "sample"
  /\ IF ReusesSampled
     THEN pc' = "evaluate" /\ run' = run /\ UNCHANGED sampled
     ELSE IF final.st # "ok" \/ WalksOutcome(Seeds) = "raise"
     THEN End /\ UNCHANGED sampled
     ELSE IF WalksOutcome(Seeds) = "hang"
     THEN Hang /\ UNCHANGED sampled
     ELSE \E gen \in [Slots -> Answers], torn \in Tears :
            /\ sampled' = [sampled EXCEPT ![run.step] =
                             IF torn THEN Torn ELSE File(DrawnSamples(gen))]
            /\ IF torn THEN End ELSE pc' = "evaluate" /\ run' = run
  /\ UNCHANGED <<sessions, curated, base, evaluated, final, result>>

ReusesEvaluated == run.resume /\ evaluated[run.step].st # "absent"

\* The samples that are validated and benchmarked.
ToEvaluate(k) ==
  {s \in UNION {{q} \X DOMAIN sampled[k].data[q] : q \in Queries} :
     sampled[k].data[s[1]][s[2]].gen = "patch"}

EvaluatedSamples(k, timed) ==
  [q \in Queries |->
     [i \in DOMAIN sampled[k].data[q] |->
        Evaluated(sampled[k].data[q][i],
                  IF <<q, i>> \in DOMAIN timed THEN timed[<<q, i>>] ELSE 0)]]

EvaluatePlans ==
  /\ pc = "evaluate"
  /\ IF ReusesEvaluated
     THEN pc' = "accumulate" /\ run' = run /\ UNCHANGED evaluated
     ELSE IF sampled[run.step].st # "ok"
     THEN End /\ UNCHANGED evaluated
     ELSE \E timed \in [ToEvaluate(run.step) -> Metrics \cup {0}],
             torn \in Tears :
            /\ evaluated' = [evaluated EXCEPT ![run.step] =
                 IF torn THEN Torn
                 ELSE File(EvaluatedSamples(run.step, timed))]
            /\ IF torn THEN End ELSE pc' = "accumulate" /\ run' = run
  /\ UNCHANGED <<sessions, curated, base, sampled, final, result>>

\* After the step: the next one, the top-up, or (after a top-up) the end.
AfterStep ==
  IF run.topup
  THEN pc' = "process" /\ run' = [run EXCEPT !.step = 0, !.count = 0]
  ELSE ToStep(run, run.step + 1)

AccumulateStep ==
  /\ pc = "accumulate"
  /\ IF MergeReadable(run.step)
     THEN /\ MergeStep(run.step)
          /\ IF final'.st = "torn" THEN End ELSE AfterStep
     ELSE End /\ UNCHANGED final
  /\ UNCHANGED <<sessions, curated, base, stepFiles, result>>

-----------------------------------------------------------------------------
\* Fault: the original plan counts as a sample.
FaultySampleCount(q) == Len(final.data[q])

\* current_samples: only the first query is counted.
SampleCount(q) == Cardinality({i \in DOMAIN final.data[q] : final.data[q][i].id # 0})

TopUpApplies == run.strategy = "best_of" /\ run.resume /\ run.n = 1

\* The top-up of best_of: the missing samples go to one more step.
TopUp ==
  /\ pc = "topup"
  /\ IF TopUpApplies /\ final.st = "torn"
     THEN End
     ELSE IF TopUpApplies /\ SampleCount(1) < run.m
     THEN /\ pc' = "sample"
          /\ run' = [run EXCEPT !.topup = TRUE,
                       !.step = run.maxCompleted + 1,
                       !.count = run.m - SampleCount(1)]
     ELSE pc' = "process" /\ run' = run
  /\ UNCHANGED <<sessions, curated, base, stepFiles, final, result>>

-----------------------------------------------------------------------------
(* _process_sampling_results and the final result.json. *)

\* The valid candidates with a metric, best first.
Winners(q) ==
  Ranked(final.data[q],
         {i \in DOMAIN final.data[q] :
            /\ final.data[q][i].id # 0
            /\ final.data[q][i].valid /\ final.data[q][i].metric # 0})

\* The patches returned for a query: the base plan competes with no patch.
Outcome(q) ==
  LET tree   == final.data[q]
      ranked == Ranked(tree, {IndexOf(tree, 0)} \cup Range(Winners(q)))
  IN  [n \in 1 .. Min({TopK, Len(ranked)}) |->
         [patch |-> UpstreamPatches(tree, ranked[n]),
          metric |-> tree[ranked[n]].metric]]

ProcessResults ==
  LET refs == FlattenSeq([q \in Queries |->
                [n \in DOMAIN Winners(q) |-> <<q, Winners(q)[n]>>]])
  IN  /\ pc = "process"
      /\ IF final.st = "torn" \/ WalksOutcome(refs) = "raise"
         THEN End /\ UNCHANGED result
         ELSE IF WalksOutcome(refs) = "hang"
         THEN Hang /\ UNCHANGED result
         ELSE \E torn \in Tears :
                /\ result' = IF torn THEN Torn
                             ELSE ResultFile([q \in Queries |-> Outcome(q)])
                /\ End
      /\ UNCHANGED <<sessions, curated, base, stepFiles, final>>

Crash ==
  /\ pc # "idle" /\ AllowCrash
  /\ End
  /\ UNCHANGED <<sessions, curated, base, stepFiles, final, result>>

-----------------------------------------------------------------------------
\* What a call does by itself once it is started.
CallStep ==
  \/ EarlyExit \/ Curate \/ PrepareSampling
  \/ Restore \/ Replay
  \/ SamplePlans \/ EvaluatePlans \/ AccumulateStep \/ TopUp
  \/ ProcessResults

Next == StartFresh \/ StartResume \/ CallStep \/ Crash

Spec == Init /\ [][Next]_vars

\* A call that is not killed keeps running: it is one sequential program.
FairSpec == Spec /\ WF_vars(CallStep)
-----------------------------------------------------------------------------
(* Type invariant. *)

FileOf(S) == [st : {"absent", "torn"}, data : {<< >>}] \cup [st : {"ok"}, data : S]

Candidate == [patch : Plan, metric : Nat]

\* The type of every file and of the locals of the call.
TypeOK ==
  /\ pc \in {"idle", "curate", "prepare", "restore", "replay", "sample",
             "evaluate", "accumulate", "topup", "process", "hung"}
  /\ run \in [strategy : Strategies \cup {"none"}, resume : BOOLEAN, n : Nat, m : Nat, maxCompleted : Nat,
              step : Nat, count : Nat, topup : BOOLEAN]
  /\ sessions \in 0 .. MaxSessions
  /\ curated \in FileOf([Queries -> Nat])
  /\ base \in FileOf([Queries -> Seq(Node)])
  /\ sampled \in [StepDirs -> FileOf([Queries -> Seq(Sample)])]
  /\ evaluated \in [StepDirs -> FileOf([Queries -> Seq(Sample)])]
  /\ final \in FileOf([Queries -> Seq(Node)])
  /\ result \in FileOf([strategy : Strategies, m : Nat,
                        outcome : {<< >>} \cup [Queries -> Seq(Candidate)]])

-----------------------------------------------------------------------------
(* Safety. *)

\* The ids of a tree are its positions, whatever calls, crashes and torn
\* files came before, so an id names one node in get_upstream_patches.
IdsArePositions ==
  final.st = "ok" =>
    \A q \in Queries : \A i \in DOMAIN final.data[q] :
      final.data[q][i].id = i - 1

\* A node's parent was in the tree before it, so every parent walk of
\* get_upstream_patches ends at the root.
ParentsPrecede ==
  final.st = "ok" =>
    \A q \in Queries : \A i \in DOMAIN final.data[q] :
      i > 1 => final.data[q][i].parent < final.data[q][i].id

\* The patch chain the tree gives for a valid node is the chain that
\* evaluate_sampled_plans validated and timed for it.
LineageFaithful ==
  final.st = "ok" =>
    \A q \in Queries : \A i \in DOMAIN final.data[q] :
      final.data[q][i].valid =>
        /\ WalkReachesRoot(final.data[q], i)
        /\ UpstreamPatches(final.data[q], i) = final.data[q][i].built

\* is_leaf marks exactly the nodes without a child.
LeafIsChildless ==
  final.st = "ok" =>
    \A q \in Queries : \A i \in DOMAIN final.data[q] :
      LET node == final.data[q][i]
      IN  node.isLeaf <=>
            \A j \in 2 .. Len(final.data[q]) : final.data[q][j].parent # node.id

\* Step directories that the tree holds nodes of.
StepsInTree(q) == {final.data[q][i].src[1] : i \in DOMAIN final.data[q]} \ {0}

\* is_last marks exactly the nodes of the latest step in the tree.
LastIsLatestStep ==
  final.st = "ok" =>
    \A q \in Queries : \A i \in DOMAIN final.data[q] :
      final.data[q][i].isLast <=>
        final.data[q][i].src[1] = Max(StepsInTree(q) \cup {0})

\* No sample is accumulated twice.
NothingCountedTwice ==
  final.st = "ok" =>
    \A q \in Queries : \A i, j \in DOMAIN final.data[q] :
      final.data[q][i].src = final.data[q][j].src => i = j

\* When a call is about to compute its result, the tree holds every
\* completed step up to n_steps, whichever calls completed them.
CompletedStepsKept ==
  pc = "process" /\ final.st = "ok" =>
    \A q \in Queries : CompletedSteps \cap 1 .. run.n \subseteq StepsInTree(q)

\* After a resumed best_of call the first query has the samples asked for.
TopUpReachesTarget ==
  pc = "process" /\ TopUpApplies /\ final.st = "ok" =>
    Len(final.data[1]) - 1 >= run.m

\* Every query has the same number of samples, so counting the first is
\* enough for the top-up.
QueriesInStep ==
  final.st = "ok" =>
    \A q \in Queries : Len(final.data[q]) = Len(final.data[1])

\* The completed steps have no gap: the rebuild finds each file it needs.
CompletedStepsContiguous == CompletedSteps = 1 .. MaxCompleted

\* Each patch result.json returns is a plan some step file records as
\* validated, with the metric measured for that very plan, and it holds no
\* patch of a sample that was found invalid.
ReturnedPlanWasMeasured ==
  result.st = "ok" /\ result.data.outcome # << >> =>
    \A q \in Queries :
      LET measured == UNION {Range(evaluated[k].data[q]) :
                               k \in {j \in StepDirs : evaluated[j].st = "ok"}}
          correct == {s \in measured : s.valid}
      IN  \A won \in Range(result.data.outcome[q]) :
            /\ \/ won = [patch |-> << >>, metric |-> BaseMetric]
               \/ \E s \in correct :
                    BuiltPlan(s) = won.patch /\ s.metric = won.metric
            /\ Range(won.patch) \subseteq {s.src : s \in correct}

-----------------------------------------------------------------------------
(* What a step may never do. *)

\* A resumed call never returns a worse best patch than an earlier call.
ResumeNeverRegresses ==
  [][result.st = "ok" /\ result'.st = "ok"
       /\ result.data.outcome # << >> /\ result'.data.outcome # << >> =>
       \A q \in Queries :
         result'.data.outcome[q][1].metric <= result.data.outcome[q][1].metric]_result

\* Step files are written once: a resume never pays for the same samples or
\* the same benchmarks again, and never changes what was recorded.
StepFilesWrittenOnce ==
  [][\A k \in StepDirs :
       /\ sampled[k].st # "absent" => sampled'[k] = sampled[k]
       /\ evaluated[k].st # "absent" => evaluated'[k] = evaluated[k]]_stepFiles

\* Whatever was killed, torn or resumed before, as long as no call asked for fewer
\* steps than are completed: the walk from a plan to the root always ends.
WalksEnd == pc # "hung"

-----------------------------------------------------------------------------
(* Liveness. *)

\* Every call that is not killed returns.
CallReturns == (pc # "idle") ~> (pc = "idle")

-----------------------------------------------------------------------------
(***************************************************************************)
(* The run directory as an experiment log, for the first query: the log is *)
(* the sequence of steps in the tree, in the order their nodes appear.     *)
(***************************************************************************)
StepBest(tree, k) ==
  LET measured == {tree[i].metric : i \in {j \in DOMAIN tree :
                                             tree[j].src[1] = k /\ tree[j].valid}}
  IN  IF measured = {} THEN 0 ELSE Min(measured)

LoggedSteps ==
  IF final.st # "ok" THEN << >>
  ELSE LET tree  == final.data[1]
           heads == FileOrder({i \in DOMAIN tree : tree[i].src[2] = 1})
       IN  [n \in DOMAIN heads |-> LET k == tree[heads[n]].src[1]
                                   IN  [step |-> k, best |-> StepBest(tree, k)]]

PublishedMetric ==
  IF result.st # "ok" \/ result.data.outcome = << >> THEN 0
  ELSE result.data.outcome[1][1].metric

Log == INSTANCE ExperimentLog WITH log <- LoggedSteps, answer <- PublishedMetric

\* Whatever calls extend a run directory, it behaves as an experiment log.
IsExperimentLog == Log!LogSpec
=============================================================================
