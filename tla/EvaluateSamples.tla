--------------------------- MODULE EvaluateSamples ---------------------------
(***************************************************************************)
(* evaluate_sampled_plans: the main thread goes through the samples of a   *)
(* step file in a random order and hands those with a patch to a pool of   *)
(* MaxWorkers threads; each thread validates its plan against the engine's *)
(* (validate_plan_result_set) and benchmarks it (evaluate_plan_n_runs),    *)
(* both with executors of their own over SubmitOperation.                  *)
(*                                                                         *)
(* A validation returns at the first answer that decides it; operations    *)
(* that are already running go on in the background.                       *)
(***************************************************************************)
EXTENDS SubmitOperation

CONSTANTS
  Kinds,           \* the kinds of samples in the file
  MaxWorkers,      \* max_workers
  MaxEvalWorkers   \* max_eval_workers

ASSUME EvaluateSamplesAssumption ==
  /\ Kinds \subseteq {"failed", "empty", "broken", "patch"}
  /\ {MaxWorkers, MaxEvalWorkers} \subseteq Nat \ {0}

VARIABLES
  kind,      \* what each sample is: no LLM answer, an empty patch, a patch
             \* that does not apply ("broken"), or one that does
  main,      \* the main thread: "submit", "drain", "write" or "written"
  task,      \* the future of each sample, with the locals of its validation
  inflight,  \* samples submitted and not harvested
  verdict    \* what the main thread knows: "none", "valid" or "invalid"

mainVars == <<kind, main, inflight, verdict>>
vars == <<backend, ops, permits, kind, main, task, inflight, verdict>>

NoTask == [pc |-> "none", base |-> "none", primary |-> "none", seen |-> {}]

Init ==
  /\ SubmitInit
  /\ kind \in [Samples -> Kinds]
  /\ main = "submit"
  /\ task = [s \in Samples |-> NoTask]
  /\ inflight = {}
  /\ verdict = [s \in Samples |-> "none"]

MaxInflight == MaxWorkers * 2

-----------------------------------------------------------------------------
(* The main thread. *)

\* Samples the loop has not come to yet.
Pending == {s \in Samples : verdict[s] = "none" /\ task[s].pc = "none"}

\* A sample without a plan to run is judged at once.
JudgeAtOnce(s) ==
  /\ main = "submit" /\ s \in Pending /\ kind[s] # "patch"
  /\ verdict' = [verdict EXCEPT ![s] = IF kind[s] = "empty" THEN "valid" ELSE "invalid"]
  /\ UNCHANGED <<submitVars, kind, main, task, inflight>>

Submit(s) ==
  /\ main = "submit" /\ s \in Pending /\ kind[s] = "patch"
  /\ Cardinality(inflight) < MaxInflight
  /\ inflight' = inflight \cup {s}
  /\ task' = [task EXCEPT ![s].pc = "queued"]
  /\ UNCHANGED <<submitVars, kind, main, verdict>>

AllSubmitted ==
  /\ main = "submit" /\ Pending = {}
  /\ main' = "drain"
  /\ UNCHANGED <<submitVars, kind, task, inflight, verdict>>

\* The futures that are done, with their verdicts.
Done == {s \in inflight : task[s].pc \in {"valid", "invalid"}}

\* The main thread waits: the pool is full, or is being drained.
Waits ==
  \/ main = "drain"
  \/ /\ main = "submit" /\ Cardinality(inflight) >= MaxInflight
     /\ \E s \in Pending : kind[s] = "patch"

\* Fault: of several futures that are done one is recorded, all dropped.
FaultyHarvest ==
  /\ Waits /\ Done # {}
  /\ \E s \in Done : verdict' = [verdict EXCEPT ![s] = task[s].pc]
  /\ inflight' = inflight \ Done
  /\ UNCHANGED <<submitVars, kind, main, task>>

\* wait(FIRST_COMPLETED), then harvest of all that are done.
Harvest ==
  /\ Waits /\ Done # {}
  /\ verdict' = [s \in Samples |-> IF s \in Done THEN task[s].pc ELSE verdict[s]]
  /\ inflight' = inflight \ Done
  /\ UNCHANGED <<submitVars, kind, main, task>>

Write ==
  /\ main = "drain" /\ inflight = {}
  /\ main' = "written"
  /\ UNCHANGED <<submitVars, kind, task, inflight, verdict>>

-----------------------------------------------------------------------------
(* A worker thread: validate_evaluate_plan_wrapper. *)

Active(s) == task[s].pc \in {"validating", "evaluating"}

Queue(S) == [o \in Ops |-> IF o \in S THEN [NoOp EXCEPT !.pc = "queued"] ELSE ops[o]]

\* A free worker of the pool takes a sample and submits its validation.
StartValidation(s) ==
  /\ task[s].pc = "queued"
  /\ Cardinality({r \in Samples : Active(r)}) < MaxWorkers
  /\ task' = [task EXCEPT ![s].pc = "validating"]
  /\ ops' = Queue(ValidationOps(s))
  /\ UNCHANGED <<backend, permits, mainVars>>

PoolOf(o) == IF o[2] = "eval" THEN EvalOps(o[1]) ELSE ValidationOps(o[1])

\* The workers of the executor an operation is queued in.
PoolSize(o) ==
  CASE backend = "local" -> 1
    [] backend = "modal" /\ o[2] = "eval" -> MaxEvalWorkers
    [] OTHER -> 1 + NumCandRuns

\* An executor starts its oldest queued operation when a worker is free.
StartOp(o) ==
  /\ ops[o].pc = "queued"
  /\ \A p \in PoolOf(o) : ops[p].pc = "queued" => o[3] <= p[3]
  /\ Cardinality({p \in PoolOf(o) : ops[p].pc \in {"waiting", "running", "fetching"}})
       < PoolSize(o)
  /\ ops' = [ops EXCEPT ![o].pc = "waiting"]
  /\ UNCHANGED <<backend, permits, task, mainVars>>

\* Returning from the validation cancels what is still queued.
CancelQueued(s) ==
  [o \in Ops |-> IF o \in ValidationOps(s) /\ ops[o].pc = "queued"
                 THEN [ops[o] EXCEPT !.pc = "cancelled"] ELSE ops[o]]

\* Fault: a baseline that arrives after the first candidate is not compared.
FaultyRefutes(s, o) ==
  \/ ops[o].result = "error"
  \/ o[2] = "cand" /\ task[s].primary # "none" /\ ops[o].result # task[s].primary
  \/ o[2] = "cand" /\ task[s].primary = "none"
       /\ task[s].base # "none" /\ ops[o].result # task[s].base

\* Does this answer show that the plan is not equivalent or not deterministic?
\* The first candidate is compared with the baseline, the others with it.
Refutes(s, o) ==
  \/ ops[o].result = "error"
  \/ o[2] = "base" /\ task[s].primary # "none" /\ ops[o].result # task[s].primary
  \/ o[2] = "cand" /\ task[s].primary # "none" /\ ops[o].result # task[s].primary
  \/ o[2] = "cand" /\ task[s].primary = "none"
       /\ task[s].base # "none" /\ ops[o].result # task[s].base

\* One turn of the as_completed loop, then the evaluation after the last.
TakeAnswer(s, o) ==
  /\ task[s].pc = "validating" /\ o \in ValidationOps(s) \ task[s].seen
  /\ ops[o].pc = "ended"
  /\ IF Refutes(s, o)
     THEN /\ task' = [task EXCEPT ![s] = [NoTask EXCEPT !.pc = "invalid"]]
          /\ ops' = CancelQueued(s)
     ELSE IF task[s].seen \cup {o} = ValidationOps(s)
     THEN /\ task' = [task EXCEPT ![s] = [NoTask EXCEPT !.pc = "evaluating"]]
          /\ ops' = Queue(EvalOps(s))
     ELSE /\ task' = [task EXCEPT
               ![s].seen = @ \cup {o},
               ![s].base = IF o[2] = "base" THEN ops[o].result ELSE @,
               ![s].primary = IF o[2] = "cand" /\ @ = "none" THEN ops[o].result ELSE @]
          /\ UNCHANGED ops
  /\ UNCHANGED <<backend, permits, mainVars>>

Measured(s) == {o \in EvalOps(s) : ops[o].result \in ResultData}

\* The aggregate of all runs, or an error when none succeeded.
FinishEvaluation(s) ==
  /\ task[s].pc = "evaluating"
  /\ \A o \in EvalOps(s) : ops[o].pc = "ended"
  /\ task' = [task EXCEPT ![s].pc = IF Measured(s) # {} THEN "valid" ELSE "invalid"]
  /\ UNCHANGED <<submitVars, mainVars>>

-----------------------------------------------------------------------------
MainStep ==
  \/ \E s \in Samples : JudgeAtOnce(s) \/ Submit(s)
  \/ AllSubmitted \/ Harvest \/ Write

WorkerStep(s) ==
  \/ StartValidation(s) \/ FinishEvaluation(s)
  \/ \E o \in ValidationOps(s) : TakeAnswer(s, o)

OpStep(o) == StartOp(o) \/ (SubmitStep(o) /\ UNCHANGED <<task, mainVars>>)

Next ==
  \/ MainStep
  \/ \E s \in Samples : WorkerStep(s)
  \/ \E o \in Ops : OpStep(o)

Spec == Init /\ [][Next]_vars

\* While some thread can go on, one of them does: a sandbox ends, at the
\* latest by its timeout.  No more is needed, as every retry is counted.
FairSpec == Spec /\ WF_vars(Next)
-----------------------------------------------------------------------------
\* The type of the state.
TypeOK ==
  /\ SubmitTypeOK
  /\ kind \in [Samples -> Kinds]
  /\ main \in {"submit", "drain", "written"}
  /\ task \in [Samples -> [pc : {"none", "queued", "validating", "evaluating",
                                 "valid", "invalid"},
                           base : ResultData \cup {"none"},
                           primary : ResultData \cup {"none"},
                           seen : SUBSET Ops]]
  /\ inflight \subseteq Samples
  /\ verdict \in [Samples -> {"none", "valid", "invalid"}]

\* The plan of a sample answered as the engine's plan in every run, and some
\* benchmark succeeded.
Equivalent(s) ==
  /\ \A o \in ValidationOps(s) :
       ops[o].pc = "ended" /\ ops[o].result \in ResultData \cap {ops[<<s, "base", 0>>].result}
  /\ Measured(s) # {}

\* Whatever the order of the answers, a sample is written as valid exactly if
\* its patch is empty or its plan passed every comparison and was measured.
VerdictExact ==
  main = "written" =>
    \A s \in Samples :
      verdict[s] = "valid" <=>
        kind[s] = "empty" \/ (kind[s] = "patch" /\ Equivalent(s))

\* No future is forgotten and none is counted twice: it is awaited, or its
\* verdict is recorded, never both; the pool is not overfull, and at the end
\* every sample has a verdict.
JudgedOnce ==
  /\ \A s \in Samples : task[s].pc # "none" => (s \in inflight <=> verdict[s] = "none")
  /\ Cardinality(inflight) <= MaxInflight
  /\ main = "written" => \A s \in Samples : verdict[s] # "none"

\* evaluate_sampled_plans returns, and then all the sandboxes come free,
\* those a validation left behind included.
PoolFinishes == <>(main = "written") /\ <>[](permits = MaxSandboxes)

\* With exec_local and one worker, no two operations share the machine (a
\* local operation runs as soon as it is started).
LocalRunsAlone ==
  backend = "local" /\ MaxWorkers = 1 =>
    Cardinality({o \in Ops : ops[o].pc \in {"waiting", "running", "fetching"}}) <= 1
=============================================================================
