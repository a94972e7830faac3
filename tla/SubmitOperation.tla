--------------------------- MODULE SubmitOperation ---------------------------
(***************************************************************************)
(* submit_run_operation (modal_controller/utils.py): one engine operation, *)
(* run in a Modal sandbox with retries, or in this process with            *)
(* exec_local.  Sandboxes are capped by one semaphore for the whole        *)
(* program; the semaphore is held while a sandbox runs, and not during the *)
(* back-off or while its result is fetched from S3.                        *)
(*                                                                         *)
(* An operation is named <<sample, kind, run>>: validate_plan_result_set   *)
(* submits a "base" and several "cand" runs, evaluate_plan_n_runs several  *)
(* "eval" runs.  The back-off and the rate gate only delay a start.        *)
(***************************************************************************)
EXTENDS Naturals, FiniteSetsExt

CONSTANTS
  Samples,            \* the samples that are evaluated
  NumCandRuns,        \* n_determinism_retries
  NumEvalRuns,        \* n_runs
  ValidationRetries,  \* n_retry of the validation (5 in the code)
  EvalRetries,        \* n_retry of the evaluation (2 in the code)
  MaxSandboxes,       \* MAX_CONCURRENT_SANDBOXES
  Backends,           \* subset of {"modal", "local"}: exec_local or not
  ResultData          \* the result sets a plan can produce

ASSUME SubmitOperationAssumption ==
  /\ {NumCandRuns, NumEvalRuns, MaxSandboxes} \subseteq Nat \ {0}
  /\ {ValidationRetries, EvalRetries} \subseteq Nat
  /\ Backends \subseteq {"modal", "local"}
  /\ {"none", "error"} \cap ResultData = {}

VARIABLES
  backend,  \* where operations run
  ops,      \* every operation
  permits   \* _SANDBOX_SEM

submitVars == <<backend, ops, permits>>

ValidationOps(s) == {<<s, "base", 0>>} \cup ({s} \X {"cand"} \X (1 .. NumCandRuns))
EvalOps(s) == {s} \X {"eval"} \X (1 .. NumEvalRuns)
Ops == UNION {ValidationOps(s) \cup EvalOps(s) : s \in Samples}

Retries(o) == IF o[2] = "eval" THEN EvalRetries ELSE ValidationRetries

\* Error classes: retried always, retried after the first attempt only
\* (RETRY_ONLY_ONCE), or never.
ErrorClasses == {"transient", "once", "fatal"}

\* "queued" in an executor, "waiting" for the semaphore, "running" in a
\* sandbox, "fetching" its result, and "ended" or "cancelled" as a future.
NoOp == [pc |-> "none", attempt |-> 0, result |-> "none"]

SubmitInit ==
  /\ backend \in Backends
  /\ ops = [o \in Ops |-> NoOp]
  /\ permits = MaxSandboxes

EndedOps(o, result) ==
  [ops EXCEPT ![o] = [pc |-> "ended", attempt |-> 0, result |-> result]]

-----------------------------------------------------------------------------
\* Fault: the last attempt is retried too.
FaultyRetried(o, class) ==
  \/ class = "transient"
  \/ class = "once" /\ ops[o].attempt = 0

\* Is another attempt made after an error of this class?
Retried(o, class) ==
  /\ ops[o].attempt < Retries(o)
  /\ class = "transient" \/ (class = "once" /\ ops[o].attempt = 0)

\* An attempt failed: back off and try again, or give the error back.
Failed(o, class) ==
  IF Retried(o, class)
  THEN [ops EXCEPT ![o].pc = "waiting", ![o].attempt = @ + 1]
  ELSE EndedOps(o, "error")

\* Entering the "with _SANDBOX_SEM" block.
Acquire(o) ==
  /\ backend = "modal" /\ ops[o].pc = "waiting" /\ permits > 0
  /\ permits' = permits - 1
  /\ ops' = [ops EXCEPT ![o].pc = "running"]
  /\ UNCHANGED backend

\* Fault: an exception of the runner's constructor keeps the permit.
LeakyRunAttempt(o) ==
  /\ ops[o].pc = "running"
  /\ \/ ops' = [ops EXCEPT ![o].pc = "fetching"] /\ permits' = permits + 1
     \/ /\ \E class \in ErrorClasses : ops' = Failed(o, class)
        /\ permits' = permits + 1
     \/ ops' = EndedOps(o, "error") /\ UNCHANGED permits
  /\ UNCHANGED backend

\* The sandbox ends, and the block is left: with a uuid, with an error, or
\* with an exception (the runner's constructor is outside the try).
RunAttempt(o) ==
  /\ ops[o].pc = "running"
  /\ permits' = permits + 1
  /\ \/ ops' = [ops EXCEPT ![o].pc = "fetching"]
     \/ \E class \in ErrorClasses : ops' = Failed(o, class)
     \/ ops' = EndedOps(o, "error")
  /\ UNCHANGED backend

\* read_uuid_result: what the operation stored in S3, or an S3 error.
Fetch(o) ==
  /\ ops[o].pc = "fetching"
  /\ \/ \E data \in ResultData : ops' = EndedOps(o, data)
     \/ \E class \in ErrorClasses : ops' = Failed(o, class)
  /\ UNCHANGED <<backend, permits>>

\* exec_local: one attempt in the calling thread.
RunLocal(o) ==
  /\ backend = "local" /\ ops[o].pc = "waiting"
  /\ \E result \in ResultData \cup {"error"} : ops' = EndedOps(o, result)
  /\ UNCHANGED <<backend, permits>>

SubmitStep(o) == Acquire(o) \/ RunAttempt(o) \/ Fetch(o) \/ RunLocal(o)

-----------------------------------------------------------------------------
Running == {o \in Ops : ops[o].pc = "running"}

SubmitTypeOK ==
  /\ backend \in {"modal", "local"}
  /\ ops \in [Ops -> [pc : {"none", "queued", "waiting", "running", "fetching",
                            "ended", "cancelled"},
                      attempt : Nat, result : ResultData \cup {"none", "error"}]]
  /\ \A o \in Ops : ops[o].attempt <= Retries(o)
  /\ permits \in 0 .. MaxSandboxes

\* No sandbox runs without a permit and no permit is lost, whatever fails.
PermitsBalanced == permits + Cardinality(Running) = MaxSandboxes
=============================================================================
