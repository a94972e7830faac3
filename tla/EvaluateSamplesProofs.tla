------------------------ MODULE EvaluateSamplesProofs ------------------------
(***************************************************************************)
(* Proofs about EvaluateSamples for any number of samples, runs, retries   *)
(* and workers: the verdicts are exact and the semaphore is balanced.      *)
(*                                                                         *)
(* VerdictExact speaks of the end only.  Its strengthening TaskInv says    *)
(* what a validation in progress knows from the answers it has seen, in    *)
(* whatever order they came, and that an answer never changes afterwards,  *)
(* so that what refuted a plan once refutes it for good.                   *)
(***************************************************************************)
EXTENDS EvaluateSamples, FiniteSetTheorems, TLAPS

OpRecord == [pc : {"none", "queued", "waiting", "running", "fetching", "ended",
                   "cancelled"},
             attempt : Nat, result : ResultData \cup {"none", "error"}]

OwnOps(s) == ValidationOps(s) \cup EvalOps(s)
Base(s) == <<s, "base", 0>>

\* Everything has its type, and only an operation that ended has a result.
StateInv ==
  /\ backend \in {"modal", "local"}
  /\ ops \in [Ops -> OpRecord]
  /\ permits \in Nat
  /\ task \in [Samples -> [pc : {"none", "queued", "validating", "evaluating",
                                 "valid", "invalid"},
                           base : ResultData \cup {"none"},
                           primary : ResultData \cup {"none"},
                           seen : SUBSET Ops]]
  /\ \A o \in Ops : ops[o].pc = "ended" <=> ops[o].result # "none"

\* All validation runs ended with the data of the baseline.
AllAgree(s) ==
  \A o \in ValidationOps(s) :
    /\ ops[o].pc = "ended" /\ ops[o].result \in ResultData
    /\ ops[o].result = ops[Base(s)].result

\* What can refute a plan: a run that failed, two that differ, no benchmark.
Refuted(s) ==
  \/ \E o \in ValidationOps(s) : ops[o].pc = "ended" /\ ops[o].result = "error"
  \/ \E o, p \in ValidationOps(s) :
       ops[o].pc = "ended" /\ ops[p].pc = "ended" /\ ops[o].result # ops[p].result
  \/ /\ \A o \in EvalOps(s) : ops[o].pc = "ended"
     /\ Measured(s) = {}

\* What the locals of a validation say of the answers seen so far.
ValidationInv(s) ==
  /\ task[s].seen \subseteq ValidationOps(s)
  /\ \A o \in task[s].seen :
       /\ ops[o].pc = "ended" /\ ops[o].result \in ResultData
       /\ o[2] = "cand" => ops[o].result = task[s].primary
  /\ IF Base(s) \in task[s].seen
     THEN task[s].base = ops[Base(s)].result
     ELSE task[s].base = "none"
  /\ task[s].primary # "none" =>
       /\ \E o \in task[s].seen : o[2] = "cand"
       /\ task[s].base # "none" => task[s].base = task[s].primary

TaskInv(s) ==
  /\ task[s].pc \in {"none", "queued"} =>
       /\ task[s].seen = {} /\ task[s].base = "none" /\ task[s].primary = "none"
       /\ \A o \in OwnOps(s) : ops[o].pc = "none"
  /\ task[s].pc = "validating" =>
       /\ ValidationInv(s)
       /\ \A o \in EvalOps(s) : ops[o].pc = "none"
  /\ task[s].pc \in {"evaluating", "valid"} => AllAgree(s)
  /\ task[s].pc = "valid" => Measured(s) # {}
  /\ task[s].pc = "invalid" => Refuted(s)

\* The main thread's book-keeping.
MainInv ==
  /\ kind \in [Samples -> {"failed", "empty", "broken", "patch"}]
  /\ main \in {"submit", "drain", "written"}
  /\ verdict \in [Samples -> {"none", "valid", "invalid"}]
  /\ inflight = {s \in Samples : task[s].pc # "none" /\ verdict[s] = "none"}
  /\ IsFiniteSet(inflight) /\ Cardinality(inflight) <= MaxInflight
  /\ \A s \in Samples :
       IF kind[s] = "patch"
       THEN verdict[s] # "none" => verdict[s] = task[s].pc
       ELSE /\ task[s].pc = "none"
            /\ verdict[s] # "none" => (verdict[s] = "valid" <=> kind[s] = "empty")
  /\ main # "submit" => Pending = {}
  /\ main = "written" => inflight = {}

PermitsInv == IsFiniteSet(Running) /\ PermitsBalanced

IInv == StateInv /\ (\A s \in Samples : TaskInv(s)) /\ MainInv /\ PermitsInv

-----------------------------------------------------------------------------
\* The operations of a sample carry its name, and are its base run, its
\* candidate runs, of which there is one, and its benchmark runs.
LEMMA OpNames ==
  ASSUME NEW s \in Samples
  PROVE  /\ OwnOps(s) \subseteq Ops
         /\ \A o \in OwnOps(s) : o[1] = s
         /\ \A o \in ValidationOps(s) : o = Base(s) \/ o[2] = "cand"
         /\ Base(s) \in ValidationOps(s) /\ Base(s)[2] = "base"
         /\ \E o \in ValidationOps(s) : o[2] = "cand"
         /\ \A o \in EvalOps(s) : o[2] = "eval"
<1>1. <<s, "cand", 1>> \in ValidationOps(s) /\ <<s, "cand", 1>>[2] = "cand"
  BY SubmitOperationAssumption DEF ValidationOps
<1>2. QED
  BY <1>1 DEF OwnOps, ValidationOps, EvalOps, Ops, Base

\* The operations of two samples are different.
LEMMA OpsDisjoint ==
  ASSUME NEW s \in Samples, NEW r \in Samples, s # r
  PROVE  OwnOps(s) \cap OwnOps(r) = {}
  BY OpNames

\* Operations of a sample that move on without touching an answer, or one
\* that has not been submitted, leave what is known of the sample true.
LEMMA Frame ==
  ASSUME NEW s \in Samples, StateInv, TaskInv(s), task'[s] = task[s],
         \A o \in OwnOps(s) : ops[o].pc \in {"none", "ended"} => ops'[o] = ops[o]
  PROVE  TaskInv(s)'
<1>1. \A o \in OwnOps(s) : ops[o].pc \in {"none", "ended"} => ops'[o] = ops[o]
  OBVIOUS
<1>2. ValidationOps(s) \subseteq OwnOps(s) /\ EvalOps(s) \subseteq OwnOps(s) /\ Base(s) \in OwnOps(s)
  BY OpNames DEF OwnOps
<1>3. task[s].pc = "validating" /\ ValidationInv(s) => ValidationInv(s)'
  BY <1>1, <1>2 DEF ValidationInv
<1>4. AllAgree(s) => AllAgree(s)'
  BY <1>1, <1>2, OpNames DEF AllAgree
<1>5. Measured(s) # {} => Measured(s)' # {}
  <2>1. ASSUME NEW o \in Measured(s) PROVE o \in Measured(s)'
    BY <1>1, <1>2, <2>1, OpNames, SubmitOperationAssumption DEF Measured, StateInv
  <2>2. QED
    BY <2>1
<1>6. Refuted(s) => Refuted(s)'
  BY <1>1, <1>2 DEF Refuted, Measured
<1>7. QED
  BY <1>1, <1>2, <1>3, <1>4, <1>5, <1>6 DEF TaskInv
-----------------------------------------------------------------------------
\* An operation that takes a step was submitted and has not ended; the
\* others, and the threads above, are left alone.
LEMMA OpStepEffect ==
  ASSUME StateInv, NEW o \in Ops, OpStep(o)
  PROVE  /\ ops[o].pc \notin {"none", "ended"}
         /\ ops' \in [Ops -> OpRecord]
         /\ \A p \in Ops \ {o} : ops'[p] = ops[p]
         /\ ops'[o].pc = "ended" <=> ops'[o].result # "none"
         /\ UNCHANGED <<backend, task, kind, main, inflight, verdict>>
<1> USE SubmitOperationAssumption DEF StateInv, OpRecord
<1>1. CASE StartOp(o)
  BY <1>1 DEF StartOp, mainVars
<1>2. ASSUME NEW class \in ErrorClasses, ops' = Failed(o, class),
             ops[o].pc \in {"running", "fetching"}
      PROVE  /\ ops' \in [Ops -> OpRecord]
             /\ \A p \in Ops \ {o} : ops'[p] = ops[p]
             /\ ops'[o].pc = "ended" <=> ops'[o].result # "none"
  BY <1>2 DEF Failed, EndedOps
<1>3. ASSUME NEW result \in ResultData \cup {"error"}, ops' = EndedOps(o, result)
      PROVE  /\ ops' \in [Ops -> OpRecord]
             /\ \A p \in Ops \ {o} : ops'[p] = ops[p]
             /\ ops'[o].pc = "ended" <=> ops'[o].result # "none"
  BY <1>3 DEF EndedOps
<1>4. CASE Acquire(o) /\ UNCHANGED <<task, mainVars>>
  BY <1>4 DEF Acquire, mainVars
<1>5. CASE RunAttempt(o) /\ UNCHANGED <<task, mainVars>>
  <2>1. CASE ops' = [ops EXCEPT ![o].pc = "fetching"]
    BY <1>5, <2>1 DEF RunAttempt, mainVars
  <2>2. CASE \E class \in ErrorClasses : ops' = Failed(o, class)
    BY <1>2, <1>5, <2>2 DEF RunAttempt, mainVars
  <2>3. CASE ops' = EndedOps(o, "error")
    BY <1>3, <1>5, <2>3 DEF RunAttempt, mainVars
  <2>4. QED
    BY <1>5, <2>1, <2>2, <2>3 DEF RunAttempt
<1>6. CASE Fetch(o) /\ UNCHANGED <<task, mainVars>>
  BY <1>2, <1>3, <1>6 DEF Fetch, mainVars
<1>7. CASE RunLocal(o) /\ UNCHANGED <<task, mainVars>>
  BY <1>3, <1>7 DEF RunLocal, mainVars
<1>8. QED
  BY <1>1, <1>4, <1>5, <1>6, <1>7 DEF OpStep, SubmitStep

\* A sandbox starts with a permit and gives it back; nothing else does.
LEMMA OpStepPermits ==
  ASSUME StateInv, PermitsInv, NEW o \in Ops, OpStep(o)
  PROVE  permits' \in Nat /\ PermitsInv'
<1>1. ASSUME permits' = permits - 1, permits > 0, Running' = Running \cup {o}, o \notin Running
      PROVE  permits' \in Nat /\ PermitsInv'
  <2>1. IsFiniteSet(Running') /\ Cardinality(Running') = Cardinality(Running) + 1
    BY <1>1, FS_AddElement DEF PermitsInv
  <2>2. Cardinality(Running) \in Nat
    BY FS_CardinalityType DEF PermitsInv
  <2>3. QED
    BY <1>1, <2>1, <2>2, SubmitOperationAssumption DEF PermitsInv, PermitsBalanced, StateInv
<1>2. ASSUME permits' = permits + 1, Running' = Running \ {o}, o \in Running
      PROVE  permits' \in Nat /\ PermitsInv'
  <2>1. IsFiniteSet(Running') /\ Cardinality(Running') = Cardinality(Running) - 1
    BY <1>2, FS_RemoveElement DEF PermitsInv
  <2>2. Cardinality(Running) \in Nat
    BY FS_CardinalityType DEF PermitsInv
  <2>3. QED
    BY <1>2, <2>1, <2>2, SubmitOperationAssumption DEF PermitsInv, PermitsBalanced, StateInv
<1>3. ASSUME permits' = permits, Running' = Running
      PROVE  permits' \in Nat /\ PermitsInv'
  BY <1>3 DEF PermitsInv, PermitsBalanced, StateInv
<1>4. /\ \A p \in Ops \ {o} : ops'[p] = ops[p]
      /\ ops' \in [Ops -> OpRecord]
  BY OpStepEffect
<1>5. CASE StartOp(o) \/ Fetch(o) \/ RunLocal(o)
  <2>1. ops[o].pc # "running" /\ ops'[o].pc # "running" /\ permits' = permits
    BY <1>5 DEF StartOp, Fetch, RunLocal, Failed, EndedOps, StateInv, OpRecord
  <2>2. QED
    BY <1>3, <1>4, <2>1 DEF Running
<1>6. CASE Acquire(o)
  <2>1. ops[o].pc # "running" /\ ops'[o].pc = "running" /\ permits' = permits - 1 /\ permits > 0
    BY <1>6 DEF Acquire, StateInv, OpRecord
  <2>2. QED
    BY <1>1, <1>4, <2>1 DEF Running
<1>7. CASE RunAttempt(o)
  <2>1. ops[o].pc = "running" /\ ops'[o].pc # "running" /\ permits' = permits + 1
    BY <1>7 DEF RunAttempt, Failed, EndedOps, StateInv, OpRecord
  <2>2. QED
    BY <1>2, <1>4, <2>1 DEF Running
<1>8. QED
  BY <1>5, <1>6, <1>7 DEF OpStep, SubmitStep

-----------------------------------------------------------------------------
\* The semaphore does not notice what starts or stops no sandbox.
LEMMA PermitsFrame ==
  ASSUME PermitsInv, permits' = permits,
         \A o \in Ops : ops'[o].pc = "running" <=> ops[o].pc = "running"
  PROVE  PermitsInv'
<1>1. Running' = Running
  BY DEF Running
<1>2. QED
  BY <1>1 DEF PermitsInv, PermitsBalanced

\* The main thread does not notice what a worker does before it is done.
LEMMA MainFrame ==
  ASSUME MainInv, UNCHANGED mainVars,
         \A r \in Samples : task'[r].pc = "none" <=> task[r].pc = "none",
         \A r \in Samples : verdict[r] # "none" => task'[r] = task[r]
  PROVE  MainInv'
<1>1. inflight' = inflight /\ verdict' = verdict /\ kind' = kind /\ main' = main
  BY DEF mainVars
<1>2. inflight' = {s \in Samples : task'[s].pc # "none" /\ verdict'[s] = "none"}
  BY <1>1 DEF MainInv
<1>3. Pending' = Pending
  BY <1>1 DEF Pending
<1>4. QED
  BY <1>1, <1>2, <1>3 DEF MainInv, MaxInflight

\* A worker only works on a sample that has no verdict yet.
LEMMA WorkingUnjudged ==
  ASSUME MainInv, NEW s \in Samples,
         task[s].pc \in {"queued", "validating", "evaluating"}
  PROVE  verdict[s] = "none"
  BY DEF MainInv

\* A validation starts with nothing seen and all its runs queued.
LEMMA StartValidationInv ==
  ASSUME IInv, NEW s \in Samples, StartValidation(s)
  PROVE  IInv'
<1> USE DEF IInv
<1>1. /\ task[s].pc = "queued"
      /\ task' = [task EXCEPT ![s].pc = "validating"]
      /\ ops' = Queue(ValidationOps(s))
      /\ UNCHANGED <<backend, permits>> /\ UNCHANGED mainVars
  BY DEF StartValidation
<1>2. \A o \in OwnOps(s) : o \in Ops /\ ops[o].pc = "none"
  BY <1>1, OpNames DEF TaskInv
<1>3. ValidationOps(s) \subseteq OwnOps(s) /\ EvalOps(s) \subseteq OwnOps(s)
  BY DEF OwnOps
<1>4. /\ ops' \in [Ops -> OpRecord]
      /\ \A o \in Ops \ ValidationOps(s) : ops'[o] = ops[o]
      /\ \A o \in ValidationOps(s) : ops'[o].pc = "queued" /\ ops'[o].result = "none"
  BY <1>1, <1>2, <1>3 DEF Queue, NoOp, StateInv, OpRecord
<1>5. StateInv'
  BY <1>1, <1>4 DEF StateInv
<1>6. ASSUME NEW r \in Samples PROVE TaskInv(r)'
  <2>1. CASE r # s
    <3>1. \A o \in OwnOps(r) : ops'[o] = ops[o]
      BY <1>3, <1>4, <2>1, OpNames, OpsDisjoint
    <3>2. task'[r] = task[r]
      BY <1>1, <2>1 DEF StateInv
    <3>3. QED
      BY <3>1, <3>2, Frame
  <2>2. CASE r = s
    <3>1. task'[s].pc = "validating" /\ task'[s].seen = task[s].seen
          /\ task'[s].base = task[s].base /\ task'[s].primary = task[s].primary
      BY <1>1 DEF StateInv
    <3>2. task[s].seen = {} /\ task[s].base = "none" /\ task[s].primary = "none"
      BY <1>1 DEF TaskInv
    <3>3. ValidationInv(s)'
      BY <3>1, <3>2 DEF ValidationInv
    <3>4. \A o \in EvalOps(s) : ops'[o].pc = "none"
      BY <1>2, <1>3, <1>4, OpNames
    <3>5. QED
      BY <2>2, <3>1, <3>3, <3>4 DEF TaskInv
  <2>3. QED
    BY <2>1, <2>2
<1>7. MainInv'
  <2>1. verdict[s] = "none"
    BY <1>1, WorkingUnjudged
  <2>2. \A r \in Samples : r # s => task'[r] = task[r]
    BY <1>1 DEF StateInv
  <2>3. task'[s].pc = "validating"
    BY <1>1 DEF StateInv
  <2>4. QED
    BY <1>1, <2>1, <2>2, <2>3, MainFrame
<1>8. PermitsInv'
  <2>1. \A o \in Ops : ops'[o].pc = "running" <=> ops[o].pc = "running"
    BY <1>2, <1>3, <1>4
  <2>2. QED
    BY <1>1, <2>1, PermitsFrame
<1>9. QED
  BY <1>5, <1>6, <1>7, <1>8

-----------------------------------------------------------------------------
(* One answer of a validation. *)

\* The operations of the other samples, and answers that are there, are not
\* touched when a sample's queued operations are cancelled or its benchmark
\* is submitted.
LEMMA AnswerFrame ==
  ASSUME IInv, NEW s \in Samples, NEW o \in Ops, TakeAnswer(s, o),
         ops' \in [Ops -> OpRecord],
         \A p \in Ops : ops'[p] # ops[p] =>
           /\ p \in OwnOps(s) /\ ops[p].pc \in {"none", "queued"}
           /\ ops'[p].pc \in {"queued", "cancelled"} /\ ops'[p].result = "none",
         NEW after, task' = [task EXCEPT ![s] = after],
         after \in [pc : {"validating", "evaluating", "invalid"},
                    base : ResultData \cup {"none"},
                    primary : ResultData \cup {"none"}, seen : SUBSET Ops],
         TaskInv(s)'
  PROVE  IInv'
<1> USE DEF IInv
<1>1. task[s].pc = "validating" /\ UNCHANGED <<backend, permits>> /\ UNCHANGED mainVars
  BY DEF TakeAnswer
<1>2. StateInv'
  BY <1>1 DEF StateInv
<1>3. \A r \in Samples : r # s => task'[r] = task[r]
  BY DEF StateInv
<1>4. task'[s] = after
  BY DEF StateInv
<1>5. ASSUME NEW r \in Samples, r # s PROVE TaskInv(r)'
  <2>1. \A p \in OwnOps(r) : ops'[p] = ops[p]
    BY <1>5, OpNames, OpsDisjoint
  <2>2. QED
    BY <1>3, <1>5, <2>1, Frame
<1>6. MainInv'
  BY <1>1, <1>3, <1>4, WorkingUnjudged, MainFrame
<1>7. PermitsInv'
  BY <1>1, PermitsFrame
<1>8. QED
  BY <1>2, <1>5, <1>6, <1>7

\* An answer that refutes the plan is one of the reasons in Refuted.
LEMMA RefutingAnswer ==
  ASSUME IInv, NEW s \in Samples, NEW o \in Ops, TakeAnswer(s, o), Refutes(s, o)
  PROVE  IInv'
<1> USE DEF IInv
<1> DEFINE after == [NoTask EXCEPT !.pc = "invalid"]
<1>1. /\ task[s].pc = "validating" /\ o \in ValidationOps(s) /\ ops[o].pc = "ended"
      /\ task' = [task EXCEPT ![s] = after]
      /\ ops' = CancelQueued(s)
  BY DEF TakeAnswer
<1>2. ops' \in [Ops -> OpRecord]
  BY <1>1 DEF CancelQueued, StateInv, OpRecord
<1>3. \A p \in Ops : ops'[p] # ops[p] =>
        /\ p \in OwnOps(s) /\ ops[p].pc = "queued"
        /\ ops'[p].pc = "cancelled" /\ ops'[p].result = "none"
  BY <1>1 DEF CancelQueued, StateInv, OpRecord, OwnOps
<1>4. \A p \in ValidationOps(s) : p \in Ops
  BY OpNames DEF OwnOps
<1>5. ValidationInv(s)
  BY <1>1 DEF TaskInv
<1>6. \E p, q \in ValidationOps(s) :
        /\ ops[p].pc = "ended" /\ ops[q].pc = "ended"
        /\ ops[p].result = "error" \/ ops[p].result # ops[q].result
  <2>1. CASE ops[o].result = "error"
    BY <1>1, <2>1
  <2>2. CASE task[s].primary # "none" /\ ops[o].result # task[s].primary
    <3>1. PICK p \in task[s].seen : p[2] = "cand"
      BY <1>5, <2>2 DEF ValidationInv
    <3>2. p \in ValidationOps(s) /\ ops[p].pc = "ended" /\ ops[p].result = task[s].primary
      BY <1>5, <3>1 DEF ValidationInv
    <3>3. QED
      BY <1>1, <2>2, <3>2
  <2>3. CASE task[s].base # "none" /\ ops[o].result # task[s].base
    <3>1. Base(s) \in ValidationOps(s) /\ ops[Base(s)].pc = "ended"
          /\ ops[Base(s)].result = task[s].base
      BY <1>5, <2>3 DEF ValidationInv
    <3>2. QED
      BY <1>1, <2>3, <3>1
  <2>4. QED
    BY <2>1, <2>2, <2>3 DEF Refutes
<1>7. Refuted(s)'
  <2>1. \A p \in ValidationOps(s) : ops[p].pc = "ended" => ops'[p] = ops[p]
    BY <1>3, <1>4
  <2>2. QED
    BY <1>6, <2>1 DEF Refuted
<1>8. task'[s] = after /\ after.pc = "invalid"
  BY <1>1 DEF StateInv, NoTask
<1>9. TaskInv(s)'
  BY <1>7, <1>8 DEF TaskInv
<1>10. after \in [pc : {"validating", "evaluating", "invalid"},
                   base : ResultData \cup {"none"},
                   primary : ResultData \cup {"none"}, seen : SUBSET Ops]
  BY DEF NoTask
<1>11. \A p \in Ops : ops'[p] # ops[p] =>
        /\ p \in OwnOps(s) /\ ops[p].pc \in {"none", "queued"}
        /\ ops'[p].pc \in {"queued", "cancelled"} /\ ops'[p].result = "none"
  BY <1>3
<1> HIDE DEF after
<1>12. QED
  BY <1>1, <1>2, <1>9, <1>10, <1>11, AnswerFrame

\* The last answer that fits shows that all runs agree with the baseline,
\* whichever of them came last.
LEMMA LastAnswer ==
  ASSUME IInv, NEW s \in Samples, NEW o \in Ops, TakeAnswer(s, o), ~Refutes(s, o),
         task[s].seen \cup {o} = ValidationOps(s)
  PROVE  IInv'
<1> USE DEF IInv
<1> DEFINE after == [NoTask EXCEPT !.pc = "evaluating"]
<1>1. /\ task[s].pc = "validating" /\ o \in ValidationOps(s) \ task[s].seen
      /\ ops[o].pc = "ended"
      /\ task' = [task EXCEPT ![s] = after]
      /\ ops' = Queue(EvalOps(s))
  BY DEF TakeAnswer
<1>2. ValidationInv(s) /\ \A e \in EvalOps(s) : ops[e].pc = "none"
  BY <1>1 DEF TaskInv
<1>3. ops[o].result \in ResultData
  BY <1>1, ~Refutes(s, o) DEF Refutes, StateInv, OpRecord
<1>4. \A p \in ValidationOps(s) : ops[p].pc = "ended" /\ ops[p].result \in ResultData
  BY <1>1, <1>2, <1>3 DEF ValidationInv
<1>5. \A p \in ValidationOps(s) : ops[p].result = ops[Base(s)].result
  <2>1. CASE o = Base(s)
    <3>1. PICK q \in ValidationOps(s) : q[2] = "cand"
      BY OpNames
    <3>2. o[2] = "base"
      BY <2>1, OpNames
    <3>3. q \in task[s].seen
      BY <3>1, <3>2
    <3>4. task[s].primary # "none"
      BY <1>2, <3>1, <3>3, SubmitOperationAssumption DEF ValidationInv
    <3>5. ops[o].result = task[s].primary
      BY <3>2, <3>4 DEF Refutes
    <3>6. \A p \in task[s].seen : ops[p].result = task[s].primary
      BY <1>1, <1>2, <2>1, OpNames DEF ValidationInv
    <3>7. QED
      BY <2>1, <3>5, <3>6
  <2>2. CASE o # Base(s)
    <3>1. o[2] = "cand" /\ Base(s) \in task[s].seen
      BY <1>1, <2>2, OpNames
    <3>2. task[s].base = ops[Base(s)].result /\ task[s].base # "none"
      BY <1>2, <3>1, SubmitOperationAssumption DEF ValidationInv
    <3>3. CASE task[s].primary = "none"
      <4>1. \A p \in task[s].seen : p[2] # "cand"
        BY <1>2, <3>3, SubmitOperationAssumption DEF ValidationInv
      <4>2. task[s].seen = {Base(s)}
        BY <1>2, <3>1, <4>1, OpNames DEF ValidationInv
      <4>3. ops[o].result = task[s].base
        BY <3>1, <3>2, <3>3 DEF Refutes
      <4>4. QED
        BY <3>2, <4>2, <4>3
    <3>4. CASE task[s].primary # "none"
      <4>1. task[s].primary = task[s].base
        BY <1>2, <3>2, <3>4 DEF ValidationInv
      <4>2. ops[o].result = task[s].primary
        BY <3>1, <3>4 DEF Refutes
      <4>3. \A p \in task[s].seen : p = Base(s) \/ ops[p].result = task[s].primary
        BY <1>2, OpNames DEF ValidationInv
      <4>4. QED
        BY <3>2, <4>1, <4>2, <4>3
    <3>5. QED
      BY <3>3, <3>4
  <2>3. QED
    BY <2>1, <2>2
<1>6. EvalOps(s) \subseteq OwnOps(s) /\ OwnOps(s) \subseteq Ops /\ ValidationOps(s) \subseteq Ops
  BY OpNames DEF OwnOps
<1>7. ops' \in [Ops -> OpRecord]
  BY <1>1 DEF Queue, NoOp, StateInv, OpRecord
<1>8. \A p \in Ops : ops'[p] # ops[p] =>
        /\ p \in EvalOps(s) /\ ops[p].pc = "none"
        /\ ops'[p].pc = "queued" /\ ops'[p].result = "none"
  BY <1>1, <1>2 DEF Queue, NoOp
<1>9. AllAgree(s)'
  <2>1. \A p \in ValidationOps(s) : ops'[p] = ops[p]
    BY <1>4, <1>6, <1>8
  <2>2. QED
    BY <1>4, <1>5, <2>1, OpNames DEF AllAgree
<1>10. task'[s] = after /\ after.pc = "evaluating"
  BY <1>1 DEF StateInv, NoTask
<1>11. TaskInv(s)'
  BY <1>9, <1>10 DEF TaskInv
<1>12. after \in [pc : {"validating", "evaluating", "invalid"},
                   base : ResultData \cup {"none"},
                   primary : ResultData \cup {"none"}, seen : SUBSET Ops]
  BY DEF NoTask
<1>13. \A p \in Ops : ops'[p] # ops[p] =>
        /\ p \in OwnOps(s) /\ ops[p].pc \in {"none", "queued"}
        /\ ops'[p].pc \in {"queued", "cancelled"} /\ ops'[p].result = "none"
  BY <1>6, <1>8
<1> HIDE DEF after
<1>14. QED
  BY <1>1, <1>7, <1>11, <1>12, <1>13, AnswerFrame

\* An answer that fits, with more to come, is added to what was seen.
LEMMA FittingAnswer ==
  ASSUME IInv, NEW s \in Samples, NEW o \in Ops, TakeAnswer(s, o), ~Refutes(s, o),
         task[s].seen \cup {o} # ValidationOps(s)
  PROVE  IInv'
<1> USE DEF IInv
<1> DEFINE after ==
      [pc |-> "validating", seen |-> task[s].seen \cup {o},
       base |-> IF o[2] = "base" THEN ops[o].result ELSE task[s].base,
       primary |-> IF o[2] = "cand" /\ task[s].primary = "none"
                   THEN ops[o].result ELSE task[s].primary]
<1>1. /\ task[s].pc = "validating" /\ o \in ValidationOps(s) \ task[s].seen
      /\ ops[o].pc = "ended" /\ ops' = ops
  BY DEF TakeAnswer
<1>2. task' = [task EXCEPT ![s] = after]
  BY <1>1 DEF TakeAnswer, StateInv
<1>3. ValidationInv(s) /\ \A e \in EvalOps(s) : ops[e].pc = "none"
  BY <1>1 DEF TaskInv
<1>4. ops[o].result \in ResultData /\ ops[o].result # "none"
  BY <1>1, ~Refutes(s, o), SubmitOperationAssumption DEF Refutes, StateInv, OpRecord
<1>5. task'[s] = after
  BY <1>2 DEF StateInv
<1>6. ValidationInv(s)'
  <2>1. after.seen \subseteq ValidationOps(s)
    BY <1>1, <1>3 DEF ValidationInv
  <2>2. ASSUME NEW p \in after.seen
        PROVE  /\ ops[p].pc = "ended" /\ ops[p].result \in ResultData
               /\ p[2] = "cand" => ops[p].result = after.primary
    <3>1. CASE p = o
      BY <1>1, <1>4, <3>1 DEF Refutes
    <3>2. CASE p # o
      BY <1>3, <1>4, <2>2, <3>2, SubmitOperationAssumption DEF ValidationInv
    <3>3. QED
      BY <3>1, <3>2
  <2>3. IF Base(s) \in after.seen THEN after.base = ops[Base(s)].result ELSE after.base = "none"
    BY <1>1, <1>3, OpNames DEF ValidationInv
  <2>4. after.primary # "none" =>
          /\ \E p \in after.seen : p[2] = "cand"
          /\ after.base # "none" => after.base = after.primary
    <3>1. CASE o[2] = "cand"
      BY <1>3, <1>4, <3>1 DEF ValidationInv, Refutes
    <3>2. CASE o[2] = "base"
      BY <1>3, <1>4, <3>2 DEF ValidationInv, Refutes
    <3>3. QED
      BY <1>1, <3>1, <3>2, OpNames
  <2> HIDE DEF after
  <2>5. QED
    BY <1>1, <1>5, <2>1, <2>2, <2>3, <2>4 DEF ValidationInv
<1>7. TaskInv(s)'
  BY <1>1, <1>3, <1>5, <1>6 DEF TaskInv
<1>8. after \in [pc : {"validating", "evaluating", "invalid"},
                  base : ResultData \cup {"none"},
                  primary : ResultData \cup {"none"}, seen : SUBSET Ops]
  BY <1>4 DEF StateInv
<1>9. ops' \in [Ops -> OpRecord]
  BY <1>1 DEF StateInv
<1> HIDE DEF after
<1>10. QED
  BY <1>1, <1>2, <1>7, <1>8, <1>9, AnswerFrame

\* The evaluation ends: measured, or every benchmark failed.
LEMMA FinishEvaluationInv ==
  ASSUME IInv, NEW s \in Samples, FinishEvaluation(s)
  PROVE  IInv'
<1> USE DEF IInv
<1> DEFINE end == IF Measured(s) # {} THEN "valid" ELSE "invalid"
<1>1. /\ task[s].pc = "evaluating"
      /\ \A o \in EvalOps(s) : ops[o].pc = "ended"
      /\ task' = [task EXCEPT ![s].pc = end]
      /\ UNCHANGED <<backend, ops, permits>> /\ UNCHANGED mainVars
  BY DEF FinishEvaluation, submitVars
<1>2. /\ \A r \in Samples : r # s => task'[r] = task[r]
      /\ task'[s] = [task[s] EXCEPT !.pc = end]
  BY <1>1 DEF StateInv
<1>3. task'[s].pc = end
  BY <1>2 DEF StateInv
<1>4. StateInv'
  BY <1>1 DEF StateInv
<1>5. ASSUME NEW r \in Samples, r # s PROVE TaskInv(r)'
  BY <1>1, <1>2, <1>5, Frame
<1>6. AllAgree(s)' /\ Measured(s)' = Measured(s)
  BY <1>1 DEF TaskInv, AllAgree, Measured
<1>7. Measured(s) = {} => Refuted(s)'
  BY <1>1 DEF Refuted, Measured
<1>8. TaskInv(s)'
  BY <1>3, <1>6, <1>7 DEF TaskInv
<1>9. MainInv'
  BY <1>1, <1>2, <1>3, WorkingUnjudged, MainFrame
<1>10. PermitsInv'
  BY <1>1, PermitsFrame
<1>11. QED
  BY <1>4, <1>5, <1>8, <1>9, <1>10

\* A step of one operation is not noticed by any sample: what it knows rests
\* on answers that are there, and the operation had none yet.
LEMMA OpStepInv ==
  ASSUME IInv, NEW o \in Ops, OpStep(o)
  PROVE  IInv'
<1> USE DEF IInv
<1>1. /\ ops[o].pc \notin {"none", "ended"}
      /\ ops' \in [Ops -> OpRecord]
      /\ \A p \in Ops \ {o} : ops'[p] = ops[p]
      /\ ops'[o].pc = "ended" <=> ops'[o].result # "none"
      /\ UNCHANGED <<backend, task, kind, main, inflight, verdict>>
  BY OpStepEffect
<1>2. permits' \in Nat /\ PermitsInv'
  BY OpStepPermits
<1>3. StateInv'
  BY <1>1, <1>2 DEF StateInv
<1>4. ASSUME NEW s \in Samples PROVE TaskInv(s)'
  <2>1. \A p \in OwnOps(s) : ops[p].pc \in {"none", "ended"} => ops'[p] = ops[p]
    BY <1>1, OpNames
  <2>2. QED
    BY <1>1, <2>1, Frame
<1>5. MainInv'
  BY <1>1, MainFrame DEF mainVars
<1>6. QED
  BY <1>2, <1>3, <1>4, <1>5

-----------------------------------------------------------------------------
(* The main thread. *)

\* Steps that leave the workers alone keep what is known of the samples.
LEMMA WorkersFrame ==
  ASSUME IInv, UNCHANGED <<backend, ops, permits>>, UNCHANGED task
  PROVE  StateInv' /\ (\A s \in Samples : TaskInv(s)') /\ PermitsInv'
<1>1. StateInv'
  BY DEF IInv, StateInv
<1>2. \A s \in Samples : TaskInv(s)'
  BY Frame DEF IInv
<1>3. PermitsInv'
  BY PermitsFrame DEF IInv
<1>4. QED
  BY <1>1, <1>2, <1>3

\* A sample without a plan to run gets its verdict and never a future.
LEMMA JudgeAtOnceInv ==
  ASSUME IInv, NEW s \in Samples, JudgeAtOnce(s)
  PROVE  IInv'
<1> USE DEF IInv
<1>1. StateInv' /\ (\A r \in Samples : TaskInv(r)') /\ PermitsInv'
  BY WorkersFrame DEF JudgeAtOnce, submitVars
<1>2. MainInv'
  BY DEF JudgeAtOnce, MainInv, Pending, MaxInflight
<1>3. QED
  BY <1>1, <1>2

\* A submitted sample is in flight, and there is room for it.
LEMMA SubmitInv ==
  ASSUME IInv, NEW s \in Samples, Submit(s)
  PROVE  IInv'
<1> USE DEF IInv
<1>1. /\ main = "submit" /\ task[s].pc = "none" /\ verdict[s] = "none" /\ kind[s] = "patch"
      /\ Cardinality(inflight) < MaxInflight
      /\ inflight' = inflight \cup {s}
      /\ task' = [task EXCEPT ![s].pc = "queued"]
      /\ UNCHANGED <<backend, ops, permits, kind, main, verdict>>
  BY DEF Submit, Pending, submitVars
<1>2. /\ \A r \in Samples : r # s => task'[r] = task[r]
      /\ task'[s] = [task[s] EXCEPT !.pc = "queued"]
  BY <1>1 DEF StateInv
<1>3. /\ task'[s].pc = "queued" /\ task'[s].seen = task[s].seen
      /\ task'[s].base = task[s].base /\ task'[s].primary = task[s].primary
  BY <1>2 DEF StateInv
<1>4. StateInv'
  BY <1>1 DEF StateInv
<1>5. ASSUME NEW r \in Samples, r # s PROVE TaskInv(r)'
  BY <1>1, <1>2, <1>5, Frame
<1>6. TaskInv(s)'
  BY <1>1, <1>3 DEF TaskInv
<1>7. IsFiniteSet(inflight') /\ Cardinality(inflight') <= MaxInflight'
  <2>1. s \notin inflight
    BY <1>1 DEF MainInv
  <2>2. IsFiniteSet(inflight') /\ Cardinality(inflight') = Cardinality(inflight) + 1
    BY <1>1, <2>1, FS_AddElement DEF MainInv
  <2>3. Cardinality(inflight) \in Nat /\ MaxInflight \in Nat
    BY FS_CardinalityType, EvaluateSamplesAssumption DEF MainInv, MaxInflight
  <2>4. QED
    BY <1>1, <2>2, <2>3 DEF MaxInflight
<1>8. inflight' = {r \in Samples : task'[r].pc # "none" /\ verdict'[r] = "none"}
  BY <1>1, <1>2, <1>3 DEF MainInv
<1>9. MainInv'
  BY <1>1, <1>2, <1>3, <1>7, <1>8 DEF MainInv
<1>10. PermitsInv'
  BY <1>1, PermitsFrame
<1>11. QED
  BY <1>4, <1>5, <1>6, <1>9, <1>10

\* Every future that is done leaves the pool with its verdict recorded.
LEMMA HarvestInv ==
  ASSUME IInv, Harvest
  PROVE  IInv'
<1> USE DEF IInv
<1>1. StateInv' /\ (\A r \in Samples : TaskInv(r)') /\ PermitsInv'
  BY WorkersFrame DEF Harvest, submitVars
<1>2. /\ verdict' = [s \in Samples |-> IF s \in Done THEN task[s].pc ELSE verdict[s]]
      /\ inflight' = inflight \ Done
      /\ UNCHANGED <<kind, main, task>>
  BY DEF Harvest
<1>3. Done \subseteq inflight /\ \A s \in Done : s \in Samples /\ task[s].pc \in {"valid", "invalid"}
  BY DEF Done, MainInv
<1>4. inflight' = {s \in Samples : task'[s].pc # "none" /\ verdict'[s] = "none"}
  BY <1>2, <1>3 DEF MainInv
<1>5. IsFiniteSet(inflight') /\ Cardinality(inflight') <= MaxInflight'
  <2>1. IsFiniteSet(inflight') /\ Cardinality(inflight') <= Cardinality(inflight)
    BY <1>2, FS_Subset DEF MainInv
  <2>2. /\ Cardinality(inflight) \in Nat /\ Cardinality(inflight') \in Nat
        /\ MaxInflight \in Nat
    BY <2>1, FS_CardinalityType, EvaluateSamplesAssumption DEF MainInv, MaxInflight
  <2>3. QED
    BY <2>1, <2>2 DEF MainInv, MaxInflight
<1>6. verdict' \in [Samples -> {"none", "valid", "invalid"}]
  BY <1>2, <1>3 DEF MainInv
<1>7. \A s \in Samples :
        IF kind[s] = "patch"
        THEN verdict'[s] # "none" => verdict'[s] = task[s].pc
        ELSE verdict'[s] = verdict[s]
  BY <1>2, <1>3 DEF MainInv
<1>8. Pending' \subseteq Pending
  BY <1>2, <1>3 DEF Pending
<1>9. MainInv'
  BY <1>2, <1>4, <1>5, <1>6, <1>7, <1>8 DEF MainInv
<1>10. QED
  BY <1>1, <1>9

\* The main thread goes on to the end.
LEMMA EndingInv ==
  ASSUME IInv, AllSubmitted \/ Write
  PROVE  IInv'
<1> USE DEF IInv
<1>1. StateInv' /\ (\A r \in Samples : TaskInv(r)') /\ PermitsInv'
  BY WorkersFrame DEF AllSubmitted, Write, submitVars
<1>2. MainInv'
  BY DEF AllSubmitted, Write, MainInv, Pending, MaxInflight
<1>3. QED
  BY <1>1, <1>2

-----------------------------------------------------------------------------
\* Nothing has been submitted: the invariant starts out true.
LEMMA InitInv == Init => IInv
<1> SUFFICES ASSUME Init PROVE IInv
  OBVIOUS
<1> USE SubmitOperationAssumption, EvaluateSamplesAssumption DEF Init, SubmitInit, NoOp, NoTask
<1>1. \A o \in Ops : ops[o].pc = "none" /\ ops[o].result = "none"
  OBVIOUS
<1>2. ops \in [Ops -> OpRecord]
  BY DEF OpRecord
<1>3. StateInv
  BY <1>1, <1>2 DEF StateInv
<1>4. \A s \in Samples : TaskInv(s)
  BY <1>1, OpNames DEF TaskInv
<1>5. MainInv
  <2>1. IsFiniteSet(inflight) /\ Cardinality(inflight) = 0
    BY FS_EmptySet
  <2>2. 0 <= MaxInflight
    BY DEF MaxInflight
  <2>3. QED
    BY <2>1, <2>2 DEF MainInv
<1>6. PermitsInv
  <2>1. Running = {}
    BY <1>1 DEF Running
  <2>2. QED
    BY <2>1, FS_EmptySet DEF PermitsInv, PermitsBalanced
<1>7. QED
  BY <1>3, <1>4, <1>5, <1>6 DEF IInv

\* Every step, or none, keeps the invariant.
LEMMA NextInv ==
  ASSUME IInv, [Next]_vars
  PROVE  IInv'
<1>1. CASE UNCHANGED vars
  <2>1. StateInv' /\ (\A s \in Samples : TaskInv(s)') /\ PermitsInv'
    BY <1>1, WorkersFrame DEF vars
  <2>2. MainInv'
    BY <1>1, MainFrame DEF vars, mainVars, IInv
  <2>3. QED
    BY <2>1, <2>2 DEF IInv
<1>2. ASSUME NEW s \in Samples, JudgeAtOnce(s) PROVE IInv'
  BY <1>2, JudgeAtOnceInv
<1>3. ASSUME NEW s \in Samples, Submit(s) PROVE IInv'
  BY <1>3, SubmitInv
<1>4. CASE Harvest
  BY <1>4, HarvestInv
<1>5. CASE AllSubmitted \/ Write
  BY <1>5, EndingInv
<1>6. ASSUME NEW s \in Samples, StartValidation(s) PROVE IInv'
  BY <1>6, StartValidationInv
<1>7. ASSUME NEW s \in Samples, FinishEvaluation(s) PROVE IInv'
  BY <1>7, FinishEvaluationInv
<1>8. ASSUME NEW s \in Samples, NEW o \in ValidationOps(s), TakeAnswer(s, o) PROVE IInv'
  <2>1. o \in Ops
    BY OpNames DEF OwnOps
  <2>2. QED
    BY <1>8, <2>1, RefutingAnswer, LastAnswer, FittingAnswer
<1>9. ASSUME NEW o \in Ops, OpStep(o) PROVE IInv'
  BY <1>9, OpStepInv
<1>10. QED
  BY <1>1, <1>2, <1>3, <1>4, <1>5, <1>6, <1>7, <1>8, <1>9 DEF Next, MainStep, WorkerStep

\* The invariant holds throughout.
THEOREM Invariance == Spec => []IInv
<1>1. IInv /\ [Next]_vars => IInv'
  BY NextInv
<1>2. QED
  BY <1>1, InitInv, PTL DEF Spec

-----------------------------------------------------------------------------
\* What IInv does not say of the types: no operation is retried more often
\* than it may be, and the samples stay what they are.
RetriesInv ==
  /\ \A o \in Ops : ops[o].attempt \in Nat /\ ops[o].attempt <= Retries(o)
  /\ kind \in [Samples -> Kinds]

\* Every attempt after the first is one that Retried allows.
LEMMA RetriesStep ==
  ASSUME StateInv, RetriesInv, [Next]_vars
  PROVE  RetriesInv'
<1> DEFINE Bounded(o) == ops[o].attempt \in Nat /\ ops[o].attempt <= Retries(o)
<1>1. \A o \in Ops : Retries(o) \in Nat
  BY SubmitOperationAssumption DEF Retries
<1>2. kind' = kind
  BY DEF Next, MainStep, JudgeAtOnce, Submit, AllSubmitted, Harvest, Write, WorkerStep,
         StartValidation, FinishEvaluation, TakeAnswer, OpStep, StartOp, mainVars, vars
<1>3. ASSUME NEW S, ops' = Queue(S) PROVE \A o \in Ops : Bounded(o)'
  BY <1>1, <1>3 DEF Queue, NoOp, RetriesInv
<1>4. ASSUME NEW s \in Samples, ops' = CancelQueued(s) PROVE \A o \in Ops : Bounded(o)'
  BY <1>1, <1>4 DEF CancelQueued, RetriesInv, StateInv, OpRecord
<1>5. ASSUME NEW o \in Ops, OpStep(o) PROVE \A p \in Ops : Bounded(p)'
  <2>1. \A p \in Ops \ {o} : Bounded(p)'
    BY <1>5, OpStepEffect DEF RetriesInv
  <2>2. CASE \E at : ops' = [ops EXCEPT ![o].pc = at]
    BY <2>2 DEF RetriesInv, StateInv, OpRecord
  <2>3. CASE \E result : ops' = EndedOps(o, result)
    BY <1>1, <2>1, <2>3 DEF EndedOps, StateInv, OpRecord
  <2>4. ASSUME NEW class, ops' = Failed(o, class) PROVE Bounded(o)'
    <3>1. CASE Retried(o, class)
      BY <1>1, <2>4, <3>1 DEF Failed, Retried, RetriesInv, StateInv, OpRecord
    <3>2. CASE ~Retried(o, class)
      BY <2>3, <2>4, <3>2 DEF Failed
    <3>3. QED
      BY <3>1, <3>2
  <2>5. Bounded(o)'
    BY <1>5, <2>2, <2>3, <2>4
    DEF OpStep, StartOp, SubmitStep, Acquire, RunAttempt, Fetch, RunLocal
  <2>6. QED
    BY <2>1, <2>5
<1>6. CASE UNCHANGED ops
  BY <1>2, <1>6 DEF RetriesInv
<1>7. \/ UNCHANGED ops
      \/ \E S : ops' = Queue(S)
      \/ \E s \in Samples : ops' = CancelQueued(s)
      \/ \E o \in Ops : OpStep(o)
  <2>1. CASE MainStep \/ UNCHANGED vars
    BY <2>1 DEF MainStep, JudgeAtOnce, Submit, AllSubmitted, Harvest, Write, submitVars, vars
  <2>2. ASSUME NEW s \in Samples, WorkerStep(s)
        PROVE  UNCHANGED ops \/ (\E S : ops' = Queue(S)) \/ ops' = CancelQueued(s)
    BY <2>2 DEF WorkerStep, StartValidation, FinishEvaluation, TakeAnswer, submitVars
  <2>3. QED
    BY <2>1, <2>2 DEF Next
<1>8. CASE \A o \in Ops : Bounded(o)'
  BY <1>2, <1>8 DEF RetriesInv
<1>9. QED
  BY <1>3, <1>4, <1>5, <1>6, <1>7, <1>8

\* Everything keeps its type: no operation is retried past its limit, the
\* permits stay between none and all, and the futures are of samples.
THEOREM TypeOKHolds == Spec => []TypeOK
<1>1. Init => RetriesInv
  BY SubmitOperationAssumption, EvaluateSamplesAssumption
  DEF Init, SubmitInit, NoOp, RetriesInv, Retries
<1>2. IInv /\ RetriesInv /\ [Next]_vars => RetriesInv'
  BY RetriesStep DEF IInv
<1>3. ASSUME IInv, RetriesInv PROVE TypeOK
  <2>1. permits \in 0 .. MaxSandboxes
    <3>1. Cardinality(Running) \in Nat
      BY <1>3, FS_CardinalityType DEF IInv, PermitsInv
    <3>2. QED
      BY <1>3, <3>1, SubmitOperationAssumption
      DEF IInv, PermitsInv, PermitsBalanced, StateInv
  <2>2. SubmitTypeOK
    BY <1>3, <2>1 DEF SubmitTypeOK, RetriesInv, IInv, StateInv, OpRecord
  <2>3. QED
    BY <1>3, <2>2 DEF TypeOK, IInv, StateInv, MainInv, RetriesInv
<1>4. QED
  BY <1>1, <1>2, <1>3, Invariance, PTL DEF Spec

\* A future is awaited or its verdict recorded, never both, the pool is never
\* overfull, and when evaluate_sampled_plans has written its file every
\* sample has a verdict.
THEOREM JudgedOnceHolds == Spec => []JudgedOnce
<1>1. IInv => JudgedOnce
  BY DEF IInv, MainInv, JudgedOnce, Pending
<1>2. QED
  BY <1>1, Invariance, PTL

\* A sample is written as valid exactly if its patch is empty or its plan
\* gave the engine's data in every run and was measured, for any number of
\* samples, runs, retries and workers and any order of the answers.
THEOREM VerdictExactHolds == Spec => []VerdictExact
<1>1. ASSUME IInv PROVE VerdictExact
  <2> SUFFICES ASSUME main = "written", NEW s \in Samples
               PROVE  verdict[s] = "valid" <=>
                        kind[s] = "empty" \/ (kind[s] = "patch" /\ Equivalent(s))
    BY DEF VerdictExact
  <2>1. verdict[s] \in {"valid", "invalid"}
    BY <1>1 DEF IInv, MainInv, Pending
  <2>2. CASE kind[s] # "patch"
    BY <1>1, <2>1, <2>2 DEF IInv, MainInv
  <2>3. CASE kind[s] = "patch"
    <3>1. verdict[s] = task[s].pc
      BY <1>1, <2>1, <2>3 DEF IInv, MainInv
    <3>2. CASE verdict[s] = "valid"
      <4>1. AllAgree(s) /\ Measured(s) # {}
        BY <1>1, <3>1, <3>2 DEF IInv, TaskInv
      <4>2. QED
        BY <2>3, <3>2, <4>1 DEF Equivalent, AllAgree, Base
    <3>3. CASE verdict[s] = "invalid"
      <4>1. Refuted(s)
        BY <1>1, <3>1, <3>3 DEF IInv, TaskInv
      <4>2. ~Equivalent(s)
        BY <4>1, SubmitOperationAssumption DEF Refuted, Equivalent
      <4>3. QED
        BY <2>3, <3>3, <4>2
    <3>4. QED
      BY <2>1, <3>2, <3>3
  <2>4. QED
    BY <2>2, <2>3
<1>2. QED
  BY <1>1, Invariance, PTL

\* Running sandboxes and free permits always add up to the limit: no error,
\* retry or exception loses a permit or runs a sandbox without one.
THEOREM PermitsBalancedHolds == Spec => []PermitsBalanced
<1>1. IInv => PermitsBalanced
  BY DEF IInv, PermitsInv
<1>2. QED
  BY <1>1, Invariance, PTL
=============================================================================
