-------------------------- MODULE SamplingRunProofs --------------------------
(***************************************************************************)
(* What every history of calls, kills, torn writes and changed n_steps     *)
(* leaves true of a run directory, for every value of the constants.       *)
(*                                                                         *)
(* None of the theorems states an inductive invariant.  They follow from   *)
(* nine that are:                                                          *)
(*   - IInv, which adds what the call in progress knows: which steps are   *)
(*     behind it, and, for a call that created the directory, that the     *)
(*     files ahead do not exist yet;                                       *)
(*   - TInv, what the files hold: every sample on disk still fits the tree *)
(*     it was drawn from.  It needs that no call asks for fewer steps than *)
(*     are completed: such a call takes the tree back under the samples;   *)
(*   - EvenInv, that the trees and samples of all queries have one shape;  *)
(*   - OriginInv, that the nodes come from the steps behind the call, each *)
(*     from a sample of its own.  It needs that no step is a top-up;       *)
(*   - MeasuredInv, that what is noted of a valid node was measured of a   *)
(*     sample that is on disk, and so is what is returned;                 *)
(*   - OfferInv, that what was returned is still in the tree, to be ranked *)
(*     with what comes after it;                                           *)
(*   - KeptInv, that without kills a completed step is in the tree;        *)
(*   - SupplyInv, that without kills a best_of call draws what is missing; *)
(*   - LoggedInv, that without kills the steps are in the tree in order,   *)
(*     which is what makes the directory an ExperimentLog (with TimedInv,  *)
(*     that a valid sample on disk has a metric that a plan can have).     *)
(***************************************************************************)
EXTENDS SamplingRun, SampleTreeProofs

Stepping == {"sample", "evaluate", "accumulate"}
Restored == Stepping \cup {"replay", "topup", "process", "hung"}

RunRecord == [strategy : Strategies \cup {"none"}, resume : BOOLEAN,
              n : 0 .. MaxSteps, m : Nat, maxCompleted : Nat,
              step : Nat, count : Nat, topup : BOOLEAN]

\* The call: its locals, and that run_sampling_steps starts from a base state.
CallInv ==
  /\ pc \in {"idle", "curate", "prepare", "restore"} \cup Restored
  /\ run \in RunRecord
  /\ sessions \in 0 .. MaxSessions
  /\ pc = "idle" => run = NoRun
  /\ pc # "idle" => sessions > 0
  /\ pc = "restore" => base.st # "absent"
  /\ pc \in Restored => final.st # "absent"
  /\ run.topup => pc \in Stepping \cup {"process", "hung"}
  /\ result.st = "ok" => result.data.strategy \in Strategies \cup {"none"}

\* The files: every tree in them is numbered by position.
FilesInv ==
  /\ sampled = [k \in StepDirs |-> sampled[k]]
  /\ evaluated = [k \in StepDirs |-> evaluated[k]]
  /\ {base.st, final.st} \subseteq {"absent", "torn", "ok"}
  /\ base.st = "ok" => \A q \in Queries : TreeOK(base.data[q])
  /\ final.st = "ok" => \A q \in Queries : TreeOK(final.data[q])
  /\ \A k \in StepDirs :
       /\ sampled[k].st = "ok" => \A q \in Queries : IsList(sampled[k].data[q])
       /\ evaluated[k].st = "ok" =>
            \A q \in Queries : IsList(evaluated[k].data[q])

\* Each call can complete at most one step past MaxSteps, its top-up.
LastStep == MaxSteps + sessions - (IF pc # "idle" /\ ~run.topup THEN 1 ELSE 0)

\* The completed steps, and which of them the call can count on.
StepsInv ==
  /\ \A k \in CompletedSteps : k <= LastStep /\ 1 .. k \subseteq CompletedSteps
  /\ pc \in Restored =>
       /\ 1 .. run.maxCompleted \subseteq CompletedSteps
       /\ run.maxCompleted <= MaxSteps + sessions - 1
  /\ pc = "replay" => run.step \in 1 .. RebuildLimit(run)
  /\ pc \in Stepping =>
       /\ run.step \in 1 .. LastStep
       /\ 1 .. run.step - 1 \subseteq CompletedSteps

\* A call that creates the directory finds no step file ahead of it.
FreshInv ==
  /\ sessions = 0 =>
       \A k \in StepDirs : sampled[k].st = "absent" /\ evaluated[k].st = "absent"
  /\ pc # "idle" /\ ~run.resume =>
       /\ ~run.topup /\ pc # "replay"
       /\ \A k \in StepDirs :
            /\ \/ pc \in {"curate", "prepare", "restore"}
               \/ pc \in Stepping /\ k > run.step
               \/ pc = "sample" /\ k = run.step
               => sampled[k].st = "absent" /\ evaluated[k].st = "absent"
            /\ pc = "evaluate" /\ k = run.step => evaluated[k].st = "absent"

IInv == CallInv /\ FilesInv /\ StepsInv /\ FreshInv

-----------------------------------------------------------------------------
(* Facts used by several actions. *)

LEMMA ConstantTypes ==
  /\ NumQueries \in Nat \ {0} /\ 1 \in Queries
  /\ MaxSteps \in Nat /\ MaxSessions \in Nat \ {0}
  /\ SampleCounts \subseteq Nat
  /\ \A name : StepTargets(name) \subseteq 0 .. MaxSteps
  BY SamplingRunAssumption DEF SamplingRunAssumption, Queries, StepTargets

LEMMA FileStates ==
  /\ Absent.st = "absent" /\ Torn.st = "torn"
  /\ \A d : File(d).st = "ok" /\ File(d).data = d
  BY DEF Absent, Torn, File

LEMMA MaxCompletedIsCompleted ==
  ASSUME CallInv, StepsInv
  PROVE  /\ MaxCompleted \in Nat /\ MaxCompleted <= LastStep
         /\ MaxCompleted \in CompletedSteps \cup {0}
         /\ CompletedSteps = 1 .. MaxCompleted
<1> DEFINE S == CompletedSteps \cup {0}
<1>1. LastStep \in Nat
  BY ConstantTypes DEF CallInv, LastStep
<1>2. S \subseteq 0 .. LastStep /\ S # {}
  BY <1>1, ConstantTypes DEF StepsInv, CompletedSteps, StepDirs
<1>3. Max(S) \in S /\ \A y \in S : Max(S) >= y
  BY <1>1, <1>2, MaxOfBounded
<1>4. MaxCompleted \in S /\ \A y \in S : MaxCompleted >= y
  BY <1>3 DEF MaxCompleted
<1>5. CompletedSteps \subseteq 1 .. MaxCompleted
  BY <1>1, <1>2, <1>4, ConstantTypes DEF CompletedSteps, StepDirs
<1>6. 1 .. MaxCompleted \subseteq CompletedSteps
  BY <1>4 DEF StepsInv
<1>7. CompletedSteps = 1 .. MaxCompleted
  BY <1>5, <1>6
<1>8. MaxCompleted \in Nat /\ MaxCompleted <= LastStep
  <2> HIDE DEF S
  <2> QED BY <1>1, <1>2, <1>4
<1> QED BY <1>4, <1>7, <1>8

\* Ending a call, or a kill, costs nothing but the call's locals.
LEMMA EndInv ==
  ASSUME CallInv, pc # "idle", End, UNCHANGED sessions,
         result'.st = "ok" => result'.data.strategy \in Strategies \cup {"none"},
         \A k \in CompletedSteps' :
           k <= MaxSteps + sessions /\ 1 .. k \subseteq CompletedSteps'
  PROVE  CallInv' /\ StepsInv' /\ FreshInv'
<1>1. pc' = "idle" /\ run' = NoRun /\ NoRun \in RunRecord /\ ~NoRun.topup
  BY ConstantTypes DEF End, NoRun, RunRecord
<1>2. CallInv'
  BY <1>1 DEF CallInv, Restored, Stepping
<1>3. LastStep' = MaxSteps + sessions
  BY <1>1, ConstantTypes DEF LastStep, CallInv
<1>4. StepsInv'
  BY <1>1, <1>3 DEF StepsInv, Restored, Stepping
<1>5. FreshInv'
  BY <1>1 DEF FreshInv, CallInv
<1> QED BY <1>2, <1>4, <1>5

\* The step loop goes on with step k, or leaves for the top-up.
LEMMA ToStepInv ==
  ASSUME CallInv, StepsInv, pc # "idle", ~run.topup,
         NEW r \in RunRecord, ~r.topup,
         1 .. r.maxCompleted \subseteq CompletedSteps,
         r.maxCompleted <= MaxSteps + sessions - 1,
         NEW k \in Nat \ {0}, ToStep(r, k),
         k <= r.n => 1 .. k - 1 \subseteq CompletedSteps,
         ~r.resume => \A j \in StepDirs :
           j >= k => sampled[j].st = "absent" /\ evaluated[j].st = "absent",
         final'.st # "absent",
         UNCHANGED <<sessions, sampled, evaluated, base, result>>
  PROVE  CallInv' /\ StepsInv' /\ FreshInv'
<1>1. sessions \in Nat \ {0} /\ MaxSteps \in Nat /\ CompletedSteps' = CompletedSteps
  BY ConstantTypes DEF CallInv, CompletedSteps
<1>2. /\ pc' \in {"sample", "topup"} /\ run' \in RunRecord
      /\ ~run'.topup /\ run'.resume = r.resume
      /\ run'.maxCompleted = r.maxCompleted
      /\ pc' = "sample" => k <= r.n /\ run'.step = k
  <2>1. SelectStrategy(r.strategy, k, r.m).count \in Nat
    BY DEF SelectStrategy, RunRecord
  <2>2. CASE k <= r.n
    <3> DEFINE c == SelectStrategy(r.strategy, k, r.m).count
    <3>1. pc' = "sample" /\ run' = [r EXCEPT !.step = k, !.count = c]
      BY <2>2 DEF ToStep
    <3> HIDE DEF c
    <3>2. c \in Nat
      BY <2>1 DEF c
    <3> QED BY <2>2, <3>1, <3>2 DEF RunRecord
  <2>3. CASE ~ (k <= r.n)
    <3>1. pc' = "topup" /\ run' = [r EXCEPT !.step = 0, !.count = 0]
      BY <2>3 DEF ToStep
    <3> QED BY <3>1 DEF RunRecord
  <2> QED BY <2>2, <2>3
<1>3. CallInv'
  BY <1>1, <1>2 DEF CallInv, Restored, Stepping
<1>4. LastStep = MaxSteps + sessions - 1 /\ LastStep' = LastStep
  BY <1>1, <1>2 DEF LastStep
<1>5. pc' = "sample" => k \in 1 .. LastStep
  BY <1>1, <1>2, <1>4 DEF RunRecord
<1>6. StepsInv'
  BY <1>1, <1>2, <1>4, <1>5 DEF StepsInv, Restored, Stepping
<1>7. FreshInv'
  BY <1>1, <1>2, ConstantTypes DEF FreshInv, Stepping, StepDirs
<1> QED BY <1>3, <1>6, <1>7

\* What one merge leaves in final_sampling.json.
LEMMA MergeInv ==
  ASSUME FilesInv, NEW k \in StepDirs, MergeReadable(k), MergeStep(k),
         UNCHANGED <<sampled, evaluated, base>>
  PROVE  FilesInv' /\ final'.st \in {"torn", "ok"}
<1>1. CASE final' = Torn
  BY <1>1, FileStates DEF FilesInv
<1>2. CASE final' = File(Accumulated(k))
  <2>1. \A q \in Queries : TreeOK(Accumulated(k)[q])
    <3> SUFFICES ASSUME NEW q \in Queries PROVE TreeOK(Accumulated(k)[q])
      OBVIOUS
    <3>1. TreeOK(final.data[q]) /\ IsList(evaluated[k].data[q])
      BY DEF FilesInv, MergeReadable
    <3>2. TreeOK(AccumulateSamples(final.data[q], evaluated[k].data[q]))
      BY <3>1, AccumulateKeepsTree
    <3> QED BY <3>2 DEF Accumulated
  <2> QED BY <1>2, <2>1, FileStates DEF FilesInv
<1> QED BY <1>1, <1>2 DEF MergeStep

-----------------------------------------------------------------------------
(* Every action keeps IInv. *)

LEMMA InitInv == Init => IInv
<1> SUFFICES ASSUME Init PROVE IInv
  OBVIOUS
<1>1. NoRun \in RunRecord /\ ~NoRun.topup
  BY ConstantTypes DEF NoRun, RunRecord
<1>2. CallInv
  BY <1>1, ConstantTypes, FileStates DEF Init, CallInv, Restored, Stepping
<1>3. FilesInv
  BY FileStates DEF Init, FilesInv
<1>4. CompletedSteps = {}
  BY FileStates DEF Init, CompletedSteps
<1>5. StepsInv /\ FreshInv
  BY <1>4, FileStates DEF Init, StepsInv, FreshInv, Restored, Stepping
<1> QED BY <1>2, <1>3, <1>5 DEF IInv

LEMMA StartFreshInv == IInv /\ StartFresh => IInv'
<1> SUFFICES ASSUME IInv, StartFresh PROVE IInv'
  OBVIOUS
<1>1. pc' = "curate" /\ run' \in RunRecord /\ ~run'.topup /\ ~run'.resume
  <2>1. PICK strategy \in Strategies, m \in SampleCounts :
          \E n \in StepTargets(strategy) :
            run' = [NoRun EXCEPT !.strategy = strategy, !.n = n, !.m = m]
    BY DEF StartFresh
  <2>2. PICK n \in StepTargets(strategy) :
          run' = [NoRun EXCEPT !.strategy = strategy, !.n = n, !.m = m]
    BY <2>1
  <2>3. n \in 0 .. MaxSteps /\ m \in Nat
    BY ConstantTypes
  <2> QED BY <2>2, <2>3 DEF StartFresh, NoRun, RunRecord
<1>2. CallInv'
  BY <1>1, ConstantTypes DEF IInv, CallInv, StartFresh, Restored, Stepping
<1>3. FilesInv'
  BY DEF IInv, FilesInv, StartFresh, stepFiles
<1>4. /\ CompletedSteps' = CompletedSteps /\ CompletedSteps = {}
      /\ \A k \in StepDirs : sampled[k].st = "absent" /\ evaluated[k].st = "absent"
  BY DEF IInv, FreshInv, StartFresh, CompletedSteps, stepFiles
<1>5. StepsInv'
  BY <1>1, <1>4 DEF StepsInv, Restored, Stepping
<1>6. FreshInv'
  BY <1>1, <1>4 DEF FreshInv, StartFresh, Stepping, stepFiles
<1> QED BY <1>2, <1>3, <1>5, <1>6 DEF IInv

LEMMA StartResumeInv == IInv /\ StartResume => IInv'
<1> SUFFICES ASSUME IInv, StartResume PROVE IInv'
  OBVIOUS
<1>1. /\ run' \in RunRecord /\ ~run'.topup /\ run'.resume
      /\ pc' \in {"curate", "restore"}
      /\ pc' = "restore" => base.st = "ok"
  <2> DEFINE strategy == result.data.strategy
  <2>1. PICK n \in StepTargets(strategy), m \in SampleCounts :
          run' = [NoRun EXCEPT !.strategy = strategy, !.resume = TRUE,
                               !.n = n, !.m = m]
    BY DEF StartResume
  <2>2. strategy \in Strategies \cup {"none"}
    BY DEF IInv, CallInv, StartResume
  <2>3. n \in 0 .. MaxSteps /\ m \in Nat
    BY ConstantTypes
  <2> HIDE DEF strategy
  <2>4. run' \in RunRecord /\ ~run'.topup /\ run'.resume
    BY <2>1, <2>2, <2>3 DEF NoRun, RunRecord
  <2> QED BY <2>4 DEF StartResume
<1>2. CallInv'
  BY <1>1, ConstantTypes DEF IInv, CallInv, StartResume, Restored, Stepping
<1>3. FilesInv'
  BY DEF IInv, FilesInv, StartResume, stepFiles
<1>4. /\ CompletedSteps' = CompletedSteps /\ sessions' = sessions + 1
      /\ sessions \in Nat /\ pc = "idle"
  BY DEF IInv, CallInv, StartResume, CompletedSteps, stepFiles
<1>5. LastStep' = LastStep
  BY <1>1, <1>4, ConstantTypes DEF LastStep
<1>6. StepsInv'
  BY <1>1, <1>4, <1>5 DEF IInv, StepsInv, Restored, Stepping
<1>7. FreshInv'
  BY <1>1, <1>4 DEF FreshInv
<1> QED BY <1>2, <1>3, <1>6, <1>7 DEF IInv

\* The completed steps satisfy what EndInv asks when a step file is not written.
LEMMA StepsAtEnd ==
  ASSUME IInv, evaluated' = evaluated
  PROVE  \A k \in CompletedSteps' :
           k <= MaxSteps + sessions /\ 1 .. k \subseteq CompletedSteps'
<1>1. CompletedSteps' = CompletedSteps /\ CompletedSteps \subseteq Nat
  BY ConstantTypes DEF CompletedSteps, StepDirs
<1>2. LastStep <= MaxSteps + sessions /\ LastStep \in Int
  BY ConstantTypes DEF IInv, CallInv, LastStep
<1>3. MaxSteps + sessions \in Int
  BY ConstantTypes DEF IInv, CallInv
<1> QED BY <1>1, <1>2, <1>3 DEF IInv, StepsInv

LEMMA EarlyExitInv == IInv /\ EarlyExit => IInv'
<1> SUFFICES ASSUME IInv, EarlyExit PROVE IInv'
  OBVIOUS
<1>1. FilesInv'
  BY DEF IInv, FilesInv, EarlyExit, stepFiles
<1>2. result'.st = "ok" => result'.data.strategy \in Strategies \cup {"none"}
  <2>1. run.strategy \in Strategies \cup {"none"}
    BY DEF IInv, CallInv, RunRecord
  <2>2. result' = Torn \/ result' = ResultFile(<< >>)
    BY DEF EarlyExit
  <2> QED BY <2>1, <2>2, FileStates DEF ResultFile
<1>3. pc # "idle" /\ End /\ UNCHANGED sessions /\ evaluated' = evaluated
  BY DEF EarlyExit, stepFiles
<1> QED BY <1>1, <1>2, <1>3, StepsAtEnd, EndInv DEF IInv

LEMMA CrashInv == IInv /\ Crash => IInv'
<1> SUFFICES ASSUME IInv, Crash PROVE IInv'
  OBVIOUS
<1>1. FilesInv'
  BY DEF IInv, FilesInv, Crash, stepFiles
<1>2. /\ pc # "idle" /\ End /\ UNCHANGED sessions /\ evaluated' = evaluated
      /\ result' = result
  BY DEF Crash, stepFiles
<1> QED BY <1>1, <1>2, StepsAtEnd, EndInv DEF IInv, CallInv

LEMMA CurateInv == IInv /\ Curate => IInv'
<1> SUFFICES ASSUME IInv, Curate PROVE IInv'
  OBVIOUS
<1>1. FilesInv'
  BY DEF IInv, FilesInv, Curate, stepFiles
<1>2. CASE End
  <2>1. pc # "idle" /\ UNCHANGED <<sessions, evaluated, result>>
    BY DEF Curate, stepFiles
  <2> QED BY <1>1, <1>2, <2>1, StepsAtEnd, EndInv DEF IInv, CallInv
<1>3. CASE pc' = "prepare" /\ run' = run
  <2>1. /\ pc = "curate" /\ UNCHANGED <<sessions, sampled, evaluated, result>>
        /\ CompletedSteps' = CompletedSteps
    BY DEF Curate, stepFiles, CompletedSteps
  <2>2. CallInv'
    BY <1>3, <2>1 DEF IInv, CallInv, Restored, Stepping
  <2>3. StepsInv'
    BY <1>3, <2>1 DEF IInv, StepsInv, LastStep, Restored, Stepping
  <2>4. FreshInv'
    BY <1>3, <2>1 DEF IInv, FreshInv, Stepping
  <2> QED BY <1>1, <2>2, <2>3, <2>4 DEF IInv
<1> QED BY <1>2, <1>3 DEF Curate

LEMMA PrepareSamplingInv == IInv /\ PrepareSampling => IInv'
<1> SUFFICES ASSUME IInv, PrepareSampling PROVE IInv'
  OBVIOUS
<1>1. FilesInv'
  <2>1. base'.st = "ok" => \A q \in Queries : TreeOK(base'.data[q])
    <3>1. CASE base' = base
      BY <3>1 DEF IInv, FilesInv
    <3>2. CASE base' = Torn
      BY <3>2, FileStates
    <3>3. CASE base' = File([q \in Queries |-> <<Root(curated.data[q])>>])
      <4> SUFFICES ASSUME NEW q \in Queries PROVE TreeOK(<<Root(curated.data[q])>>)
        BY <3>3, FileStates
      <4>1. "id" \in DOMAIN Root(curated.data[q]) /\ Root(curated.data[q]).id = 0
        BY DEF Root
      <4>2. IsList(<<Root(curated.data[q])>>)
        <5> DEFINE x == Root(curated.data[q])
        <5> HIDE DEF x
        <5>1. {<<x>>[i] : i \in DOMAIN <<x>>} = {x} /\ <<x>> \in Seq({x})
          OBVIOUS
        <5> QED BY <5>1 DEF IsList, x
      <4> QED BY <4>1, <4>2 DEF TreeOK
    <3> QED BY <3>1, <3>2, <3>3 DEF PrepareSampling
  <2>2. base'.st \in {"absent", "torn", "ok"}
    BY FileStates DEF IInv, FilesInv, PrepareSampling
  <2> QED BY <2>1, <2>2 DEF IInv, FilesInv, PrepareSampling, stepFiles
<1>2. CASE End
  <2>1. pc # "idle" /\ UNCHANGED <<sessions, evaluated, result>>
    BY DEF PrepareSampling, stepFiles
  <2> QED BY <1>1, <1>2, <2>1, StepsAtEnd, EndInv DEF IInv, CallInv
<1>3. CASE pc' = "restore" /\ run' = run
  <2>1. /\ pc = "prepare" /\ UNCHANGED <<sessions, sampled, evaluated, result>>
        /\ CompletedSteps' = CompletedSteps
    BY DEF PrepareSampling, stepFiles, CompletedSteps
  <2>2. base'.st # "absent"
    BY <1>3, <2>1, FileStates DEF PrepareSampling, End
  <2>3. CallInv'
    BY <1>3, <2>1, <2>2 DEF IInv, CallInv, Restored, Stepping
  <2>4. StepsInv'
    BY <1>3, <2>1 DEF IInv, StepsInv, LastStep, Restored, Stepping
  <2>5. FreshInv'
    BY <1>3, <2>1 DEF IInv, FreshInv, Stepping
  <2> QED BY <1>1, <2>3, <2>4, <2>5 DEF IInv
<1> QED BY <1>2, <1>3 DEF PrepareSampling

LEMMA RestoreInv == IInv /\ Restore => IInv'
<1> SUFFICES ASSUME IInv, Restore PROVE IInv'
  OBVIOUS
<1> DEFINE r == [run EXCEPT !.maxCompleted = MaxCompleted]
<1>1. /\ pc = "restore" /\ base.st # "absent" /\ ~run.topup /\ run \in RunRecord
      /\ sessions \in Nat \ {0}
      /\ UNCHANGED <<sessions, curated, base, sampled, evaluated, result>>
  BY DEF IInv, CallInv, Restore, stepFiles, Stepping
<1>2. /\ MaxCompleted \in Nat /\ MaxCompleted <= MaxSteps + sessions - 1
      /\ CompletedSteps = 1 .. MaxCompleted
  BY <1>1, MaxCompletedIsCompleted DEF IInv, LastStep
<1>3. /\ r \in RunRecord /\ ~r.topup /\ r.resume = run.resume
      /\ r.maxCompleted = MaxCompleted
  BY <1>1, <1>2 DEF RunRecord
<1>4. ~r.resume => /\ MaxCompleted = 0
                   /\ \A j \in StepDirs :
                        sampled[j].st = "absent" /\ evaluated[j].st = "absent"
  <2>1. ~r.resume => \A j \in StepDirs :
                       sampled[j].st = "absent" /\ evaluated[j].st = "absent"
    BY <1>1, <1>3 DEF IInv, FreshInv
  <2>2. ~r.resume => CompletedSteps = {}
    BY <2>1 DEF CompletedSteps
  <2> QED BY <1>2, <2>1, <2>2
<1>5. RebuildLimit(r) \in Nat /\ RebuildLimit(r) <= MaxCompleted
  <2> HIDE DEF r
  <2>1. r.n \in Nat
    BY <1>3, ConstantTypes DEF RunRecord
  <2> QED BY <1>2, <1>3, <2>1, MinOfPair DEF RebuildLimit
<1>6. FilesInv'
  <2>1. final' = Torn \/ final' = base \/ final' = final
    BY DEF Restore
  <2> QED BY <1>1, <2>1, FileStates DEF IInv, FilesInv
<1> HIDE DEF r
<1>7. CASE End
  BY <1>1, <1>6, <1>7, StepsAtEnd, EndInv DEF IInv, CallInv
<1>8. ASSUME NEW k \in Nat \ {0}, k <= RebuildLimit(r) + 1, ToStep(r, k),
             final'.st # "absent"
      PROVE  IInv'
  BY <1>1, <1>2, <1>3, <1>4, <1>5, <1>6, <1>8, ToStepInv DEF IInv
<1>9. CASE ToReplay(r, 1) /\ final'.st # "absent"
  <2>1. CASE 1 <= RebuildLimit(r)
    <3>1. pc' = "replay" /\ run' = [r EXCEPT !.step = 1]
      BY <1>9, <2>1 DEF ToReplay
    <3>2. /\ run' \in RunRecord /\ ~run'.topup /\ run'.maxCompleted = MaxCompleted
          /\ run'.resume = r.resume /\ run'.step = 1 /\ run'.n = r.n
      BY <1>3, <3>1 DEF RunRecord
    <3>3. RebuildLimit(run') = RebuildLimit(r) /\ r.resume
      BY <1>3, <1>4, <1>5, <2>1, <3>2 DEF RebuildLimit
    <3>4. CallInv'
      BY <1>1, <1>9, <3>1, <3>2 DEF IInv, CallInv, Restored, Stepping
    <3>5. CompletedSteps' = CompletedSteps /\ LastStep' = LastStep
      BY <1>1, <3>1, <3>2 DEF CompletedSteps, LastStep
    <3>6. StepsInv'
      BY <1>1, <1>2, <1>5, <2>1, <3>1, <3>2, <3>3, <3>5
      DEF IInv, StepsInv, Stepping
    <3>7. FreshInv'
      BY <1>1, <3>1, <3>2, <3>3 DEF FreshInv
    <3> QED BY <1>6, <3>4, <3>6, <3>7 DEF IInv
  <2>2. CASE ~ (1 <= RebuildLimit(r))
    BY <1>5, <1>8, <1>9, <2>2 DEF ToReplay
  <2> QED BY <2>1, <2>2
<1>10. CASE ToStep(r, RebuildLimit(r) + 1) /\ final'.st # "absent"
  BY <1>5, <1>8, <1>10
<1> QED BY <1>1, <1>7, <1>9, <1>10, FileStates DEF Restore, r

LEMMA ReplayInv == IInv /\ Replay => IInv'
<1> SUFFICES ASSUME IInv, Replay PROVE IInv'
  OBVIOUS
<1>1. /\ pc = "replay" /\ ~run.topup /\ run \in RunRecord
      /\ sessions \in Nat \ {0} /\ sessions <= MaxSessions /\ run.resume
      /\ UNCHANGED <<sessions, curated, base, sampled, evaluated, result>>
  BY DEF IInv, CallInv, FreshInv, Replay, stepFiles, Stepping
<1>2. /\ 1 .. run.maxCompleted \subseteq CompletedSteps
      /\ run.maxCompleted <= MaxSteps + sessions - 1
      /\ run.step \in 1 .. RebuildLimit(run)
  BY <1>1 DEF IInv, StepsInv, Restored
<1>3. RebuildLimit(run) \in Nat /\ RebuildLimit(run) <= run.maxCompleted
  BY <1>1, MinOfPair DEF RebuildLimit, RunRecord
<1>4. run.step \in StepDirs
  <2>1. run.step \in 1 .. run.maxCompleted
    BY <1>1, <1>2, <1>3 DEF RunRecord
  <2> QED BY <1>2, <2>1 DEF CompletedSteps
<1>5. CASE End /\ UNCHANGED final
  <2>1. FilesInv'
    BY <1>1, <1>5 DEF IInv, FilesInv
  <2> QED BY <1>1, <1>5, <2>1, StepsAtEnd, EndInv DEF IInv, CallInv
<1>6. CASE MergeReadable(run.step) /\ MergeStep(run.step)
  <2>1. FilesInv' /\ final'.st # "absent"
    BY <1>1, <1>4, <1>6, MergeInv DEF IInv
  <2>2. CASE End
    BY <1>1, <2>1, <2>2, StepsAtEnd, EndInv DEF IInv, CallInv
  <2>3. CASE ToReplay(run, run.step + 1)
    <3>1. CASE run.step + 1 <= RebuildLimit(run)
      <4>1. pc' = "replay" /\ run' = [run EXCEPT !.step = run.step + 1]
        BY <2>3, <3>1 DEF ToReplay
      <4>2. /\ run' \in RunRecord /\ ~run'.topup /\ run'.resume
            /\ run'.maxCompleted = run.maxCompleted /\ run'.n = run.n
            /\ run'.step = run.step + 1
        BY <1>1, <4>1 DEF RunRecord
      <4>3. RebuildLimit(run') = RebuildLimit(run)
        BY <4>2 DEF RebuildLimit
      <4>4. CallInv'
        BY <1>1, <2>1, <4>1, <4>2 DEF IInv, CallInv, Restored, Stepping
      <4>5. CompletedSteps' = CompletedSteps /\ LastStep' = LastStep
        BY <1>1, <4>1, <4>2 DEF CompletedSteps, LastStep
      <4>6. StepsInv'
        BY <1>1, <1>2, <1>3, <3>1, <4>1, <4>2, <4>3, <4>5
        DEF IInv, StepsInv, Stepping
      <4>7. FreshInv'
        BY <1>1, <4>1, <4>2 DEF FreshInv
      <4> QED BY <2>1, <4>4, <4>6, <4>7 DEF IInv
    <3>2. CASE ~ (run.step + 1 <= RebuildLimit(run))
      <4>1. ToStep(run, run.step + 1)
        BY <2>3, <3>2 DEF ToReplay
      <4>2. 1 .. run.step + 1 - 1 \subseteq CompletedSteps /\ run.step + 1 \in Nat \ {0}
        BY <1>1, <1>2, <1>3 DEF RunRecord
      <4> QED BY <1>1, <1>2, <2>1, <4>1, <4>2, ToStepInv DEF IInv
    <3> QED BY <3>1, <3>2
  <2> QED BY <1>6, <2>2, <2>3 DEF Replay
<1> QED BY <1>5, <1>6 DEF Replay

LEMMA SamplePlansInv == IInv /\ SamplePlans => IInv'
<1> SUFFICES ASSUME IInv, SamplePlans PROVE IInv'
  OBVIOUS
<1>1. /\ pc = "sample" /\ run \in RunRecord /\ sessions \in Nat \ {0}
      /\ run.step \in 1 .. LastStep /\ final.st # "absent"
      /\ UNCHANGED <<sessions, curated, base, evaluated, final, result>>
      /\ CompletedSteps' = CompletedSteps
  BY DEF IInv, CallInv, StepsInv, SamplePlans, Stepping, Restored, CompletedSteps
<1>2. run.step \in StepDirs
  BY <1>1, ConstantTypes DEF IInv, CallInv, LastStep, StepDirs
<1>3. FilesInv'
  <2>1. CASE UNCHANGED sampled
    BY <1>1, <2>1 DEF IInv, FilesInv
  <2>2. CASE final.st = "ok" /\ \E gen \in [Slots -> Answers], torn \in BOOLEAN :
               sampled' = [sampled EXCEPT ![run.step] =
                             IF torn THEN Torn ELSE File(DrawnSamples(gen))]
    <3>1. PICK gen \in [Slots -> Answers], torn \in BOOLEAN :
            sampled' = [sampled EXCEPT ![run.step] =
                          IF torn THEN Torn ELSE File(DrawnSamples(gen))]
      BY <2>2
    <3>2. \A q \in Queries : IsList(DrawnSamples(gen)[q])
      <4> SUFFICES ASSUME NEW q \in Queries PROVE IsList(DrawnSamples(gen)[q])
        OBVIOUS
      <4>1. IsList(final.data[q])
        BY <2>2 DEF IInv, FilesInv, TreeOK
      <4>2. Len(SeedsOf(q)) \in Nat
        BY <4>1, BasePlansIsList DEF SeedsOf
      <4>3. BatchSize(q) \in Nat
        BY <1>1, <4>2 DEF BatchSize, RunRecord
      <4>4. DrawnSamples(gen)[q] = [i \in 1 .. BatchSize(q) |-> DrawnSamples(gen)[q][i]]
        BY DEF DrawnSamples
      <4> QED BY <4>3, <4>4, ListOfFunction
    <3>3. /\ sampled' = [k \in StepDirs |-> sampled'[k]]
          /\ \A k \in StepDirs \ {run.step} : sampled'[k] = sampled[k]
          /\ sampled'[run.step] \in {Torn, File(DrawnSamples(gen))}
      BY <1>2, <3>1 DEF IInv, FilesInv
    <3>4. sampled'[run.step].st = "ok" =>
            \A q \in Queries : IsList(sampled'[run.step].data[q])
      BY <3>2, <3>3, FileStates
    <3> QED BY <1>1, <3>3, <3>4 DEF IInv, FilesInv
  <2>3. final.st = "ok" \/ UNCHANGED sampled
    BY DEF SamplePlans
  <2> QED BY <2>1, <2>2, <2>3 DEF SamplePlans, Tears
<1>4. CASE End
  BY <1>1, <1>3, <1>4, StepsAtEnd, EndInv DEF IInv, CallInv
<1>5. CASE Hang
  <2>1. CallInv'
    BY <1>1, <1>5 DEF IInv, CallInv, Hang, Restored, Stepping
  <2>2. StepsInv'
    BY <1>1, <1>5 DEF IInv, StepsInv, LastStep, Hang, Restored, Stepping
  <2>3. FreshInv'
    BY <1>1, <1>5 DEF IInv, FreshInv, Hang, Stepping
  <2> QED BY <1>3, <2>1, <2>2, <2>3 DEF IInv
<1>6. CASE pc' = "evaluate" /\ run' = run
  <2>1. CallInv'
    BY <1>1, <1>6 DEF IInv, CallInv, Restored, Stepping
  <2>2. StepsInv'
    BY <1>1, <1>6 DEF IInv, StepsInv, LastStep, Restored, Stepping
  <2>3. \A k \in StepDirs \ {run.step} : sampled'[k] = sampled[k]
    <3>1. \/ UNCHANGED sampled
          \/ \E file : sampled' = [sampled EXCEPT ![run.step] = file]
      BY <1>6 DEF SamplePlans, End, Hang
    <3>2. ASSUME NEW file, sampled' = [sampled EXCEPT ![run.step] = file]
          PROVE  \A k \in StepDirs \ {run.step} : sampled'[k] = sampled[k]
      BY <3>2 DEF IInv, FilesInv
    <3> QED BY <3>1, <3>2
  <2>4. FreshInv'
    BY <1>1, <1>2, <1>6, <2>3, ConstantTypes DEF IInv, FreshInv, Stepping, StepDirs
  <2> QED BY <1>3, <2>1, <2>2, <2>4 DEF IInv
<1> QED BY <1>4, <1>5, <1>6 DEF SamplePlans

LEMMA EvaluatePlansInv == IInv /\ EvaluatePlans => IInv'
<1> SUFFICES ASSUME IInv, EvaluatePlans PROVE IInv'
  OBVIOUS
<1>1. /\ pc = "evaluate" /\ run \in RunRecord /\ sessions \in Nat \ {0}
      /\ sessions <= MaxSessions
      /\ run.step \in 1 .. LastStep /\ 1 .. run.step - 1 \subseteq CompletedSteps
      /\ UNCHANGED <<sessions, curated, base, sampled, final, result>>
  BY DEF IInv, CallInv, StepsInv, EvaluatePlans, Stepping, Restored
<1>2. run.step \in StepDirs /\ LastStep \in Nat
  BY <1>1, ConstantTypes DEF LastStep, StepDirs
<1>3. \/ UNCHANGED evaluated
      \/ /\ sampled[run.step].st = "ok"
         /\ \E timed \in [ToEvaluate(run.step) -> Metrics \cup {0}], torn \in BOOLEAN :
              evaluated' = [evaluated EXCEPT ![run.step] =
                              IF torn THEN Torn
                              ELSE File(EvaluatedSamples(run.step, timed))]
  BY DEF EvaluatePlans, Tears
<1>4. /\ evaluated' = [k \in StepDirs |-> evaluated'[k]]
      /\ \A k \in StepDirs \ {run.step} : evaluated'[k] = evaluated[k]
      /\ evaluated'[run.step].st = "ok" =>
           \A q \in Queries : IsList(evaluated'[run.step].data[q])
      /\ evaluated' = evaluated \/ evaluated'[run.step].st # "absent"
  <2>1. CASE UNCHANGED evaluated
    BY <1>2, <2>1 DEF IInv, FilesInv
  <2>2. CASE ~ UNCHANGED evaluated
    <3>1. sampled[run.step].st = "ok"
      BY <1>3, <2>2
    <3>2. PICK timed \in [ToEvaluate(run.step) -> Metrics \cup {0}], torn \in BOOLEAN :
            evaluated' = [evaluated EXCEPT ![run.step] =
                            IF torn THEN Torn
                            ELSE File(EvaluatedSamples(run.step, timed))]
      BY <1>3, <2>2
    <3>3. \A q \in Queries : IsList(EvaluatedSamples(run.step, timed)[q])
      <4> SUFFICES ASSUME NEW q \in Queries
                   PROVE  IsList(EvaluatedSamples(run.step, timed)[q])
        OBVIOUS
      <4> DEFINE n == Len(sampled[run.step].data[q])
      <4>1. IsList(sampled[run.step].data[q])
        BY <1>2, <3>1 DEF IInv, FilesInv
      <4>2. n \in Nat /\ DOMAIN sampled[run.step].data[q] = 1 .. n
        BY <4>1, ListShape
      <4> HIDE DEF n
      <4>3. EvaluatedSamples(run.step, timed)[q]
              = [i \in 1 .. n |-> EvaluatedSamples(run.step, timed)[q][i]]
        BY <4>2 DEF EvaluatedSamples
      <4> QED BY <4>2, <4>3, ListOfFunction
    <3>4. /\ evaluated' = [k \in StepDirs |-> evaluated'[k]]
          /\ \A k \in StepDirs \ {run.step} : evaluated'[k] = evaluated[k]
          /\ evaluated'[run.step] \in {Torn, File(EvaluatedSamples(run.step, timed))}
      BY <1>2, <3>2 DEF IInv, FilesInv
    <3> QED BY <3>3, <3>4, FileStates
  <2> QED BY <2>1, <2>2
<1>5. FilesInv'
  BY <1>1, <1>4 DEF IInv, FilesInv
<1>6. \/ CompletedSteps' = CompletedSteps
      \/ CompletedSteps' = CompletedSteps \cup {run.step}
  BY <1>2, <1>4 DEF CompletedSteps
<1>7. \A k \in CompletedSteps' : k <= LastStep /\ 1 .. k \subseteq CompletedSteps'
  <2>1. 1 .. run.step \subseteq CompletedSteps \cup {run.step}
    BY <1>1, <1>2
  <2> QED BY <1>1, <1>2, <1>6, <2>1 DEF IInv, StepsInv
<1>8. CASE End
  <2>1. LastStep <= MaxSteps + sessions /\ CompletedSteps' \subseteq Nat
    BY <1>1, ConstantTypes DEF LastStep, CompletedSteps, StepDirs
  <2>2. \A k \in CompletedSteps' :
          k <= MaxSteps + sessions /\ 1 .. k \subseteq CompletedSteps'
    BY <1>1, <1>2, <1>7, <2>1, ConstantTypes
  <2> QED BY <1>1, <1>5, <1>8, <2>2, EndInv DEF IInv, CallInv
<1>9. CASE pc' = "accumulate" /\ run' = run
  <2>1. CallInv'
    BY <1>1, <1>9 DEF IInv, CallInv, Restored, Stepping
  <2>2. LastStep' = LastStep /\ CompletedSteps \subseteq CompletedSteps'
    BY <1>1, <1>6, <1>9 DEF LastStep
  <2>3. StepsInv'
    BY <1>1, <1>7, <1>9, <2>2 DEF IInv, StepsInv, Restored, Stepping
  <2>4. FreshInv'
    BY <1>1, <1>2, <1>4, <1>9, ConstantTypes DEF IInv, FreshInv, Stepping, StepDirs
  <2> QED BY <1>5, <2>1, <2>3, <2>4 DEF IInv
<1> QED BY <1>8, <1>9 DEF EvaluatePlans

LEMMA AccumulateStepInv == IInv /\ AccumulateStep => IInv'
<1> SUFFICES ASSUME IInv, AccumulateStep PROVE IInv'
  OBVIOUS
<1>1. /\ pc = "accumulate" /\ run \in RunRecord /\ sessions \in Nat \ {0}
      /\ sessions <= MaxSessions
      /\ run.step \in 1 .. LastStep /\ 1 .. run.step - 1 \subseteq CompletedSteps
      /\ 1 .. run.maxCompleted \subseteq CompletedSteps
      /\ run.maxCompleted <= MaxSteps + sessions - 1
      /\ UNCHANGED <<sessions, curated, base, sampled, evaluated, result>>
  BY DEF IInv, CallInv, StepsInv, AccumulateStep, Stepping, Restored, stepFiles
<1>2. run.step \in StepDirs
  BY <1>1, ConstantTypes DEF LastStep, StepDirs
<1>3. CASE End /\ UNCHANGED final
  <2>1. FilesInv'
    BY <1>1, <1>3 DEF IInv, FilesInv
  <2> QED BY <1>1, <1>3, <2>1, StepsAtEnd, EndInv DEF IInv, CallInv
<1>4. CASE MergeReadable(run.step) /\ MergeStep(run.step)
  <2>1. FilesInv' /\ final'.st # "absent"
    BY <1>1, <1>2, <1>4, MergeInv DEF IInv
  <2>2. CASE End
    BY <1>1, <2>1, <2>2, StepsAtEnd, EndInv DEF IInv, CallInv
  <2>3. CASE run.topup /\ pc' = "process" /\ run' = [run EXCEPT !.step = 0, !.count = 0]
    <3>1. /\ run' \in RunRecord /\ run'.topup /\ run'.resume = run.resume
          /\ run'.maxCompleted = run.maxCompleted
      BY <1>1, <2>3 DEF RunRecord
    <3>2. CallInv'
      BY <1>1, <2>1, <2>3, <3>1 DEF IInv, CallInv, Restored, Stepping
    <3>3. CompletedSteps' = CompletedSteps /\ LastStep' = LastStep
      BY <1>1, <2>3, <3>1 DEF CompletedSteps, LastStep
    <3>4. StepsInv'
      BY <1>1, <2>3, <3>1, <3>3 DEF IInv, StepsInv, Stepping
    <3>5. FreshInv'
      BY <1>1, <2>3, <3>1 DEF IInv, FreshInv, Stepping
    <3> QED BY <2>1, <3>2, <3>4, <3>5 DEF IInv
  <2>4. CASE ~run.topup /\ ToStep(run, run.step + 1)
    <3>1. run.step \in CompletedSteps
      BY <1>2, <1>4 DEF CompletedSteps, MergeReadable
    <3>2. 1 .. run.step + 1 - 1 \subseteq CompletedSteps /\ run.step + 1 \in Nat \ {0}
      BY <1>1, <3>1 DEF RunRecord, IInv, StepsInv
    <3>3. ~run.resume => \A j \in StepDirs :
            j >= run.step + 1 => sampled[j].st = "absent" /\ evaluated[j].st = "absent"
      BY <1>1, <1>2, ConstantTypes DEF IInv, FreshInv, Stepping, StepDirs
    <3> QED BY <1>1, <2>1, <2>4, <3>2, <3>3, ToStepInv DEF IInv
  <2> QED BY <1>4, <2>2, <2>3, <2>4 DEF AccumulateStep, AfterStep
<1> QED BY <1>3, <1>4 DEF AccumulateStep

LEMMA TopUpInv == IInv /\ TopUp => IInv'
<1> SUFFICES ASSUME IInv, TopUp PROVE IInv'
  OBVIOUS
<1>1. /\ pc = "topup" /\ run \in RunRecord /\ ~run.topup
      /\ sessions \in Nat \ {0} /\ final.st # "absent"
      /\ 1 .. run.maxCompleted \subseteq CompletedSteps
      /\ run.maxCompleted <= MaxSteps + sessions - 1
      /\ UNCHANGED <<sessions, curated, base, sampled, evaluated, final, result>>
      /\ CompletedSteps' = CompletedSteps
  BY DEF IInv, CallInv, StepsInv, TopUp, Stepping, Restored, stepFiles, CompletedSteps
<1>2. FilesInv'
  BY <1>1 DEF IInv, FilesInv
<1>3. CASE End
  BY <1>1, <1>2, <1>3, StepsAtEnd, EndInv DEF IInv, CallInv
<1>4. CASE /\ TopUpApplies /\ final.st # "torn" /\ SampleCount(1) < run.m
           /\ pc' = "sample"
           /\ run' = [run EXCEPT !.topup = TRUE, !.step = run.maxCompleted + 1,
                                 !.count = run.m - SampleCount(1)]
  <2>1. SampleCount(1) \in Nat
    <3> DEFINE S == {i \in DOMAIN final.data[1] : final.data[1][i].id # 0}
    <3>1. final.st = "ok"
      BY <1>1, <1>4 DEF IInv, CallInv, FilesInv
    <3>2. IsList(final.data[1])
      BY <3>1, ConstantTypes DEF IInv, FilesInv, TreeOK
    <3>3. S \subseteq DOMAIN final.data[1]
      OBVIOUS
    <3> HIDE DEF S
    <3>4. Cardinality(S) \in Nat
      BY <3>2, <3>3, NodesCounted
    <3> QED BY <3>4 DEF SampleCount, S
  <2>2. run.m - SampleCount(1) \in Nat /\ run.maxCompleted + 1 \in Nat \ {0}
    BY <1>1, <1>4, <2>1 DEF RunRecord
  <2>3. /\ run' \in RunRecord /\ run'.topup /\ run'.resume /\ run.resume
        /\ run'.maxCompleted = run.maxCompleted /\ run'.step = run.maxCompleted + 1
    BY <1>1, <1>4, <2>2 DEF RunRecord, TopUpApplies
  <2>4. CallInv'
    BY <1>1, <1>4, <2>3 DEF IInv, CallInv, Restored, Stepping
  <2>5. LastStep' = MaxSteps + sessions /\ LastStep = MaxSteps + sessions - 1
    BY <1>1, <1>4, <2>3, ConstantTypes DEF LastStep
  <2>6. /\ run'.step \in 1 .. LastStep'
        /\ 1 .. run'.step - 1 \subseteq CompletedSteps'
    BY <1>1, <2>2, <2>3, <2>5, ConstantTypes DEF RunRecord
  <2>7. StepsInv'
    <3>1. \A k \in CompletedSteps' : k <= LastStep' /\ 1 .. k \subseteq CompletedSteps'
      BY <1>1, <2>5, ConstantTypes DEF IInv, StepsInv, CompletedSteps, StepDirs
    <3> QED BY <1>1, <1>4, <2>3, <2>6, <3>1 DEF StepsInv, Stepping
  <2>8. FreshInv'
    BY <1>1, <1>4, <2>3 DEF FreshInv
  <2> QED BY <1>2, <2>4, <2>7, <2>8 DEF IInv
<1>5. CASE pc' = "process" /\ run' = run
  <2>1. CallInv'
    BY <1>1, <1>5 DEF IInv, CallInv, Restored, Stepping
  <2>2. StepsInv'
    BY <1>1, <1>5 DEF IInv, StepsInv, LastStep, Stepping, Restored
  <2>3. FreshInv'
    BY <1>1, <1>5 DEF IInv, FreshInv, Stepping
  <2> QED BY <1>2, <2>1, <2>2, <2>3 DEF IInv
<1> QED BY <1>3, <1>4, <1>5 DEF TopUp

LEMMA ProcessResultsInv == IInv /\ ProcessResults => IInv'
<1> SUFFICES ASSUME IInv, ProcessResults PROVE IInv'
  OBVIOUS
<1>1. /\ pc = "process" /\ run \in RunRecord
      /\ UNCHANGED <<sessions, curated, base, sampled, evaluated, final>>
      /\ CompletedSteps' = CompletedSteps
  BY DEF IInv, CallInv, ProcessResults, stepFiles, CompletedSteps
<1>2. FilesInv'
  BY <1>1 DEF IInv, FilesInv
<1>3. CASE End
  <2>1. \/ UNCHANGED result
        \/ result' = Torn
        \/ result' = ResultFile([q \in Queries |-> Outcome(q)])
    BY DEF ProcessResults
  <2>2. result'.st = "ok" => result'.data.strategy \in Strategies \cup {"none"}
    BY <1>1, <2>1, FileStates DEF ResultFile, RunRecord, IInv, CallInv
  <2> QED BY <1>1, <1>2, <1>3, <2>2, StepsAtEnd, EndInv DEF IInv
<1>4. CASE Hang /\ UNCHANGED result
  <2>1. CallInv'
    BY <1>1, <1>4 DEF IInv, CallInv, Hang, Restored, Stepping
  <2>2. StepsInv'
    BY <1>1, <1>4 DEF IInv, StepsInv, LastStep, Hang, Restored, Stepping
  <2>3. FreshInv'
    BY <1>1, <1>4 DEF IInv, FreshInv, Hang, Stepping
  <2> QED BY <1>2, <2>1, <2>2, <2>3 DEF IInv
<1> QED BY <1>3, <1>4 DEF ProcessResults

LEMMA StepInv == IInv /\ [Next]_vars => IInv'
<1> SUFFICES ASSUME IInv, [Next]_vars PROVE IInv'
  OBVIOUS
<1>1. CASE UNCHANGED vars
  <2>1. CallInv' /\ FilesInv'
    BY <1>1 DEF vars, IInv, CallInv, FilesInv
  <2>2. CompletedSteps' = CompletedSteps /\ LastStep' = LastStep
    BY <1>1 DEF vars, CompletedSteps, LastStep
  <2>3. StepsInv' /\ FreshInv'
    BY <1>1, <2>2 DEF vars, IInv, StepsInv, FreshInv
  <2> QED BY <2>1, <2>3 DEF IInv
<1>2. CASE CallStep
  BY <1>2, EarlyExitInv, CurateInv, PrepareSamplingInv, RestoreInv, ReplayInv,
     SamplePlansInv, EvaluatePlansInv, AccumulateStepInv, TopUpInv,
     ProcessResultsInv DEF CallStep
<1> QED BY <1>1, <1>2, StartFreshInv, StartResumeInv, CrashInv DEF Next

LEMMA InvHolds == Spec => []IInv
  BY InitInv, StepInv, PTL DEF Spec

-----------------------------------------------------------------------------
(* The theorems. *)

\* After any history the ids of every tree are its positions, so the index
\* that get_upstream_patches follows names the node it was written for.
THEOREM IdsArePositionsHolds == Spec => []IdsArePositions
<1>1. IInv => IdsArePositions
  BY DEF IInv, FilesInv, TreeOK, IdsArePositions
<1> QED BY <1>1, InvHolds, PTL

\* After any history the completed steps are a prefix of the steps: the
\* rebuild of run_sampling_steps never misses a file.
THEOREM CompletedStepsContiguousHolds == Spec => []CompletedStepsContiguous
<1>1. IInv => CompletedStepsContiguous
  BY MaxCompletedIsCompleted DEF IInv, CompletedStepsContiguous
<1> QED BY <1>1, InvHolds, PTL

\* Step files are written once, step by step.
LEMMA WrittenOnce ==
  ASSUME IInv, [Next]_vars, NEW k \in StepDirs
  PROVE  /\ sampled[k].st # "absent" => sampled'[k] = sampled[k]
         /\ evaluated[k].st # "absent" => evaluated'[k] = evaluated[k]
<1>1. CASE UNCHANGED stepFiles
  BY <1>1 DEF stepFiles
<1>2. CASE SamplePlans
  <2>1. evaluated' = evaluated
    BY <1>2 DEF SamplePlans
  <2>2. CASE UNCHANGED sampled
    BY <2>1, <2>2
  <2>3. CASE ~ReusesSampled /\ \E file : sampled' = [sampled EXCEPT ![run.step] = file]
    <3>1. k = run.step => sampled[k].st = "absent"
      BY <1>2, <2>3 DEF ReusesSampled, SamplePlans, IInv, FreshInv, CallInv, RunRecord
    <3>2. k # run.step => sampled'[k] = sampled[k]
      BY <2>3 DEF IInv, FilesInv
    <3> QED BY <2>1, <3>1, <3>2
  <2> QED BY <1>2, <2>2, <2>3 DEF SamplePlans
<1>3. CASE EvaluatePlans
  <2>1. sampled' = sampled
    BY <1>3 DEF EvaluatePlans
  <2>2. CASE UNCHANGED evaluated
    BY <2>1, <2>2
  <2>3. CASE /\ ~ReusesEvaluated
             /\ \E file : evaluated' = [evaluated EXCEPT ![run.step] = file]
    <3>1. k = run.step => evaluated[k].st = "absent"
      BY <1>3, <2>3 DEF ReusesEvaluated, EvaluatePlans, IInv, FreshInv, CallInv, RunRecord
    <3>2. k # run.step => evaluated'[k] = evaluated[k]
      BY <2>3 DEF IInv, FilesInv
    <3> QED BY <2>1, <3>1, <3>2
  <2> QED BY <1>3, <2>2, <2>3 DEF EvaluatePlans
<1>4. CASE ~ (SamplePlans \/ EvaluatePlans)
  BY <1>1, <1>4 DEF Next, CallStep, vars, StartFresh, StartResume, EarlyExit, Curate,
     PrepareSampling, Restore, Replay, AccumulateStep, TopUp, ProcessResults, Crash,
     stepFiles
<1> QED BY <1>2, <1>3, <1>4

\* No call ever rewrites a step file, whatever happened before it.
THEOREM StepFilesWrittenOnceHolds == Spec => StepFilesWrittenOnce
<1> DEFINE Kept == \A k \in StepDirs :
             /\ sampled[k].st # "absent" => sampled'[k] = sampled[k]
             /\ evaluated[k].st # "absent" => evaluated'[k] = evaluated[k]
<1>1. IInv /\ [Next]_vars => Kept
  BY WrittenOnce
<1>2. IInv /\ [Next]_vars => [Kept]_stepFiles
  BY <1>1
<1> QED BY <1>2, InvHolds, PTL DEF Spec, StepFilesWrittenOnce

-----------------------------------------------------------------------------
(* The second invariant: what every file holds. *)

\* The strategy the directory was created with, while a call can still extend it.
Kind == IF pc # "idle" THEN run.strategy
        ELSE IF result.st = "ok" THEN result.data.strategy ELSE "none"

ResultData == [strategy : Strategies, m : Nat,
               outcome : {<< >>} \cup [Queries -> Seq(Candidate)]]

FilesTyped ==
  /\ curated \in FileOf([Queries -> Nat])
  /\ base \in FileOf([Queries -> Seq(Node)])
  /\ sampled \in [StepDirs -> FileOf([Queries -> Seq(Sample)])]
  /\ evaluated \in [StepDirs -> FileOf([Queries -> Seq(Sample)])]
  /\ final \in FileOf([Queries -> Seq(Node)])
  /\ result \in FileOf(ResultData)

TreesInv ==
  /\ base.st = "ok" => \A q \in Queries : Sound(base.data[q])
  /\ final.st = "ok" => \A q \in Queries : Sound(final.data[q])

\* A sample on disk was drawn from the tree as it still is; one of best_of
\* from the root, which every tree has.
SampleKnown(q, sample) ==
  /\ final.st = "ok" => Fits(final.data[q], sample)
  /\ Kind = "best_of" => sample.parent = 0 /\ sample.upstream = << >>

SamplesKnown(file) ==
  file.st = "ok" =>
    \A q \in Queries : \A i \in 1 .. Len(file.data[q]) :
      SampleKnown(q, file.data[q][i])

SamplesInv ==
  \A k \in StepDirs : SamplesKnown(sampled[k]) /\ SamplesKnown(evaluated[k])

NoStepFiles == \A k \in StepDirs : sampled[k].st = "absent" /\ evaluated[k].st = "absent"

\* What keeps a tree from being taken back under samples drawn from it.
HistoryInv ==
  /\ pc # "hung"
  /\ sessions = 0 => result.st # "ok"
  /\ pc # "idle" => run.strategy \in Strategies
  /\ pc # "idle" /\ result.st = "ok" => result.data.strategy = run.strategy
  /\ pc = "prepare" => curated.st = "ok"
  /\ final.st = "absent" => NoStepFiles
  /\ Kind \in {"pst_evol", "bol_evol"} => CompletedSteps \subseteq 1 .. MaxSteps
  /\ pc \in {"curate", "prepare", "restore"} /\ run.resume /\ run.strategy # "best_of" =>
       CompletedSteps \subseteq 1 .. run.n
  /\ pc \in Stepping /\ ~run.topup => run.step <= run.n
  /\ run.topup => run.strategy = "best_of"

TInv == FilesTyped /\ TreesInv /\ SamplesInv /\ HistoryInv

LEMMA FileTypes ==
  ASSUME NEW S
  PROVE  /\ Absent \in FileOf(S) /\ Torn \in FileOf(S)
         /\ \A d \in S : File(d) \in FileOf(S)
         /\ \A f \in FileOf(S) : /\ f.st \in {"absent", "torn", "ok"}
                                 /\ f.st = "ok" => f.data \in S
  BY DEF Absent, Torn, File, FileOf

\* The call goes on.
LEMMA GoesOn ==
  ASSUME IInv, IInv', HistoryInv, pc # "idle", pc' # "idle", pc' # "hung",
         run'.strategy = run.strategy,
         run'.topup => run.strategy = "best_of",
         pc' \in Stepping /\ ~run'.topup => run'.step <= run'.n,
         pc' \in {"curate", "prepare", "restore"} =>
           /\ pc \in {"curate", "prepare", "restore"} /\ run' = run
           /\ CompletedSteps' = CompletedSteps,
         pc' = "prepare" => curated'.st = "ok",
         UNCHANGED <<sessions, result>>,
         final'.st = "absent" => NoStepFiles',
         Kind \in {"pst_evol", "bol_evol"} => CompletedSteps' \subseteq 1 .. MaxSteps
  PROVE  HistoryInv' /\ Kind' = Kind
<1>1. Kind' = Kind
  BY DEF Kind
<1> QED BY <1>1 DEF HistoryInv

\* The call ends.
LEMMA Stops ==
  ASSUME IInv, HistoryInv, pc # "idle", End, UNCHANGED sessions,
         result' = result \/ (result'.st = "ok" => result'.data.strategy = run.strategy),
         final'.st = "absent" => NoStepFiles',
         Kind \in {"pst_evol", "bol_evol"} => CompletedSteps' \subseteq 1 .. MaxSteps
  PROVE  HistoryInv' /\ Kind' \in {Kind, "none"}
<1>1. /\ pc' = "idle" /\ run' = NoRun /\ ~NoRun.topup
      /\ sessions # 0
  BY ConstantTypes DEF End, NoRun, IInv, CallInv
<1>2. result'.st = "ok" => result'.data.strategy = run.strategy
  BY DEF HistoryInv
<1>3. Kind' \in {Kind, "none"}
  BY <1>1, <1>2 DEF Kind
<1> QED BY <1>1, <1>2, <1>3 DEF HistoryInv, Stepping

LEMMA SamplesStay ==
  ASSUME SamplesInv, Kind' \in {Kind, "none"}, UNCHANGED <<sampled, evaluated>>,
         \A q \in Queries, sample \in Sample :
           (final.st = "ok" => Fits(final.data[q], sample))
             => (final'.st = "ok" => Fits(final'.data[q], sample)),
         FilesTyped
  PROVE  SamplesInv'
<1> SUFFICES ASSUME NEW k \in StepDirs
             PROVE  SamplesKnown(sampled[k])' /\ SamplesKnown(evaluated[k])'
  BY DEF SamplesInv
<1>1. ASSUME NEW file, file \in FileOf([Queries -> Seq(Sample)]), SamplesKnown(file),
             file.st = "ok", NEW q \in Queries, NEW i \in 1 .. Len(file.data[q])
      PROVE  /\ final'.st = "ok" => Fits(final'.data[q], file.data[q][i])
             /\ Kind' = "best_of" => file.data[q][i].parent = 0
                                       /\ file.data[q][i].upstream = << >>
  <2>1. file.data[q] \in Seq(Sample)
    BY <1>1, FileTypes
  <2>2. file.data[q][i] \in Sample
    BY <1>1, <2>1, ElementOfSeq
  <2>3. SampleKnown(q, file.data[q][i])
    BY <1>1 DEF SamplesKnown
  <2> QED BY <2>2, <2>3 DEF SampleKnown
<1>2. /\ sampled[k] \in FileOf([Queries -> Seq(Sample)]) /\ SamplesKnown(sampled[k])
      /\ evaluated[k] \in FileOf([Queries -> Seq(Sample)]) /\ SamplesKnown(evaluated[k])
  BY DEF FilesTyped, SamplesInv
<1>3. SamplesKnown(sampled[k])'
  BY <1>1, <1>2 DEF SamplesKnown, SampleKnown
<1>4. SamplesKnown(evaluated[k])'
  BY <1>1, <1>2 DEF SamplesKnown, SampleKnown
<1> QED BY <1>3, <1>4

LEMMA DivInRange ==
  ASSUME NEW n \in Nat, NEW c \in Nat, NEW i \in 1 .. n * c
  PROVE  (i - 1) \div c + 1 \in 1 .. n
<1> DEFINE j == i - 1
<1>1. c \in Nat \ {0} /\ j \in Nat /\ j < n * c
  OBVIOUS
<1> HIDE DEF j
<1>2. j \div c \in Nat /\ j \div c < n
  BY <1>1, SMT
<1> QED BY <1>2 DEF j

LEMMA InitTInv == Init => TInv
<1> SUFFICES ASSUME Init PROVE TInv
  OBVIOUS
<1>1. FilesTyped
  BY FileTypes DEF Init, FilesTyped
<1>2. TreesInv /\ SamplesInv
  BY FileStates DEF Init, TreesInv, SamplesInv, SamplesKnown
<1>3. CompletedSteps = {} /\ NoStepFiles /\ Kind = "none"
  BY FileStates DEF Init, CompletedSteps, NoStepFiles, Kind
<1>4. HistoryInv
  BY <1>3, FileStates DEF Init, HistoryInv, Stepping, NoRun
<1> QED BY <1>1, <1>2, <1>4 DEF TInv

LEMMA StartFreshTInv == IInv /\ TInv /\ StartFresh => TInv'
<1> SUFFICES ASSUME IInv, TInv, StartFresh PROVE TInv'
  OBVIOUS
<1>1. /\ NoStepFiles /\ sessions = 0 /\ pc = "idle"
      /\ UNCHANGED <<curated, base, sampled, evaluated, final, result>>
      /\ pc' = "curate" /\ sessions' = 1
  BY DEF StartFresh, IInv, FreshInv, NoStepFiles, stepFiles
<1>2. run'.strategy \in Strategies /\ ~run'.resume /\ ~run'.topup
  <2>1. PICK strategy \in Strategies, m \in SampleCounts :
          \E n \in StepTargets(strategy) :
            run' = [NoRun EXCEPT !.strategy = strategy, !.n = n, !.m = m]
    BY DEF StartFresh
  <2> QED BY <2>1 DEF NoRun
<1>3. FilesTyped' /\ TreesInv'
  BY <1>1 DEF TInv, FilesTyped, TreesInv
<1>4. SamplesInv' /\ NoStepFiles' /\ CompletedSteps' = {}
  BY <1>1 DEF SamplesInv, SamplesKnown, NoStepFiles, CompletedSteps
<1>5. HistoryInv'
  BY <1>1, <1>2, <1>4 DEF TInv, HistoryInv, Stepping
<1> QED BY <1>3, <1>4, <1>5 DEF TInv

LEMMA StartResumeTInv ==
  ASSUME ~AllowLowering
  PROVE  IInv /\ TInv /\ StartResume => TInv'
<1> SUFFICES ASSUME IInv, TInv, StartResume PROVE TInv'
  OBVIOUS
<1>1. /\ pc = "idle" /\ result.st = "ok" /\ pc' \in {"restore", "curate"}
      /\ sessions' = sessions + 1 /\ sessions \in Nat
      /\ UNCHANGED <<curated, base, sampled, evaluated, final, result>>
      /\ CompletedSteps' = CompletedSteps /\ NoStepFiles' = NoStepFiles
  BY DEF StartResume, IInv, CallInv, NoStepFiles, CompletedSteps, stepFiles
<1> DEFINE strategy == result.data.strategy
<1>2. PICK n \in StepTargets(strategy), m \in SampleCounts :
        /\ AllowLowering \/ n >= Min({MaxCompleted, Max(StepTargets(strategy))})
        /\ run' = [NoRun EXCEPT !.strategy = strategy, !.resume = TRUE, !.n = n, !.m = m]
  BY DEF StartResume
<1>3. strategy \in Strategies
  <2>1. result.data \in ResultData
    BY <1>1, FileTypes DEF TInv, FilesTyped
  <2> QED BY <2>1 DEF ResultData
<1>4. run'.strategy = strategy /\ ~run'.topup /\ run'.n = n
  BY <1>2 DEF NoRun
<1>5. Kind = strategy /\ Kind' = strategy /\ result.data.strategy = strategy
  BY <1>1, <1>4 DEF Kind
<1> HIDE DEF strategy
<1>6. strategy # "best_of" => CompletedSteps \subseteq 1 .. n
  <2> SUFFICES ASSUME strategy # "best_of" PROVE CompletedSteps \subseteq 1 .. n
    OBVIOUS
  <2>1. strategy \in {"pst_evol", "bol_evol"}
    BY <1>3, SamplingRunAssumption DEF SamplingRunAssumption
  <2>2. CompletedSteps \subseteq 1 .. MaxSteps
    BY <1>5, <2>1 DEF TInv, HistoryInv
  <2>3. MaxCompleted \in Nat /\ CompletedSteps = 1 .. MaxCompleted
    BY MaxCompletedIsCompleted DEF IInv
  <2>4. MaxCompleted <= MaxSteps
    <3>1. MaxCompleted = 0 \/ MaxCompleted \in 1 .. MaxSteps
      BY <2>2, <2>3
    <3> QED BY <3>1, ConstantTypes
  <2>5. StepTargets(strategy) = 0 .. MaxSteps
    BY <2>1 DEF StepTargets
  <2>6. Max(StepTargets(strategy)) = MaxSteps
    <3> DEFINE S == StepTargets(strategy)
    <3>1. MaxSteps \in S /\ S \subseteq Int /\ \A y \in S : MaxSteps >= y
      BY <2>5, ConstantTypes
    <3> HIDE DEF S
    <3>2. Max(S) = MaxSteps
      BY <3>1, MaxIs
    <3> QED BY <3>2 DEF S
  <2>7. Min({MaxCompleted, MaxSteps}) = MaxCompleted
    BY <2>3, <2>4, ConstantTypes, MinOfPair
  <2>8. n >= MaxCompleted /\ n \in Nat
    BY <1>2, <2>5, <2>6, <2>7
  <2> QED BY <2>3, <2>8
<1>7. FilesTyped' /\ TreesInv'
  BY <1>1 DEF TInv, FilesTyped, TreesInv
<1>8. SamplesInv'
  BY <1>1, <1>5, SamplesStay DEF TInv
<1>9. HistoryInv'
  <2>1. ~ (pc' \in Stepping)
    BY <1>1 DEF Stepping
  <2> QED BY <1>1, <1>3, <1>4, <1>5, <1>6, <2>1 DEF TInv, HistoryInv
<1> QED BY <1>7, <1>8, <1>9 DEF TInv

\* Steps that leave the trees and the samples alone.
LEMMA FilesStay ==
  ASSUME TInv, UNCHANGED <<base, sampled, evaluated, final>>, Kind' \in {Kind, "none"}
  PROVE  /\ TreesInv' /\ SamplesInv'
         /\ CompletedSteps' = CompletedSteps
         /\ final'.st = "absent" => NoStepFiles'
<1>1. TreesInv'
  BY DEF TInv, TreesInv
<1>2. SamplesInv'
  BY SamplesStay DEF TInv
<1>3. CompletedSteps' = CompletedSteps
  BY DEF CompletedSteps
<1>4. final'.st = "absent" => NoStepFiles'
  BY DEF TInv, HistoryInv, NoStepFiles
<1> QED BY <1>1, <1>2, <1>3, <1>4

LEMMA CompletedKnown ==
  ASSUME TInv, UNCHANGED <<sampled, evaluated>>
  PROVE  /\ CompletedSteps' = CompletedSteps /\ NoStepFiles' = NoStepFiles
         /\ Kind \in {"pst_evol", "bol_evol"} => CompletedSteps' \subseteq 1 .. MaxSteps
<1>1. CompletedSteps' = CompletedSteps /\ NoStepFiles' = NoStepFiles
  BY DEF CompletedSteps, NoStepFiles
<1> QED BY <1>1 DEF TInv, HistoryInv

LEMMA ResultTyped ==
  ASSUME IInv, TInv, pc # "idle",
         NEW outcome \in {<< >>} \cup [Queries -> Seq(Candidate)]
  PROVE  /\ ResultFile(outcome) \in FileOf(ResultData)
         /\ ResultFile(outcome).st = "ok"
         /\ ResultFile(outcome).data.strategy = run.strategy
<1>1. run.strategy \in Strategies /\ run.m \in Nat
  BY DEF IInv, CallInv, RunRecord, TInv, HistoryInv
<1> DEFINE d == [strategy |-> run.strategy, m |-> run.m, outcome |-> outcome]
<1>2. d \in ResultData
  BY <1>1 DEF ResultData
<1>3. d.strategy = run.strategy
  OBVIOUS
<1> HIDE DEF d
<1>4. ResultFile(outcome) = File(d)
  BY DEF ResultFile, d
<1> QED BY <1>2, <1>3, <1>4, FileTypes, FileStates

LEMMA EarlyExitTInv == IInv /\ TInv /\ EarlyExit => TInv'
<1> SUFFICES ASSUME IInv, TInv, EarlyExit PROVE TInv'
  OBVIOUS
<1>1. /\ pc = "curate" /\ End
      /\ UNCHANGED <<sessions, curated, base, sampled, evaluated, final>>
      /\ result' = Torn \/ result' = ResultFile(<< >>)
  BY DEF EarlyExit, stepFiles
<1>2. /\ result' \in FileOf(ResultData)
      /\ result'.st = "ok" => result'.data.strategy = run.strategy
  BY <1>1, ResultTyped, FileTypes, FileStates
<1>3. FilesTyped'
  BY <1>1, <1>2 DEF TInv, FilesTyped
<1>4. HistoryInv' /\ Kind' \in {Kind, "none"}
  <2>1. final'.st = "absent" => NoStepFiles'
    BY <1>1, CompletedKnown DEF TInv, HistoryInv
  <2> QED BY <1>1, <1>2, <2>1, CompletedKnown, Stops DEF TInv
<1> QED BY <1>1, <1>3, <1>4, FilesStay DEF TInv

LEMMA CrashTInv == IInv /\ TInv /\ Crash => TInv'
<1> SUFFICES ASSUME IInv, TInv, Crash PROVE TInv'
  OBVIOUS
<1>1. /\ pc # "idle" /\ End
      /\ UNCHANGED <<sessions, curated, base, sampled, evaluated, final, result>>
  BY DEF Crash, stepFiles
<1>2. FilesTyped'
  BY <1>1 DEF TInv, FilesTyped
<1>3. HistoryInv' /\ Kind' \in {Kind, "none"}
  <2>1. final'.st = "absent" => NoStepFiles'
    BY <1>1, CompletedKnown DEF TInv, HistoryInv
  <2> QED BY <1>1, <2>1, CompletedKnown, Stops DEF TInv
<1> QED BY <1>1, <1>2, <1>3, FilesStay DEF TInv

LEMMA CurateTInv == IInv /\ IInv' /\ TInv /\ Curate => TInv'
<1> SUFFICES ASSUME IInv, IInv', TInv, Curate PROVE TInv'
  OBVIOUS
<1>1. /\ pc = "curate" /\ UNCHANGED <<sessions, base, sampled, evaluated, final, result>>
      /\ End \/ (pc' = "prepare" /\ run' = run)
      /\ curated' = curated \/ curated' = Torn
           \/ curated' = File([q \in Queries |-> BaseMetric])
  BY DEF Curate, stepFiles
<1>2. FilesTyped'
  <2>1. [q \in Queries |-> BaseMetric] \in [Queries -> Nat]
    BY SamplingRunAssumption DEF SamplingRunAssumption
  <2> QED BY <1>1, <2>1, FileTypes DEF TInv, FilesTyped
<1>3. final'.st = "absent" => NoStepFiles'
  BY <1>1, CompletedKnown DEF TInv, HistoryInv
<1>4. pc' = "prepare" => curated'.st = "ok"
  <2>1. curated.st \in {"absent", "torn", "ok"}
    BY FileTypes DEF TInv, FilesTyped
  <2> QED BY <2>1, FileStates DEF Curate, End
<1>5. HistoryInv' /\ Kind' \in {Kind, "none"}
  <2>1. CASE End
    BY <1>1, <1>3, <2>1, CompletedKnown, Stops DEF TInv
  <2>2. CASE pc' = "prepare" /\ run' = run
    <3>1. run.topup => run.strategy = "best_of"
      BY DEF TInv, HistoryInv
    <3> QED BY <1>1, <1>3, <1>4, <2>2, <3>1, CompletedKnown, GoesOn DEF TInv, Stepping
  <2> QED BY <1>1, <2>1, <2>2
<1> QED BY <1>1, <1>2, <1>5, FilesStay DEF TInv

LEMMA PrepareSamplingTInv == IInv /\ IInv' /\ TInv /\ PrepareSampling => TInv'
<1> SUFFICES ASSUME IInv, IInv', TInv, PrepareSampling PROVE TInv'
  OBVIOUS
<1> DEFINE roots == [q \in Queries |-> <<Root(curated.data[q])>>]
<1>1. /\ pc = "prepare" /\ UNCHANGED <<sessions, curated, sampled, evaluated, final, result>>
      /\ End \/ (pc' = "restore" /\ run' = run)
      /\ base' = base \/ base' = Torn \/ base' = File(roots)
  BY DEF PrepareSampling, stepFiles
<1>2. \A q \in Queries : roots[q] \in Seq(Node) /\ Sound(roots[q])
  <2> TAKE q \in Queries
  <2>1. curated.st = "ok" /\ curated \in FileOf([Queries -> Nat])
    BY <1>1 DEF TInv, HistoryInv, FilesTyped
  <2>2. curated.data[q] \in Nat
    BY <2>1, FileTypes
  <2>3. Sound(<<Root(curated.data[q])>>)
    BY <2>2, RootIsSound
  <2> QED BY <2>3 DEF Sound, Rooted
<1>3. roots \in [Queries -> Seq(Node)]
  BY <1>2
<1> HIDE DEF roots
<1>4. FilesTyped'
  BY <1>1, <1>3, FileTypes DEF TInv, FilesTyped
<1>5. TreesInv'
  BY <1>1, <1>2, FileStates DEF TInv, TreesInv
<1>6. final'.st = "absent" => NoStepFiles'
  BY <1>1, CompletedKnown DEF TInv, HistoryInv
<1>7. HistoryInv' /\ Kind' \in {Kind, "none"}
  <2>1. CASE End
    BY <1>1, <1>6, <2>1, CompletedKnown, Stops DEF TInv
  <2>2. CASE pc' = "restore" /\ run' = run
    <3>1. run.topup => run.strategy = "best_of"
      BY DEF TInv, HistoryInv
    <3> QED BY <1>1, <1>6, <2>2, <3>1, CompletedKnown, GoesOn DEF TInv, Stepping
  <2> QED BY <1>1, <2>1, <2>2
<1>8. SamplesInv'
  BY <1>1, <1>7, SamplesStay DEF TInv
<1> QED BY <1>4, <1>5, <1>7, <1>8 DEF TInv

\* The two ways ToStep goes on.
LEMMA ToStepGoes ==
  ASSUME NEW r \in RunRecord, NEW k \in Nat, ToStep(r, k), ~r.topup
  PROVE  /\ pc' \in {"sample", "topup"} /\ run'.strategy = r.strategy
         /\ ~run'.topup
         /\ pc' \in Stepping => run'.step <= run'.n
<1>1. CASE k <= r.n
  <2> DEFINE c == SelectStrategy(r.strategy, k, r.m).count
  <2>1. pc' = "sample" /\ run' = [r EXCEPT !.step = k, !.count = c]
    BY <1>1 DEF ToStep
  <2> HIDE DEF c
  <2> QED BY <1>1, <2>1 DEF RunRecord
<1>2. CASE ~ (k <= r.n)
  <2>1. pc' = "topup" /\ run' = [r EXCEPT !.step = 0, !.count = 0]
    BY <1>2 DEF ToStep
  <2> QED BY <2>1 DEF RunRecord, Stepping
<1> QED BY <1>1, <1>2

LEMMA ToReplayGoes ==
  ASSUME NEW r \in RunRecord, NEW k \in Nat, ToReplay(r, k), ~r.topup
  PROVE  /\ pc' \in {"sample", "topup", "replay"} /\ run'.strategy = r.strategy
         /\ ~run'.topup
         /\ pc' \in Stepping => run'.step <= run'.n
<1>1. CASE k <= RebuildLimit(r)
  <2>1. pc' = "replay" /\ run' = [r EXCEPT !.step = k]
    BY <1>1 DEF ToReplay
  <2> QED BY <2>1 DEF RunRecord, Stepping
<1>2. CASE ~ (k <= RebuildLimit(r))
  <2>1. ToStep(r, k)
    BY <1>2 DEF ToReplay
  <2> QED BY <2>1, ToStepGoes
<1> QED BY <1>1, <1>2

\* The tree is only taken back to the base state when no sample was drawn from
\* another node than the root.
LEMMA RestoreTInv == IInv /\ IInv' /\ TInv /\ Restore => TInv'
<1> SUFFICES ASSUME IInv, IInv', TInv, Restore PROVE TInv'
  OBVIOUS
<1> DEFINE r == [run EXCEPT !.maxCompleted = MaxCompleted]
           startOver == ~r.resume \/ final.st = "absent" \/ r.n < r.maxCompleted
<1>1. /\ pc = "restore" /\ base.st # "absent" /\ ~run.topup /\ run \in RunRecord
      /\ UNCHANGED <<sessions, curated, base, sampled, evaluated, result>>
  BY DEF IInv, CallInv, Restore, stepFiles, Stepping
<1>2. MaxCompleted \in Nat /\ CompletedSteps = 1 .. MaxCompleted
  BY MaxCompletedIsCompleted DEF IInv
<1>3. /\ r \in RunRecord /\ ~r.topup /\ r.resume = run.resume /\ r.n = run.n
      /\ r.maxCompleted = MaxCompleted /\ r.strategy = run.strategy
  BY <1>1, <1>2 DEF RunRecord
<1>4. RebuildLimit(r) \in Nat
  <2> HIDE DEF r
  <2>1. r.n \in Nat /\ r.maxCompleted \in Nat
    BY <1>3, ConstantTypes DEF RunRecord
  <2> QED BY <2>1, MinOfPair DEF RebuildLimit
<1>5. /\ startOver \/ final' = final
      /\ final' = final \/ final' = Torn \/ final' = base
      /\ \/ End
         \/ /\ pc' \in {"sample", "topup", "replay"} /\ run'.strategy = run.strategy
            /\ ~run'.topup
            /\ pc' \in Stepping => run'.step <= run'.n
  <2> HIDE DEF r
  <2>1. /\ startOver \/ final' = final
        /\ final' = final \/ final' = Torn \/ final' = base
        /\ End \/ ToReplay(r, 1) \/ ToStep(r, RebuildLimit(r) + 1)
    BY DEF Restore, r
  <2> QED BY <1>3, <1>4, <2>1, ToReplayGoes, ToStepGoes
<1>6. startOver /\ run.strategy # "best_of" => NoStepFiles
  <2> SUFFICES ASSUME startOver, run.strategy # "best_of" PROVE NoStepFiles
    OBVIOUS
  <2>1. CASE ~run.resume
    BY <1>1, <2>1 DEF IInv, FreshInv, NoStepFiles
  <2>2. CASE final.st = "absent"
    BY <2>2 DEF TInv, HistoryInv
  <2>3. CASE run.resume /\ run.n < MaxCompleted
    <3>1. CompletedSteps \subseteq 1 .. run.n
      BY <1>1, <2>3 DEF TInv, HistoryInv
    <3>2. run.n \in Nat
      BY <1>1, ConstantTypes DEF RunRecord
    <3> QED BY <1>2, <2>3, <3>1, <3>2
  <2> QED BY <1>3, <2>1, <2>2, <2>3
<1> HIDE DEF r, startOver
<1>7. FilesTyped'
  BY <1>1, <1>5, FileTypes DEF TInv, FilesTyped
<1>8. TreesInv'
  BY <1>1, <1>5, FileStates DEF TInv, TreesInv
<1>9. final'.st = "absent" => NoStepFiles'
  BY <1>1, <1>5, CompletedKnown, FileStates DEF TInv, HistoryInv
<1>10. HistoryInv' /\ Kind' \in {Kind, "none"}
  <2>1. CASE End
    BY <1>1, <1>9, <2>1, CompletedKnown, Stops DEF TInv
  <2>2. CASE /\ pc' \in {"sample", "topup", "replay"} /\ run'.strategy = run.strategy
             /\ ~run'.topup
             /\ pc' \in Stepping => run'.step <= run'.n
    BY <1>1, <1>9, <2>2, CompletedKnown, GoesOn DEF TInv
  <2> QED BY <1>5, <2>1, <2>2
<1>11. SamplesInv'
  <2>1. CASE final' = final
    BY <1>1, <1>10, <2>1, SamplesStay DEF TInv
  <2>2. CASE startOver /\ run.strategy # "best_of"
    BY <1>1, <1>6, <2>2 DEF SamplesInv, SamplesKnown, NoStepFiles
  <2>3. CASE final' \in {Torn, base} /\ run.strategy = "best_of"
    <3>1. ASSUME final'.st = "ok", NEW q \in Queries, NEW sample,
                 sample.parent = 0, sample.upstream = << >>
          PROVE  Fits(final'.data[q], sample)
      <4>1. Rooted(final'.data[q])
        BY <1>8, <3>1 DEF TreesInv, Sound
      <4>2. Len(final'.data[q]) \in Nat \ {0} /\ UpstreamPatches(final'.data[q], 1) = << >>
        BY <4>1, RootedShape, UpstreamIs
      <4>3. sample.parent + 1 = 1
        BY <3>1
      <4> QED BY <3>1, <4>2, <4>3 DEF Fits
    <3>2. Kind = "best_of"
      BY <1>1, <2>3 DEF Kind
    <3>3. ASSUME NEW q \in Queries, NEW sample, SampleKnown(q, sample)
          PROVE  SampleKnown(q, sample)'
      BY <3>1, <3>2, <3>3, <1>10 DEF SampleKnown
    <3>4. ASSUME NEW k \in StepDirs
          PROVE  SamplesKnown(sampled[k])' /\ SamplesKnown(evaluated[k])'
      <4>1. SamplesKnown(sampled[k]) /\ SamplesKnown(evaluated[k])
        BY DEF TInv, SamplesInv
      <4> QED BY <1>1, <3>3, <4>1 DEF SamplesKnown
    <3> QED BY <3>4 DEF SamplesInv
  <2> QED BY <1>5, <2>1, <2>2, <2>3
<1> QED BY <1>7, <1>8, <1>10, <1>11 DEF TInv

\* One merge of a step file into every tree.
LEMMA MergeTInv ==
  ASSUME IInv, TInv, NEW k \in StepDirs, MergeReadable(k), MergeStep(k),
         UNCHANGED <<curated, base, sampled, evaluated, result>>,
         Kind' \in {Kind, "none"}
  PROVE  FilesTyped' /\ TreesInv' /\ SamplesInv' /\ final'.st # "absent"
<1> DEFINE merged == Accumulated(k)
<1>1. /\ final.st = "ok" /\ final.data \in [Queries -> Seq(Node)]
      /\ evaluated[k].st = "ok" /\ evaluated[k].data \in [Queries -> Seq(Sample)]
  <2>1. /\ final \in FileOf([Queries -> Seq(Node)])
        /\ evaluated[k] \in FileOf([Queries -> Seq(Sample)])
    BY DEF TInv, FilesTyped
  <2> QED BY <2>1, FileTypes DEF MergeReadable
<1>2. ASSUME NEW q \in Queries
      PROVE  /\ Sound(merged[q])
             /\ Len(final.data[q]) \in Nat /\ DOMAIN final.data[q] = 1 .. Len(final.data[q])
             /\ Len(merged[q]) = Len(final.data[q]) + Len(evaluated[k].data[q])
             /\ Len(evaluated[k].data[q]) \in Nat
             /\ \A i \in DOMAIN final.data[q] :
                  UpstreamPatches(merged[q], i) = UpstreamPatches(final.data[q], i)
  <2>1. Sound(final.data[q]) /\ evaluated[k].data[q] \in Seq(Sample)
    BY <1>1 DEF TInv, TreesInv
  <2>2. \A i \in 1 .. Len(evaluated[k].data[q]) :
          Fits(final.data[q], evaluated[k].data[q][i])
    BY <1>1 DEF TInv, SamplesInv, SamplesKnown, SampleKnown
  <2>3. merged[q] = AccumulateSamples(final.data[q], evaluated[k].data[q])
    BY DEF Accumulated
  <2>4. Len(final.data[q]) \in Nat /\ DOMAIN final.data[q] = 1 .. Len(final.data[q])
    BY <2>1, RootedShape DEF Sound
  <2>5. Len(evaluated[k].data[q]) \in Nat
    BY <2>1, LenProperties
  <2> HIDE DEF merged
  <2> QED BY <2>1, <2>2, <2>3, <2>4, <2>5, AccumulateKeepsSound
<1>3. merged \in [Queries -> Seq(Node)]
  <2>1. \A q \in Queries : merged[q] \in Seq(Node)
    BY <1>2 DEF Sound, Rooted
  <2>2. merged = [q \in Queries |-> merged[q]]
    BY DEF Accumulated
  <2> HIDE DEF merged
  <2> QED BY <2>1, <2>2
<1>4. final' = Torn \/ final' = File(merged)
  BY DEF MergeStep
<1> HIDE DEF merged
<1>5. FilesTyped'
  BY <1>3, <1>4, FileTypes DEF TInv, FilesTyped
<1>6. TreesInv'
  BY <1>2, <1>4, FileStates DEF TInv, TreesInv
<1>7. SamplesInv'
  <2>1. ASSUME NEW q \in Queries, NEW sample \in Sample, Fits(final.data[q], sample)
        PROVE  Fits(merged[q], sample)
    <3>1. sample.parent \in Nat /\ sample.parent < Len(final.data[q])
      BY <2>1 DEF Fits, Sample
    <3>2. sample.parent + 1 \in DOMAIN final.data[q] /\ sample.parent < Len(merged[q])
      <4> DEFINE a == Len(final.data[q])
                 b == Len(evaluated[k].data[q])
      <4>1. a \in Nat /\ b \in Nat /\ DOMAIN final.data[q] = 1 .. a /\ Len(merged[q]) = a + b
        BY <1>2
      <4>2. sample.parent < a
        BY <3>1
      <4> HIDE DEF a, b
      <4> QED BY <3>1, <4>1, <4>2
    <3> QED BY <1>2, <2>1, <3>2 DEF Fits
  <2>2. \A q \in Queries, sample \in Sample :
          Fits(final.data[q], sample)
            => (final'.st = "ok" => Fits(final'.data[q], sample))
    BY <1>4, <2>1, FileStates
  <2> QED BY <1>1, <2>2, SamplesStay DEF TInv
<1> QED BY <1>4, <1>5, <1>6, <1>7, FileStates

LEMMA ReplayTInv == IInv /\ IInv' /\ TInv /\ Replay => TInv'
<1> SUFFICES ASSUME IInv, IInv', TInv, Replay PROVE TInv'
  OBVIOUS
<1>1. /\ pc = "replay" /\ ~run.topup /\ run \in RunRecord
      /\ UNCHANGED <<sessions, curated, base, sampled, evaluated, result>>
  BY DEF IInv, CallInv, Replay, stepFiles, Stepping
<1>2. \/ End
      \/ /\ pc' \in {"sample", "topup", "replay"} /\ run'.strategy = run.strategy
         /\ ~run'.topup
         /\ pc' \in Stepping => run'.step <= run'.n
  <2>1. run.step + 1 \in Nat
    BY <1>1 DEF RunRecord
  <2>2. End \/ ToReplay(run, run.step + 1)
    BY DEF Replay
  <2> QED BY <1>1, <2>1, <2>2, ToReplayGoes
<1>3. final'.st # "absent"
  <2>1. final.st # "absent"
    BY <1>1 DEF IInv, CallInv, Restored
  <2> QED BY <2>1, FileStates DEF Replay, MergeStep
<1>4. HistoryInv' /\ Kind' \in {Kind, "none"}
  <2>1. CASE End
    BY <1>1, <1>3, <2>1, CompletedKnown, Stops DEF TInv
  <2>2. CASE /\ pc' \in {"sample", "topup", "replay"} /\ run'.strategy = run.strategy
             /\ ~run'.topup
             /\ pc' \in Stepping => run'.step <= run'.n
    BY <1>1, <1>3, <2>2, CompletedKnown, GoesOn DEF TInv
  <2> QED BY <1>2, <2>1, <2>2
<1>5. CASE UNCHANGED final
  <2>1. FilesTyped'
    BY <1>1, <1>5 DEF TInv, FilesTyped
  <2> QED BY <1>1, <1>4, <1>5, <2>1, FilesStay DEF TInv
<1>6. CASE MergeReadable(run.step) /\ MergeStep(run.step)
  <2>1. run.step \in StepDirs
    <3>1. /\ 1 .. run.maxCompleted \subseteq CompletedSteps
          /\ run.step \in 1 .. RebuildLimit(run)
      BY <1>1 DEF IInv, StepsInv, Restored
    <3>2. RebuildLimit(run) \in Nat /\ RebuildLimit(run) <= run.maxCompleted
      BY <1>1, MinOfPair DEF RebuildLimit, RunRecord
    <3>3. run.step \in 1 .. run.maxCompleted
      BY <1>1, <3>1, <3>2 DEF RunRecord
    <3> QED BY <3>1, <3>3 DEF CompletedSteps
  <2> QED BY <1>1, <1>4, <1>6, <2>1, MergeTInv DEF TInv
<1> QED BY <1>5, <1>6 DEF Replay

LEMMA AccumulateStepTInv == IInv /\ IInv' /\ TInv /\ AccumulateStep => TInv'
<1> SUFFICES ASSUME IInv, IInv', TInv, AccumulateStep PROVE TInv'
  OBVIOUS
<1>1. /\ pc = "accumulate" /\ run \in RunRecord /\ run.step \in StepDirs
      /\ UNCHANGED <<sessions, curated, base, sampled, evaluated, result>>
  BY ConstantTypes
  DEF IInv, CallInv, StepsInv, AccumulateStep, stepFiles, Stepping, LastStep, StepDirs
<1>2. \/ End
      \/ /\ pc' \in {"sample", "topup", "process"} /\ run'.strategy = run.strategy
         /\ run'.topup => run.topup
         /\ pc' \in Stepping => ~run'.topup /\ run'.step <= run'.n
  <2>1. run.step + 1 \in Nat
    BY <1>1 DEF RunRecord
  <2>2. End \/ AfterStep
    BY DEF AccumulateStep
  <2>3. CASE AfterStep /\ run.topup
    <3>1. pc' = "process" /\ run' = [run EXCEPT !.step = 0, !.count = 0]
      BY <2>3 DEF AfterStep
    <3>2. run'.strategy = run.strategy
      BY <1>1, <3>1 DEF RunRecord
    <3> QED BY <2>3, <3>1, <3>2 DEF Stepping
  <2>4. CASE AfterStep /\ ~run.topup
    BY <1>1, <2>1, <2>4, ToStepGoes DEF AfterStep
  <2> QED BY <2>2, <2>3, <2>4
<1>3. final'.st # "absent"
  <2>1. final.st # "absent"
    BY <1>1 DEF IInv, CallInv, Restored, Stepping
  <2> QED BY <2>1, FileStates DEF AccumulateStep, MergeStep
<1>4. HistoryInv' /\ Kind' \in {Kind, "none"}
  <2>1. CASE End
    BY <1>1, <1>3, <2>1, CompletedKnown, Stops DEF TInv
  <2>2. CASE /\ pc' \in {"sample", "topup", "process"} /\ run'.strategy = run.strategy
             /\ run'.topup => run.topup
             /\ pc' \in Stepping => ~run'.topup /\ run'.step <= run'.n
    <3>1. run'.topup => run.strategy = "best_of"
      BY <2>2 DEF TInv, HistoryInv
    <3> QED BY <1>1, <1>3, <2>2, <3>1, CompletedKnown, GoesOn DEF TInv
  <2> QED BY <1>2, <2>1, <2>2
<1>5. CASE UNCHANGED final
  <2>1. FilesTyped'
    BY <1>1, <1>5 DEF TInv, FilesTyped
  <2> QED BY <1>1, <1>4, <1>5, <2>1, FilesStay DEF TInv
<1>6. CASE MergeReadable(run.step) /\ MergeStep(run.step)
  BY <1>1, <1>4, <1>6, MergeTInv DEF TInv
<1> QED BY <1>5, <1>6 DEF AccumulateStep

LEMMA TopUpTInv == IInv /\ IInv' /\ TInv /\ TopUp => TInv'
<1> SUFFICES ASSUME IInv, IInv', TInv, TopUp PROVE TInv'
  OBVIOUS
<1>1. /\ pc = "topup" /\ run \in RunRecord /\ ~run.topup
      /\ UNCHANGED <<sessions, curated, base, sampled, evaluated, final, result>>
  BY DEF IInv, CallInv, TopUp, stepFiles, Stepping
<1>2. \/ End
      \/ /\ pc' \in {"sample", "process"} /\ run'.strategy = run.strategy
         /\ run'.topup => run.strategy = "best_of"
         /\ pc' \in Stepping => run'.topup
  <2>1. CASE /\ TopUpApplies /\ pc' = "sample"
             /\ run' = [run EXCEPT !.topup = TRUE, !.step = run.maxCompleted + 1,
                                   !.count = run.m - SampleCount(1)]
    <3> DEFINE c == run.m - SampleCount(1)
    <3>1. run' = [run EXCEPT !.topup = TRUE, !.step = run.maxCompleted + 1, !.count = c]
      BY <2>1
    <3> HIDE DEF c
    <3>2. run'.strategy = run.strategy /\ run'.topup
      BY <1>1, <3>1 DEF RunRecord
    <3> QED BY <2>1, <3>2 DEF TopUpApplies
  <2>2. CASE pc' = "process" /\ run' = run
    BY <1>1, <2>2 DEF Stepping
  <2> QED BY <2>1, <2>2 DEF TopUp
<1>3. final'.st = "absent" => NoStepFiles'
  BY <1>1, CompletedKnown DEF TInv, HistoryInv
<1>4. HistoryInv' /\ Kind' \in {Kind, "none"}
  <2>1. CASE End
    BY <1>1, <1>3, <2>1, CompletedKnown, Stops DEF TInv
  <2>2. CASE /\ pc' \in {"sample", "process"} /\ run'.strategy = run.strategy
             /\ run'.topup => run.strategy = "best_of"
             /\ pc' \in Stepping => run'.topup
    BY <1>1, <1>3, <2>2, CompletedKnown, GoesOn DEF TInv
  <2> QED BY <1>2, <2>1, <2>2
<1>5. FilesTyped'
  BY <1>1 DEF TInv, FilesTyped
<1> QED BY <1>1, <1>4, <1>5, FilesStay DEF TInv

-----------------------------------------------------------------------------
(* Walks. *)

\* A node of a tree, by its query and its place in the tree.
Nodes == {p \in Queries \X Nat : p[2] \in DOMAIN final.data[p[1]]}

\* Over sound trees every walk ends.
LEMMA WalksOutcomeIs ==
  ASSUME \A q \in Queries : Rooted(final.data[q]), NEW refs \in Seq(Nodes)
  PROVE  WalksOutcome(refs) = "end"
<1> DEFINE bad == {n \in DOMAIN refs :
                     ~WalkReachesRoot(final.data[refs[n][1]], refs[n][2])}
<1>1. ASSUME NEW n \in DOMAIN refs
      PROVE  WalkReachesRoot(final.data[refs[n][1]], refs[n][2])
  <2>1. refs[n] \in Nodes
    BY LenProperties, ElementOfSeq
  <2>2. refs[n][1] \in Queries /\ refs[n][2] \in DOMAIN final.data[refs[n][1]]
    BY <2>1 DEF Nodes
  <2> QED BY <2>2, WalkEnds
<1>2. bad = {}
  BY <1>1
<1> QED BY <1>2 DEF WalksOutcome

\* The nodes listed for each query, one query after the other.
LEMMA NodesListed ==
  ASSUME NEW lists, lists = [q \in Queries |-> lists[q]],
         \A q \in Queries : Rooted(final.data[q]) /\ lists[q] \in Seq(DOMAIN final.data[q])
  PROVE  FlattenSeq([q \in Queries |-> [i \in DOMAIN lists[q] |-> <<q, lists[q][i]>>]])
           \in Seq(Nodes)
<1> DEFINE pairs == [q \in Queries |-> [i \in DOMAIN lists[q] |-> <<q, lists[q][i]>>]]
<1>1. ASSUME NEW q \in Queries PROVE pairs[q] \in Seq(Nodes)
  <2>1. Len(lists[q]) \in Nat /\ DOMAIN lists[q] = 1 .. Len(lists[q])
    BY LenProperties
  <2>2. ASSUME NEW i \in 1 .. Len(lists[q]) PROVE <<q, lists[q][i]>> \in Nodes
    <3>1. lists[q][i] \in DOMAIN final.data[q]
      BY ElementOfSeq
    <3>2. lists[q][i] \in Nat
      BY <3>1, RootedShape
    <3> QED BY <3>1, <3>2 DEF Nodes
  <2>3. [i \in DOMAIN lists[q] |-> <<q, lists[q][i]>>] \in [1 .. Len(lists[q]) -> Nodes]
    BY <2>1, <2>2
  <2>4. pairs[q] \in [1 .. Len(lists[q]) -> Nodes]
    BY <2>3
  <2> HIDE DEF pairs
  <2> QED BY <2>1, <2>4, SeqDef
<1>2. NumQueries \in Nat \ {0} /\ Queries = 1 .. NumQueries
  BY ConstantTypes DEF Queries
<1>3. pairs \in [1 .. NumQueries -> Seq(Nodes)]
  <2>1. pairs = [q \in Queries |-> pairs[q]]
    OBVIOUS
  <2> HIDE DEF pairs
  <2> QED BY <1>1, <1>2, <2>1
<1> HIDE DEF pairs
<1>4. FlattenSeq(pairs) \in Seq(Nodes)
  BY <1>2, <1>3, FlattenedIn
<1> QED BY <1>4 DEF pairs

LEMMA NewSampleFits ==
  ASSUME NEW tree, Sound(tree), NEW i \in DOMAIN tree,
         NEW gen \in Answers, NEW src \in Token
  PROVE  LET sample == NewSample(tree, i, gen, src)
         IN  /\ sample \in Sample /\ Fits(tree, sample)
             /\ i = 1 => sample.parent = 0 /\ sample.upstream = << >>
<1> DEFINE sample == NewSample(tree, i, gen, src)
<1>1. /\ Rooted(tree) /\ Len(tree) \in Nat /\ i \in 1 .. Len(tree) /\ tree[i].id = i - 1
  BY RootedShape DEF Sound
<1>2. UpstreamPatches(tree, i) \in Plan /\ UpstreamMetric(tree, i) \in Nat
  BY <1>1, UpstreamIs, UpstreamMetricIs
<1>3. /\ sample.parent = i - 1 /\ sample.upstream = UpstreamPatches(tree, i)
  BY <1>1 DEF NewSample
<1>4. sample \in Sample
  <2>1. tree[i].id \in Nat
    BY <1>1
  <2> QED BY <1>2, <2>1 DEF NewSample, Sample, Answers
<1> HIDE DEF sample
<1>5. sample.parent + 1 = i /\ sample.parent < Len(tree)
  BY <1>1, <1>3
<1>6. Fits(tree, sample)
  BY <1>3, <1>5 DEF Fits
<1>7. i = 1 => sample.parent = 0 /\ sample.upstream = << >>
  BY <1>1, <1>3, UpstreamIs
<1> QED BY <1>4, <1>6, <1>7 DEF sample

LEMMA SeedsIn ==
  ASSUME NEW q \in Queries, Rooted(final.data[q])
  PROVE  /\ SeedsOf(q) \in Seq(DOMAIN final.data[q])
         /\ run.strategy = "best_of" => \A n \in 1 .. Len(SeedsOf(q)) : SeedsOf(q)[n] = 1
  BY BasePlansIn DEF SeedsOf

LEMMA SeedsWalk ==
  ASSUME TInv, final.st = "ok"
  PROVE  WalksOutcome(Seeds) = "end"
<1> DEFINE lists == [q \in Queries |-> SeedsOf(q)]
<1>1. \A q \in Queries : Rooted(final.data[q]) /\ lists[q] \in Seq(DOMAIN final.data[q])
  BY SeedsIn DEF TInv, TreesInv, Sound
<1>2. lists = [q \in Queries |-> lists[q]]
  OBVIOUS
<1>3. Seeds = FlattenSeq([q \in Queries |-> [i \in DOMAIN lists[q] |-> <<q, lists[q][i]>>]])
  BY DEF Seeds
<1> HIDE DEF lists
<1>4. Seeds \in Seq(Nodes)
  BY <1>1, <1>2, <1>3, NodesListed
<1> QED BY <1>1, <1>4, WalksOutcomeIs

\* What one round draws, for a query.
LEMMA DrawnKnown ==
  ASSUME TInv, pc # "idle", run \in RunRecord, final.st = "ok", NEW gen \in [Slots -> Answers]
  PROVE  /\ DrawnSamples(gen) \in [Queries -> Seq(Sample)]
         /\ \A q \in Queries : \A i \in 1 .. Len(DrawnSamples(gen)[q]) :
              SampleKnown(q, DrawnSamples(gen)[q][i])
<1> DEFINE drawn == DrawnSamples(gen)
<1>1. ASSUME NEW q \in Queries
      PROVE  /\ drawn[q] \in Seq(Sample)
             /\ \A i \in 1 .. Len(drawn[q]) : SampleKnown(q, drawn[q][i])
  <2> DEFINE n == Len(SeedsOf(q))
             seeds == SeedsOf(q)
             seed(i) == seeds[(i - 1) \div run.count + 1]
             row == [i \in 1 .. BatchSize(q) |->
                       NewSample(final.data[q], seed(i), gen[<<q, i>>], <<run.step, i>>)]
  <2>1. Sound(final.data[q])
    BY DEF TInv, TreesInv
  <2>2. /\ seeds \in Seq(DOMAIN final.data[q])
        /\ run.strategy = "best_of" => \A i \in 1 .. n : seeds[i] = 1
    BY <2>1, SeedsIn DEF Sound
  <2>3. n \in Nat /\ run.count \in Nat /\ run.step \in Nat /\ BatchSize(q) = n * run.count
    BY <2>2, LenProperties DEF RunRecord, BatchSize
  <2>4. BatchSize(q) \in Nat
    BY <2>3
  <2>5. ASSUME NEW i \in 1 .. BatchSize(q)
        PROVE  /\ seed(i) \in DOMAIN final.data[q]
               /\ run.strategy = "best_of" => seed(i) = 1
    <3>1. (i - 1) \div run.count + 1 \in 1 .. n
      BY <2>3, DivInRange
    <3> DEFINE j == (i - 1) \div run.count + 1
    <3>2. j \in 1 .. n
      BY <3>1
    <3> HIDE DEF j, seeds
    <3>3. seeds[j] \in DOMAIN final.data[q]
      BY <2>2, <3>2, ElementOfSeq DEF seeds
    <3> QED BY <2>2, <3>2, <3>3 DEF j
  <2>6. ASSUME NEW i \in 1 .. BatchSize(q)
        PROVE  gen[<<q, i>>] \in Answers /\ <<run.step, i>> \in Token
    <3>1. <<q, i>> \in Slots
      BY DEF Slots
    <3>2. i \in Nat
      BY <2>4
    <3> QED BY <2>3, <3>1, <3>2 DEF Token
  <2> HIDE DEF seeds, seed, n
  <2>7. ASSUME NEW i \in 1 .. BatchSize(q)
        PROVE  /\ row[i] \in Sample /\ Fits(final.data[q], row[i])
               /\ run.strategy = "best_of" => row[i].parent = 0 /\ row[i].upstream = << >>
    <3>1. row[i] = NewSample(final.data[q], seed(i), gen[<<q, i>>], <<run.step, i>>)
      OBVIOUS
    <3> HIDE DEF row
    <3> QED BY <2>1, <2>5, <2>6, <3>1, NewSampleFits
  <2>8. row \in [1 .. BatchSize(q) -> Sample]
    <3>1. row = [i \in 1 .. BatchSize(q) |-> row[i]]
      OBVIOUS
    <3> HIDE DEF row
    <3> QED BY <2>7, <3>1
  <2>9. drawn[q] = row
    BY DEF DrawnSamples, seed, seeds
  <2> HIDE DEF row, drawn
  <2>10. drawn[q] \in Seq(Sample) /\ Len(drawn[q]) = BatchSize(q)
    <3>1. row \in Seq(Sample)
      BY <2>4, <2>8, SeqDef
    <3>2. Len(row) = BatchSize(q)
      BY <2>4, <2>8, <3>1, LenProperties
    <3> QED BY <2>9, <3>1, <3>2
  <2>11. Kind = run.strategy
    BY DEF Kind
  <2> QED BY <2>7, <2>9, <2>10, <2>11 DEF SampleKnown
<1>2. drawn = [q \in Queries |-> drawn[q]]
  BY DEF DrawnSamples
<1> HIDE DEF drawn
<1>3. drawn \in [Queries -> Seq(Sample)]
  BY <1>1, <1>2
<1> QED BY <1>1, <1>3 DEF drawn

\* One step file is written, the trees stay.
LEMMA StepFileWritten ==
  ASSUME SamplesInv, FilesTyped, UNCHANGED final, Kind' \in {Kind, "none"},
         NEW k \in StepDirs, NEW file, SamplesKnown(file),
         \/ UNCHANGED evaluated /\ sampled' = [sampled EXCEPT ![k] = file]
         \/ UNCHANGED sampled /\ evaluated' = [evaluated EXCEPT ![k] = file]
  PROVE  SamplesInv'
<1>1. ASSUME NEW f, SamplesKnown(f), f.st = "ok",
             NEW q \in Queries, NEW i \in 1 .. Len(f.data[q])
      PROVE  /\ final'.st = "ok" => Fits(final'.data[q], f.data[q][i])
             /\ Kind' = "best_of" => f.data[q][i].parent = 0 /\ f.data[q][i].upstream = << >>
  BY <1>1 DEF SamplesKnown, SampleKnown
<1> SUFFICES ASSUME NEW j \in StepDirs
             PROVE  SamplesKnown(sampled[j])' /\ SamplesKnown(evaluated[j])'
  BY DEF SamplesInv
<1>2. SamplesKnown(sampled[j]) /\ SamplesKnown(evaluated[j])
  BY DEF SamplesInv
<1>3. sampled'[j] \in {sampled[j], file} /\ evaluated'[j] \in {evaluated[j], file}
  BY DEF FilesTyped
<1>4. SamplesKnown(sampled[j])'
  <2>1. CASE sampled'[j] = sampled[j]
    BY <1>1, <1>2, <2>1 DEF SamplesKnown, SampleKnown
  <2>2. CASE sampled'[j] = file
    BY <1>1, <2>2 DEF SamplesKnown, SampleKnown
  <2> QED BY <1>3, <2>1, <2>2
<1>5. SamplesKnown(evaluated[j])'
  <2>1. CASE evaluated'[j] = evaluated[j]
    BY <1>1, <1>2, <2>1 DEF SamplesKnown, SampleKnown
  <2>2. CASE evaluated'[j] = file
    BY <1>1, <2>2 DEF SamplesKnown, SampleKnown
  <2> QED BY <1>3, <2>1, <2>2
<1> QED BY <1>4, <1>5

LEMMA SamplePlansTInv == IInv /\ IInv' /\ TInv /\ SamplePlans => TInv'
<1> SUFFICES ASSUME IInv, IInv', TInv, SamplePlans PROVE TInv'
  OBVIOUS
<1>1. /\ pc = "sample" /\ run \in RunRecord /\ run.step \in StepDirs
      /\ final.st # "absent"
      /\ UNCHANGED <<sessions, curated, base, evaluated, final, result>>
  BY ConstantTypes
  DEF IInv, CallInv, StepsInv, SamplePlans, Stepping, Restored, LastStep, StepDirs
<1>2. final.st = "ok" => WalksOutcome(Seeds) = "end"
  BY SeedsWalk
<1>3. /\ End \/ (pc' = "evaluate" /\ run' = run)
      /\ \/ sampled' = sampled
         \/ /\ final.st = "ok"
            /\ \E gen \in [Slots -> Answers], torn \in BOOLEAN :
                 sampled' = [sampled EXCEPT ![run.step] =
                               IF torn THEN Torn ELSE File(DrawnSamples(gen))]
  BY <1>2 DEF SamplePlans, Tears
<1>4. CompletedSteps' = CompletedSteps
        /\ (Kind \in {"pst_evol", "bol_evol"} => CompletedSteps' \subseteq 1 .. MaxSteps)
  <2>1. CompletedSteps' = CompletedSteps
    BY <1>1 DEF CompletedSteps
  <2> QED BY <2>1 DEF TInv, HistoryInv
<1>5. HistoryInv' /\ Kind' \in {Kind, "none"}
  <2>1. CASE End
    BY <1>1, <1>4, <2>1, Stops DEF TInv
  <2>2. CASE pc' = "evaluate" /\ run' = run
    <3>1. /\ run.topup => run.strategy = "best_of"
          /\ ~run.topup => run.step <= run.n
      BY <1>1 DEF TInv, HistoryInv, Stepping
    <3> QED BY <1>1, <1>4, <2>2, <3>1, GoesOn DEF TInv
  <2> QED BY <1>3, <2>1, <2>2
<1>6. CASE sampled' = sampled
  <2>1. FilesTyped'
    BY <1>1, <1>6 DEF TInv, FilesTyped
  <2> QED BY <1>1, <1>5, <1>6, <2>1, FilesStay DEF TInv
<1>7. ASSUME final.st = "ok", NEW gen \in [Slots -> Answers], NEW torn \in BOOLEAN,
             sampled' = [sampled EXCEPT ![run.step] =
                           IF torn THEN Torn ELSE File(DrawnSamples(gen))]
      PROVE  TInv'
  <2> DEFINE file == IF torn THEN Torn ELSE File(DrawnSamples(gen))
  <2>1. sampled' = [sampled EXCEPT ![run.step] = file]
    BY <1>7
  <2>2. /\ file \in FileOf([Queries -> Seq(Sample)]) /\ SamplesKnown(file)
    <3>1. CASE torn
      BY <3>1, FileTypes, FileStates DEF SamplesKnown
    <3>2. CASE ~torn
      <4>1. file = File(DrawnSamples(gen)) /\ file.st = "ok" /\ file.data = DrawnSamples(gen)
        BY <3>2, FileStates
      <4>2. /\ DrawnSamples(gen) \in [Queries -> Seq(Sample)]
            /\ \A q \in Queries : \A i \in 1 .. Len(DrawnSamples(gen)[q]) :
                 SampleKnown(q, DrawnSamples(gen)[q][i])
        BY <1>1, <1>7, DrawnKnown
      <4> HIDE DEF file
      <4> QED BY <4>1, <4>2, FileTypes DEF SamplesKnown
    <3> QED BY <3>1, <3>2
  <2> HIDE DEF file
  <2>3. FilesTyped'
    BY <1>1, <2>1, <2>2 DEF TInv, FilesTyped
  <2>4. SamplesInv'
    BY <1>1, <1>5, <2>1, <2>2, StepFileWritten DEF TInv
  <2> QED BY <1>1, <1>5, <2>3, <2>4 DEF TInv, TreesInv
<1> QED BY <1>3, <1>6, <1>7

LEMMA EvaluatedIs ==
  ASSUME NEW sample \in Sample, NEW timed \in Nat
  PROVE  /\ Evaluated(sample, timed) \in Sample
         /\ Evaluated(sample, timed).parent = sample.parent
         /\ Evaluated(sample, timed).upstream = sample.upstream
<1>1. CASE sample.gen = "failed"
  <2> DEFINE no == FALSE
             none == 0
  <2>1. Evaluated(sample, timed) = [sample EXCEPT !.valid = no, !.metric = none]
    BY <1>1 DEF Evaluated
  <2>2. no \in BOOLEAN /\ none \in Nat
    OBVIOUS
  <2> HIDE DEF no, none
  <2> QED BY <2>1, <2>2 DEF Sample
<1>2. CASE sample.gen = "empty"
  <2>1. Evaluated(sample, timed) = [sample EXCEPT !.valid = TRUE, !.metric = sample.upMetric]
    BY <1>2 DEF Evaluated
  <2> QED BY <2>1 DEF Sample
<1>3. CASE sample.gen = "patch"
  <2> DEFINE ok == timed # 0
  <2>1. Evaluated(sample, timed) = [sample EXCEPT !.valid = ok, !.metric = timed]
    BY <1>3 DEF Evaluated
  <2>2. ok \in BOOLEAN
    OBVIOUS
  <2> HIDE DEF ok
  <2> QED BY <2>1, <2>2 DEF Sample
<1> QED BY <1>1, <1>2, <1>3 DEF Sample

LEMMA EvaluatedKnown ==
  ASSUME TInv, NEW k \in StepDirs, sampled[k].st = "ok",
         NEW timed \in [ToEvaluate(k) -> Metrics \cup {0}]
  PROVE  /\ EvaluatedSamples(k, timed) \in [Queries -> Seq(Sample)]
         /\ \A q \in Queries : \A i \in 1 .. Len(EvaluatedSamples(k, timed)[q]) :
              SampleKnown(q, EvaluatedSamples(k, timed)[q][i])
<1> DEFINE done == EvaluatedSamples(k, timed)
<1>1. sampled[k].data \in [Queries -> Seq(Sample)]
  <2>1. sampled[k] \in FileOf([Queries -> Seq(Sample)])
    BY DEF TInv, FilesTyped
  <2> QED BY <2>1, FileTypes
<1>2. ASSUME NEW q \in Queries
      PROVE  /\ done[q] \in Seq(Sample)
             /\ \A i \in 1 .. Len(done[q]) : SampleKnown(q, done[q][i])
  <2> DEFINE row == sampled[k].data[q]
             time(i) == IF <<q, i>> \in DOMAIN timed THEN timed[<<q, i>>] ELSE 0
             out == [i \in DOMAIN row |-> Evaluated(row[i], time(i))]
  <2>1. /\ row \in Seq(Sample) /\ Len(row) \in Nat /\ DOMAIN row = 1 .. Len(row)
        /\ \A i \in 1 .. Len(row) : row[i] \in Sample /\ SampleKnown(q, row[i])
    <3>1. row \in Seq(Sample)
      BY <1>1
    <3>2. \A i \in 1 .. Len(row) : SampleKnown(q, row[i])
      BY DEF TInv, SamplesInv, SamplesKnown
    <3> HIDE DEF row
    <3> QED BY <3>1, <3>2, LenProperties, ElementOfSeq
  <2>2. \A i \in DOMAIN row : time(i) \in Nat
    <3>1. Metrics \cup {0} \subseteq Nat
      BY SamplingRunAssumption DEF SamplingRunAssumption
    <3>2. DOMAIN timed = ToEvaluate(k) /\ \A p \in ToEvaluate(k) : timed[p] \in Nat
      BY <3>1
    <3> QED BY <3>2
  <2>3. done[q] = out
    BY DEF EvaluatedSamples
  <2> HIDE DEF row, time
  <2>4. ASSUME NEW i \in 1 .. Len(row)
        PROVE  /\ out[i] \in Sample
               /\ out[i].parent = row[i].parent /\ out[i].upstream = row[i].upstream
    <3>1. out[i] = Evaluated(row[i], time(i))
      BY <2>1
    <3> HIDE DEF out
    <3> QED BY <2>1, <2>2, <3>1, EvaluatedIs
  <2>5. out \in Seq(Sample) /\ Len(out) = Len(row)
    <3>1. out \in [1 .. Len(row) -> Sample]
      <4>1. out = [i \in 1 .. Len(row) |-> out[i]]
        BY <2>1
      <4> HIDE DEF out
      <4> QED BY <2>4, <4>1
    <3> HIDE DEF out
    <3> QED BY <2>1, <3>1, SeqDef, LenProperties
  <2> HIDE DEF out
  <2>6. \A i \in 1 .. Len(row) : SampleKnown(q, out[i])
    BY <2>1, <2>4 DEF SampleKnown, Fits
  <2> QED BY <2>3, <2>5, <2>6
<1>3. done = [q \in Queries |-> done[q]]
  BY DEF EvaluatedSamples
<1> HIDE DEF done
<1>4. done \in [Queries -> Seq(Sample)]
  BY <1>2, <1>3
<1> QED BY <1>2, <1>4 DEF done

LEMMA EvaluatePlansTInv == IInv /\ IInv' /\ TInv /\ EvaluatePlans => TInv'
<1> SUFFICES ASSUME IInv, IInv', TInv, EvaluatePlans PROVE TInv'
  OBVIOUS
<1>1. /\ pc = "evaluate" /\ run \in RunRecord /\ run.step \in StepDirs
      /\ final.st # "absent"
      /\ UNCHANGED <<sessions, curated, base, sampled, final, result>>
  BY ConstantTypes
  DEF IInv, CallInv, StepsInv, EvaluatePlans, Stepping, Restored, LastStep, StepDirs
<1>2. /\ End \/ (pc' = "accumulate" /\ run' = run)
      /\ \/ evaluated' = evaluated
         \/ /\ sampled[run.step].st = "ok"
            /\ \E timed \in [ToEvaluate(run.step) -> Metrics \cup {0}], torn \in BOOLEAN :
                 evaluated' = [evaluated EXCEPT ![run.step] =
                                 IF torn THEN Torn
                                 ELSE File(EvaluatedSamples(run.step, timed))]
  BY DEF EvaluatePlans, Tears
<1>3. /\ run.topup => run.strategy = "best_of"
      /\ ~run.topup => run.step <= run.n
  BY <1>1 DEF TInv, HistoryInv, Stepping
<1>4. Kind \in {"pst_evol", "bol_evol"} => CompletedSteps' \subseteq 1 .. MaxSteps
  <2> SUFFICES ASSUME Kind \in {"pst_evol", "bol_evol"} PROVE CompletedSteps' \subseteq 1 .. MaxSteps
    OBVIOUS
  <2>1. ~run.topup /\ run.step \in 1 .. MaxSteps
    <3>1. ~run.topup
      BY <1>1, <1>3 DEF Kind
    <3>2. run.step <= run.n /\ run.n \in 0 .. MaxSteps /\ run.step \in Nat \ {0}
      BY <1>1, <1>3, <3>1 DEF RunRecord, StepDirs
    <3> QED BY <3>1, <3>2, ConstantTypes
  <2>2. CompletedSteps' \subseteq CompletedSteps \cup {run.step}
    <3>1. \/ evaluated' = evaluated
          \/ \E file : evaluated' = [evaluated EXCEPT ![run.step] = file]
      BY <1>2
    <3>2. \A j \in StepDirs \ {run.step} : evaluated'[j] = evaluated[j]
      BY <3>1 DEF TInv, FilesTyped
    <3> QED BY <3>2 DEF CompletedSteps
  <2> QED BY <2>1, <2>2 DEF TInv, HistoryInv
<1>5. HistoryInv' /\ Kind' \in {Kind, "none"}
  <2>1. CASE End
    BY <1>1, <1>4, <2>1, Stops DEF TInv
  <2>2. CASE pc' = "accumulate" /\ run' = run
    BY <1>1, <1>3, <1>4, <2>2, GoesOn DEF TInv
  <2> QED BY <1>2, <2>1, <2>2
<1>6. CASE evaluated' = evaluated
  <2>1. FilesTyped'
    BY <1>1, <1>6 DEF TInv, FilesTyped
  <2> QED BY <1>1, <1>5, <1>6, <2>1, FilesStay DEF TInv
<1>7. ASSUME sampled[run.step].st = "ok",
             NEW timed \in [ToEvaluate(run.step) -> Metrics \cup {0}], NEW torn \in BOOLEAN,
             evaluated' = [evaluated EXCEPT ![run.step] =
                             IF torn THEN Torn
                             ELSE File(EvaluatedSamples(run.step, timed))]
      PROVE  TInv'
  <2> DEFINE file == IF torn THEN Torn ELSE File(EvaluatedSamples(run.step, timed))
  <2>1. evaluated' = [evaluated EXCEPT ![run.step] = file]
    BY <1>7
  <2>2. /\ file \in FileOf([Queries -> Seq(Sample)]) /\ SamplesKnown(file)
    <3>1. CASE torn
      BY <3>1, FileTypes, FileStates DEF SamplesKnown
    <3>2. CASE ~torn
      <4> DEFINE done == EvaluatedSamples(run.step, timed)
      <4>1. file = File(done) /\ file.st = "ok" /\ file.data = done
        BY <3>2, FileStates
      <4>2. /\ done \in [Queries -> Seq(Sample)]
            /\ \A q \in Queries : \A i \in 1 .. Len(done[q]) : SampleKnown(q, done[q][i])
        BY <1>1, <1>7, EvaluatedKnown
      <4> HIDE DEF file, done
      <4> QED BY <4>1, <4>2, FileTypes DEF SamplesKnown
    <3> QED BY <3>1, <3>2
  <2> HIDE DEF file
  <2>3. FilesTyped'
    BY <1>1, <2>1, <2>2 DEF TInv, FilesTyped
  <2>4. SamplesInv'
    BY <1>1, <1>5, <2>1, <2>2, StepFileWritten DEF TInv
  <2> QED BY <1>1, <1>5, <2>3, <2>4 DEF TInv, TreesInv
<1> QED BY <1>2, <1>6, <1>7

-----------------------------------------------------------------------------
(* The result. *)

LEMMA RankedNodes ==
  ASSUME NEW tree, Rooted(tree), NEW S \in SUBSET DOMAIN tree
  PROVE  Ranked(tree, S) \in Seq(S)
<1>1. /\ Len(tree) \in Nat /\ DOMAIN tree = 1 .. Len(tree)
      /\ \A i \in DOMAIN tree : tree[i].metric \in Nat
  BY RootedShape DEF Node
<1>2. IsFiniteSet(DOMAIN tree)
  BY <1>1, FS_Interval
<1>3. S \subseteq Nat /\ IsFiniteSet(S) /\ \A i \in S : tree[i].metric \in Nat
  BY <1>1, <1>2, FS_Subset
<1> DEFINE ranked == Ranked(tree, S)
<1>4. /\ Len(ranked) = Cardinality(S) /\ IsList(ranked)
      /\ \A n \in 1 .. Cardinality(S) : ranked[n] \in S
  BY <1>3, RankedIn
<1> HIDE DEF ranked
<1>5. /\ Len(ranked) \in Nat /\ DOMAIN ranked = 1 .. Len(ranked)
      /\ ranked = [n \in DOMAIN ranked |-> ranked[n]]
  BY <1>4, ListShape
<1>6. ranked \in [1 .. Len(ranked) -> S]
  BY <1>4, <1>5
<1>7. ranked \in Seq(S)
  BY <1>5, <1>6, SeqDef
<1> QED BY <1>7 DEF ranked

LEMMA WinnersIn ==
  ASSUME NEW q \in Queries, Rooted(final.data[q])
  PROVE  Winners(q) \in Seq(DOMAIN final.data[q])
<1> DEFINE S == {i \in DOMAIN final.data[q] :
                   /\ final.data[q][i].id # 0
                   /\ final.data[q][i].valid /\ final.data[q][i].metric # 0}
<1>1. S \in SUBSET DOMAIN final.data[q] /\ Winners(q) = Ranked(final.data[q], S)
  BY DEF Winners
<1> HIDE DEF S
<1> QED BY <1>1, RankedNodes, SeqMonotonic

LEMMA OutcomeTyped ==
  ASSUME NEW q \in Queries, Rooted(final.data[q])
  PROVE  Outcome(q) \in Seq(Candidate)
<1> DEFINE tree == final.data[q]
           S == {IndexOf(tree, 0)} \cup Range(Winners(q))
           ranked == Ranked(tree, S)
           k == Min({TopK, Len(ranked)})
<1>1. S \in SUBSET DOMAIN tree
  <2>1. Winners(q) \in Seq(DOMAIN tree)
    BY WinnersIn
  <2>2. \A n \in DOMAIN Winners(q) : Winners(q)[n] \in DOMAIN tree
    BY <2>1, LenProperties, ElementOfSeq
  <2> QED BY <2>2, IndexOfRoot, RootedShape DEF Range
<1> HIDE DEF S
<1>2. ranked \in Seq(DOMAIN tree)
  BY <1>1, RankedNodes, SeqMonotonic
<1>3. Outcome(q) = [n \in 1 .. k |-> [patch |-> UpstreamPatches(tree, ranked[n]),
                                      metric |-> tree[ranked[n]].metric]]
  BY DEF Outcome, S
<1>4. Rooted(tree)
  OBVIOUS
<1> HIDE DEF tree, ranked, k
<1>5. k \in Nat /\ \A n \in 1 .. k : n \in 1 .. Len(ranked)
  <2>1. TopK \in Nat /\ Len(ranked) \in Nat
    BY <1>2, LenProperties, SamplingRunAssumption DEF SamplingRunAssumption
  <2>2. k \in Nat /\ k <= Len(ranked)
    BY <2>1, MinOfPair DEF k
  <2> QED BY <2>1, <2>2
<1>6. ASSUME NEW n \in 1 .. k
      PROVE  [patch |-> UpstreamPatches(tree, ranked[n]),
              metric |-> tree[ranked[n]].metric] \in Candidate
  <2>1. ranked[n] \in DOMAIN tree
    BY <1>2, <1>5, ElementOfSeq
  <2>2. UpstreamPatches(tree, ranked[n]) \in Plan /\ tree[ranked[n]].metric \in Nat
    BY <1>4, <2>1, UpstreamIs, RootedShape DEF Node
  <2> QED BY <2>2 DEF Candidate
<1>7. Outcome(q) \in [1 .. k -> Candidate]
  BY <1>3, <1>6
<1> QED BY <1>5, <1>7, SeqDef

LEMMA ProcessResultsTInv == IInv /\ TInv /\ ProcessResults => TInv'
<1> SUFFICES ASSUME IInv, TInv, ProcessResults PROVE TInv'
  OBVIOUS
<1> DEFINE refs == FlattenSeq([q \in Queries |->
                     [n \in DOMAIN Winners(q) |-> <<q, Winners(q)[n]>>]])
           outcome == [q \in Queries |-> Outcome(q)]
<1>1. /\ pc = "process" /\ final.st # "absent"
      /\ UNCHANGED <<sessions, curated, base, sampled, evaluated, final>>
  BY DEF IInv, CallInv, ProcessResults, Restored, stepFiles
<1>2. CASE final.st = "torn"
  <2>1. End /\ UNCHANGED result
    BY <1>2 DEF ProcessResults
  <2>2. FilesTyped'
    BY <1>1, <2>1 DEF TInv, FilesTyped
  <2>3. HistoryInv' /\ Kind' \in {Kind, "none"}
    BY <1>1, <2>1, CompletedKnown, Stops DEF TInv
  <2> QED BY <1>1, <2>2, <2>3, FilesStay DEF TInv
<1>3. CASE final.st = "ok"
  <2>1. \A q \in Queries : Rooted(final.data[q])
    BY <1>3 DEF TInv, TreesInv, Sound
  <2>2. WalksOutcome(refs) = "end"
    <3> DEFINE lists == [q \in Queries |-> Winners(q)]
    <3>1. \A q \in Queries : Rooted(final.data[q]) /\ lists[q] \in Seq(DOMAIN final.data[q])
      BY <2>1, WinnersIn
    <3>2. lists = [q \in Queries |-> lists[q]]
      OBVIOUS
    <3>3. refs = FlattenSeq([q \in Queries |-> [i \in DOMAIN lists[q] |-> <<q, lists[q][i]>>]])
      OBVIOUS
    <3> HIDE DEF lists, refs
    <3>4. refs \in Seq(Nodes)
      BY <3>1, <3>2, <3>3, NodesListed
    <3> QED BY <2>1, <3>4, WalksOutcomeIs
  <2>3. outcome \in [Queries -> Seq(Candidate)]
    BY <2>1, OutcomeTyped
  <2>4. End /\ (result' = Torn \/ result' = ResultFile(outcome))
    BY <1>3, <2>2 DEF ProcessResults
  <2> HIDE DEF outcome, refs
  <2>5. /\ result' \in FileOf(ResultData)
        /\ result'.st = "ok" => result'.data.strategy = run.strategy
    BY <1>1, <2>3, <2>4, ResultTyped, FileTypes, FileStates
  <2>6. FilesTyped'
    BY <1>1, <2>5 DEF TInv, FilesTyped
  <2>7. HistoryInv' /\ Kind' \in {Kind, "none"}
    BY <1>1, <2>4, <2>5, CompletedKnown, Stops DEF TInv
  <2> QED BY <1>1, <2>6, <2>7, FilesStay DEF TInv
<1>4. final.st \in {"absent", "torn", "ok"}
  BY DEF IInv, FilesInv
<1> QED BY <1>1, <1>2, <1>3, <1>4

LEMMA TStepInv ==
  ASSUME ~AllowLowering
  PROVE  IInv /\ IInv' /\ TInv /\ [Next]_vars => TInv'
<1> SUFFICES ASSUME IInv, IInv', TInv, [Next]_vars PROVE TInv'
  OBVIOUS
<1>1. CASE UNCHANGED vars
  <2>1. UNCHANGED <<pc, run, sessions, curated, base, sampled, evaluated, final, result>>
    BY <1>1 DEF vars
  <2>2. Kind' = Kind /\ CompletedSteps' = CompletedSteps /\ NoStepFiles' = NoStepFiles
    BY <2>1 DEF Kind, CompletedSteps, NoStepFiles
  <2>3. FilesTyped' /\ HistoryInv'
    BY <2>1, <2>2 DEF TInv, FilesTyped, HistoryInv
  <2> QED BY <2>1, <2>2, <2>3, FilesStay DEF TInv
<1>2. CASE CallStep
  BY <1>2, EarlyExitTInv, CurateTInv, PrepareSamplingTInv, RestoreTInv, ReplayTInv,
     SamplePlansTInv, EvaluatePlansTInv, AccumulateStepTInv, TopUpTInv,
     ProcessResultsTInv DEF CallStep
<1> QED BY <1>1, <1>2, StartFreshTInv, StartResumeTInv, CrashTInv DEF Next

LEMMA TInvHolds ==
  ASSUME ~AllowLowering
  PROVE  Spec => []TInv
<1>1. IInv /\ IInv' /\ TInv /\ [Next]_vars => TInv'
  BY TStepInv
<1> QED BY <1>1, InitTInv, InvHolds, PTL DEF Spec

\* As long as no call asks for fewer steps than are completed, every state
\* file holds what its reader in the sampling package expects, after any
\* history of kills and resumes.
THEOREM TypeOKHolds ==
  ASSUME ~AllowLowering
  PROVE  Spec => []TypeOK
<1>1. IInv /\ TInv => TypeOK
  <2> SUFFICES ASSUME IInv, TInv PROVE TypeOK
    OBVIOUS
  <2>1. RunRecord \subseteq [strategy : Strategies \cup {"none"}, resume : BOOLEAN,
                             n : Nat, m : Nat, maxCompleted : Nat,
                             step : Nat, count : Nat, topup : BOOLEAN]
    BY ConstantTypes DEF RunRecord
  <2> QED BY <2>1 DEF IInv, CallInv, TInv, FilesTyped, ResultData, TypeOK, Restored, Stepping
<1> QED BY <1>1, InvHolds, TInvHolds, PTL

\* Under the same condition accumulate_samples never adds a node before its
\* parent, so no parent walk of get_upstream_patches comes round again.
THEOREM ParentsPrecedeHolds ==
  ASSUME ~AllowLowering
  PROVE  Spec => []ParentsPrecede
<1>1. TInv => ParentsPrecede
  BY DEF TInv, TreesInv, Sound, Rooted, ParentsPrecede
<1> QED BY <1>1, TInvHolds, PTL

\* Under the same condition the patches that get_upstream_patches collects for
\* a valid node are those evaluate_sampled_plans validated and timed, however
\* many rebuilds lie between the evaluation and the walk.
THEOREM LineageFaithfulHolds ==
  ASSUME ~AllowLowering
  PROVE  Spec => []LineageFaithful
<1>1. TInv => LineageFaithful
  BY WalkEnds DEF TInv, TreesInv, Sound, Faithful, LineageFaithful
<1> QED BY <1>1, TInvHolds, PTL

\* Under the same condition the is_leaf flags accumulate_samples maintains
\* mark exactly the nodes without a child.
THEOREM LeafIsChildlessHolds ==
  ASSUME ~AllowLowering
  PROVE  Spec => []LeafIsChildless
<1>1. TInv => LeafIsChildless
  BY DEF TInv, TreesInv, Sound, LeavesMarked, LeafIsChildless
<1> QED BY <1>1, TInvHolds, PTL

\* Under the same condition no call is ever caught in the parent walk of
\* get_upstream_patches, neither while it samples nor in process_results.
THEOREM WalksEndHolds ==
  ASSUME ~AllowLowering
  PROVE  Spec => []WalksEnd
<1>1. TInv => WalksEnd
  BY DEF TInv, HistoryInv, WalksEnd
<1> QED BY <1>1, TInvHolds, PTL

-----------------------------------------------------------------------------
(* The third invariant: the queries of a run stay in step. *)

EvenTrees(file) == file.st = "ok" => \A q \in Queries : SameShape(file.data[q], file.data[1])

EvenSamples(file) ==
  file.st = "ok" => \A q \in Queries : Len(file.data[q]) = Len(file.data[1])

\* Every query is as far as the first.
EvenInv ==
  /\ EvenTrees(base) /\ EvenTrees(final)
  /\ \A k \in StepDirs : EvenSamples(sampled[k]) /\ EvenSamples(evaluated[k])

LEMMA MergeEven ==
  ASSUME IInv, EvenInv, NEW k \in StepDirs, MergeReadable(k), MergeStep(k)
  PROVE  EvenTrees(final')
<1>1. CASE final' = Torn
  BY <1>1, FileStates DEF EvenTrees
<1>2. CASE final' = File(Accumulated(k))
  <2>1. ASSUME NEW q \in Queries
        PROVE  SameShape(Accumulated(k)[q], Accumulated(k)[1])
    <3>1. /\ TreeOK(final.data[q]) /\ TreeOK(final.data[1])
          /\ IsList(evaluated[k].data[q]) /\ IsList(evaluated[k].data[1])
      BY ConstantTypes DEF IInv, FilesInv, MergeReadable
    <3>2. /\ SameShape(final.data[q], final.data[1])
          /\ Len(evaluated[k].data[q]) = Len(evaluated[k].data[1])
      BY DEF EvenInv, EvenTrees, EvenSamples, MergeReadable
    <3>3. SameShape(AccumulateSamples(final.data[q], evaluated[k].data[q]),
                    AccumulateSamples(final.data[1], evaluated[k].data[1]))
      BY <3>1, <3>2, ShapesGrow
    <3> QED BY <3>3, ConstantTypes DEF Accumulated
  <2> QED BY <1>2, <2>1, FileStates DEF EvenTrees
<1> QED BY <1>1, <1>2 DEF MergeStep

LEMMA SamplePlansEven ==
  ASSUME IInv, EvenInv, SamplePlans
  PROVE  EvenInv'
<1>1. /\ UNCHANGED <<base, evaluated, final>> /\ final.st # "absent"
      /\ run \in RunRecord
      /\ sampled = [k \in StepDirs |-> sampled[k]]
  BY DEF IInv, CallInv, FilesInv, SamplePlans, Restored, Stepping
<1>2. ASSUME final.st = "ok", NEW gen \in [Slots -> Answers]
      PROVE  EvenSamples(File(DrawnSamples(gen)))
  <2>1. ASSUME NEW q \in Queries
        PROVE  /\ Len(SeedsOf(q)) = Len(SeedsOf(1)) /\ Len(SeedsOf(q)) \in Nat
               /\ Len(DrawnSamples(gen)[q]) = BatchSize(q)
    <3>1. /\ TreeOK(final.data[q]) /\ TreeOK(final.data[1])
          /\ SameShape(final.data[q], final.data[1])
      BY <1>2, ConstantTypes DEF IInv, FilesInv, EvenInv, EvenTrees
    <3>2. Len(SeedsOf(q)) = Len(SeedsOf(1))
      BY <3>1, SeedsEven DEF SeedsOf
    <3>3. Len(SeedsOf(q)) \in Nat
      BY <3>1, BasePlansIsList DEF SeedsOf, TreeOK
    <3>4. BatchSize(q) \in Nat
      BY <1>1, <3>3 DEF BatchSize, RunRecord
    <3> DEFINE drawn == DrawnSamples(gen)[q]
    <3>5. drawn = [i \in 1 .. BatchSize(q) |-> drawn[i]]
      BY DEF DrawnSamples
    <3> HIDE DEF drawn
    <3>6. Len(drawn) = BatchSize(q)
      BY <3>4, <3>5, ListOfFunction
    <3> QED BY <3>2, <3>3, <3>6 DEF drawn
  <2>2. \A q \in Queries : BatchSize(q) = BatchSize(1)
    BY <2>1 DEF BatchSize
  <2> QED BY <2>1, <2>2, ConstantTypes, FileStates DEF EvenSamples
<1>3. \/ sampled' = sampled
      \/ \E file : EvenSamples(file) /\ sampled' = [sampled EXCEPT ![run.step] = file]
  <2>1. \/ sampled' = sampled
        \/ /\ final.st = "ok"
           /\ \E gen \in [Slots -> Answers], torn \in BOOLEAN :
                sampled' = [sampled EXCEPT ![run.step] =
                              IF torn THEN Torn ELSE File(DrawnSamples(gen))]
    BY DEF SamplePlans, Tears
  <2>2. EvenSamples(Torn)
    BY FileStates DEF EvenSamples
  <2> QED BY <1>2, <2>1, <2>2
<1>4. \A k \in StepDirs : EvenSamples(sampled[k])'
  <2>1. CASE sampled' = sampled
    BY <2>1 DEF EvenInv, EvenSamples
  <2>2. ASSUME NEW file, EvenSamples(file), sampled' = [sampled EXCEPT ![run.step] = file]
        PROVE  \A k \in StepDirs : EvenSamples(sampled[k])'
    <3>1. \A k \in StepDirs : sampled'[k] \in {sampled[k], file}
      BY <1>1, <2>2
    <3> QED BY <2>2, <3>1 DEF EvenInv, EvenSamples
  <2> QED BY <1>3, <2>1, <2>2
<1> QED BY <1>1, <1>4 DEF EvenInv, EvenTrees, EvenSamples

LEMMA EvaluatePlansEven ==
  ASSUME IInv, EvenInv, EvaluatePlans
  PROVE  EvenInv'
<1>1. /\ UNCHANGED <<base, sampled, final>> /\ run.step \in StepDirs
      /\ evaluated = [k \in StepDirs |-> evaluated[k]]
  BY ConstantTypes
  DEF IInv, CallInv, StepsInv, FilesInv, EvaluatePlans, Stepping, Restored, LastStep, StepDirs
<1>2. ASSUME sampled[run.step].st = "ok", NEW timed
      PROVE  EvenSamples(File(EvaluatedSamples(run.step, timed)))
  <2>1. ASSUME NEW q \in Queries
        PROVE  Len(EvaluatedSamples(run.step, timed)[q]) = Len(sampled[run.step].data[q])
    <3> DEFINE n == Len(sampled[run.step].data[q])
               done == EvaluatedSamples(run.step, timed)[q]
    <3>1. n \in Nat /\ DOMAIN sampled[run.step].data[q] = 1 .. n
      BY <1>1, <1>2, ListShape DEF IInv, FilesInv
    <3>2. done = [i \in DOMAIN sampled[run.step].data[q] |-> done[i]]
      BY DEF EvaluatedSamples
    <3> HIDE DEF done, n
    <3>3. Len(done) = n
      BY <3>1, <3>2, ListOfFunction
    <3> QED BY <3>3 DEF done, n
  <2>2. \A q \in Queries : Len(sampled[run.step].data[q]) = Len(sampled[run.step].data[1])
    BY <1>1, <1>2 DEF EvenInv, EvenSamples
  <2> QED BY <2>1, <2>2, ConstantTypes, FileStates DEF EvenSamples
<1>3. \/ evaluated' = evaluated
      \/ \E file : EvenSamples(file) /\ evaluated' = [evaluated EXCEPT ![run.step] = file]
  <2>1. \/ evaluated' = evaluated
        \/ /\ sampled[run.step].st = "ok"
           /\ \E timed \in [ToEvaluate(run.step) -> Metrics \cup {0}], torn \in BOOLEAN :
                evaluated' = [evaluated EXCEPT ![run.step] =
                                IF torn THEN Torn
                                ELSE File(EvaluatedSamples(run.step, timed))]
    BY DEF EvaluatePlans, Tears
  <2>2. EvenSamples(Torn)
    BY FileStates DEF EvenSamples
  <2> QED BY <1>2, <2>1, <2>2
<1>4. \A k \in StepDirs : EvenSamples(evaluated[k])'
  <2>1. CASE evaluated' = evaluated
    BY <2>1 DEF EvenInv, EvenSamples
  <2>2. ASSUME NEW file, EvenSamples(file), evaluated' = [evaluated EXCEPT ![run.step] = file]
        PROVE  \A k \in StepDirs : EvenSamples(evaluated[k])'
    <3>1. \A k \in StepDirs : evaluated'[k] \in {evaluated[k], file}
      BY <1>1, <2>2
    <3> QED BY <2>2, <3>1 DEF EvenInv, EvenSamples
  <2> QED BY <1>3, <2>1, <2>2
<1> QED BY <1>1, <1>4 DEF EvenInv, EvenTrees, EvenSamples

LEMMA EvenStepInv == IInv /\ EvenInv /\ [Next]_vars => EvenInv'
<1> SUFFICES ASSUME IInv, EvenInv, [Next]_vars PROVE EvenInv'
  OBVIOUS
<1>1. CASE UNCHANGED <<sampled, evaluated, base, final>>
  BY <1>1 DEF EvenInv, EvenTrees, EvenSamples
<1>2. CASE PrepareSampling
  <2>1. UNCHANGED <<sampled, evaluated, final>>
    BY <1>2 DEF PrepareSampling, stepFiles
  <2>2. EvenTrees(base')
    <3> DEFINE roots == [q \in Queries |-> <<Root(curated.data[q])>>]
    <3>1. base' = base \/ base' = Torn \/ base' = File(roots)
      BY <1>2 DEF PrepareSampling
    <3>2. \A q \in Queries : SameShape(roots[q], roots[1])
      <4> TAKE q \in Queries
      <4> DEFINE a == Root(curated.data[q])
                 b == Root(curated.data[1])
      <4>1. a.isLast /\ b.isLast /\ "isLast" \in DOMAIN a /\ "isLast" \in DOMAIN b
        BY DEF Root
      <4>2. roots[q] = <<a>> /\ roots[1] = <<b>>
        BY ConstantTypes
      <4> HIDE DEF a, b, roots
      <4> QED BY <4>1, <4>2 DEF SameShape
    <3> HIDE DEF roots
    <3> QED BY <3>1, <3>2, FileStates DEF EvenTrees, EvenInv
  <2> QED BY <2>1, <2>2 DEF EvenInv, EvenTrees, EvenSamples
<1>3. CASE Restore
  <2>1. UNCHANGED <<sampled, evaluated, base>>
    BY <1>3 DEF Restore, stepFiles
  <2>2. final' = final \/ final' = Torn \/ final' = base
    BY <1>3 DEF Restore
  <2>3. EvenTrees(final')
    BY <2>2, FileStates DEF EvenTrees, EvenInv
  <2> QED BY <2>1, <2>3 DEF EvenInv, EvenTrees, EvenSamples
<1>4. CASE Replay \/ AccumulateStep
  <2>1. UNCHANGED <<sampled, evaluated, base>>
    BY <1>4 DEF Replay, AccumulateStep, stepFiles
  <2>2. final' = final \/ (MergeReadable(run.step) /\ MergeStep(run.step))
    BY <1>4 DEF Replay, AccumulateStep
  <2>3. MergeReadable(run.step) => run.step \in StepDirs
    <3>1. CASE AccumulateStep
      BY <3>1, ConstantTypes
      DEF IInv, CallInv, StepsInv, AccumulateStep, Stepping, LastStep, StepDirs
    <3>2. CASE Replay
      <4>1. /\ 1 .. run.maxCompleted \subseteq CompletedSteps /\ run \in RunRecord
            /\ run.step \in 1 .. RebuildLimit(run)
        BY <3>2 DEF IInv, CallInv, StepsInv, Restored, Replay
      <4>2. RebuildLimit(run) \in Nat /\ RebuildLimit(run) <= run.maxCompleted
        BY <4>1, MinOfPair DEF RebuildLimit, RunRecord
      <4>3. run.step \in 1 .. run.maxCompleted
        BY <4>1, <4>2 DEF RunRecord
      <4> QED BY <4>1, <4>3 DEF CompletedSteps
    <3> QED BY <1>4, <3>1, <3>2
  <2>4. EvenTrees(final')
    BY <2>2, <2>3, MergeEven DEF EvenInv
  <2> QED BY <2>1, <2>4 DEF EvenInv, EvenTrees, EvenSamples
<1>5. CASE SamplePlans
  BY <1>5, SamplePlansEven
<1>6. CASE EvaluatePlans
  BY <1>6, EvaluatePlansEven
<1>7. CASE ~ (PrepareSampling \/ Restore \/ Replay \/ AccumulateStep
                \/ SamplePlans \/ EvaluatePlans)
  <2>1. UNCHANGED <<sampled, evaluated, base, final>>
    BY <1>7 DEF Next, CallStep, vars, StartFresh, StartResume, EarlyExit, Curate,
       TopUp, ProcessResults, Crash, stepFiles
  <2> QED BY <1>1, <2>1
<1> QED BY <1>2, <1>3, <1>4, <1>5, <1>6, <1>7

\* After any history all queries have as many samples: every step draws as many
\* for each query, and kills, torn files and rebuilds hit all of them at once.
\* So run_sampling_steps may count the first query alone for the top-up.
THEOREM QueriesInStepHolds == Spec => []QueriesInStep
<1>1. Init => EvenInv
  BY FileStates DEF Init, EvenInv, EvenTrees, EvenSamples
<1>2. EvenInv => QueriesInStep
  BY DEF EvenInv, EvenTrees, SameShape, QueriesInStep
<1> QED BY <1>1, <1>2, EvenStepInv, InvHolds, PTL DEF Spec

-----------------------------------------------------------------------------
(* The fourth invariant: where the nodes come from. *)

NamedFile(file, k) ==
  file.st = "ok" => \A q \in Queries : Named(file.data[q], k)

TreesFrom(file, top) ==
  file.st = "ok" => \A q \in Queries : FromSteps(file.data[q], top)

\* The latest step the tree may hold nodes of.
Top == IF pc \in Stepping \cup {"replay"} THEN run.step - 1 ELSE MaxCompleted

\* Where the nodes come from, if no step is ever a top-up.
OriginInv ==
  /\ ~run.topup
  /\ \A k \in StepDirs : NamedFile(sampled[k], k) /\ NamedFile(evaluated[k], k)
  /\ TreesFrom(base, 0) /\ TreesFrom(final, Top)

LEMMA TopIs ==
  ASSUME IInv
  PROVE  Top \in Nat /\ Top <= MaxCompleted /\ MaxCompleted \in Nat
<1>1. MaxCompleted \in Nat /\ CompletedSteps = 1 .. MaxCompleted
  BY MaxCompletedIsCompleted DEF IInv
<1>2. CASE pc \in Stepping
  <2>1. run.step \in Nat \ {0} /\ 1 .. run.step - 1 \subseteq 1 .. MaxCompleted
    BY <1>1, <1>2 DEF IInv, CallInv, StepsInv, RunRecord
  <2> QED BY <1>1, <1>2, <2>1 DEF Top
<1>3. CASE pc = "replay"
  <2>1. /\ run.step \in 1 .. RebuildLimit(run) /\ run \in RunRecord
        /\ 1 .. run.maxCompleted \subseteq 1 .. MaxCompleted
    BY <1>1, <1>3 DEF IInv, CallInv, StepsInv, Restored
  <2>2. RebuildLimit(run) \in Nat /\ RebuildLimit(run) <= run.maxCompleted
    BY <2>1, MinOfPair DEF RebuildLimit, RunRecord
  <2>3. run.step \in Nat \ {0} /\ run.maxCompleted \in Nat /\ run.step <= run.maxCompleted
    BY <2>1, <2>2 DEF RunRecord
  <2>4. run.maxCompleted <= MaxCompleted
    BY <1>1, <2>1, <2>3
  <2> QED BY <1>1, <1>3, <2>3, <2>4 DEF Top
<1>4. CASE ~ (pc \in Stepping \cup {"replay"})
  BY <1>1, <1>4 DEF Top
<1> QED BY <1>2, <1>3, <1>4

LEMMA FromFewer ==
  ASSUME NEW file, NEW k \in Nat, NEW n \in Nat, k <= n, TreesFrom(file, k)
  PROVE  TreesFrom(file, n)
BY FromFewerSteps DEF TreesFrom

\* The root alone is from no step.
LEMMA RootFromSteps ==
  ASSUME NEW metric
  PROVE  FromSteps(<<Root(metric)>>, 0)
<1> DEFINE node == Root(metric)
<1>1. /\ {"src", "isLast"} \subseteq DOMAIN node /\ node.isLast
      /\ node.src \in Token /\ node.src[1] = 0
  BY DEF Root, Token
<1> HIDE DEF node
<1>2. FromSteps(<<node>>, 0)
  BY <1>1 DEF FromSteps
<1> QED BY <1>2 DEF node

\* A step writes no file that a tree is read from, or the files stay.
LEMMA OriginStays ==
  ASSUME IInv, IInv', OriginInv, UNCHANGED <<sampled, evaluated, final>>,
         ~run'.topup, TreesFrom(base', 0), Top' \in Nat, Top <= Top'
  PROVE  OriginInv'
<1>1. Top \in Nat
  BY TopIs
<1>2. TreesFrom(final, Top')
  BY <1>1, FromFewer DEF OriginInv
<1> QED BY <1>2 DEF OriginInv, NamedFile, TreesFrom

LEMMA TopIsCompleted ==
  ASSUME ~ (pc \in Stepping \cup {"replay"})
  PROVE  Top = MaxCompleted
BY DEF Top

LEMMA CompletedStay ==
  ASSUME evaluated' = evaluated
  PROVE  MaxCompleted' = MaxCompleted
BY DEF MaxCompleted, CompletedSteps

LEMMA InitOrigin == Init => OriginInv
<1> SUFFICES ASSUME Init PROVE OriginInv
  OBVIOUS
<1>1. ~NoRun.topup
  BY DEF NoRun
<1> QED BY <1>1, FileStates DEF Init, OriginInv, NamedFile, TreesFrom

\* Outside of a step and of the rebuild.
LEMMA QuietOrigin ==
  ASSUME IInv, IInv', OriginInv,
         StartFresh \/ StartResume \/ EarlyExit \/ Curate \/ PrepareSampling
           \/ ProcessResults \/ Crash
  PROVE  OriginInv'
<1>1. /\ UNCHANGED <<sampled, evaluated, final>>
      /\ ~ (pc' \in Stepping \cup {"replay"})
      /\ ~PrepareSampling => base' = base
  BY DEF StartFresh, StartResume, EarlyExit, Curate, PrepareSampling,
     ProcessResults, Crash, End, Hang, Stepping, stepFiles
<1>2. Top' \in Nat /\ Top <= Top'
  <2>1. Top' = MaxCompleted' /\ MaxCompleted' = MaxCompleted
    BY <1>1, TopIsCompleted, CompletedStay DEF Top
  <2> QED BY <2>1, TopIs
<1>3. ~run'.topup
  <2>1. run' = run \/ run' = NoRun \/ StartFresh \/ StartResume
    BY DEF EarlyExit, Curate, PrepareSampling, ProcessResults, Crash, End, Hang
  <2>2. ~NoRun.topup
    BY DEF NoRun
  <2>3. StartFresh \/ StartResume => ~run'.topup
    <3>1. StartFresh \/ StartResume => pc' \in {"curate", "restore"}
      BY DEF StartFresh, StartResume
    <3> QED BY <3>1 DEF IInv, CallInv, Stepping
  <2> QED BY <2>1, <2>2, <2>3 DEF OriginInv
<1>4. TreesFrom(base', 0)
  <2>1. CASE base' = base
    BY <2>1 DEF OriginInv
  <2>2. CASE base' = Torn
    BY <2>2, FileStates DEF TreesFrom
  <2>3. CASE base' = File([q \in Queries |-> <<Root(curated.data[q])>>])
    BY <2>3, FileStates, RootFromSteps DEF TreesFrom
  <2> QED BY <1>1, <2>1, <2>2, <2>3 DEF PrepareSampling
<1> QED BY <1>1, <1>2, <1>3, <1>4, OriginStays

\* Where a call goes on after k - 1 steps.
LEMMA NextStep ==
  ASSUME NEW r \in RunRecord, ~r.topup, NEW k \in Nat \ {0},
         ToStep(r, k) \/ ToReplay(r, k), k - 1 <= MaxCompleted', MaxCompleted' \in Nat
  PROVE  ~run'.topup /\ Top' \in Nat /\ k - 1 <= Top'
<1>1. CASE ToStep(r, k) /\ k <= r.n
  <2> DEFINE c == SelectStrategy(r.strategy, k, r.m).count
  <2>1. pc' = "sample" /\ run' = [r EXCEPT !.step = k, !.count = c]
    BY <1>1 DEF ToStep
  <2> HIDE DEF c
  <2>2. run'.step = k /\ ~run'.topup
    BY <2>1 DEF RunRecord
  <2> QED BY <2>1, <2>2 DEF Top, Stepping
<1>2. CASE ToStep(r, k) /\ ~ (k <= r.n)
  <2>1. pc' = "topup" /\ run' = [r EXCEPT !.step = 0, !.count = 0]
    BY <1>2 DEF ToStep
  <2>2. ~run'.topup
    BY <2>1 DEF RunRecord
  <2> QED BY <2>1, <2>2 DEF Top, Stepping
<1>3. CASE ToReplay(r, k) /\ k <= RebuildLimit(r)
  <2>1. pc' = "replay" /\ run' = [r EXCEPT !.step = k]
    BY <1>3 DEF ToReplay
  <2>2. run'.step = k /\ ~run'.topup
    BY <2>1 DEF RunRecord
  <2> QED BY <2>1, <2>2 DEF Top, Stepping
<1> QED BY <1>1, <1>2, <1>3 DEF ToReplay

LEMMA MergeOrigin ==
  ASSUME IInv, OriginInv, NEW k \in StepDirs, MergeReadable(k), MergeStep(k), Top = k - 1
  PROVE  TreesFrom(final', k)
<1>1. CASE final' = Torn
  BY <1>1, FileStates DEF TreesFrom
<1>2. CASE final' = File(Accumulated(k))
  <2>1. k \in Nat /\ k - 1 \in Nat /\ k - 1 < k
    BY ConstantTypes DEF StepDirs
  <2>2. ASSUME NEW q \in Queries PROVE FromSteps(Accumulated(k)[q], k)
    <3>1. TreeOK(final.data[q]) /\ IsList(evaluated[k].data[q])
      BY DEF IInv, FilesInv, MergeReadable
    <3>2. FromSteps(final.data[q], k - 1) /\ Named(evaluated[k].data[q], k)
      BY DEF OriginInv, TreesFrom, NamedFile, MergeReadable
    <3>3. FromSteps(AccumulateSamples(final.data[q], evaluated[k].data[q]), k)
      BY <2>1, <3>1, <3>2, AccumulateFromSteps
    <3> QED BY <3>3 DEF Accumulated
  <2> QED BY <1>2, <2>2, FileStates DEF TreesFrom
<1> QED BY <1>1, <1>2 DEF MergeStep

LEMMA RestoreOrigin == IInv /\ OriginInv /\ Restore => OriginInv'
<1> SUFFICES ASSUME IInv, OriginInv, Restore PROVE OriginInv'
  OBVIOUS
<1> DEFINE r == [run EXCEPT !.maxCompleted = MaxCompleted]
<1>1. /\ pc = "restore" /\ run \in RunRecord /\ ~run.topup
      /\ UNCHANGED <<base, sampled, evaluated>>
  BY DEF IInv, CallInv, OriginInv, Restore, stepFiles
<1>2. /\ MaxCompleted \in Nat /\ MaxCompleted' = MaxCompleted /\ Top = MaxCompleted
  BY <1>1, MaxCompletedIsCompleted, CompletedStay DEF IInv, Top, Stepping
<1>3. /\ r \in RunRecord /\ ~r.topup /\ r.n \in Nat /\ r.maxCompleted = MaxCompleted
  BY <1>1, <1>2, ConstantTypes DEF RunRecord
<1>4. \/ End /\ (final' = Torn \/ final' = final)
      \/ ToReplay(r, 1) /\ final' = base
      \/ r.n >= MaxCompleted /\ ToStep(r, RebuildLimit(r) + 1) /\ final' = final
  <2> HIDE DEF r
  <2>1. \/ End /\ (final' = Torn \/ final' = final)
        \/ ToReplay(r, 1) /\ final' = base
        \/ ~ (r.n < r.maxCompleted) /\ ToStep(r, RebuildLimit(r) + 1) /\ final' = final
    BY DEF Restore, r
  <2> QED BY <1>2, <1>3, <2>1
<1> HIDE DEF r
<1>5. CASE End /\ (final' = Torn \/ final' = final)
  <2>1. ~run'.topup /\ Top' = MaxCompleted
    BY <1>2, <1>5 DEF End, NoRun, Top, Stepping
  <2>2. TreesFrom(final', MaxCompleted)
    BY <1>2, <1>5, FileStates DEF OriginInv, TreesFrom
  <2> QED BY <1>1, <2>1, <2>2 DEF OriginInv, NamedFile, TreesFrom
<1>6. CASE ToReplay(r, 1) /\ final' = base
  <2>1. ~run'.topup /\ Top' \in Nat /\ 0 <= Top'
    BY <1>2, <1>3, <1>6, NextStep
  <2>2. TreesFrom(final', Top')
    BY <1>6, <2>1, FromFewer DEF OriginInv
  <2> QED BY <1>1, <2>1, <2>2 DEF OriginInv, NamedFile, TreesFrom
<1>7. CASE r.n >= MaxCompleted /\ ToStep(r, RebuildLimit(r) + 1) /\ final' = final
  <2>1. RebuildLimit(r) = MaxCompleted
    BY <1>2, <1>3, <1>7, MinOfPair DEF RebuildLimit
  <2>2. ~run'.topup /\ Top' \in Nat /\ MaxCompleted <= Top'
    <3>1. MaxCompleted + 1 \in Nat \ {0} /\ MaxCompleted + 1 - 1 = MaxCompleted
      BY <1>2
    <3>2. ToStep(r, MaxCompleted + 1)
      BY <1>7, <2>1
    <3> DEFINE k == MaxCompleted + 1
    <3>3. ~run'.topup /\ Top' \in Nat /\ MaxCompleted <= Top'
      <4>1. k \in Nat \ {0} /\ ToStep(r, k) /\ k - 1 <= MaxCompleted' /\ MaxCompleted' \in Nat
        BY <1>2, <3>1, <3>2
      <4>2. k - 1 = MaxCompleted
        BY <1>2
      <4> HIDE DEF k
      <4> QED BY <1>3, <4>1, <4>2, NextStep
    <3> QED BY <3>3
  <2>3. TreesFrom(final', Top')
    BY <1>2, <1>7, <2>2, FromFewer DEF OriginInv
  <2> QED BY <1>1, <2>2, <2>3 DEF OriginInv, NamedFile, TreesFrom
<1> QED BY <1>4, <1>5, <1>6, <1>7

\* A merge of the rebuild or of a step.
LEMMA MergingOrigin ==
  ASSUME IInv, OriginInv, NEW k \in StepDirs, k = run.step, k <= MaxCompleted,
         pc \in Stepping \cup {"replay"},
         UNCHANGED <<base, sampled, evaluated>>,
         \/ End /\ UNCHANGED final
         \/ /\ MergeReadable(k) /\ MergeStep(k)
            /\ End \/ ToStep(run, k + 1) \/ ToReplay(run, k + 1)
  PROVE  OriginInv'
<1>1. /\ run \in RunRecord /\ ~run.topup /\ k \in Nat \ {0} /\ Top = k - 1
      /\ MaxCompleted \in Nat /\ MaxCompleted' = MaxCompleted
  BY MaxCompletedIsCompleted, CompletedStay, ConstantTypes
  DEF IInv, CallInv, OriginInv, Top, StepDirs
<1>2. CASE End
  <2>1. ~run'.topup /\ Top' = MaxCompleted
    BY <1>1, <1>2 DEF End, NoRun, Top, Stepping
  <2>2. TreesFrom(final', k) \/ TreesFrom(final', k - 1)
    BY <1>1, MergeOrigin DEF OriginInv, TreesFrom
  <2>3. k - 1 \in Nat /\ k - 1 <= MaxCompleted
    BY <1>1
  <2>4. TreesFrom(final', MaxCompleted)
    BY <1>1, <2>2, <2>3, FromFewer
  <2> QED BY <2>1, <2>4 DEF OriginInv, NamedFile, TreesFrom
<1>3. CASE MergeReadable(k) /\ MergeStep(k) /\ (ToStep(run, k + 1) \/ ToReplay(run, k + 1))
  <2>1. TreesFrom(final', k)
    BY <1>1, <1>3, MergeOrigin
  <2>2. ~run'.topup /\ Top' \in Nat /\ k <= Top'
    <3> DEFINE n == k + 1
    <3>1. n \in Nat \ {0} /\ n - 1 = k
      BY <1>1
    <3>2. ToStep(run, n) \/ ToReplay(run, n)
      BY <1>3
    <3> HIDE DEF n
    <3> QED BY <1>1, <3>1, <3>2, NextStep
  <2>3. TreesFrom(final', Top')
    BY <1>1, <2>1, <2>2, FromFewer
  <2> QED BY <2>2, <2>3 DEF OriginInv, NamedFile, TreesFrom
<1> QED BY <1>2, <1>3

LEMMA ReplayOrigin == IInv /\ OriginInv /\ Replay => OriginInv'
<1> SUFFICES ASSUME IInv, OriginInv, Replay PROVE OriginInv'
  OBVIOUS
<1>1. /\ pc = "replay" /\ run \in RunRecord
      /\ UNCHANGED <<base, sampled, evaluated>>
      /\ 1 .. run.maxCompleted \subseteq CompletedSteps
      /\ run.step \in 1 .. RebuildLimit(run)
  BY DEF IInv, CallInv, StepsInv, Replay, Restored, stepFiles
<1>2. RebuildLimit(run) \in Nat /\ RebuildLimit(run) <= run.maxCompleted
  BY <1>1, MinOfPair DEF RebuildLimit, RunRecord
<1>3. run.step \in CompletedSteps
  <2>1. run.step \in 1 .. run.maxCompleted
    BY <1>1, <1>2 DEF RunRecord
  <2> QED BY <1>1, <2>1
<1>4. run.step \in StepDirs /\ run.step <= MaxCompleted
  BY <1>3, MaxCompletedIsCompleted DEF IInv, CompletedSteps
<1>5. \/ End /\ UNCHANGED final
      \/ /\ MergeReadable(run.step) /\ MergeStep(run.step)
         /\ End \/ ToReplay(run, run.step + 1)
  BY DEF Replay
<1> QED BY <1>1, <1>4, <1>5, MergingOrigin

LEMMA AccumulateStepOrigin == IInv /\ OriginInv /\ AccumulateStep => OriginInv'
<1> SUFFICES ASSUME IInv, OriginInv, AccumulateStep PROVE OriginInv'
  OBVIOUS
<1>1. /\ pc = "accumulate" /\ run \in RunRecord /\ ~run.topup
      /\ UNCHANGED <<base, sampled, evaluated>>
      /\ run.step \in 1 .. LastStep /\ 1 .. run.step - 1 \subseteq CompletedSteps
      /\ run.step \in StepDirs
  BY ConstantTypes
  DEF IInv, CallInv, StepsInv, OriginInv, AccumulateStep, Stepping, LastStep, StepDirs,
      stepFiles
<1>2. CASE MergeReadable(run.step)
  <2>1. run.step \in CompletedSteps
    BY <1>1, <1>2 DEF CompletedSteps, MergeReadable
  <2>2. run.step <= MaxCompleted
    BY <2>1, MaxCompletedIsCompleted DEF IInv
  <2>3. MergeStep(run.step) /\ (End \/ ToStep(run, run.step + 1))
    BY <1>1, <1>2 DEF AccumulateStep, AfterStep
  <2> QED BY <1>1, <1>2, <2>2, <2>3, MergingOrigin DEF Stepping
<1>3. CASE ~MergeReadable(run.step)
  <2>1. End /\ UNCHANGED final
    BY <1>3 DEF AccumulateStep
  <2>2. Top' = MaxCompleted /\ ~run'.topup
    BY <1>1, <2>1, CompletedStay DEF End, NoRun, Top, Stepping
  <2>3. Top' \in Nat /\ Top <= Top'
    BY <2>2, TopIs
  <2>4. TreesFrom(final', Top')
    BY <2>1, <2>3, TopIs, FromFewer DEF OriginInv
  <2> QED BY <1>1, <2>2, <2>4 DEF OriginInv, NamedFile, TreesFrom
<1> QED BY <1>2, <1>3

\* A write of one step file.
LEMMA NamedStays ==
  ASSUME NEW files, files = [k \in StepDirs |-> files[k]], NEW j \in StepDirs,
         NEW file, NamedFile(file, j), \A k \in StepDirs : NamedFile(files[k], k)
  PROVE  \A k \in StepDirs : NamedFile([files EXCEPT ![j] = file][k], k)
OBVIOUS

LEMMA DrawnNamed ==
  ASSUME IInv, pc = "sample", final.st = "ok", NEW gen, NEW q \in Queries
  PROVE  Named(DrawnSamples(gen)[q], run.step)
<1> DEFINE drawn == DrawnSamples(gen)[q]
<1>1. drawn = [i \in 1 .. BatchSize(q) |->
                 NewSample(final.data[q], SeedsOf(q)[(i - 1) \div run.count + 1],
                           gen[<<q, i>>], <<run.step, i>>)]
  BY DEF DrawnSamples
<1>2. Len(drawn) = BatchSize(q)
  <2>1. IsList(final.data[q])
    BY DEF IInv, FilesInv, TreeOK
  <2>2. Len(SeedsOf(q)) \in Nat
    BY <2>1, BasePlansIsList DEF SeedsOf
  <2>3. BatchSize(q) \in Nat
    BY <2>2 DEF BatchSize, RunRecord, IInv, CallInv
  <2>4. drawn = [i \in 1 .. BatchSize(q) |-> drawn[i]]
    BY <1>1
  <2> HIDE DEF drawn
  <2> QED BY <2>3, <2>4, ListOfFunction
<1>3. ASSUME NEW i \in 1 .. BatchSize(q)
      PROVE  "src" \in DOMAIN drawn[i] /\ drawn[i].src = <<run.step, i>>
  <2> DEFINE seed == SeedsOf(q)[(i - 1) \div run.count + 1]
             answer == gen[<<q, i>>]
  <2>1. drawn[i] = NewSample(final.data[q], seed, answer, <<run.step, i>>)
    BY <1>1
  <2> HIDE DEF seed, answer, drawn
  <2> QED BY <2>1 DEF NewSample
<1> HIDE DEF drawn
<1>4. Named(drawn, run.step)
  BY <1>2, <1>3 DEF Named
<1> QED BY <1>4 DEF drawn

LEMMA EvaluatedNamed ==
  ASSUME IInv, NEW k \in StepDirs, sampled[k].st = "ok", NamedFile(sampled[k], k),
         NEW timed, NEW q \in Queries
  PROVE  Named(EvaluatedSamples(k, timed)[q], k)
<1> DEFINE done == EvaluatedSamples(k, timed)[q]
           drawn == sampled[k].data[q]
<1>1. /\ Len(drawn) \in Nat /\ DOMAIN drawn = 1 .. Len(drawn)
      /\ \A i \in 1 .. Len(drawn) : "src" \in DOMAIN drawn[i] /\ drawn[i].src = <<k, i>>
  BY ListShape DEF IInv, FilesInv, NamedFile, Named
<1>2. done = [i \in 1 .. Len(drawn) |->
                Evaluated(drawn[i], IF <<q, i>> \in DOMAIN timed THEN timed[<<q, i>>] ELSE 0)]
  BY <1>1 DEF EvaluatedSamples
<1> HIDE DEF drawn, done
<1>3. Len(done) = Len(drawn)
  <2>1. done = [i \in 1 .. Len(drawn) |-> done[i]]
    BY <1>2
  <2> QED BY <1>1, <2>1, ListOfFunction
<1>4. ASSUME NEW i \in 1 .. Len(drawn)
      PROVE  "src" \in DOMAIN done[i] /\ done[i].src = <<k, i>>
  <2> DEFINE metric == IF <<q, i>> \in DOMAIN timed THEN timed[<<q, i>>] ELSE 0
             sample == drawn[i]
  <2>1. /\ done[i] = Evaluated(sample, metric)
        /\ "src" \in DOMAIN sample /\ sample.src = <<k, i>>
    BY <1>1, <1>2
  <2> HIDE DEF metric, sample
  <2> QED BY <2>1 DEF Evaluated
<1>5. Named(done, k)
  BY <1>3, <1>4 DEF Named
<1> QED BY <1>5 DEF done

LEMMA SamplePlansOrigin == IInv /\ OriginInv /\ SamplePlans => OriginInv'
<1> SUFFICES ASSUME IInv, OriginInv, SamplePlans PROVE OriginInv'
  OBVIOUS
<1>1. /\ pc = "sample" /\ final.st # "absent" /\ ~run.topup
      /\ UNCHANGED <<base, evaluated, final>>
      /\ run.step \in StepDirs
      /\ sampled = [k \in StepDirs |-> sampled[k]]
  BY ConstantTypes
  DEF IInv, CallInv, StepsInv, FilesInv, OriginInv, SamplePlans, Restored, Stepping,
      LastStep, StepDirs
<1>2. \A k \in StepDirs : NamedFile(sampled'[k], k)
  <2>1. \/ sampled' = sampled
        \/ /\ final.st = "ok"
           /\ \E gen \in [Slots -> Answers], torn \in BOOLEAN :
                sampled' = [sampled EXCEPT ![run.step] =
                              IF torn THEN Torn ELSE File(DrawnSamples(gen))]
    BY DEF SamplePlans, Tears
  <2>2. CASE sampled' = sampled
    BY <2>2 DEF OriginInv
  <2>3. ASSUME final.st = "ok", NEW gen, NEW torn \in BOOLEAN,
               sampled' = [sampled EXCEPT ![run.step] =
                             IF torn THEN Torn ELSE File(DrawnSamples(gen))]
        PROVE  \A k \in StepDirs : NamedFile(sampled'[k], k)
    <3> DEFINE file == IF torn THEN Torn ELSE File(DrawnSamples(gen))
    <3>1. NamedFile(file, run.step)
      BY <1>1, <2>3, FileStates, DrawnNamed DEF NamedFile
    <3>2. sampled' = [sampled EXCEPT ![run.step] = file]
      BY <2>3
    <3> HIDE DEF file
    <3> QED BY <1>1, <3>1, <3>2, NamedStays DEF OriginInv
  <2> QED BY <2>1, <2>2, <2>3
<1>3. ~run'.topup /\ Top' \in Nat /\ Top <= Top'
  <2>1. /\ Top \in Nat /\ Top <= MaxCompleted
        /\ MaxCompleted \in Nat /\ MaxCompleted' = MaxCompleted
    BY <1>1, TopIs, CompletedStay
  <2>2. CASE pc' = "evaluate" /\ run' = run
    BY <1>1, <2>1, <2>2 DEF Top, Stepping
  <2>3. CASE End \/ Hang
    BY <1>1, <2>1, <2>3 DEF Top, Stepping, End, Hang, NoRun
  <2> QED BY <2>2, <2>3 DEF SamplePlans
<1>4. TreesFrom(final', Top')
  BY <1>1, <1>3, TopIs, FromFewer DEF OriginInv
<1> QED BY <1>1, <1>2, <1>3, <1>4 DEF OriginInv, NamedFile, TreesFrom

LEMMA EvaluatePlansOrigin == IInv /\ IInv' /\ OriginInv /\ EvaluatePlans => OriginInv'
<1> SUFFICES ASSUME IInv, IInv', OriginInv, EvaluatePlans PROVE OriginInv'
  OBVIOUS
<1>1. /\ pc = "evaluate" /\ ~run.topup /\ run \in RunRecord
      /\ UNCHANGED <<base, sampled, final>>
      /\ run.step \in StepDirs /\ 1 .. run.step - 1 \subseteq CompletedSteps
      /\ evaluated = [k \in StepDirs |-> evaluated[k]]
  BY ConstantTypes
  DEF IInv, CallInv, StepsInv, FilesInv, OriginInv, EvaluatePlans, Restored, Stepping,
      LastStep, StepDirs
<1>2. \/ evaluated' = evaluated
      \/ /\ sampled[run.step].st = "ok"
         /\ \E timed \in [ToEvaluate(run.step) -> Metrics \cup {0}], torn \in BOOLEAN :
              evaluated' = [evaluated EXCEPT ![run.step] =
                              IF torn THEN Torn
                              ELSE File(EvaluatedSamples(run.step, timed))]
  BY DEF EvaluatePlans, Tears
<1>3. \A k \in StepDirs : NamedFile(evaluated'[k], k)
  <2>1. CASE evaluated' = evaluated
    BY <2>1 DEF OriginInv
  <2>2. ASSUME sampled[run.step].st = "ok", NEW timed, NEW torn \in BOOLEAN,
               evaluated' = [evaluated EXCEPT ![run.step] =
                               IF torn THEN Torn
                               ELSE File(EvaluatedSamples(run.step, timed))]
        PROVE  \A k \in StepDirs : NamedFile(evaluated'[k], k)
    <3> DEFINE file == IF torn THEN Torn ELSE File(EvaluatedSamples(run.step, timed))
    <3>1. NamedFile(file, run.step)
      BY <1>1, <2>2, FileStates, EvaluatedNamed DEF NamedFile, OriginInv
    <3>2. evaluated' = [evaluated EXCEPT ![run.step] = file]
      BY <2>2
    <3> HIDE DEF file
    <3> QED BY <1>1, <3>1, <3>2, NamedStays DEF OriginInv
  <2> QED BY <1>2, <2>1, <2>2
<1>4. Top = run.step - 1 /\ Top \in Nat
  BY <1>1, TopIs DEF Top, Stepping
<1>5. ~run'.topup /\ Top' \in Nat /\ Top <= Top'
  <2>1. CASE pc' = "accumulate" /\ run' = run
    BY <1>1, <1>4, <2>1 DEF Top, Stepping
  <2>2. CASE End
    <3>1. Top' = MaxCompleted' /\ ~run'.topup
      BY <2>2 DEF Top, Stepping, End, NoRun
    <3>2. MaxCompleted' \in Nat /\ Top <= MaxCompleted'
      <4>1. \A k \in StepDirs \ {run.step} : evaluated'[k] = evaluated[k]
        <5>1. \/ evaluated' = evaluated
              \/ \E file : evaluated' = [evaluated EXCEPT ![run.step] = file]
          BY <1>2
        <5>2. ASSUME NEW file, evaluated' = [evaluated EXCEPT ![run.step] = file]
              PROVE  \A k \in StepDirs \ {run.step} : evaluated'[k] = evaluated[k]
          BY <1>1, <5>2
        <5> QED BY <5>1, <5>2
      <4> DEFINE S == CompletedSteps' \cup {0}
                 n == MaxSteps + MaxSessions
      <4>2. 1 .. run.step - 1 \subseteq CompletedSteps'
        BY <1>1, <4>1, ConstantTypes DEF CompletedSteps, StepDirs
      <4>3. n \in Nat /\ S \subseteq 0 .. n /\ S # {}
        BY ConstantTypes DEF CompletedSteps, StepDirs
      <4>4. Max(S) \in S /\ \A y \in S : Max(S) >= y
        <5> HIDE DEF S, n
        <5> QED BY <4>3, MaxOfBounded
      <4>5. Top \in S
        <5>1. Top = 0 \/ Top \in 1 .. run.step - 1
          BY <1>1, <1>4 DEF RunRecord
        <5> QED BY <4>2, <5>1
      <4>6. MaxCompleted' = Max(S)
        BY DEF MaxCompleted
      <4> HIDE DEF S, n
      <4>7. Max(S) \in 0 .. n
        BY <4>3, <4>4
      <4>8. Max(S) >= Top
        BY <4>4, <4>5
      <4>9. Max(S) \in Nat
        BY <4>3, <4>7
      <4> QED BY <1>4, <4>6, <4>8, <4>9
    <3> QED BY <3>1, <3>2
  <2> QED BY <2>1, <2>2 DEF EvaluatePlans
<1>6. TreesFrom(final', Top')
  BY <1>1, <1>4, <1>5, FromFewer DEF OriginInv
<1> QED BY <1>1, <1>3, <1>5, <1>6 DEF OriginInv, NamedFile, TreesFrom

LEMMA TopUpOrigin ==
  ASSUME "best_of" \notin Strategies
  PROVE  IInv /\ OriginInv /\ TopUp => OriginInv'
<1> SUFFICES ASSUME IInv, OriginInv, TopUp PROVE OriginInv'
  OBVIOUS
<1>1. /\ pc = "topup" /\ ~run.topup /\ run.strategy # "best_of"
      /\ UNCHANGED <<base, sampled, evaluated, final>>
  BY DEF IInv, CallInv, RunRecord, OriginInv, TopUp, stepFiles
<1>2. pc' = "process" /\ run' = run
  BY <1>1 DEF TopUp, TopUpApplies
<1>3. MaxCompleted' = MaxCompleted
  BY <1>1, CompletedStay
<1>4. Top' = Top
  BY <1>1, <1>2, <1>3 DEF Top, Stepping
<1> QED BY <1>1, <1>2, <1>4 DEF OriginInv, NamedFile, TreesFrom

LEMMA OriginStepInv ==
  ASSUME "best_of" \notin Strategies
  PROVE  IInv /\ IInv' /\ OriginInv /\ [Next]_vars => OriginInv'
<1> SUFFICES ASSUME IInv, IInv', OriginInv, [Next]_vars PROVE OriginInv'
  OBVIOUS
<1>1. CASE UNCHANGED vars
  <2>1. Top' = Top
    BY <1>1 DEF vars, Top, MaxCompleted, CompletedSteps
  <2> QED BY <1>1, <2>1 DEF vars, OriginInv, NamedFile, TreesFrom
<1>2. CASE StartFresh \/ StartResume \/ EarlyExit \/ Curate \/ PrepareSampling
             \/ ProcessResults \/ Crash
  BY <1>2, QuietOrigin
<1> QED BY <1>1, <1>2, RestoreOrigin, ReplayOrigin, SamplePlansOrigin, EvaluatePlansOrigin,
          AccumulateStepOrigin, TopUpOrigin DEF Next, CallStep

LEMMA OriginHolds ==
  ASSUME "best_of" \notin Strategies
  PROVE  Spec => []OriginInv
<1>1. IInv /\ IInv' /\ OriginInv /\ [Next]_vars => OriginInv'
  BY OriginStepInv
<1> QED BY <1>1, InitOrigin, InvHolds, PTL DEF Spec

\* accumulate_samples is called once for each step, whether a call replays the
\* step from disk or samples it: no sample becomes two nodes of the tree.
THEOREM NothingCountedTwiceHolds ==
  ASSUME "best_of" \notin Strategies
  PROVE  Spec => []NothingCountedTwice
<1>1. IInv /\ OriginInv => NothingCountedTwice
  <2> SUFFICES ASSUME IInv, OriginInv, final.st = "ok", NEW q \in Queries
               PROVE  \A i, j \in DOMAIN final.data[q] :
                        final.data[q][i].src = final.data[q][j].src => i = j
    BY DEF NothingCountedTwice
  <2>1. DOMAIN final.data[q] = 1 .. Len(final.data[q])
    BY ListShape DEF IInv, FilesInv, TreeOK
  <2>2. FromSteps(final.data[q], Top)
    BY DEF OriginInv, TreesFrom
  <2> QED BY <2>1, <2>2 DEF FromSteps
<1> QED BY <1>1, InvHolds, OriginHolds, PTL

\* is_last, which accumulate_samples takes from the old nodes and gives to the
\* new ones, marks exactly the nodes of the latest step in the tree, those that
\* the strategies of the last step sample from.
THEOREM LastIsLatestStepHolds ==
  ASSUME "best_of" \notin Strategies
  PROVE  Spec => []LastIsLatestStep
<1>1. IInv /\ OriginInv => LastIsLatestStep
  <2> SUFFICES ASSUME IInv, OriginInv, final.st = "ok", NEW q \in Queries,
                      NEW i \in DOMAIN final.data[q]
               PROVE  final.data[q][i].isLast <=>
                        final.data[q][i].src[1] = Max(StepsInTree(q) \cup {0})
    BY DEF LastIsLatestStep
  <2> DEFINE tree == final.data[q]
             S == StepsInTree(q) \cup {0}
  <2>1. DOMAIN tree = 1 .. Len(tree)
    BY ListShape DEF IInv, FilesInv, TreeOK
  <2>2. FromSteps(tree, Top) /\ Top \in Nat
    BY TopIs DEF OriginInv, TreesFrom
  <2>3. \A j \in 1 .. Len(tree) : tree[j].src[1] \in 0 .. Top /\ tree[j].src[1] \in S
    <3>1. \A j \in 1 .. Len(tree) : tree[j].src[1] \in Nat /\ tree[j].src[1] <= Top
      BY <2>2 DEF FromSteps, Token
    <3>2. \A j \in 1 .. Len(tree) : tree[j].src[1] \in S
      BY <2>1 DEF StepsInTree
    <3> QED BY <2>2, <3>1, <3>2
  <2>4. \A x \in S : x = 0 \/ \E j \in 1 .. Len(tree) : x = tree[j].src[1]
    BY <2>1 DEF StepsInTree
  <2>5. /\ tree[i].isLast <=> \A j \in 1 .. Len(tree) : tree[j].src[1] <= tree[i].src[1]
        /\ i \in 1 .. Len(tree)
    BY <2>1, <2>2 DEF FromSteps
  <2> HIDE DEF tree, S
  <2>6. S \subseteq 0 .. Top /\ S # {}
    <3>1. 0 \in S
      BY DEF S
    <3> QED BY <2>2, <2>3, <2>4, <3>1
  <2>7. Max(S) \in S /\ \A y \in S : Max(S) >= y
    BY <2>2, <2>6, MaxOfBounded
  <2>8. CASE tree[i].isLast
    <3>1. \A x \in S : x <= tree[i].src[1]
      <4>1. tree[i].src[1] \in Nat
        BY <2>3, <2>5
      <4> QED BY <2>4, <2>5, <2>8, <4>1
    <3>2. Max(S) <= tree[i].src[1] /\ Max(S) >= tree[i].src[1]
      BY <2>3, <2>5, <2>7, <3>1
    <3>3. tree[i].src[1] = Max(S)
      <4>1. Max(S) \in 0 .. Top
        BY <2>6, <2>7
      <4>2. tree[i].src[1] \in 0 .. Top
        BY <2>3, <2>5
      <4>3. tree[i].src[1] \in Nat /\ Max(S) \in Nat
        BY <2>2, <4>1, <4>2
      <4> QED BY <3>2, <4>3
    <3> QED BY <2>8, <3>3 DEF tree, S
  <2>9. CASE ~tree[i].isLast
    <3>1. PICK j \in 1 .. Len(tree) : ~ (tree[j].src[1] <= tree[i].src[1])
      BY <2>5, <2>9
    <3>2. Max(S) >= tree[j].src[1] /\ tree[j].src[1] \in Nat /\ tree[i].src[1] \in Nat
      BY <2>3, <2>5, <2>7
    <3>3. tree[i].src[1] # Max(S)
      BY <3>1, <3>2
    <3> QED BY <2>9, <3>3 DEF tree, S
  <2> QED BY <2>8, <2>9
<1> QED BY <1>1, InvHolds, OriginHolds, PTL

-----------------------------------------------------------------------------
(* The fifth invariant: what is returned was measured. *)

\* The root is the base plan; what is noted of a valid node is what one of
\* the samples in "correct" was measured as.
Sourced(tree, correct) ==
  /\ tree[1].metric = BaseMetric
  /\ \A i \in DOMAIN tree : i > 1 /\ tree[i].valid =>
       \E s \in correct : /\ BuiltPlan(s) = tree[i].built /\ s.metric = tree[i].metric
                          /\ PatchOf(s) = tree[i].patch

LEMMA SourcedByMore ==
  ASSUME NEW tree, NEW correct, NEW more, correct \subseteq more, Sourced(tree, correct)
  PROVE  Sourced(tree, more)
BY DEF Sourced

\* A chain holds patches of such samples only.
LEMMA ChainSourced ==
  ASSUME NEW tree, Rooted(tree), NEW correct, Sourced(tree, correct)
  PROVE  \A i \in DOMAIN tree :
           Range(UpstreamPatches(tree, i)) \subseteq {s.src : s \in correct}
<1> DEFINE srcs == {s.src : s \in correct}
           chain(i) == UpstreamPatches(tree, i)
           S == {n \in Nat : \A i \in DOMAIN tree : i <= n => Range(chain(i)) \subseteq srcs}
<1>1. Len(tree) \in Nat /\ DOMAIN tree = 1 .. Len(tree)
  BY RootedShape
<1>2. 0 \in S
  BY <1>1
<1>3. ASSUME NEW n \in Nat, n \in S PROVE n + 1 \in S
  <2>1. ASSUME NEW i \in DOMAIN tree, i <= n + 1 PROVE Range(chain(i)) \subseteq srcs
    <3>1. CASE i = 1
      <4>1. chain(1) = << >>
        BY UpstreamIs
      <4> QED BY <3>1, <4>1 DEF Range
    <3>2. CASE i # 1
      <4> DEFINE j == UpFrom(tree, i)
                 own == OwnPatch(tree[i])
      <4>1. i \in Nat /\ i > 1
        BY <1>1, <3>2
      <4>2. j \in DOMAIN tree /\ j <= n
        <5>1. j \in 1 .. i - 1
          BY <4>1, UpIs
        <5> HIDE DEF j
        <5> QED BY <1>1, <2>1, <4>1, <5>1
      <4>3. chain(i) = chain(j) \o own /\ chain(j) \in Plan
        BY <4>1, <4>2, UpstreamIs
      <4>4. Range(chain(j)) \subseteq srcs
        BY <1>3, <4>2
      <4>5. own = << >> \/ \E s \in correct : own = <<s.src>>
        <5>1. CASE ~tree[i].valid
          BY <5>1 DEF OwnPatch
        <5>2. CASE tree[i].valid
          <6>1. PICK s \in correct : PatchOf(s) = tree[i].patch
            BY <4>1, <5>2 DEF Sourced
          <6> QED BY <5>2, <6>1 DEF OwnPatch, PatchOf
        <5> QED BY <5>1, <5>2
      <4> DEFINE up == chain(j)
      <4>6. up \in Seq(Token) /\ Range(up) \subseteq srcs
        BY <4>3, <4>4 DEF Plan
      <4> HIDE DEF own, j, up, srcs
      <4>7. CASE own = << >>
        <5>1. chain(i) = up
          BY <4>3, <4>6, <4>7, EmptySeq DEF up
        <5> QED BY <4>6, <5>1
      <4>8. ASSUME NEW s \in correct, own = <<s.src>>
            PROVE  Range(up \o own) \subseteq srcs
        <5> DEFINE x == s.src
        <5>1. x \in srcs /\ own = <<x>>
          BY <4>8 DEF srcs
        <5> HIDE DEF x
        <5>2. \A k \in DOMAIN (up \o <<x>>) : (up \o <<x>>)[k] \in Range(up) \cup {x}
          <6>1. /\ Len(up) \in Nat /\ DOMAIN up = 1 .. Len(up)
                /\ IsList(up) /\ IsList(<<x>>) /\ Len(<<x>>) = 1 /\ <<x>>[1] = x
            BY <4>6, LenProperties DEF IsList
          <6> QED BY <6>1, ListConcat, ListShape DEF Range
        <5> QED BY <4>6, <5>1, <5>2 DEF Range
      <4>9. Range(up \o own) \subseteq srcs
        BY <4>3, <4>5, <4>6, <4>7, <4>8 DEF up
      <4> QED BY <4>3, <4>9 DEF up
    <3> QED BY <3>1, <3>2
  <2> HIDE DEF chain, srcs
  <2> QED BY <2>1
<1> HIDE DEF S
<1>4. Nat \subseteq S
  BY <1>2, <1>3, SetInduction
<1>5. ASSUME NEW i \in DOMAIN tree PROVE Range(chain(i)) \subseteq srcs
  <2>1. i \in Nat /\ i <= i
    BY <1>1
  <2>2. i \in S
    BY <1>4, <2>1
  <2> QED BY <2>1, <2>2 DEF S
<1> QED BY <1>5

LEMMA RootSourced ==
  ASSUME NEW correct
  PROVE  Sourced(<<Root(BaseMetric)>>, correct)
<1> DEFINE node == Root(BaseMetric)
<1>1. node.metric = BaseMetric
  BY DEF Root
<1> HIDE DEF node
<1>2. Sourced(<<node>>, correct)
  BY <1>1 DEF Sourced
<1> QED BY <1>2 DEF node

LEMMA AccumulateSourced ==
  ASSUME NEW tree, TreeOK(tree), Rooted(tree), NEW correct, Sourced(tree, correct),
         NEW samples \in Seq(Sample),
         \A i \in 1 .. Len(samples) : samples[i].valid => samples[i] \in correct
  PROVE  Sourced(AccumulateSamples(tree, samples), correct)
<1> DEFINE big == AccumulateSamples(tree, samples)
           L == Len(tree)
           K == Len(samples)
<1>1. IsList(samples)
  <2>1. /\ Len(samples) \in Nat /\ DOMAIN samples = 1 .. Len(samples)
        /\ samples = [i \in 1 .. Len(samples) |-> samples[i]]
    BY LenProperties
  <2> QED BY <2>1, ListOfFunction
<1>2. /\ L \in Nat \ {0} /\ K \in Nat /\ DOMAIN big = 1 .. L + K /\ DOMAIN tree = 1 .. L
      /\ \A i \in 1 .. L : big[i] = Aged(tree[i], samples)
      /\ \A i \in 1 .. K : big[L + i] = NodeOf(samples[i], L + i - 1)
  BY <1>1, AccumulatedNodes
<1>3. \A i \in 1 .. L : tree[i] \in Node
  BY <1>2, RootedShape
<1>4. ASSUME NEW i \in 1 .. L
      PROVE  /\ big[i].metric = tree[i].metric /\ big[i].valid = tree[i].valid
             /\ big[i].built = tree[i].built /\ big[i].patch = tree[i].patch
  <2> DEFINE a == tree[i]
  <2>1. big[i] = Aged(a, samples) /\ a \in Node
    BY <1>2, <1>3
  <2> HIDE DEF a
  <2>2. /\ big[i].metric = a.metric /\ big[i].valid = a.valid
        /\ big[i].built = a.built /\ big[i].patch = a.patch
    BY <2>1 DEF Aged, Node
  <2> QED BY <2>2 DEF a
<1>5. ASSUME NEW i \in 1 .. K
      PROVE  /\ big[L + i].metric = samples[i].metric /\ big[L + i].valid = samples[i].valid
             /\ big[L + i].built = BuiltPlan(samples[i])
             /\ big[L + i].patch = PatchOf(samples[i])
  <2> DEFINE s == samples[i]
             id == L + i - 1
  <2>1. big[L + i] = NodeOf(s, id)
    BY <1>2
  <2> HIDE DEF s, id
  <2>2. /\ big[L + i].metric = s.metric /\ big[L + i].valid = s.valid
        /\ big[L + i].built = BuiltPlan(s) /\ big[L + i].patch = PatchOf(s)
    BY <2>1 DEF NodeOf
  <2> QED BY <2>2 DEF s
<1>6. \A i \in 1 .. K : samples[i].valid => samples[i] \in correct
  OBVIOUS
<1> HIDE DEF big, L, K
<1>7. big[1].metric = BaseMetric
  BY <1>2, <1>4 DEF Sourced
<1>8. ASSUME NEW i \in 1 .. L + K, i > 1, big[i].valid
      PROVE  \E s \in correct : /\ BuiltPlan(s) = big[i].built /\ s.metric = big[i].metric
                                /\ PatchOf(s) = big[i].patch
  <2>1. CASE i <= L
    <3>1. i \in 1 .. L
      BY <1>2, <2>1
    <3>2. tree[i].valid
      BY <1>4, <1>8, <3>1
    <3>3. PICK s \in correct : /\ BuiltPlan(s) = tree[i].built /\ s.metric = tree[i].metric
                               /\ PatchOf(s) = tree[i].patch
      BY <1>2, <1>8, <3>1, <3>2 DEF Sourced
    <3>4. /\ BuiltPlan(s) = big[i].built /\ s.metric = big[i].metric
          /\ PatchOf(s) = big[i].patch
      BY <1>4, <3>1, <3>3
    <3> QED BY <3>4
  <2>2. CASE ~ (i <= L)
    <3> DEFINE n == i - L
    <3>1. n \in 1 .. K /\ i = L + n
      BY <1>2, <2>2
    <3> HIDE DEF n
    <3>2. samples[n].valid
      BY <1>5, <1>8, <3>1
    <3> QED BY <1>5, <1>6, <3>1, <3>2
  <2> QED BY <2>1, <2>2
<1>9. Sourced(big, correct)
  BY <1>2, <1>7, <1>8 DEF Sourced
<1> QED BY <1>9 DEF big

\* What the step files say of the plans of a query: those found valid.
Correct(q) ==
  {s \in UNION {Range(evaluated[k].data[q]) : k \in {j \in StepDirs : evaluated[j].st = "ok"}} :
     s.valid}

Returned(won, correct) ==
  /\ \/ won = [patch |-> << >>, metric |-> BaseMetric]
     \/ \E s \in correct : BuiltPlan(s) = won.patch /\ s.metric = won.metric
  /\ Range(won.patch) \subseteq {s.src : s \in correct}

ReturnedInv ==
  result.st = "ok" /\ result.data.outcome # << >> =>
    \A q \in Queries : \A won \in Range(result.data.outcome[q]) : Returned(won, Correct(q))

MeasuredInv ==
  /\ curated.st = "ok" => \A q \in Queries : curated.data[q] = BaseMetric
  /\ base.st = "ok" => \A q \in Queries : Sourced(base.data[q], Correct(q))
  /\ final.st = "ok" => \A q \in Queries : Sourced(final.data[q], Correct(q))
  /\ ReturnedInv

LEMMA CorrectStay ==
  ASSUME IInv, [Next]_vars, NEW q \in Queries
  PROVE  Correct(q) \subseteq Correct(q)'
<1>1. ASSUME NEW s \in Correct(q) PROVE s \in Correct(q)'
  <2>1. PICK k \in StepDirs : /\ evaluated[k].st = "ok" /\ s.valid
                              /\ s \in Range(evaluated[k].data[q])
    BY DEF Correct
  <2>2. evaluated'[k] = evaluated[k]
    BY <2>1, WrittenOnce
  <2> QED BY <2>1, <2>2 DEF Correct
<1> QED BY <1>1

LEMMA ReturnedByMore ==
  ASSUME NEW won, NEW correct, NEW more, correct \subseteq more, Returned(won, correct)
  PROVE  Returned(won, more)
BY DEF Returned

\* What each step may do to the files the invariant is about.
LEMMA FilesStep ==
  ASSUME IInv, [Next]_vars
  PROVE  /\ \/ curated' = curated
            \/ curated' = Torn
            \/ curated' = File([q \in Queries |-> BaseMetric])
         /\ \/ base' = base
            \/ base' = Torn
            \/ pc = "prepare" /\ base' = File([q \in Queries |-> <<Root(curated.data[q])>>])
         /\ \/ final' = final
            \/ final' = Torn
            \/ Restore /\ final' = base
            \/ \E k \in StepDirs : /\ MergeReadable(k) /\ final' = File(Accumulated(k))
         /\ \/ result' = result
            \/ result' = Torn
            \/ result' = ResultFile(<< >>)
            \/ /\ final.st = "ok"
               /\ result' = ResultFile([q \in Queries |-> Outcome(q)])
               /\ final' = final
<1>1. CASE UNCHANGED vars
  BY <1>1 DEF vars
<1>2. CASE StartFresh \/ StartResume \/ Crash \/ TopUp \/ SamplePlans \/ EvaluatePlans
  BY <1>2 DEF StartFresh, StartResume, Crash, TopUp, SamplePlans, EvaluatePlans
<1>3. CASE EarlyExit
  BY <1>3 DEF EarlyExit
<1>4. CASE Curate
  BY <1>4 DEF Curate
<1>5. CASE PrepareSampling
  BY <1>5 DEF PrepareSampling
<1>6. CASE Restore
  BY <1>6 DEF Restore
<1>7. CASE Replay \/ AccumulateStep
  <2>1. UNCHANGED <<curated, base, result>>
    BY <1>7 DEF Replay, AccumulateStep
  <2>2. final' = final \/ (MergeReadable(run.step) /\ MergeStep(run.step))
    BY <1>7 DEF Replay, AccumulateStep
  <2>3. MergeReadable(run.step) => run.step \in StepDirs
    <3>1. CASE AccumulateStep
      BY <3>1, ConstantTypes
      DEF IInv, CallInv, StepsInv, AccumulateStep, Stepping, LastStep, StepDirs
    <3>2. CASE Replay
      <4>1. /\ 1 .. run.maxCompleted \subseteq CompletedSteps /\ run \in RunRecord
            /\ run.step \in 1 .. RebuildLimit(run)
        BY <3>2 DEF IInv, CallInv, StepsInv, Restored, Replay
      <4>2. RebuildLimit(run) \in Nat /\ RebuildLimit(run) <= run.maxCompleted
        BY <4>1, MinOfPair DEF RebuildLimit, RunRecord
      <4>3. run.step \in 1 .. run.maxCompleted
        BY <4>1, <4>2 DEF RunRecord
      <4> QED BY <4>1, <4>3 DEF CompletedSteps
    <3> QED BY <1>7, <3>1, <3>2
  <2>4. CASE MergeReadable(run.step) /\ MergeStep(run.step)
    <3>1. final' = Torn \/ final' = File(Accumulated(run.step))
      BY <2>4 DEF MergeStep
    <3> QED BY <2>1, <2>3, <2>4, <3>1
  <2> QED BY <2>1, <2>2, <2>4
<1>8. CASE ProcessResults
  <2>1. UNCHANGED <<curated, base, final>>
    BY <1>8 DEF ProcessResults
  <2>2. final.st = "torn" \/ final.st = "ok"
    BY <1>8 DEF IInv, CallInv, FilesInv, ProcessResults, Restored
  <2>3. \/ result' = result
        \/ result' = Torn
        \/ final.st # "torn" /\ result' = ResultFile([q \in Queries |-> Outcome(q)])
    BY <1>8 DEF ProcessResults
  <2> QED BY <2>1, <2>2, <2>3
<1> QED BY <1>1, <1>2, <1>3, <1>4, <1>5, <1>6, <1>7, <1>8 DEF Next, CallStep

\* Outcome ranks the root and the valid nodes that have a metric.
Ranks(q) == {1} \cup {i \in DOMAIN final.data[q] :
                        /\ final.data[q][i].id # 0
                        /\ final.data[q][i].valid /\ final.data[q][i].metric # 0}

LEMMA OutcomeIs ==
  ASSUME NEW q \in Queries, Rooted(final.data[q])
  PROVE  LET tree == final.data[q]
             ranked == Ranked(tree, Ranks(q))
         IN  /\ Ranks(q) \subseteq Nat /\ IsFiniteSet(Ranks(q)) /\ Ranks(q) \subseteq DOMAIN tree
             /\ \A i \in Ranks(q) : tree[i].metric \in Nat
             /\ Len(ranked) = Cardinality(Ranks(q))
             /\ \A n \in 1 .. Cardinality(Ranks(q)) : ranked[n] \in Ranks(q)
             /\ Min({TopK, Len(ranked)}) \in 1 .. Len(ranked)
             /\ Outcome(q) = [n \in 1 .. Min({TopK, Len(ranked)}) |->
                                [patch |-> UpstreamPatches(tree, ranked[n]),
                                 metric |-> tree[ranked[n]].metric]]
<1> DEFINE tree == final.data[q]
           S == {i \in DOMAIN tree : tree[i].id # 0 /\ tree[i].valid /\ tree[i].metric # 0}
           ranked == Ranked(tree, Ranks(q))
<1>1. /\ Len(tree) \in Nat \ {0} /\ DOMAIN tree = 1 .. Len(tree) /\ 1 \in DOMAIN tree
      /\ \A i \in DOMAIN tree : tree[i].metric \in Nat
  BY RootedShape DEF Node
<1>2. IsFiniteSet(DOMAIN tree)
  BY <1>1, FS_Interval
<1>3. /\ S \subseteq Nat /\ IsFiniteSet(S) /\ S \subseteq DOMAIN tree
      /\ \A i \in S : tree[i].metric \in Nat
  BY <1>1, <1>2, FS_Subset
<1>4. Ranks(q) = {1} \cup S
  BY DEF Ranks
<1>5. /\ Ranks(q) \subseteq Nat /\ Ranks(q) \subseteq DOMAIN tree /\ IsFiniteSet(Ranks(q))
      /\ Ranks(q) # {} /\ \A i \in Ranks(q) : tree[i].metric \in Nat
  BY <1>1, <1>2, <1>3, <1>4, FS_Subset
<1>6. Winners(q) = Ranked(tree, S)
  BY DEF Winners
<1>7. Range(Winners(q)) = S
  BY <1>3, <1>6, RankedRange
<1>8. {IndexOf(tree, 0)} \cup Range(Winners(q)) = Ranks(q)
  BY <1>4, <1>7, IndexOfRoot
<1>9. /\ Len(ranked) = Cardinality(Ranks(q))
      /\ \A n \in 1 .. Cardinality(Ranks(q)) : ranked[n] \in Ranks(q)
      /\ 1 \in 1 .. Cardinality(Ranks(q)) /\ Cardinality(Ranks(q)) \in Nat
  <2> HIDE DEF tree, ranked
  <2>1. /\ Len(Ranked(tree, Ranks(q))) = Cardinality(Ranks(q))
        /\ \A n \in 1 .. Cardinality(Ranks(q)) : Ranked(tree, Ranks(q))[n] \in Ranks(q)
        /\ 1 \in 1 .. Cardinality(Ranks(q)) /\ Cardinality(Ranks(q)) \in Nat
    BY <1>5, RankedIn, RankedBest, FS_CardinalityType
  <2> QED BY <2>1 DEF ranked
<1>10. Min({TopK, Len(ranked)}) \in 1 .. Len(ranked)
  <2>1. TopK \in Nat \ {0}
    BY SamplingRunAssumption DEF SamplingRunAssumption
  <2> DEFINE n == Len(ranked)
  <2>2. n \in Nat \ {0}
    BY <1>9
  <2> HIDE DEF n
  <2>3. Min({TopK, n}) \in 1 .. n
    BY <2>1, <2>2, MinOfPair
  <2> QED BY <2>3 DEF n
<1>11. Outcome(q) = [n \in 1 .. Min({TopK, Len(ranked)}) |->
                       [patch |-> UpstreamPatches(tree, ranked[n]),
                        metric |-> tree[ranked[n]].metric]]
  <2>1. Outcome(q) =
          LET r == Ranked(tree, {IndexOf(tree, 0)} \cup Range(Winners(q)))
          IN  [n \in 1 .. Min({TopK, Len(r)}) |->
                 [patch |-> UpstreamPatches(tree, r[n]), metric |-> tree[r[n]].metric]]
    BY DEF Outcome
  <2> QED BY <1>8, <2>1
<1> QED BY <1>5, <1>9, <1>10, <1>11

\* What a call returns comes from the tree, and the tree from the step files.
LEMMA OutcomeReturned ==
  ASSUME TInv, MeasuredInv, final.st = "ok", NEW q \in Queries
  PROVE  \A won \in Range(Outcome(q)) : Returned(won, Correct(q))
<1> DEFINE tree == final.data[q]
           ranked == Ranked(tree, Ranks(q))
           k == Min({TopK, Len(ranked)})
<1>1. Sound(tree) /\ Rooted(tree) /\ Sourced(tree, Correct(q))
  BY DEF TInv, TreesInv, MeasuredInv, Sound
<1>2. /\ Ranks(q) \subseteq DOMAIN tree
      /\ Len(ranked) = Cardinality(Ranks(q))
      /\ \A n \in 1 .. Cardinality(Ranks(q)) : ranked[n] \in Ranks(q)
      /\ k \in 1 .. Len(ranked)
      /\ Outcome(q) = [n \in 1 .. k |-> [patch |-> UpstreamPatches(tree, ranked[n]),
                                         metric |-> tree[ranked[n]].metric]]
  BY <1>1, OutcomeIs
<1>3. \A i \in DOMAIN tree : /\ Range(UpstreamPatches(tree, i)) \subseteq {s.src : s \in Correct(q)}
                             /\ tree[i].valid => UpstreamPatches(tree, i) = tree[i].built
  BY <1>1, ChainSourced DEF Sound, Faithful
<1>4. \A i \in Ranks(q) : i = 1 \/ tree[i].valid
  BY DEF Ranks
<1>5. Cardinality(Ranks(q)) \in Nat
  <2>1. IsFiniteSet(Ranks(q))
    BY <1>1, OutcomeIs
  <2> QED BY <2>1, FS_CardinalityType
<1> HIDE DEF tree, ranked, k
<1>6. ASSUME NEW n \in 1 .. k
      PROVE  Returned([patch |-> UpstreamPatches(tree, ranked[n]),
                       metric |-> tree[ranked[n]].metric], Correct(q))
  <2> DEFINE i == ranked[n]
  <2>1. i \in Ranks(q) /\ i \in DOMAIN tree
    <3>1. n \in 1 .. Cardinality(Ranks(q))
      BY <1>2, <1>5
    <3> QED BY <1>2, <3>1
  <2> HIDE DEF i
  <2>2. CASE i = 1
    <3>1. UpstreamPatches(tree, i) = << >> /\ tree[i].metric = BaseMetric
      BY <1>1, <2>2, UpstreamIs DEF Sourced
    <3> QED BY <1>3, <2>1, <3>1 DEF Returned, i
  <2>3. CASE i # 1
    <3>1. tree[i].valid /\ i > 1
      <4>1. i \in Nat \ {0}
        BY <1>1, <2>1, RootedShape
      <4> QED BY <1>4, <2>1, <2>3, <4>1
    <3>2. \E s \in Correct(q) : BuiltPlan(s) = tree[i].built /\ s.metric = tree[i].metric
      BY <1>1, <2>1, <3>1 DEF Sourced
    <3> QED BY <1>3, <2>1, <3>1, <3>2 DEF Returned, i
  <2> QED BY <2>2, <2>3
<1> QED BY <1>2, <1>6 DEF Range

LEMMA MergedSourced ==
  ASSUME IInv, TInv, MeasuredInv, NEW k \in StepDirs, MergeReadable(k), NEW q \in Queries
  PROVE  Sourced(Accumulated(k)[q], Correct(q))
<1> DEFINE samples == evaluated[k].data[q]
           tree == final.data[q]
<1>1. /\ final.st = "ok" /\ evaluated[k].st = "ok"
      /\ TreeOK(tree) /\ Rooted(tree) /\ Sourced(tree, Correct(q))
  BY DEF MergeReadable, IInv, FilesInv, TInv, TreesInv, Sound, MeasuredInv
<1>2. samples \in Seq(Sample)
  <2>1. evaluated[k] \in FileOf([Queries -> Seq(Sample)])
    BY DEF TInv, FilesTyped
  <2> QED BY <1>1, <2>1, FileTypes
<1>3. ASSUME NEW i \in 1 .. Len(samples), samples[i].valid
      PROVE  samples[i] \in Correct(q)
  <2>1. i \in DOMAIN samples
    BY <1>2, LenProperties
  <2>2. samples[i] \in Range(samples)
    BY <2>1 DEF Range
  <2> QED BY <1>1, <1>3, <2>2 DEF Correct
<1>4. Accumulated(k)[q] = AccumulateSamples(tree, samples)
  BY DEF Accumulated
<1> HIDE DEF samples, tree
<1> QED BY <1>1, <1>2, <1>3, <1>4, AccumulateSourced

LEMMA MeasuredStep ==
  IInv /\ TInv /\ MeasuredInv /\ [Next]_vars => MeasuredInv'
<1> SUFFICES ASSUME IInv, TInv, MeasuredInv, [Next]_vars PROVE MeasuredInv'
  OBVIOUS
<1>1. \A q \in Queries : Correct(q) \subseteq Correct(q)'
  BY CorrectStay
<1>2. curated'.st = "ok" => \A q \in Queries : curated'.data[q] = BaseMetric
  BY FilesStep, FileStates DEF MeasuredInv
<1>3. \A q \in Queries :
        /\ base.st = "ok" => Sourced(base.data[q], Correct(q)')
        /\ final.st = "ok" => Sourced(final.data[q], Correct(q)')
  BY <1>1, SourcedByMore DEF MeasuredInv
<1>4. base'.st = "ok" => \A q \in Queries : Sourced(base'.data[q], Correct(q)')
  <2>1. CASE base' = base
    BY <1>3, <2>1
  <2>2. CASE base' = Torn
    BY <2>2, FileStates
  <2>3. CASE pc = "prepare" /\ base' = File([q \in Queries |-> <<Root(curated.data[q])>>])
    <3>1. \A q \in Queries : curated.data[q] = BaseMetric
      BY <2>3 DEF TInv, HistoryInv, MeasuredInv
    <3>2. \A q \in Queries : base'.data[q] = <<Root(BaseMetric)>>
      BY <2>3, <3>1, FileStates
    <3> QED BY <3>2, RootSourced
  <2> QED BY <2>1, <2>2, <2>3, FilesStep
<1>5. final'.st = "ok" => \A q \in Queries : Sourced(final'.data[q], Correct(q)')
  <2>1. CASE final' = final \/ final' = base
    BY <1>3, <2>1
  <2>2. CASE final' = Torn
    BY <2>2, FileStates
  <2>3. ASSUME NEW k \in StepDirs, MergeReadable(k), final' = File(Accumulated(k)),
               NEW q \in Queries
        PROVE  Sourced(final'.data[q], Correct(q)')
    <3>1. Sourced(Accumulated(k)[q], Correct(q))
      BY <2>3, MergedSourced
    <3>2. final'.data[q] = Accumulated(k)[q]
      BY <2>3, FileStates
    <3> QED BY <1>1, <3>1, <3>2, SourcedByMore
  <2> QED BY <2>1, <2>2, <2>3, FilesStep
<1>6. ReturnedInv'
  <2>1. CASE result' = result
    <3>1. \A q \in Queries : \A won :
            Returned(won, Correct(q)) => Returned(won, Correct(q)')
      BY <1>1, ReturnedByMore
    <3> QED BY <2>1, <3>1 DEF MeasuredInv, ReturnedInv
  <2>2. CASE result' = Torn
    BY <2>2, FileStates DEF ReturnedInv
  <2>3. CASE result' = ResultFile(<< >>)
    BY <2>3, FileStates DEF ReturnedInv, ResultFile
  <2>4. CASE final.st = "ok" /\ result' = ResultFile([q \in Queries |-> Outcome(q)])
    <3>1. \A q \in Queries : result'.data.outcome[q] = Outcome(q)
      <4> DEFINE outcome == [q \in Queries |-> Outcome(q)]
      <4>1. \A q \in Queries : outcome[q] = Outcome(q)
        OBVIOUS
      <4>2. result' = ResultFile(outcome)
        BY <2>4
      <4> HIDE DEF outcome
      <4>3. result'.data.outcome = outcome
        BY <4>2, FileStates DEF ResultFile
      <4> QED BY <4>1, <4>3
    <3>2. \A q \in Queries : \A won \in Range(Outcome(q)) : Returned(won, Correct(q))
      BY <2>4, OutcomeReturned
    <3>3. \A q \in Queries : \A won \in Range(Outcome(q)) : Returned(won, Correct(q)')
      BY <1>1, <3>2, ReturnedByMore
    <3> QED BY <3>1, <3>3 DEF ReturnedInv
  <2> QED BY <2>1, <2>2, <2>3, <2>4, FilesStep
<1> QED BY <1>2, <1>4, <1>5, <1>6 DEF MeasuredInv

\* What _process_sampling_results returns of a query is its base plan, or a plan
\* that some step measured with that metric, built from patches each of which
\* was found valid in a step file.
THEOREM ReturnedPlanWasMeasuredHolds ==
  ASSUME ~AllowLowering
  PROVE  Spec => []ReturnedPlanWasMeasured
<1>1. Init => MeasuredInv
  BY FileStates DEF Init, MeasuredInv, ReturnedInv
<1>2. IInv /\ TInv /\ MeasuredInv /\ [Next]_vars => MeasuredInv'
  BY MeasuredStep
<1>3. MeasuredInv => ReturnedPlanWasMeasured
  BY DEF MeasuredInv, ReturnedInv, Returned, Correct, ReturnedPlanWasMeasured
<1> QED BY <1>1, <1>2, <1>3, InvHolds, TInvHolds, PTL DEF Spec

-----------------------------------------------------------------------------
(* The sixth invariant: what was returned stays on offer. *)

\* What has been returned is still among what the tree has to offer.
OfferInv ==
  result.st = "ok" =>
    /\ pc # "idle" => run.resume
    /\ result.data.outcome # << >> =>
         /\ final.st # "absent"
         /\ final.st = "ok" =>
              \A q \in Queries : \E i \in Ranks(q) :
                final.data[q][i].metric = result.data.outcome[q][1].metric

\* A node that could be returned still can after a merge.
LEMMA RanksGrow ==
  ASSUME IInv, TInv, NEW k \in StepDirs, MergeReadable(k), NEW q \in Queries, NEW i \in Ranks(q),
         final' = File(Accumulated(k))
  PROVE  i \in Ranks(q)' /\ final'.data[q][i].metric = final.data[q][i].metric
<1> DEFINE tree == final.data[q]
           samples == evaluated[k].data[q]
           big == AccumulateSamples(tree, samples)
<1>1. TreeOK(tree) /\ IsList(samples)
  BY DEF MergeReadable, IInv, FilesInv
<1>2. /\ Len(tree) \in Nat \ {0} /\ Len(samples) \in Nat
      /\ IsList(big) /\ Len(big) = Len(tree) + Len(samples)
      /\ \A j \in 1 .. Len(tree) : big[j] = Aged(tree[j], samples)
  <2>1. /\ Len(tree) \in Nat \ {0} /\ Len(samples) \in Nat
        /\ Len(big) = Len(tree) + Len(samples)
        /\ \A j \in 1 .. Len(tree) : big[j] = Aged(tree[j], samples)
    BY <1>1, AccumulatedNodes
  <2>2. TreeOK(big)
    BY <1>1, AccumulateKeepsTree
  <2> QED BY <2>1, <2>2 DEF TreeOK
<1>3. DOMAIN tree = 1 .. Len(tree) /\ DOMAIN big = 1 .. Len(big)
  BY <1>1, <1>2, ListShape DEF TreeOK
<1>4. final'.data[q] = big
  <2>1. final'.data = Accumulated(k)
    BY FileStates
  <2> QED BY <2>1 DEF Accumulated
<1>5. i \in 1 .. Len(tree)
  BY <1>2, <1>3 DEF Ranks
<1>6. i \in DOMAIN big
  <2> HIDE DEF big, tree, samples
  <2> QED BY <1>2, <1>3, <1>5
<1>7. /\ big[i].id = tree[i].id /\ big[i].valid = tree[i].valid
      /\ big[i].metric = tree[i].metric
  <2> DEFINE node == tree[i]
  <2>1. Rooted(tree)
    BY DEF MergeReadable, TInv, TreesInv, Sound
  <2>2. node \in Node
    BY <1>3, <1>5, <2>1, RootedShape
  <2>3. big[i] = Aged(node, samples)
    BY <1>2, <1>5
  <2> HIDE DEF node, big, samples
  <2>4. big[i].id = node.id /\ big[i].valid = node.valid /\ big[i].metric = node.metric
    BY <2>2, <2>3 DEF Aged, Node
  <2> QED BY <2>4 DEF node
<1> HIDE DEF big
<1> QED BY <1>4, <1>6, <1>7 DEF Ranks

\* A resumed call asks for at least the steps that are completed.
LEMMA ResumeReaches ==
  ASSUME "best_of" \notin Strategies, IInv, TInv, pc = "restore", run.resume
  PROVE  ~ (run.n < MaxCompleted)
<1> DEFINE max == MaxCompleted
<1>1. CompletedSteps \subseteq 1 .. run.n
  BY DEF TInv, HistoryInv
<1>2. run.n \in Nat
  BY DEF IInv, CallInv, RunRecord
<1>3. MaxCompleted \in Nat /\ CompletedSteps = 1 .. MaxCompleted
  BY MaxCompletedIsCompleted DEF IInv
<1>4. max \in Nat /\ 1 .. max \subseteq 1 .. run.n
  BY <1>1, <1>3
<1> HIDE DEF max
<1>5. ~ (run.n < max)
  BY <1>2, <1>4
<1> QED BY <1>5 DEF max

\* A tree that something was returned from is not started over.
LEMMA NotStartedOver ==
  ASSUME "best_of" \notin Strategies, IInv, TInv, OfferInv,
         result.st = "ok", result.data.outcome # << >>, Restore
  PROVE  final' = final \/ final' = Torn
<1>1. run.resume /\ final.st # "absent" /\ pc = "restore"
  BY DEF OfferInv, Restore
<1>2. ~ (run.n < MaxCompleted)
  BY <1>1, ResumeReaches
<1>3. LET r == [run EXCEPT !.maxCompleted = MaxCompleted]
      IN  r.n = run.n /\ r.resume = run.resume /\ r.maxCompleted = MaxCompleted
  BY DEF IInv, CallInv, RunRecord
<1> QED BY <1>1, <1>2, <1>3 DEF Restore

\* A call keeps what it was asked for; a call in progress writes no result yet.
LEMMA CallGoesOn ==
  ASSUME IInv, [Next]_vars
  PROVE  \/ pc' = "idle"
         \/ StartFresh \/ StartResume
         \/ pc # "idle" /\ run'.resume = run.resume /\ result' = result
<1> USE DEF End, Hang
<1>1. run \in RunRecord
  BY DEF IInv, CallInv
<1>2. CASE UNCHANGED vars
  BY <1>2 DEF vars
<1>3. CASE StartFresh \/ StartResume
  BY <1>3
<1>4. CASE EarlyExit \/ Curate \/ PrepareSampling
  BY <1>4 DEF EarlyExit, Curate, PrepareSampling
<1>5. CASE SamplePlans \/ EvaluatePlans
  BY <1>5 DEF SamplePlans, EvaluatePlans
<1>6. CASE ProcessResults \/ Crash
  BY <1>6 DEF ProcessResults, Crash
<1>7. ASSUME NEW r \in RunRecord, r.resume = run.resume, NEW k,
             ToStep(r, k) \/ ToReplay(r, k)
      PROVE  run'.resume = run.resume
  BY <1>7 DEF ToStep, ToReplay, RunRecord
<1>8. CASE Restore
  <2> DEFINE r == [run EXCEPT !.maxCompleted = MaxCompleted]
  <2>1. r \in RunRecord /\ r.resume = run.resume
    BY <1>1, MaxCompletedIsCompleted DEF RunRecord, IInv
  <2>2. pc = "restore" /\ result' = result
    BY <1>8 DEF Restore
  <2>3. pc' = "idle" \/ ToReplay(r, 1) \/ ToStep(r, RebuildLimit(r) + 1)
    BY <1>8 DEF Restore
  <2> HIDE DEF r
  <2> QED BY <1>7, <2>1, <2>2, <2>3
<1>9. CASE Replay
  BY <1>1, <1>7, <1>9 DEF Replay
<1>10. CASE AccumulateStep
  <2>1. pc = "accumulate" /\ result' = result
    BY <1>10 DEF AccumulateStep
  <2>2. pc' = "idle" \/ AfterStep
    BY <1>10 DEF AccumulateStep
  <2>3. AfterStep => run'.resume = run.resume
    BY <1>1, <1>7 DEF AfterStep, RunRecord
  <2> QED BY <2>1, <2>2, <2>3
<1>11. CASE TopUp
  BY <1>1, <1>11 DEF TopUp, RunRecord
<1> QED BY <1>2, <1>3, <1>4, <1>5, <1>6, <1>8, <1>9, <1>10, <1>11 DEF Next, CallStep

\* The first of an outcome is one of the nodes ranked, and none of them beats it.
LEMMA OutcomeBest ==
  ASSUME TInv, final.st = "ok", NEW q \in Queries
  PROVE  /\ \E i \in Ranks(q) : final.data[q][i].metric = Outcome(q)[1].metric
         /\ \A i \in Ranks(q) : ~Better(final.data[q][i].metric, Outcome(q)[1].metric)
         /\ \A i \in Ranks(q) : final.data[q][i].metric \in Nat
<1> DEFINE tree == final.data[q]
           ranked == Ranked(tree, Ranks(q))
           k == Min({TopK, Len(ranked)})
<1>1. Rooted(tree)
  BY DEF TInv, TreesInv, Sound
<1>2. /\ Ranks(q) \subseteq Nat /\ IsFiniteSet(Ranks(q))
      /\ \A i \in Ranks(q) : tree[i].metric \in Nat
      /\ Len(ranked) = Cardinality(Ranks(q))
      /\ \A n \in 1 .. Cardinality(Ranks(q)) : ranked[n] \in Ranks(q)
      /\ k \in 1 .. Len(ranked)
      /\ Outcome(q) = [n \in 1 .. k |-> [patch |-> UpstreamPatches(tree, ranked[n]),
                                         metric |-> tree[ranked[n]].metric]]
  BY <1>1, OutcomeIs
<1>3. Ranks(q) # {}
  BY DEF Ranks
<1>4. /\ 1 \in 1 .. Cardinality(Ranks(q))
      /\ \A i \in Ranks(q) : ~Better(tree[i].metric, tree[ranked[1]].metric)
  <2> HIDE DEF tree
  <2> QED BY <1>2, <1>3, RankedBest
<1>5. Cardinality(Ranks(q)) \in Nat
  BY <1>2, FS_CardinalityType
<1> HIDE DEF tree, ranked, k
<1>6. 1 \in 1 .. k
  BY <1>2, <1>5
<1>7. Outcome(q)[1].metric = tree[ranked[1]].metric
  BY <1>2, <1>6
<1> QED BY <1>2, <1>4, <1>7 DEF tree

LEMMA OfferStep ==
  ASSUME "best_of" \notin Strategies
  PROVE  IInv /\ TInv /\ OfferInv /\ [Next]_vars => OfferInv'
<1> SUFFICES ASSUME IInv, TInv, OfferInv, [Next]_vars, result'.st = "ok"
             PROVE  /\ pc' # "idle" => run'.resume
                    /\ result'.data.outcome # << >> =>
                         /\ final'.st # "absent"
                         /\ final'.st = "ok" =>
                              \A q \in Queries : \E i \in Ranks(q)' :
                                final'.data[q][i].metric = result'.data.outcome[q][1].metric
  BY DEF OfferInv
<1>1. pc' # "idle" => run'.resume
  <2>1. CASE StartFresh
    <3>1. result.st # "ok" /\ result' = result
      BY <2>1 DEF StartFresh, TInv, HistoryInv
    <3> QED BY <3>1
  <2>2. CASE StartResume
    <3>1. run' = [NoRun EXCEPT !.strategy = run'.strategy, !.resume = TRUE,
                               !.n = run'.n, !.m = run'.m]
      BY <2>2 DEF StartResume, NoRun
    <3> QED BY <3>1 DEF NoRun
  <2>3. CASE pc # "idle" /\ run'.resume = run.resume /\ result' = result
    BY <2>3 DEF OfferInv
  <2> QED BY <2>1, <2>2, <2>3, CallGoesOn
<1>2. ASSUME result'.data.outcome # << >>
      PROVE  /\ final'.st # "absent"
             /\ final'.st = "ok" =>
                  \A q \in Queries : \E i \in Ranks(q)' :
                    final'.data[q][i].metric = result'.data.outcome[q][1].metric
  <2>1. CASE result' = result
    <3>1. /\ result.st = "ok" /\ result.data.outcome # << >> /\ final.st # "absent"
          /\ final.st = "ok" =>
               \A q \in Queries : \E i \in Ranks(q) :
                 final.data[q][i].metric = result.data.outcome[q][1].metric
      BY <1>2, <2>1 DEF OfferInv
    <3>2. CASE final' = final
      BY <2>1, <3>1, <3>2 DEF Ranks
    <3>3. CASE final' = Torn
      BY <3>3, FileStates
    <3>4. ASSUME NEW k \in StepDirs, MergeReadable(k), final' = File(Accumulated(k))
          PROVE  /\ final'.st # "absent"
                 /\ \A q \in Queries : \E i \in Ranks(q)' :
                      final'.data[q][i].metric = result'.data.outcome[q][1].metric
      <4>1. final'.st = "ok" /\ final.st = "ok"
        BY <3>4, FileStates DEF MergeReadable
      <4>2. ASSUME NEW q \in Queries
            PROVE  \E i \in Ranks(q)' :
                     final'.data[q][i].metric = result'.data.outcome[q][1].metric
        <5>1. PICK i \in Ranks(q) :
                final.data[q][i].metric = result.data.outcome[q][1].metric
          BY <3>1, <4>1
        <5>2. i \in Ranks(q)' /\ final'.data[q][i].metric = final.data[q][i].metric
          BY <3>4, RanksGrow
        <5> QED BY <2>1, <5>1, <5>2
      <4> QED BY <4>1, <4>2
    <3>5. CASE Restore
      BY <3>1, <3>2, <3>3, <3>5, NotStartedOver
    <3> QED BY <3>2, <3>3, <3>4, <3>5, FilesStep
  <2>2. CASE result' = Torn \/ result' = ResultFile(<< >>)
    BY <1>2, <2>2, FileStates DEF ResultFile
  <2>3. CASE /\ final.st = "ok" /\ final' = final
             /\ result' = ResultFile([q \in Queries |-> Outcome(q)])
    <3> DEFINE outcome == [q \in Queries |-> Outcome(q)]
    <3>1. \A q \in Queries : outcome[q] = Outcome(q)
      OBVIOUS
    <3>2. result' = ResultFile(outcome)
      BY <2>3
    <3> HIDE DEF outcome
    <3>3. result'.data.outcome = outcome
      BY <3>2, FileStates DEF ResultFile
    <3>4. \A q \in Queries : Ranks(q)' = Ranks(q)
      BY <2>3 DEF Ranks
    <3>5. \A q \in Queries : \E i \in Ranks(q) :
            final.data[q][i].metric = Outcome(q)[1].metric
      BY <2>3, OutcomeBest
    <3> QED BY <2>3, <3>1, <3>3, <3>4, <3>5
  <2> QED BY <2>1, <2>2, <2>3, FilesStep
<1> QED BY <1>1, <1>2

\* run_dir with resume: _process_sampling_results ranks what earlier calls
\* sampled together with the new samples, so a resumed call never returns a
\* best patch that is worse than the one an earlier call returned.
THEOREM ResumeNeverRegressesHolds ==
  ASSUME ~AllowLowering, "best_of" \notin Strategies
  PROVE  Spec => ResumeNeverRegresses
<1> DEFINE NoWorse ==
      result.st = "ok" /\ result'.st = "ok"
        /\ result.data.outcome # << >> /\ result'.data.outcome # << >> =>
        \A q \in Queries :
          result'.data.outcome[q][1].metric <= result.data.outcome[q][1].metric
<1>1. Init => OfferInv
  BY FileStates DEF Init, OfferInv
<1>2. IInv /\ TInv /\ OfferInv /\ [Next]_vars => OfferInv'
  BY OfferStep
<1>3. IInv /\ TInv /\ MeasuredInv /\ OfferInv /\ [Next]_vars => [NoWorse]_result
  <2> SUFFICES ASSUME IInv, TInv, MeasuredInv, OfferInv, [Next]_vars, result' # result,
                      result.st = "ok", result'.st = "ok",
                      result.data.outcome # << >>, result'.data.outcome # << >>,
                      NEW q \in Queries
               PROVE  result'.data.outcome[q][1].metric <= result.data.outcome[q][1].metric
    OBVIOUS
  <2> DEFINE outcome == [p \in Queries |-> Outcome(p)]
             new == Outcome(q)[1].metric
  <2>1. final.st = "ok" /\ result' = ResultFile(outcome)
    BY FilesStep, FileStates DEF ResultFile
  <2>2. outcome[q] = Outcome(q)
    OBVIOUS
  <2> HIDE DEF outcome
  <2>3. result'.data.outcome[q][1].metric = new
    BY <2>1, <2>2, FileStates DEF ResultFile
  <2> HIDE DEF new
  <2>4. PICK i \in Ranks(q) :
          final.data[q][i].metric = result.data.outcome[q][1].metric
    BY <2>1 DEF OfferInv
  <2> DEFINE old == final.data[q][i].metric
  <2>5. old # 0
    <3>1. final.data[q][1].metric = BaseMetric
      BY <2>1 DEF MeasuredInv, Sourced
    <3>2. BaseMetric # 0
      BY SamplingRunAssumption DEF SamplingRunAssumption
    <3> QED BY <3>1, <3>2 DEF Ranks
  <2>6. ~Better(old, new) /\ old \in Nat
    BY <2>1, OutcomeBest DEF new
  <2>7. new \in Nat
    <3>1. PICK j \in Ranks(q) : final.data[q][j].metric = new
      BY <2>1, OutcomeBest DEF new
    <3> QED BY <2>1, <3>1, OutcomeBest
  <2> HIDE DEF old
  <2>8. new <= old
    BY <2>5, <2>6, <2>7 DEF Better
  <2> QED BY <2>3, <2>4, <2>8 DEF old
<1>4. Init => MeasuredInv
  BY FileStates DEF Init, MeasuredInv, ReturnedInv
<1>5. IInv /\ TInv /\ MeasuredInv /\ [Next]_vars => MeasuredInv'
  BY MeasuredStep
<1> QED BY <1>1, <1>2, <1>3, <1>4, <1>5, InvHolds, TInvHolds, PTL
        DEF Spec, ResumeNeverRegresses

-----------------------------------------------------------------------------
(* The seventh invariant: what is completed is kept. *)

InTree(q, k) == \E i \in 1 .. Len(final.data[q]) : final.data[q][i].src[1] = k

SomeSamples(file) ==
  file.st = "ok" => \A q \in Queries : Len(file.data[q]) \in Nat \ {0}

\* Without kills and torn writes, only the step that is about to be
\* accumulated can be completed and not in the tree.
KeptInv ==
  /\ \A k \in StepDirs : /\ SomeSamples(sampled[k]) /\ SomeSamples(evaluated[k])
                         /\ evaluated[k].st # "torn"
  /\ pc # "idle" => run.m # 0
  /\ pc = "sample" => run.count # 0
  /\ pc # "replay"
  /\ final.st = "ok" =>
       \A q \in Queries : \A k \in CompletedSteps :
         InTree(q, k) \/ (pc = "accumulate" /\ k = run.step)

LEMMA InitKept == Init => KeptInv
BY FileStates DEF Init, KeptInv, SomeSamples

\* A step to another place of the call that touches neither samples nor tree.
LEMMA KeptStays ==
  ASSUME KeptInv, UNCHANGED <<sampled, evaluated, final>>,
         pc' # "idle" => run'.m # 0, pc' = "sample" => run'.count # 0, pc' # "replay",
         pc = "accumulate" => (pc' = "accumulate" /\ run' = run) \/ final.st # "ok"
  PROVE  KeptInv'
<1>1. CompletedSteps' = CompletedSteps
  BY DEF CompletedSteps
<1>2. \A q \in Queries, k \in StepDirs : InTree(q, k)' = InTree(q, k)
  BY DEF InTree
<1>3. final.st = "ok" =>
        \A q \in Queries : \A k \in CompletedSteps :
          InTree(q, k) \/ (pc' = "accumulate" /\ k = run'.step)
  BY DEF KeptInv
<1> QED BY <1>1, <1>2, <1>3 DEF KeptInv, SomeSamples, CompletedSteps

\* Where the step loop goes on.
LEMMA ToStepKept ==
  ASSUME NEW r \in RunRecord, r.m # 0, NEW k \in Nat, ToStep(r, k)
  PROVE  /\ pc' \in {"sample", "topup"} /\ run'.m # 0
         /\ pc' = "sample" => run'.count # 0
<1>1. CASE k <= r.n
  <2> DEFINE c == SelectStrategy(r.strategy, k, r.m).count
  <2>1. pc' = "sample" /\ run' = [r EXCEPT !.step = k, !.count = c]
    BY <1>1 DEF ToStep
  <2>2. c # 0
    BY DEF SelectStrategy
  <2> HIDE DEF c
  <2> QED BY <2>1, <2>2 DEF RunRecord
<1>2. CASE ~ (k <= r.n)
  <2>1. pc' = "topup" /\ run' = [r EXCEPT !.step = 0, !.count = 0]
    BY <1>2 DEF ToStep
  <2> QED BY <2>1 DEF RunRecord
<1> QED BY <1>1, <1>2

\* Of a step of a call no sample is missing: each seed is sampled.
LEMMA DrawnSome ==
  ASSUME IInv, OriginInv, KeptInv, pc = "sample", final.st = "ok", NEW gen, NEW q \in Queries
  PROVE  Len(DrawnSamples(gen)[q]) \in Nat \ {0}
<1> DEFINE drawn == DrawnSamples(gen)[q]
<1>1. TreeOK(final.data[q]) /\ FromSteps(final.data[q], Top) /\ Top \in Nat
  BY TopIs DEF IInv, FilesInv, OriginInv, TreesFrom
<1>2. Len(SeedsOf(q)) \in Nat \ {0}
  BY <1>1, SomeLast, BasePlansSome DEF SeedsOf
<1>3. run.count \in Nat \ {0}
  BY DEF IInv, CallInv, RunRecord, KeptInv
<1>4. BatchSize(q) \in Nat \ {0}
  BY <1>2, <1>3 DEF BatchSize
<1>5. drawn = [i \in 1 .. BatchSize(q) |-> drawn[i]]
  BY DEF DrawnSamples
<1> HIDE DEF drawn
<1>6. Len(drawn) = BatchSize(q)
  BY <1>4, <1>5, ListOfFunction
<1> QED BY <1>4, <1>6 DEF drawn

LEMMA SamplePlansKept ==
  ASSUME ~AllowTorn, IInv, OriginInv, KeptInv, SamplePlans
  PROVE  KeptInv'
<1>1. /\ pc = "sample" /\ UNCHANGED <<evaluated, final>>
      /\ sampled = [k \in StepDirs |-> sampled[k]]
  BY DEF IInv, FilesInv, SamplePlans
<1>2. pc' \in {"idle", "evaluate", "hung"} /\ (pc' # "idle" => run' = run)
  BY DEF SamplePlans, End, Hang
<1>3. \/ sampled' = sampled
      \/ /\ final.st = "ok"
         /\ \E gen \in [Slots -> Answers] :
              sampled' = [sampled EXCEPT ![run.step] = File(DrawnSamples(gen))]
  BY DEF SamplePlans, Tears
<1>4. \A k \in StepDirs : SomeSamples(sampled'[k])
  <2>1. CASE sampled' = sampled
    BY <2>1 DEF KeptInv
  <2>2. ASSUME final.st = "ok", NEW gen,
               sampled' = [sampled EXCEPT ![run.step] = File(DrawnSamples(gen))]
        PROVE  \A k \in StepDirs : SomeSamples(sampled'[k])
    <3> DEFINE file == File(DrawnSamples(gen))
    <3>1. SomeSamples(file)
      BY <1>1, <2>2, FileStates, DrawnSome DEF SomeSamples
    <3>2. sampled' = [sampled EXCEPT ![run.step] = file]
      BY <2>2
    <3> HIDE DEF file
    <3>3. \A k \in StepDirs : sampled'[k] \in {sampled[k], file}
      BY <1>1, <3>2
    <3> QED BY <3>1, <3>3 DEF KeptInv
  <2> QED BY <1>3, <2>1, <2>2
<1>5. /\ CompletedSteps' = CompletedSteps
      /\ \A q \in Queries, k \in StepDirs : InTree(q, k)' = InTree(q, k)
  BY <1>1 DEF CompletedSteps, InTree
<1>6. \A k \in StepDirs : SomeSamples(evaluated'[k]) /\ evaluated'[k].st # "torn"
  BY <1>1 DEF KeptInv
<1>7. final.st = "ok" => \A q \in Queries : \A k \in CompletedSteps : InTree(q, k)
  BY <1>1 DEF KeptInv
<1>8. (pc' # "idle" => run'.m # 0) /\ pc' # "replay" /\ pc' # "sample"
  BY <1>1, <1>2 DEF KeptInv
<1>9. final'.st = "ok" =>
        \A q \in Queries : \A k \in CompletedSteps' : InTree(q, k)'
  BY <1>1, <1>5, <1>7 DEF CompletedSteps
<1> QED BY <1>4, <1>6, <1>8, <1>9 DEF KeptInv, SomeSamples

LEMMA EvaluatePlansKept ==
  ASSUME ~AllowTorn, IInv, KeptInv, EvaluatePlans
  PROVE  KeptInv'
<1>1. /\ pc = "evaluate" /\ UNCHANGED <<sampled, final>> /\ run.step \in StepDirs
      /\ evaluated = [k \in StepDirs |-> evaluated[k]]
  BY ConstantTypes
  DEF IInv, CallInv, StepsInv, FilesInv, EvaluatePlans, Stepping, LastStep, StepDirs
<1>2. \/ evaluated' = evaluated /\ (End \/ (pc' = "accumulate" /\ run' = run))
      \/ /\ sampled[run.step].st = "ok" /\ pc' = "accumulate" /\ run' = run
         /\ \E timed \in [ToEvaluate(run.step) -> Metrics \cup {0}] :
              evaluated' = [evaluated EXCEPT ![run.step] =
                              File(EvaluatedSamples(run.step, timed))]
  BY DEF EvaluatePlans, Tears
<1>3. ASSUME sampled[run.step].st = "ok", NEW timed
      PROVE  SomeSamples(File(EvaluatedSamples(run.step, timed)))
  <2>1. ASSUME NEW q \in Queries
        PROVE  Len(EvaluatedSamples(run.step, timed)[q]) = Len(sampled[run.step].data[q])
    <3> DEFINE n == Len(sampled[run.step].data[q])
               done == EvaluatedSamples(run.step, timed)[q]
    <3>1. n \in Nat /\ DOMAIN sampled[run.step].data[q] = 1 .. n
      BY <1>1, <1>3, ListShape DEF IInv, FilesInv
    <3>2. done = [i \in DOMAIN sampled[run.step].data[q] |-> done[i]]
      BY DEF EvaluatedSamples
    <3> HIDE DEF done, n
    <3>3. Len(done) = n
      BY <3>1, <3>2, ListOfFunction
    <3> QED BY <3>3 DEF done, n
  <2>2. \A q \in Queries : Len(sampled[run.step].data[q]) \in Nat \ {0}
    BY <1>1, <1>3 DEF KeptInv, SomeSamples
  <2> QED BY <2>1, <2>2, FileStates DEF SomeSamples
<1>4. \/ evaluated' = evaluated
      \/ /\ pc' = "accumulate" /\ run' = run
         /\ \E file : /\ SomeSamples(file) /\ file.st = "ok"
                      /\ evaluated' = [evaluated EXCEPT ![run.step] = file]
  BY <1>2, <1>3, FileStates
<1>5. /\ \A k \in StepDirs : SomeSamples(evaluated'[k]) /\ evaluated'[k].st # "torn"
      /\ \A k \in CompletedSteps' :
           k \in CompletedSteps \/ (pc' = "accumulate" /\ k = run'.step)
  <2>1. CASE evaluated' = evaluated
    BY <2>1 DEF KeptInv, CompletedSteps
  <2>2. ASSUME pc' = "accumulate", run' = run, NEW file, SomeSamples(file), file.st = "ok",
               evaluated' = [evaluated EXCEPT ![run.step] = file]
        PROVE  /\ \A k \in StepDirs : SomeSamples(evaluated'[k]) /\ evaluated'[k].st # "torn"
               /\ \A k \in CompletedSteps' :
                    k \in CompletedSteps \/ (pc' = "accumulate" /\ k = run'.step)
    <3>1. \A k \in StepDirs : evaluated'[k] = evaluated[k] \/ (evaluated'[k] = file /\ k = run.step)
      BY <1>1, <2>2
    <3> QED BY <2>2, <3>1 DEF KeptInv, CompletedSteps
  <2> QED BY <1>4, <2>1, <2>2
<1>6. final.st = "ok" => \A q \in Queries : \A k \in CompletedSteps : InTree(q, k)
  BY <1>1 DEF KeptInv
<1>7. \A q \in Queries, k \in StepDirs : InTree(q, k)' = InTree(q, k)
  BY <1>1 DEF InTree
<1>8. final'.st = "ok" =>
        \A q \in Queries : \A k \in CompletedSteps' :
          InTree(q, k)' \/ (pc' = "accumulate" /\ k = run'.step)
  BY <1>1, <1>5, <1>6, <1>7 DEF CompletedSteps
<1>9. (pc' # "idle" => run'.m # 0) /\ pc' # "replay" /\ pc' # "sample"
  BY <1>1, <1>2 DEF KeptInv, End
<1>10. \A k \in StepDirs : SomeSamples(sampled'[k])
  BY <1>1 DEF KeptInv
<1> QED BY <1>5, <1>8, <1>9, <1>10 DEF KeptInv, SomeSamples

LEMMA AccumulateStepKept ==
  ASSUME ~AllowTorn, IInv, TInv, OriginInv, KeptInv, AccumulateStep
  PROVE  KeptInv'
<1>1. /\ pc = "accumulate" /\ run \in RunRecord /\ ~run.topup
      /\ UNCHANGED <<sampled, evaluated>>
      /\ run.m # 0
      /\ run.step \in StepDirs
  BY ConstantTypes
  DEF IInv, CallInv, StepsInv, OriginInv, KeptInv, AccumulateStep, Stepping, LastStep,
      StepDirs, stepFiles
<1>2. CompletedSteps' = CompletedSteps
  BY <1>1 DEF CompletedSteps
<1>3. \A k \in StepDirs :
        SomeSamples(sampled'[k]) /\ SomeSamples(evaluated'[k]) /\ evaluated'[k].st # "torn"
  BY <1>1 DEF KeptInv
<1>4. CASE MergeReadable(run.step)
  <2>1. final' = File(Accumulated(run.step)) /\ ToStep(run, run.step + 1)
    BY <1>1, <1>4, FileStates DEF AccumulateStep, AfterStep, MergeStep, Tears
  <2>2. pc' \in {"sample", "topup"} /\ run'.m # 0 /\ (pc' = "sample" => run'.count # 0)
    BY <1>1, <2>1, ToStepKept DEF RunRecord
  <2>3. ASSUME NEW q \in Queries, NEW k \in CompletedSteps PROVE InTree(q, k)'
    <3> DEFINE tree == final.data[q]
               samples == evaluated[run.step].data[q]
               big == AccumulateSamples(tree, samples)
               L == Len(tree)
    <3>1. /\ TreeOK(tree) /\ IsList(samples) /\ Named(samples, run.step)
          /\ Len(samples) \in Nat \ {0}
      BY <1>1, <1>4 DEF MergeReadable, IInv, FilesInv, OriginInv, NamedFile, KeptInv, SomeSamples
    <3>2. /\ L \in Nat \ {0} /\ Len(big) = L + Len(samples)
          /\ \A i \in 1 .. L : big[i] = Aged(tree[i], samples)
          /\ \A i \in 1 .. Len(samples) : big[L + i] = NodeOf(samples[i], L + i - 1)
      BY <3>1, AccumulatedNodes
    <3>3. final'.data[q] = big
      <4>1. final'.data = Accumulated(run.step)
        BY <2>1, FileStates
      <4> QED BY <4>1 DEF Accumulated
    <3>4. CASE k = run.step
      <4> DEFINE s == samples[1]
                 id == L + 1 - 1
      <4>1. 1 \in 1 .. Len(samples) /\ L + 1 \in 1 .. Len(big)
        <5> HIDE DEF big, L, samples
        <5> QED BY <3>1, <3>2
      <4>2. big[L + 1] = NodeOf(s, id) /\ s.src = <<k, 1>>
        BY <3>1, <3>2, <3>4, <4>1 DEF Named
      <4> HIDE DEF s, id
      <4>3. NodeOf(s, id).src = s.src
        BY DEF NodeOf
      <4>4. big[L + 1].src[1] = k
        BY <4>2, <4>3
      <4> HIDE DEF big, L
      <4> QED BY <3>3, <4>1, <4>4 DEF InTree
    <3>5. CASE k # run.step
      <4>1. InTree(q, k)
        BY <1>4, <3>5 DEF KeptInv, MergeReadable
      <4>2. PICK i \in 1 .. L : tree[i].src[1] = k
        BY <4>1 DEF InTree
      <4>3. i \in 1 .. Len(big)
        <5> HIDE DEF big, L, samples
        <5> QED BY <3>1, <3>2
      <4>4. "src" \in DOMAIN tree[i] /\ big[i] = Aged(tree[i], samples)
        BY <1>4, <3>2 DEF OriginInv, TreesFrom, FromSteps, MergeReadable
      <4> DEFINE node == tree[i]
      <4> HIDE DEF node, big, samples
      <4>5. big[i].src = node.src
        BY <4>4 DEF Aged, node
      <4> QED BY <3>3, <4>2, <4>3, <4>5 DEF InTree, node
    <3> QED BY <3>4, <3>5
  <2> QED BY <1>2, <1>3, <2>2, <2>3 DEF KeptInv, SomeSamples
<1>5. CASE ~MergeReadable(run.step)
  <2>1. End /\ UNCHANGED final
    BY <1>5 DEF AccumulateStep
  <2>2. final.st = "ok" => run.step \notin CompletedSteps
    <3>1. evaluated[run.step].st \in {"absent", "torn", "ok"}
      <4>1. evaluated[run.step] \in FileOf([Queries -> Seq(Sample)])
        BY <1>1 DEF TInv, FilesTyped
      <4> QED BY <4>1, FileTypes
    <3> QED BY <1>1, <1>5, <3>1 DEF MergeReadable, CompletedSteps, KeptInv
  <2>3. final.st = "ok" => \A q \in Queries : \A k \in CompletedSteps : InTree(q, k)
    BY <2>2 DEF KeptInv
  <2>4. \A q \in Queries, k \in StepDirs : InTree(q, k)' = InTree(q, k)
    BY <2>1 DEF InTree
  <2>5. final'.st = "ok" => \A q \in Queries : \A k \in CompletedSteps' : InTree(q, k)'
    BY <1>2, <2>1, <2>3, <2>4 DEF CompletedSteps
  <2> QED BY <1>3, <2>1, <2>5 DEF KeptInv, SomeSamples, End
<1> QED BY <1>4, <1>5

LEMMA RestoreKept ==
  ASSUME ~AllowTorn, "best_of" \notin Strategies, IInv, TInv, KeptInv, Restore
  PROVE  KeptInv'
<1> DEFINE r == [run EXCEPT !.maxCompleted = MaxCompleted]
           limit == RebuildLimit(r)
<1>1. /\ pc = "restore" /\ run \in RunRecord /\ run.m # 0
      /\ UNCHANGED <<sampled, evaluated>>
  BY DEF IInv, CallInv, KeptInv, Restore, stepFiles
<1>2. MaxCompleted \in Nat /\ CompletedSteps = 1 .. MaxCompleted
  BY MaxCompletedIsCompleted DEF IInv
<1>3. /\ r \in RunRecord /\ r.m # 0 /\ r.n = run.n /\ r.n \in Nat /\ r.resume = run.resume
      /\ r.maxCompleted = MaxCompleted
  BY <1>1, <1>2 DEF RunRecord
<1>4. limit \in Nat /\ limit <= MaxCompleted
  <2> HIDE DEF r
  <2>1. limit = IF MaxCompleted <= r.n THEN MaxCompleted ELSE r.n
    BY <1>2, <1>3, MinOfPair DEF RebuildLimit
  <2> HIDE DEF limit
  <2> QED BY <1>2, <1>3, <2>1
<1>5. CompletedSteps' = CompletedSteps
  BY <1>1 DEF CompletedSteps
<1>6. CASE ~r.resume \/ final.st = "absent" \/ r.n < r.maxCompleted
  <2>1. CompletedSteps = {}
    <3>1. CASE ~run.resume
      BY <1>1, <3>1 DEF IInv, FreshInv, CompletedSteps
    <3>2. CASE final.st = "absent"
      BY <3>2 DEF TInv, HistoryInv, NoStepFiles, CompletedSteps
    <3>3. CASE run.resume /\ final.st # "absent"
      BY <1>1, <1>3, <1>6, <3>3, ResumeReaches
    <3> QED BY <3>1, <3>2, <3>3
  <2>2. MaxCompleted = 0
    <3> DEFINE max == MaxCompleted
    <3>1. max \in Nat /\ 1 .. max = {}
      BY <1>2, <2>1
    <3> HIDE DEF max
    <3>2. max = 0
      BY <3>1
    <3> QED BY <3>2 DEF max
  <2>3. ToReplay(r, 1)
    BY <1>6, FileStates DEF Restore, Tears
  <2>4. limit = 0
    BY <1>4, <2>2
  <2> HIDE DEF r
  <2>5. ToStep(r, 1)
    BY <2>3, <2>4 DEF ToReplay
  <2>6. pc' \in {"sample", "topup"} /\ run'.m # 0 /\ (pc' = "sample" => run'.count # 0)
    BY <1>3, <2>5, ToStepKept
  <2> QED BY <1>1, <1>5, <2>1, <2>6 DEF KeptInv, SomeSamples
<1>7. CASE ~ (~r.resume \/ final.st = "absent" \/ r.n < r.maxCompleted)
  <2>1. ToStep(r, limit + 1) /\ UNCHANGED final
    BY <1>7 DEF Restore
  <2> HIDE DEF r, limit
  <2>2. pc' \in {"sample", "topup"} /\ run'.m # 0 /\ (pc' = "sample" => run'.count # 0)
    BY <1>3, <1>4, <2>1, ToStepKept
  <2> QED BY <1>1, <2>1, <2>2, KeptStays
<1> QED BY <1>6, <1>7

\* The steps that touch neither samples nor tree.
LEMMA QuietKept ==
  ASSUME "best_of" \notin Strategies, IInv, TInv, KeptInv,
         StartFresh \/ StartResume \/ EarlyExit \/ Curate \/ PrepareSampling
           \/ TopUp \/ ProcessResults
  PROVE  KeptInv'
<1> USE DEF End, Hang, stepFiles
<1>1. SampleCounts \subseteq Nat \ {0}
  BY SamplingRunAssumption DEF SamplingRunAssumption
<1>2. CASE StartFresh
  <2>1. PICK strategy \in Strategies, m \in SampleCounts : \E n \in StepTargets(strategy) :
          run' = [NoRun EXCEPT !.strategy = strategy, !.n = n, !.m = m]
    BY <1>2 DEF StartFresh
  <2>2. run'.m # 0
    BY <1>1, <2>1 DEF NoRun
  <2> QED BY <1>2, <2>2, KeptStays DEF StartFresh
<1>3. CASE StartResume
  <2>1. PICK m \in SampleCounts : \E n, strategy :
          run' = [NoRun EXCEPT !.strategy = strategy, !.resume = TRUE, !.n = n, !.m = m]
    BY <1>3 DEF StartResume
  <2>2. run'.m # 0
    BY <1>1, <2>1 DEF NoRun
  <2> QED BY <1>3, <2>2, KeptStays DEF StartResume
<1>4. CASE EarlyExit
  BY <1>4, KeptStays DEF EarlyExit
<1>5. CASE Curate \/ PrepareSampling
  <2>1. /\ UNCHANGED <<sampled, evaluated, final>> /\ pc \in {"curate", "prepare"}
        /\ pc' = "idle" \/ (pc' \in {"prepare", "restore"} /\ run' = run)
    BY <1>5 DEF Curate, PrepareSampling
  <2>2. run.m # 0
    BY <2>1 DEF KeptInv
  <2> QED BY <2>1, <2>2, KeptStays
<1>6. CASE TopUp
  <2>1. run.strategy # "best_of" /\ pc = "topup"
    BY <1>6 DEF TInv, HistoryInv, TopUp
  <2>2. /\ UNCHANGED <<sampled, evaluated, final>> /\ pc' = "process" /\ run' = run
        /\ run.m # 0
    BY <1>6, <2>1 DEF TopUp, TopUpApplies, KeptInv
  <2> QED BY <2>1, <2>2, KeptStays
<1>7. CASE ProcessResults
  <2>1. /\ UNCHANGED <<sampled, evaluated, final>> /\ pc = "process" /\ run.m # 0
        /\ pc' = "idle" \/ (pc' = "hung" /\ run' = run)
    BY <1>7 DEF ProcessResults, KeptInv
  <2> QED BY <2>1, KeptStays
<1> QED BY <1>2, <1>3, <1>4, <1>5, <1>6, <1>7

LEMMA KeptStep ==
  ASSUME ~AllowCrash, ~AllowTorn, "best_of" \notin Strategies
  PROVE  IInv /\ TInv /\ OriginInv /\ KeptInv /\ [Next]_vars => KeptInv'
<1> SUFFICES ASSUME IInv, TInv, OriginInv, KeptInv, [Next]_vars PROVE KeptInv'
  OBVIOUS
<1>1. CASE UNCHANGED vars
  BY <1>1 DEF vars, stepFiles, KeptInv, SomeSamples, InTree, CompletedSteps
<1>2. ~Replay /\ ~Crash
  BY DEF KeptInv, Replay, Crash
<1> QED BY <1>1, <1>2, QuietKept, RestoreKept, SamplePlansKept, EvaluatePlansKept,
          AccumulateStepKept DEF Next, CallStep

\* When no call is killed and no file torn, the tree that a call ranks holds
\* every completed step: rebuild_limit skips no step that was not accumulated.
THEOREM CompletedStepsKeptHolds ==
  ASSUME ~AllowLowering, ~AllowCrash, ~AllowTorn, "best_of" \notin Strategies
  PROVE  Spec => []CompletedStepsKept
<1>1. IInv /\ TInv /\ OriginInv /\ KeptInv /\ [Next]_vars => KeptInv'
  BY KeptStep
<1>2. IInv /\ KeptInv => CompletedStepsKept
  <2> SUFFICES ASSUME IInv, KeptInv, pc = "process", final.st = "ok", NEW q \in Queries,
                      NEW k \in CompletedSteps
               PROVE  k \in StepsInTree(q)
    BY DEF CompletedStepsKept
  <2>1. PICK i \in 1 .. Len(final.data[q]) : final.data[q][i].src[1] = k
    BY DEF KeptInv, InTree
  <2>2. i \in DOMAIN final.data[q]
    BY ListShape DEF IInv, FilesInv, TreeOK
  <2>3. k # 0
    BY DEF CompletedSteps, StepDirs
  <2> QED BY <2>1, <2>2, <2>3 DEF StepsInTree
<1> QED BY <1>1, <1>2, InitKept, InvHolds, TInvHolds, OriginHolds, PTL DEF Spec

-----------------------------------------------------------------------------
(* The eighth invariant: what a top-up draws. *)

\* Samples that were drawn were evaluated, unless the call at hand is about to.
PairedInv ==
  \A k \in StepDirs : sampled[k].st = "ok" =>
    evaluated[k].st # "absent" \/ (pc = "evaluate" /\ k = run.step)

Enough == final.st = "ok" => Len(final.data[1]) - 1 >= run.m

\* What a best_of call that resumes a directory draws is what is missing, and
\* no samples were left where it draws them.
DrawInv ==
  /\ pc = "replay" => evaluated[run.maxCompleted + 1].st = "absent"
  /\ pc = "topup" => Enough \/ evaluated[run.maxCompleted + 1].st = "absent"
  /\ pc = "process" => Enough
  /\ pc \in {"sample", "evaluate"} => evaluated[run.step].st = "absent"
  /\ pc \in Stepping /\ final.st = "ok" =>
       Len(final.data[1]) - 1 + run.count >= run.m
  /\ pc = "evaluate" /\ sampled[run.step].st = "ok" =>
       Len(sampled[run.step].data[1]) = run.count
  /\ pc = "accumulate" /\ evaluated[run.step].st = "ok" =>
       Len(evaluated[run.step].data[1]) = run.count

SupplyInv == PairedInv /\ (TopUpApplies => DrawInv)

\* All samples of a tree but the root are counted.
LEMMA SamplesCounted ==
  ASSUME IInv, final.st = "ok"
  PROVE  Len(final.data[1]) \in Nat /\ SampleCount(1) = Len(final.data[1]) - 1
<1> DEFINE tree == final.data[1]
           n == Len(tree)
           S == {i \in DOMAIN tree : tree[i].id # 0}
<1>1. TreeOK(tree)
  BY ConstantTypes DEF IInv, FilesInv
<1>2. n \in Nat \ {0} /\ DOMAIN tree = 1 .. n
  BY <1>1, ListShape, EmptySeq DEF TreeOK, IsList
<1>3. S = 2 .. n
  <2>1. \A i \in 1 .. n : tree[i].id = i - 1
    BY <1>1, <1>2 DEF TreeOK
  <2> HIDE DEF tree, n
  <2> QED BY <1>2, <2>1
<1>4. Cardinality(S) = n - 1
  <2> HIDE DEF S, n
  <2>1. 2 \in Int /\ n \in Int
    BY <1>2
  <2>2. Cardinality(2 .. n) = IF 2 > n THEN 0 ELSE n - 2 + 1
    BY <2>1, FS_Interval
  <2> QED BY <1>2, <1>3, <2>2
<1> QED BY <1>2, <1>4 DEF SampleCount

\* What a merge adds.
LEMMA MergeAdds ==
  ASSUME IInv, NEW k \in StepDirs, MergeReadable(k), final' = File(Accumulated(k))
  PROVE  /\ Len(evaluated[k].data[1]) \in Nat /\ Len(final.data[1]) \in Nat
         /\ Len(final'.data[1]) = Len(final.data[1]) + Len(evaluated[k].data[1])
<1> DEFINE tree == final.data[1]
           samples == evaluated[k].data[1]
<1>1. TreeOK(tree) /\ IsList(samples)
  BY ConstantTypes DEF IInv, FilesInv, MergeReadable
<1>2. /\ Len(tree) \in Nat /\ Len(samples) \in Nat
      /\ Len(AccumulateSamples(tree, samples)) = Len(tree) + Len(samples)
  BY <1>1, AccumulatedNodes
<1>3. final'.data[1] = AccumulateSamples(tree, samples)
  <2>1. final'.data = Accumulated(k)
    BY FileStates
  <2> QED BY <2>1, ConstantTypes DEF Accumulated
<1> QED BY <1>2, <1>3

\* A best_of step has one seed: it draws as many samples as it counts.
LEMMA DrawnCounted ==
  ASSUME IInv, pc = "sample", run.strategy = "best_of", NEW gen
  PROVE  Len(DrawnSamples(gen)[1]) = run.count
<1> DEFINE drawn == DrawnSamples(gen)[1]
           by == SelectStrategy(run.strategy, run.step, run.m).by
<1>1. run.count \in Nat
  BY DEF IInv, CallInv, RunRecord
<1>2. by.start = "original"
  BY DEF SelectStrategy, ORIGINAL_STRATEGY
<1>3. SeedsOf(1) = <<IndexOf(final.data[1], 0)>>
  <2> HIDE DEF by
  <2>1. BasePlans(final.data[1], by) = <<IndexOf(final.data[1], 0)>>
    BY <1>2 DEF BasePlans
  <2> QED BY <2>1 DEF SeedsOf, by
<1>4. BatchSize(1) = run.count
  <2>1. Len(SeedsOf(1)) = 1
    BY <1>3
  <2>2. BatchSize(1) = 1 * run.count
    BY <2>1 DEF BatchSize
  <2> QED BY <1>1, <2>2
<1>5. drawn = [i \in 1 .. BatchSize(1) |-> drawn[i]]
  BY ConstantTypes DEF DrawnSamples
<1> HIDE DEF drawn
<1>6. Len(drawn) = BatchSize(1)
  BY <1>1, <1>4, <1>5, ListOfFunction
<1> QED BY <1>4, <1>6 DEF drawn

\* Where a call goes that neither draws nor merges.
LEMMA QuietSupply ==
  ASSUME SupplyInv, UNCHANGED <<sampled, evaluated>>, pc # "evaluate",
         pc' \in {"idle", "curate", "prepare", "restore", "hung"}
  PROVE  SupplyInv'
<1>1. PairedInv'
  BY DEF SupplyInv, PairedInv
<1>2. DrawInv'
  BY DEF DrawInv, Stepping
<1> QED BY <1>1, <1>2 DEF SupplyInv

\* The step loop is entered behind the completed steps.
LEMMA ToStepSupply ==
  ASSUME SupplyInv, UNCHANGED <<sampled, evaluated>>, pc # "evaluate",
         NEW r \in RunRecord, NEW k \in Nat, ToStep(r, k),
         final' = final \/ final'.st = "torn" \/ final'.st = "ok",
         final'.st = "ok" => Len(final'.data[1]) \in Nat \ {0},
         r.strategy = "best_of" /\ r.resume /\ r.n = 1 /\ k <= 1 => evaluated[k].st = "absent",
         r.strategy = "best_of" /\ r.resume /\ r.n = 1 /\ k > 1 =>
           \/ evaluated[r.maxCompleted + 1].st = "absent"
           \/ final'.st = "ok" => Len(final'.data[1]) - 1 >= r.m
  PROVE  SupplyInv'
<1>1. CASE k <= r.n
  <2> DEFINE c == SelectStrategy(r.strategy, k, r.m).count
  <2>1. pc' = "sample" /\ run' = [r EXCEPT !.step = k, !.count = c]
    BY <1>1 DEF ToStep
  <2>2. r.strategy = "best_of" => c = r.m
    BY DEF SelectStrategy
  <2> HIDE DEF c
  <2>3. /\ run'.strategy = r.strategy /\ run'.resume = r.resume /\ run'.n = r.n
        /\ run'.m = r.m /\ run'.step = k /\ run'.count = c
    BY <2>1 DEF RunRecord
  <2>4. PairedInv'
    BY <2>1 DEF SupplyInv, PairedInv
  <2>5. ASSUME TopUpApplies' PROVE DrawInv'
    <3>1. r.strategy = "best_of" /\ r.resume /\ r.n = 1 /\ run'.count = run'.m /\ r.m \in Nat
      BY <2>2, <2>3, <2>5 DEF TopUpApplies, RunRecord
    <3>2. evaluated[k].st = "absent"
      BY <1>1, <3>1
    <3> QED BY <2>1, <2>3, <3>1, <3>2 DEF DrawInv, Stepping
  <2> QED BY <2>4, <2>5 DEF SupplyInv
<1>2. CASE ~ (k <= r.n)
  <2>1. pc' = "topup" /\ run' = [r EXCEPT !.step = 0, !.count = 0]
    BY <1>2 DEF ToStep
  <2>2. /\ run'.strategy = r.strategy /\ run'.resume = r.resume /\ run'.n = r.n
        /\ run'.m = r.m /\ run'.maxCompleted = r.maxCompleted
    BY <2>1 DEF RunRecord
  <2>3. PairedInv'
    BY <2>1 DEF SupplyInv, PairedInv
  <2>4. ASSUME TopUpApplies' PROVE DrawInv'
    <3>1. r.strategy = "best_of" /\ r.resume /\ r.n = 1 /\ k > 1
      BY <1>2, <2>2, <2>4 DEF TopUpApplies
    <3> QED BY <2>1, <2>2, <3>1 DEF DrawInv, Stepping, Enough
  <2> QED BY <2>3, <2>4 DEF SupplyInv
<1> QED BY <1>1, <1>2

LEMMA RestoreSupply ==
  ASSUME IInv, SupplyInv, Restore
  PROVE  SupplyInv'
<1> DEFINE r == [run EXCEPT !.maxCompleted = MaxCompleted]
           limit == RebuildLimit(r)
<1>1. /\ pc = "restore" /\ run \in RunRecord /\ ~run.topup
      /\ UNCHANGED <<sampled, evaluated>>
      /\ sessions \in 1 .. MaxSessions
  BY DEF IInv, CallInv, Restore, stepFiles, Stepping
<1>2. MaxCompleted \in Nat /\ CompletedSteps = 1 .. MaxCompleted /\ MaxCompleted <= LastStep
  BY MaxCompletedIsCompleted DEF IInv
<1>3. /\ r \in RunRecord /\ r.n = run.n /\ r.n \in Nat /\ r.maxCompleted = MaxCompleted
  BY <1>1, <1>2 DEF RunRecord
<1>4. limit \in Nat /\ limit = IF MaxCompleted <= r.n THEN MaxCompleted ELSE r.n
  <2> HIDE DEF r
  <2> QED BY <1>2, <1>3, MinOfPair DEF RebuildLimit
<1>5. evaluated[MaxCompleted + 1].st = "absent"
  <2> DEFINE k == MaxCompleted + 1
  <2>1. k \in StepDirs /\ k \notin 1 .. MaxCompleted
    BY <1>1, <1>2, ConstantTypes DEF LastStep, StepDirs
  <2> HIDE DEF k
  <2> QED BY <1>2, <2>1 DEF CompletedSteps, k
<1>6. final' = final \/ final'.st \in {"torn", "ok"}
  BY <1>1, FileStates DEF Restore, IInv, FilesInv, CallInv
<1>7. final'.st = "ok" => Len(final'.data[1]) \in Nat \ {0}
  <2>1. IInv'
    BY RestoreInv
  <2>2. final'.st = "ok" => TreeOK(final'.data[1])
    BY <2>1, ConstantTypes DEF IInv, FilesInv
  <2> QED BY <2>2, ListShape, EmptySeq DEF TreeOK, IsList
<1>8. \/ End
      \/ ToReplay(r, 1)
      \/ ToStep(r, limit + 1)
  BY DEF Restore
<1>9. CASE End
  BY <1>1, <1>9, QuietSupply DEF End
<1> HIDE DEF r, limit
<1>10. ASSUME NEW k \in Nat, ToStep(r, k), k > limit, k \in {1, limit + 1}
       PROVE  SupplyInv'
  <2>1. ASSUME k <= 1, r.n = 1
        PROVE  k = MaxCompleted + 1
    BY <1>2, <1>3, <1>4, <1>10, <2>1
  <2> QED BY <1>1, <1>3, <1>5, <1>6, <1>7, <1>10, <2>1, ToStepSupply
<1>11. CASE ToStep(r, limit + 1)
  BY <1>4, <1>10, <1>11
<1>12. CASE ToReplay(r, 1)
  <2>1. CASE 1 <= limit
    <3>1. pc' = "replay" /\ run' = [r EXCEPT !.step = 1]
      BY <1>12, <2>1 DEF ToReplay, limit
    <3>2. run'.maxCompleted = MaxCompleted
      BY <1>3, <3>1 DEF RunRecord
    <3>3. PairedInv'
      BY <1>1, <3>1 DEF SupplyInv, PairedInv
    <3>4. DrawInv'
      BY <1>1, <1>5, <3>1, <3>2 DEF DrawInv, Stepping
    <3> QED BY <3>3, <3>4 DEF SupplyInv
  <2>2. CASE ~ (1 <= limit)
    <3>1. ToStep(r, 1)
      BY <1>12, <2>2 DEF ToReplay, limit
    <3> QED BY <1>4, <1>10, <2>2, <3>1
  <2> QED BY <2>1, <2>2
<1> QED BY <1>8, <1>9, <1>11, <1>12

LEMMA ReplaySupply ==
  ASSUME IInv, SupplyInv, Replay
  PROVE  SupplyInv'
<1>1. /\ pc = "replay" /\ run \in RunRecord /\ ~run.topup
      /\ UNCHANGED <<sampled, evaluated>>
      /\ run.step \in 1 .. RebuildLimit(run)
  BY DEF IInv, CallInv, StepsInv, Replay, stepFiles, Stepping
<1>2. run.step \in Nat /\ run.step >= 1
  <2>1. RebuildLimit(run) \in Nat
    BY <1>1, MinOfPair DEF RebuildLimit, RunRecord
  <2> QED BY <1>1, <2>1
<1>3. final'.st = "ok" => Len(final'.data[1]) \in Nat \ {0}
  <2>1. IInv'
    BY ReplayInv
  <2>2. final'.st = "ok" => TreeOK(final'.data[1])
    BY <2>1, ConstantTypes DEF IInv, FilesInv
  <2> QED BY <2>2, ListShape, EmptySeq DEF TreeOK, IsList
<1>4. final' = final \/ final'.st \in {"torn", "ok"}
  BY FileStates DEF Replay, MergeStep
<1>5. End \/ ToReplay(run, run.step + 1)
  BY DEF Replay
<1>6. CASE End
  BY <1>1, <1>6, QuietSupply DEF End
<1>7. CASE ToReplay(run, run.step + 1)
  <2> DEFINE k == run.step + 1
  <2>1. CASE k <= RebuildLimit(run)
    <3>1. pc' = "replay" /\ run' = [run EXCEPT !.step = k]
      BY <1>7, <2>1 DEF ToReplay
    <3>2. /\ run'.maxCompleted = run.maxCompleted /\ run'.strategy = run.strategy
          /\ run'.resume = run.resume /\ run'.n = run.n
      BY <1>1, <3>1 DEF RunRecord
    <3>3. PairedInv'
      BY <1>1, <3>1 DEF SupplyInv, PairedInv
    <3>4. TopUpApplies' => DrawInv'
      BY <1>1, <3>1, <3>2 DEF DrawInv, SupplyInv, TopUpApplies, Stepping
    <3> QED BY <3>3, <3>4 DEF SupplyInv
  <2>2. CASE ~ (k <= RebuildLimit(run))
    <3>1. ToStep(run, k) /\ k \in Nat /\ ~ (k <= 1)
      BY <1>2, <1>7, <2>2 DEF ToReplay
    <3>2. run.strategy = "best_of" /\ run.resume /\ run.n = 1 =>
            evaluated[run.maxCompleted + 1].st = "absent"
      BY <1>1 DEF SupplyInv, DrawInv, TopUpApplies
    <3> HIDE DEF k
    <3> QED BY <1>1, <1>3, <1>4, <3>1, <3>2, ToStepSupply
  <2> QED BY <2>1, <2>2
<1> QED BY <1>5, <1>6, <1>7

LEMMA SamplePlansSupply ==
  ASSUME IInv, SupplyInv, SamplePlans
  PROVE  SupplyInv'
<1>1. /\ pc = "sample" /\ UNCHANGED <<evaluated, final>> /\ run.step \in StepDirs
      /\ sampled = [k \in StepDirs |-> sampled[k]]
  BY ConstantTypes
  DEF IInv, CallInv, StepsInv, FilesInv, SamplePlans, Stepping, LastStep, StepDirs
<1>2. \/ End \/ Hang
      \/ pc' = "evaluate" /\ run' = run
  BY DEF SamplePlans
<1>3. \/ sampled' = sampled /\ (pc' = "evaluate" => ReusesSampled)
      \/ sampled' = [sampled EXCEPT ![run.step] = Torn]
      \/ /\ pc' = "evaluate"
         /\ \E gen : sampled' = [sampled EXCEPT ![run.step] = File(DrawnSamples(gen))]
  BY DEF SamplePlans, End, Hang
<1>4. \A k \in StepDirs : k # run.step => sampled'[k] = sampled[k]
  BY <1>1, <1>3
<1>5. sampled'[run.step] = sampled[run.step] \/ sampled'[run.step].st = "torn" \/ pc' = "evaluate"
  BY <1>1, <1>3, FileStates
<1>6. PairedInv'
  BY <1>1, <1>2, <1>4, <1>5 DEF SupplyInv, PairedInv, End, Hang
<1>7. ASSUME TopUpApplies' PROVE DrawInv'
  <2>1. CASE pc' # "evaluate"
    BY <1>2, <2>1 DEF DrawInv, End, Hang, Stepping
  <2>2. CASE pc' = "evaluate"
    <3>1. run' = run
      BY <1>2, <2>2 DEF End, Hang
    <3>2. DrawInv /\ run.strategy = "best_of" /\ run.resume
      BY <1>7, <3>1 DEF SupplyInv, TopUpApplies
    <3>3. evaluated[run.step].st = "absent"
      BY <1>1, <3>2 DEF DrawInv
    <3>4. sampled'[run.step].st = "ok" => Len(sampled'[run.step].data[1]) = run.count
      <4>1. CASE sampled' = sampled
        <5>1. sampled[run.step].st # "ok"
          BY <1>1, <3>3 DEF SupplyInv, PairedInv
        <5> QED BY <4>1, <5>1
      <4>2. CASE sampled' = [sampled EXCEPT ![run.step] = Torn]
        BY <1>1, <4>2, FileStates
      <4>3. ASSUME NEW gen, sampled' = [sampled EXCEPT ![run.step] = File(DrawnSamples(gen))]
            PROVE  Len(sampled'[run.step].data[1]) = run.count
        <5>1. sampled'[run.step] = File(DrawnSamples(gen))
          BY <1>1, <4>3
        <5> QED BY <1>1, <3>2, <5>1, FileStates, DrawnCounted
      <4> QED BY <1>3, <4>1, <4>2, <4>3
    <3> QED BY <1>1, <2>2, <3>1, <3>2, <3>3, <3>4 DEF DrawInv, Stepping
  <2> QED BY <2>1, <2>2
<1> QED BY <1>6, <1>7 DEF SupplyInv

LEMMA EvaluatePlansSupply ==
  ASSUME IInv, SupplyInv, EvaluatePlans
  PROVE  SupplyInv'
<1>1. /\ pc = "evaluate" /\ UNCHANGED <<sampled, final>> /\ run.step \in StepDirs
      /\ evaluated = [k \in StepDirs |-> evaluated[k]]
  BY ConstantTypes
  DEF IInv, CallInv, StepsInv, FilesInv, EvaluatePlans, Stepping, LastStep, StepDirs
<1>2. End \/ (pc' = "accumulate" /\ run' = run)
  BY DEF EvaluatePlans
<1>3. \/ evaluated' = evaluated /\ (ReusesEvaluated \/ sampled[run.step].st # "ok")
      \/ evaluated' = [evaluated EXCEPT ![run.step] = Torn]
      \/ /\ sampled[run.step].st = "ok"
         /\ \E timed : evaluated' = [evaluated EXCEPT ![run.step] =
                                       File(EvaluatedSamples(run.step, timed))]
  BY DEF EvaluatePlans
<1>4. \A k \in StepDirs : k # run.step => evaluated'[k] = evaluated[k]
  BY <1>1, <1>3
<1>5. \/ evaluated'[run.step].st # "absent"
      \/ evaluated'[run.step] = evaluated[run.step] /\ sampled[run.step].st # "ok"
  BY <1>1, <1>3, FileStates DEF ReusesEvaluated
<1>6. PairedInv'
  BY <1>1, <1>2, <1>4, <1>5 DEF SupplyInv, PairedInv, End
<1>7. ASSUME TopUpApplies' PROVE DrawInv'
  <2>1. CASE End
    BY <2>1 DEF DrawInv, End, Stepping
  <2>2. CASE pc' = "accumulate" /\ run' = run
    <3>1. DrawInv
      BY <1>7, <2>2 DEF SupplyInv, TopUpApplies
    <3>2. evaluated[run.step].st = "absent"
      BY <1>1, <3>1 DEF DrawInv
    <3>3. evaluated'[run.step].st = "ok" => Len(evaluated'[run.step].data[1]) = run.count
      <4>1. CASE evaluated' = evaluated
        BY <3>2, <4>1
      <4>2. CASE evaluated' = [evaluated EXCEPT ![run.step] = Torn]
        BY <1>1, <4>2, FileStates
      <4>3. ASSUME sampled[run.step].st = "ok", NEW timed,
                   evaluated' = [evaluated EXCEPT ![run.step] =
                                   File(EvaluatedSamples(run.step, timed))]
            PROVE  Len(evaluated'[run.step].data[1]) = run.count
        <5> DEFINE n == Len(sampled[run.step].data[1])
                   done == EvaluatedSamples(run.step, timed)[1]
        <5>1. n \in Nat /\ DOMAIN sampled[run.step].data[1] = 1 .. n
          BY <1>1, <4>3, ListShape, ConstantTypes DEF IInv, FilesInv
        <5>2. done = [i \in DOMAIN sampled[run.step].data[1] |-> done[i]]
          BY ConstantTypes DEF EvaluatedSamples
        <5>3. evaluated'[run.step] = File(EvaluatedSamples(run.step, timed))
          BY <1>1, <4>3
        <5>4. evaluated'[run.step].data[1] = done
          BY <5>3, FileStates
        <5> HIDE DEF done, n
        <5>5. Len(done) = n
          BY <5>1, <5>2, ListOfFunction
        <5>6. n = run.count
          BY <1>1, <3>1, <4>3 DEF DrawInv, n
        <5> QED BY <5>4, <5>5, <5>6
      <4> QED BY <1>3, <4>1, <4>2, <4>3
    <3>4. final.st = "ok" => Len(final.data[1]) - 1 + run.count >= run.m
      BY <1>1, <3>1 DEF DrawInv, Stepping
    <3> QED BY <1>1, <2>2, <3>3, <3>4 DEF DrawInv, Stepping
  <2> QED BY <1>2, <2>1, <2>2
<1> QED BY <1>6, <1>7 DEF SupplyInv

LEMMA AccumulateStepSupply ==
  ASSUME IInv, SupplyInv, AccumulateStep
  PROVE  SupplyInv'
<1>1. /\ pc = "accumulate" /\ UNCHANGED <<sampled, evaluated>>
      /\ run.step \in StepDirs /\ run \in RunRecord
  BY ConstantTypes
  DEF IInv, CallInv, StepsInv, AccumulateStep, stepFiles, Stepping, LastStep, StepDirs
<1>2. End \/ (MergeReadable(run.step) /\ final' = File(Accumulated(run.step)) /\ AfterStep)
  BY FileStates DEF AccumulateStep, MergeStep
<1>3. CASE End
  BY <1>1, <1>3, QuietSupply DEF End
<1>4. CASE MergeReadable(run.step) /\ final' = File(Accumulated(run.step)) /\ AfterStep
  <2>1. /\ Len(evaluated[run.step].data[1]) \in Nat /\ Len(final.data[1]) \in Nat
        /\ Len(final'.data[1]) = Len(final.data[1]) + Len(evaluated[run.step].data[1])
    BY <1>1, <1>4, MergeAdds
  <2>2. final'.st = "ok" /\ final.st = "ok" /\ evaluated[run.step].st = "ok"
    BY <1>4, FileStates DEF MergeReadable
  <2>3. TopUpApplies => Len(final'.data[1]) - 1 >= run.m
    <3>1. TopUpApplies => /\ Len(final.data[1]) - 1 + run.count >= run.m
                          /\ Len(evaluated[run.step].data[1]) = run.count
      BY <1>1, <2>2 DEF SupplyInv, DrawInv, Stepping
    <3> DEFINE a == Len(final.data[1])
               b == Len(final'.data[1])
               c == Len(evaluated[run.step].data[1])
    <3>2. a \in Nat /\ c \in Nat /\ b = a + c /\ run.m \in Nat
      BY <1>1, <2>1 DEF RunRecord
    <3>3. TopUpApplies => a - 1 + c >= run.m
      BY <3>1
    <3> HIDE DEF a, b, c
    <3>4. TopUpApplies => b - 1 >= run.m
      BY <3>2, <3>3
    <3> QED BY <3>4 DEF b
  <2>4. CASE run.topup
    <3>1. pc' = "process" /\ run' = [run EXCEPT !.step = 0, !.count = 0]
      BY <1>4, <2>4 DEF AfterStep
    <3>2. /\ run'.strategy = run.strategy /\ run'.resume = run.resume /\ run'.n = run.n
          /\ run'.m = run.m
      BY <1>1, <3>1 DEF RunRecord
    <3>3. PairedInv'
      BY <1>1, <3>1 DEF SupplyInv, PairedInv
    <3>4. TopUpApplies' => DrawInv'
      BY <2>3, <3>1, <3>2 DEF DrawInv, TopUpApplies, Enough, Stepping
    <3> QED BY <3>3, <3>4 DEF SupplyInv
  <2>5. CASE ~run.topup
    <3>1. ToStep(run, run.step + 1) /\ run.step + 1 \in Nat /\ ~ (run.step + 1 <= 1)
      BY <1>1, <1>4, <2>5, ConstantTypes DEF AfterStep, StepDirs
    <3>2. IInv'
      BY AccumulateStepInv
    <3>3. Len(final'.data[1]) \in Nat \ {0}
      <4>1. TreeOK(final'.data[1])
        BY <2>2, <3>2, ConstantTypes DEF IInv, FilesInv
      <4> QED BY <4>1, ListShape, EmptySeq DEF TreeOK, IsList
    <3>4. run.strategy = "best_of" /\ run.resume /\ run.n = 1 =>
            Len(final'.data[1]) - 1 >= run.m
      BY <2>3 DEF TopUpApplies
    <3> DEFINE k == run.step + 1
    <3>5. ToStep(run, k) /\ k \in Nat /\ ~ (k <= 1)
      BY <3>1
    <3> HIDE DEF k
    <3> QED BY <1>1, <2>2, <3>3, <3>4, <3>5, ToStepSupply
  <2> QED BY <2>4, <2>5
<1> QED BY <1>2, <1>3, <1>4

LEMMA TopUpSupply ==
  ASSUME IInv, SupplyInv, TopUp
  PROVE  SupplyInv'
<1>1. /\ pc = "topup" /\ UNCHANGED <<sampled, evaluated, final>> /\ run \in RunRecord
      /\ final.st \in {"torn", "ok"}
  BY DEF IInv, CallInv, FilesInv, TopUp, stepFiles, Restored, Stepping
<1>2. CASE TopUpApplies /\ final.st = "torn"
  BY <1>1, <1>2, QuietSupply DEF TopUp, End
<1>3. CASE TopUpApplies /\ final.st # "torn" /\ SampleCount(1) < run.m
  <2> DEFINE count == run.m - SampleCount(1)
  <2>1. pc' = "sample" /\ run' = [run EXCEPT !.topup = TRUE, !.step = run.maxCompleted + 1,
                                             !.count = count]
    BY <1>3 DEF TopUp
  <2>2. Len(final.data[1]) \in Nat /\ SampleCount(1) = Len(final.data[1]) - 1 /\ run.m \in Nat
    BY <1>1, <1>3, SamplesCounted DEF RunRecord
  <2>3. Len(final.data[1]) - 1 + count >= run.m /\ ~ (Len(final.data[1]) - 1 >= run.m)
    BY <1>3, <2>2
  <2> HIDE DEF count
  <2>4. run'.step = run.maxCompleted + 1 /\ run'.count = count /\ run'.m = run.m
    BY <1>1, <2>1 DEF RunRecord
  <2>5. evaluated[run.maxCompleted + 1].st = "absent"
    BY <1>1, <1>3, <2>3 DEF SupplyInv, DrawInv, Enough
  <2>6. PairedInv'
    BY <1>1, <2>1 DEF SupplyInv, PairedInv
  <2>7. DrawInv'
    BY <1>1, <2>1, <2>3, <2>4, <2>5 DEF DrawInv, Stepping
  <2> QED BY <2>6, <2>7 DEF SupplyInv
<1>4. CASE ~TopUpApplies \/ (final.st # "torn" /\ ~ (SampleCount(1) < run.m))
  <2>1. pc' = "process" /\ run' = run
    BY <1>4 DEF TopUp
  <2>2. PairedInv'
    BY <1>1, <2>1 DEF SupplyInv, PairedInv
  <2>3. TopUpApplies => Enough
    <3>1. final.st = "ok" => Len(final.data[1]) \in Nat /\ SampleCount(1) = Len(final.data[1]) - 1
      BY SamplesCounted
    <3>2. run.m \in Nat
      BY <1>1 DEF RunRecord
    <3> QED BY <1>1, <1>4, <3>1, <3>2 DEF Enough
  <2>4. TopUpApplies' => DrawInv'
    BY <1>1, <2>1, <2>3 DEF DrawInv, TopUpApplies, Enough, Stepping
  <2> QED BY <2>2, <2>4 DEF SupplyInv
<1> QED BY <1>1, <1>2, <1>3, <1>4

LEMMA SupplyStep ==
  ASSUME ~AllowCrash
  PROVE  IInv /\ SupplyInv /\ [Next]_vars => SupplyInv'
<1> SUFFICES ASSUME IInv, SupplyInv, [Next]_vars PROVE SupplyInv'
  OBVIOUS
<1>1. CASE UNCHANGED vars
  BY <1>1 DEF vars, stepFiles, SupplyInv, PairedInv, DrawInv, TopUpApplies, Enough
<1>2. CASE StartFresh \/ StartResume \/ EarlyExit \/ Curate \/ PrepareSampling \/ ProcessResults
  <2>1. /\ UNCHANGED <<sampled, evaluated>> /\ pc # "evaluate"
        /\ pc' \in {"idle", "curate", "prepare", "restore", "hung"}
    BY <1>2 DEF StartFresh, StartResume, EarlyExit, Curate, PrepareSampling, ProcessResults,
       End, Hang, stepFiles
  <2> QED BY <2>1, QuietSupply
<1>3. ~Crash
  BY DEF Crash
<1> QED BY <1>1, <1>2, <1>3, RestoreSupply, ReplaySupply, SamplePlansSupply,
          EvaluatePlansSupply, AccumulateStepSupply, TopUpSupply DEF Next, CallStep

\* A resumed best_of call that is not killed ends with the samples asked for,
\* whatever was torn before and however many steps earlier calls asked for:
\* what run_sampling_steps counts as missing is what its top-up draws.
THEOREM TopUpReachesTargetHolds ==
  ASSUME ~AllowCrash
  PROVE  Spec => []TopUpReachesTarget
<1>1. Init => SupplyInv
  BY FileStates DEF Init, SupplyInv, PairedInv, DrawInv, Stepping
<1>2. IInv /\ SupplyInv /\ [Next]_vars => SupplyInv'
  BY SupplyStep
<1>3. SupplyInv => TopUpReachesTarget
  BY DEF SupplyInv, DrawInv, Enough, TopUpReachesTarget
<1> QED BY <1>1, <1>2, <1>3, InvHolds, PTL DEF Spec

-----------------------------------------------------------------------------
(* The ninth invariant: the directory as a log of its steps. *)

\* The steps up to "top" are in the tree, one after the other, each with its
\* first sample, and behind the root.
Logs(tree, top) ==
  /\ tree[1].src = <<0, 0>>
  /\ \A i \in 2 .. Len(tree) : tree[i].src[1] # 0
  /\ \A i, j \in 1 .. Len(tree) : i < j => tree[i].src[1] <= tree[j].src[1]
  /\ \A k \in 1 .. top : \E i \in 1 .. Len(tree) : tree[i].src = <<k, 1>>

Heads(tree) == {i \in DOMAIN tree : tree[i].src[2] = 1}

\* A rising function lists what it takes in order.
LEMMA FileOrderOf ==
  ASSUME NEW n \in Nat, NEW S, S \subseteq Nat, IsFiniteSet(S), NEW h \in [1 .. n -> S],
         \A k, l \in 1 .. n : k < l => h[k] < h[l],
         \A i \in S : \E k \in 1 .. n : h[k] = i
  PROVE  DOMAIN FileOrder(S) = 1 .. n /\ \A k \in 1 .. n : FileOrder(S)[k] = h[k]
<1>1. \A k, l \in 1 .. n : h[k] = h[l] => k = l
  <2> SUFFICES ASSUME NEW k \in 1 .. n, NEW l \in 1 .. n, h[k] = h[l], k # l PROVE FALSE
    OBVIOUS
  <2>1. h[k] \in Nat /\ h[l] \in Nat
    OBVIOUS
  <2> QED BY <2>1
<1>2. ASSUME NEW m \in 0 .. n, NEW T, T \in SUBSET S,
             \A k \in 1 .. m : h[k] \in T, \A i \in T : \E k \in 1 .. m : h[k] = i
      PROVE  Cardinality(T) = m
  <2> DEFINE f == [k \in 1 .. m |-> h[k]]
             D == 1 .. m
  <2>1. f \in [D -> T]
    BY <1>2
  <2>2. \A k, l \in D : f[k] = f[l] => k = l
    BY <1>1, <1>2
  <2>3. \A i \in T : \E k \in D : f[k] = i
    BY <1>2
  <2>4. IsFiniteSet(D) /\ Cardinality(D) = m
    BY <1>2, FS_Interval
  <2> HIDE DEF f, D
  <2>5. f \in Surjection(D, T) /\ f \in Injection(D, T)
    BY <2>1, <2>2, <2>3 DEF Surjection, Injection, IsInjective
  <2>6. Cardinality(T) = Cardinality(D)
    BY <2>4, <2>5, FS_Surjection
  <2> QED BY <2>4, <2>6
<1>3. Cardinality(S) = n
  <2>1. n \in 0 .. n /\ S \in SUBSET S /\ \A k \in 1 .. n : h[k] \in S
    OBVIOUS
  <2> QED BY <1>2, <2>1
<1>4. ASSUME NEW k \in 1 .. n PROVE Cardinality({j \in S : j < h[k]}) = k - 1
  <2> DEFINE T == {j \in S : j < h[k]}
             m == k - 1
  <2>1. m \in 0 .. n /\ T \in SUBSET S
    OBVIOUS
  <2>2. \A l \in 1 .. m : h[l] \in T
    OBVIOUS
  <2>3. \A i \in T : \E l \in 1 .. m : h[l] = i
    <3> SUFFICES ASSUME NEW i \in T PROVE \E l \in 1 .. m : h[l] = i
      OBVIOUS
    <3>1. PICK l \in 1 .. n : h[l] = i
      OBVIOUS
    <3>2. h[l] < h[k] /\ h[l] \in Nat /\ h[k] \in Nat
      BY <3>1
    <3>3. l < k
      BY <3>2
    <3> QED BY <3>1, <3>3
  <2> HIDE DEF T, m
  <2>4. Cardinality(T) = m
    BY <1>2, <2>1, <2>2, <2>3
  <2> QED BY <2>4 DEF T, m
<1>5. ASSUME NEW k \in 1 .. n PROVE FileOrder(S)[k] = h[k]
  <2>1. \A i \in S : Cardinality({j \in S : j < i}) = k - 1 => i = h[k]
    <3> SUFFICES ASSUME NEW i \in S, Cardinality({j \in S : j < i}) = k - 1 PROVE i = h[k]
      OBVIOUS
    <3>1. PICK l \in 1 .. n : h[l] = i
      OBVIOUS
    <3>2. Cardinality({j \in S : j < i}) = l - 1
      BY <1>4, <3>1
    <3> QED BY <3>1, <3>2
  <2>2. FileOrder(S)[k] = CHOOSE i \in S : Cardinality({j \in S : j < i}) = k - 1
    BY <1>3 DEF FileOrder, InOrder
  <2>3. h[k] \in S /\ Cardinality({j \in S : j < h[k]}) = k - 1
    BY <1>4
  <2> QED BY <2>1, <2>2, <2>3
<1>6. DOMAIN FileOrder(S) = 1 .. n
  <2>1. IsList(FileOrder(S)) /\ Len(FileOrder(S)) = n
    BY <1>3, FileOrderIn
  <2> QED BY <2>1, ListShape
<1> QED BY <1>5, <1>6

LEMMA HeadsAre ==
  ASSUME NEW tree, IsList(tree), NEW top \in Nat, FromSteps(tree, top), Logs(tree, top)
  PROVE  LET heads == FileOrder(Heads(tree))
         IN  /\ DOMAIN heads = 1 .. top
             /\ \A k \in 1 .. top : tree[heads[k]].src[1] = k
<1> DEFINE L == Len(tree)
           S == Heads(tree)
           h == [k \in 1 .. top |-> CHOOSE i \in 1 .. L : tree[i].src = <<k, 1>>]
<1>1. L \in Nat /\ DOMAIN tree = 1 .. L
  BY ListShape
<1>2. \A k \in 1 .. top : h[k] \in 1 .. L /\ tree[h[k]].src = <<k, 1>>
  BY DEF Logs
<1>3. S \subseteq Nat /\ IsFiniteSet(S)
  <2>1. S \subseteq 1 .. L
    BY <1>1 DEF Heads
  <2>2. IsFiniteSet(1 .. L)
    BY <1>1, FS_Interval
  <2> QED BY <1>1, <2>1, <2>2, FS_Subset
<1>4. h = [k \in 1 .. top |-> h[k]]
  OBVIOUS
<1> HIDE DEF h
<1>5. h \in [1 .. top -> S]
  BY <1>1, <1>2, <1>4 DEF Heads
<1>6. ASSUME NEW k \in 1 .. top, NEW l \in 1 .. top, k < l PROVE h[k] < h[l]
  <2>1. tree[h[k]].src[1] = k /\ tree[h[l]].src[1] = l
    BY <1>2
  <2>2. h[l] # h[k] /\ ~ (h[l] < h[k])
    BY <1>2, <1>6, <2>1 DEF Logs
  <2> QED BY <1>1, <1>2, <2>2
<1>7. ASSUME NEW i \in S PROVE \E k \in 1 .. top : h[k] = i
  <2>1. i \in 1 .. L /\ tree[i].src[2] = 1 /\ tree[i].src \in Nat \X Nat
        /\ tree[i].src[1] <= top
    BY <1>1 DEF Heads, FromSteps, Token
  <2>2. tree[i].src = <<tree[i].src[1], 1>>
    BY <2>1
  <2>3. i # 1 /\ tree[i].src[1] # 0
    BY <2>1 DEF Logs
  <2> DEFINE k == tree[i].src[1]
  <2>4. k \in 1 .. top
    BY <2>1, <2>3
  <2>5. h[k] = i
    BY <1>2, <2>1, <2>2, <2>4 DEF FromSteps
  <2> QED BY <2>4, <2>5
<1> HIDE DEF S, L
<1>8. DOMAIN FileOrder(S) = 1 .. top /\ \A k \in 1 .. top : FileOrder(S)[k] = h[k]
  <2>1. PICK T, g : T = S /\ g = h
    OBVIOUS
  <2>2. /\ T \subseteq Nat /\ IsFiniteSet(T) /\ g \in [1 .. top -> T]
        /\ \A k, l \in 1 .. top : k < l => g[k] < g[l]
        /\ \A i \in T : \E k \in 1 .. top : g[k] = i
    BY <1>3, <1>5, <1>6, <1>7, <2>1
  <2>3. DOMAIN FileOrder(T) = 1 .. top /\ \A k \in 1 .. top : FileOrder(T)[k] = g[k]
    BY ONLY top \in Nat, <2>2, FileOrderOf
  <2> QED BY <2>1, <2>3
<1>9. \A k \in 1 .. top : tree[FileOrder(S)[k]].src[1] = k
  <2> SUFFICES ASSUME NEW k \in 1 .. top PROVE tree[FileOrder(S)[k]].src[1] = k
    OBVIOUS
  <2>1. FileOrder(S)[k] = h[k]
    BY <1>8
  <2>2. tree[h[k]].src = <<k, 1>>
    BY <1>2
  <2> QED BY <2>1, <2>2
<1> QED BY <1>8, <1>9 DEF S

\* What a plan can be measured at.
Measures == Metrics \cup {BaseMetric}

Timed(tree) == \A i \in DOMAIN tree : tree[i].valid => tree[i].metric \in Measures

LEMMA MeasuresPositive == Measures \subseteq Nat \ {0}
BY SamplingRunAssumption DEF SamplingRunAssumption, Measures

\* The best of a step is one of its measurements, and none is below it.
LEMMA StepBestIs ==
  ASSUME NEW tree, Timed(tree), NEW k
  PROVE  /\ StepBest(tree, k) \in Measures \cup {0}
         /\ \A i \in DOMAIN tree : tree[i].src[1] = k /\ tree[i].valid =>
              StepBest(tree, k) # 0 /\ StepBest(tree, k) <= tree[i].metric
         /\ StepBest(tree, k) # 0 =>
              \E i \in DOMAIN tree : /\ tree[i].src[1] = k /\ tree[i].valid
                                    /\ tree[i].metric = StepBest(tree, k)
<1> DEFINE measured == {tree[i].metric : i \in {j \in DOMAIN tree :
                                                  tree[j].src[1] = k /\ tree[j].valid}}
<1>1. measured \subseteq Measures
  BY DEF Timed
<1>2. StepBest(tree, k) = IF measured = {} THEN 0 ELSE Min(measured)
  BY DEF StepBest
<1>3. \A i \in DOMAIN tree : tree[i].src[1] = k /\ tree[i].valid => tree[i].metric \in measured
  OBVIOUS
<1>4. \A x \in measured : \E i \in DOMAIN tree : /\ tree[i].src[1] = k /\ tree[i].valid
                                                 /\ tree[i].metric = x
  OBVIOUS
<1> HIDE DEF measured
<1>5. measured # {} => Min(measured) \in measured /\ \A y \in measured : Min(measured) <= y
  BY <1>1, MeasuresPositive, MinIsElement
<1> QED BY <1>1, <1>2, <1>3, <1>4, <1>5, MeasuresPositive

\* accumulate_samples appends an entry to the log, and keeps those there are.
LEMMA AccumulateLogs ==
  ASSUME NEW tree, TreeOK(tree), NEW samples, IsList(samples), Len(samples) # 0,
         NEW k \in Nat \ {0}, FromSteps(tree, k - 1), Logs(tree, k - 1), Named(samples, k)
  PROVE  Logs(AccumulateSamples(tree, samples), k)
<1> DEFINE big == AccumulateSamples(tree, samples)
           L == Len(tree)
           K == Len(samples)
<1>1. /\ L \in Nat \ {0} /\ K \in Nat \ {0} /\ Len(big) = L + K
      /\ \A i \in 1 .. L : big[i] = Aged(tree[i], samples)
      /\ \A i \in 1 .. K : big[L + i] = NodeOf(samples[i], L + i - 1)
  BY AccumulatedNodes
<1>2. \A i \in 1 .. L : /\ big[i].src = tree[i].src
                       /\ tree[i].src[1] \in Nat /\ tree[i].src[1] <= k - 1
  <2> SUFFICES ASSUME NEW i \in 1 .. L
               PROVE  /\ big[i].src = tree[i].src
                      /\ tree[i].src[1] \in Nat /\ tree[i].src[1] <= k - 1
    OBVIOUS
  <2> DEFINE node == tree[i]
  <2>1. "src" \in DOMAIN node /\ node.src \in Token /\ node.src[1] <= k - 1
    BY DEF FromSteps
  <2>2. big[i] = Aged(node, samples)
    BY <1>1
  <2> HIDE DEF node, big
  <2>3. big[i].src = node.src
    BY <2>1, <2>2 DEF Aged
  <2> QED BY <2>1, <2>3 DEF node, Token
<1>3. \A i \in 1 .. K : big[L + i].src = <<k, i>>
  <2> SUFFICES ASSUME NEW i \in 1 .. K PROVE big[L + i].src = <<k, i>>
    OBVIOUS
  <2> DEFINE s == samples[i]
             id == L + i - 1
  <2>1. s.src = <<k, i>>
    BY DEF Named
  <2>2. big[L + i] = NodeOf(s, id)
    BY <1>1
  <2> HIDE DEF s, id, big
  <2>3. big[L + i].src = s.src
    BY <2>2 DEF NodeOf
  <2> QED BY <2>1, <2>3
<1> HIDE DEF big, L, K
<1>4. \A i \in L + 1 .. L + K : big[i].src[1] = k
  <2> SUFFICES ASSUME NEW i \in L + 1 .. L + K PROVE big[i].src[1] = k
    OBVIOUS
  <2>1. i - L \in 1 .. K /\ L + (i - L) = i
    BY <1>1
  <2>2. big[i].src = <<k, i - L>>
    BY <1>3, <2>1
  <2> QED BY <2>2
<1>5. \A i \in 1 .. Len(big) : i \in 1 .. L \/ i \in L + 1 .. L + K
  BY <1>1
<1>6. big[1].src = <<0, 0>>
  BY <1>1, <1>2 DEF Logs
<1>7. \A i \in 2 .. Len(big) : big[i].src[1] # 0
  <2> SUFFICES ASSUME NEW i \in 2 .. Len(big) PROVE big[i].src[1] # 0
    OBVIOUS
  <2>1. CASE i \in 1 .. L
    <3>1. i \in 2 .. L
      BY <2>1
    <3> QED BY <1>2, <2>1, <3>1 DEF Logs, L
  <2>2. CASE i \in L + 1 .. L + K
    BY <1>4, <2>2
  <2> QED BY <1>1, <1>5, <2>1, <2>2
<1>8. \A i, j \in 1 .. Len(big) : i < j => big[i].src[1] <= big[j].src[1]
  <2> SUFFICES ASSUME NEW i \in 1 .. Len(big), NEW j \in 1 .. Len(big), i < j
               PROVE  big[i].src[1] <= big[j].src[1]
    OBVIOUS
  <2>1. CASE j \in 1 .. L
    <3>1. i \in 1 .. L
      BY <1>1, <2>1
    <3>2. tree[i].src[1] <= tree[j].src[1]
      BY <2>1, <3>1 DEF Logs, L
    <3> QED BY <1>2, <2>1, <3>1, <3>2
  <2>2. CASE i \in 1 .. L /\ j \in L + 1 .. L + K
    BY <1>2, <1>4, <2>2
  <2>3. CASE i \in L + 1 .. L + K /\ j \in L + 1 .. L + K
    BY <1>4, <2>3
  <2> QED BY <1>1, <1>5, <2>1, <2>2, <2>3
<1>9. \A n \in 1 .. k : \E i \in 1 .. Len(big) : big[i].src = <<n, 1>>
  <2> SUFFICES ASSUME NEW n \in 1 .. k PROVE \E i \in 1 .. Len(big) : big[i].src = <<n, 1>>
    OBVIOUS
  <2>1. CASE n = k
    <3>1. L + 1 \in 1 .. Len(big) /\ 1 \in 1 .. K
      BY <1>1
    <3> QED BY <1>3, <2>1, <3>1
  <2>2. CASE n # k
    <3>1. n \in 1 .. k - 1
      BY <2>2
    <3>2. PICK i \in 1 .. L : tree[i].src = <<n, 1>>
      BY <3>1 DEF Logs, L
    <3>3. i \in 1 .. Len(big)
      BY <1>1
    <3> QED BY <1>2, <3>2, <3>3
  <2> QED BY <2>1, <2>2
<1> QED BY <1>6, <1>7, <1>8, <1>9 DEF Logs, big

\* Only the step that is merged has new measurements.
LEMMA StepBestKept ==
  ASSUME NEW tree, TreeOK(tree), Rooted(tree), NEW samples, IsList(samples),
         NEW k \in Nat, Named(samples, k), NEW n \in Nat, n # k
  PROVE  StepBest(AccumulateSamples(tree, samples), n) = StepBest(tree, n)
<1> DEFINE big == AccumulateSamples(tree, samples)
           L == Len(tree)
           K == Len(samples)
           old == {j \in DOMAIN tree : tree[j].src[1] = n /\ tree[j].valid}
           new == {j \in DOMAIN big : big[j].src[1] = n /\ big[j].valid}
<1>1. /\ L \in Nat \ {0} /\ K \in Nat /\ DOMAIN big = 1 .. L + K /\ DOMAIN tree = 1 .. L
      /\ \A i \in 1 .. L : big[i] = Aged(tree[i], samples)
      /\ \A i \in 1 .. K : big[L + i] = NodeOf(samples[i], L + i - 1)
  BY AccumulatedNodes
<1>2. \A i \in 1 .. L : /\ big[i].src = tree[i].src /\ big[i].valid = tree[i].valid
                       /\ big[i].metric = tree[i].metric
  <2> SUFFICES ASSUME NEW i \in 1 .. L
               PROVE  /\ big[i].src = tree[i].src /\ big[i].valid = tree[i].valid
                      /\ big[i].metric = tree[i].metric
    OBVIOUS
  <2> DEFINE node == tree[i]
  <2>1. node \in Node
    BY <1>1, RootedShape
  <2>2. big[i] = Aged(node, samples)
    BY <1>1
  <2> HIDE DEF node, big
  <2>3. big[i].src = node.src /\ big[i].valid = node.valid /\ big[i].metric = node.metric
    BY <2>1, <2>2 DEF Aged, Node
  <2> QED BY <2>3 DEF node
<1>3. \A i \in 1 .. K : big[L + i].src[1] = k
  <2> SUFFICES ASSUME NEW i \in 1 .. K PROVE big[L + i].src[1] = k
    OBVIOUS
  <2> DEFINE s == samples[i]
             id == L + i - 1
  <2>1. s.src = <<k, i>>
    BY DEF Named
  <2>2. big[L + i] = NodeOf(s, id)
    BY <1>1
  <2> HIDE DEF s, id, big
  <2>3. big[L + i].src = s.src
    BY <2>2 DEF NodeOf
  <2> QED BY <2>1, <2>3
<1> HIDE DEF big, L, K
<1>4. new = old
  <2>1. \A i \in new : i \in 1 .. L
    <3> SUFFICES ASSUME NEW i \in new, i \notin 1 .. L PROVE FALSE
      OBVIOUS
    <3>1. i - L \in 1 .. K /\ L + (i - L) = i
      BY <1>1
    <3>2. big[i].src[1] = k
      BY <1>3, <3>1
    <3> QED BY <3>2
  <2>2. 1 .. L \subseteq DOMAIN big
    BY <1>1
  <2> QED BY <1>1, <1>2, <2>1, <2>2
<1>5. {big[i].metric : i \in new} = {tree[i].metric : i \in old}
  <2>1. \A i \in old : big[i].metric = tree[i].metric
    BY <1>1, <1>2
  <2> HIDE DEF new, old
  <2> QED BY <1>4, <2>1
<1> DEFINE after == {big[i].metric : i \in new}
           before == {tree[i].metric : i \in old}
<1>6. StepBest(big, n) = IF after = {} THEN 0 ELSE Min(after)
  BY DEF StepBest
<1>7. StepBest(tree, n) = IF before = {} THEN 0 ELSE Min(before)
  BY DEF StepBest
<1>8. after = before
  BY <1>5
<1> HIDE DEF after, before, new, old
<1>9. StepBest(big, n) = StepBest(tree, n)
  BY <1>6, <1>7, <1>8
<1> QED BY <1>9 DEF big

UpTimed(file) ==
  file.st = "ok" =>
    \A q \in Queries : \A i \in 1 .. Len(file.data[q]) : file.data[q][i].upMetric \in Measures

RowsTimed(file) ==
  file.st = "ok" =>
    \A q \in Queries : \A i \in 1 .. Len(file.data[q]) :
      file.data[q][i].valid => file.data[q][i].metric \in Measures

\* What is noted of a sample was measured: of its own plan, or of the one it
\* was drawn from.
TimedInv == \A k \in StepDirs : UpTimed(sampled[k]) /\ RowsTimed(evaluated[k])

LEMMA UpstreamMetricTimed ==
  ASSUME NEW tree, Rooted(tree), Timed(tree), NEW i \in DOMAIN tree
  PROVE  UpstreamMetric(tree, i) \in Measures
<1> DEFINE w == Walk(tree, i)
           S == {n \in 1 .. Len(tree) : tree[w[n]].valid}
<1>1. Len(tree) \in Nat \ {0} /\ w \in [1 .. Len(tree) -> DOMAIN tree] /\ w[Len(tree)] = 1
  BY RootedShape, WalkSteps, WalkEnds
<1> HIDE DEF w
<1>2. Len(tree) \in S /\ S \subseteq Nat
  BY <1>1 DEF Rooted
<1>3. Min(S) \in 1 .. Len(tree) /\ tree[w[Min(S)]].valid
  <2>1. Min(S) \in S
    <3> HIDE DEF S
    <3> QED BY <1>2, MinIsElement
  <2> QED BY <2>1
<1> HIDE DEF S
<1>4. UpstreamMetric(tree, i) = tree[w[Min(S)]].metric
  BY DEF UpstreamMetric, w, S
<1> QED BY <1>1, <1>3, <1>4 DEF Timed

\* The nodes of a tree are samples of the step files, but for the root.
LEMMA SourcedTimed ==
  ASSUME IInv, TimedInv, NEW q \in Queries, NEW tree, IsList(tree), Sourced(tree, Correct(q))
  PROVE  Timed(tree)
<1>1. \A s \in Correct(q) : s.metric \in Measures
  <2> SUFFICES ASSUME NEW s \in Correct(q) PROVE s.metric \in Measures
    OBVIOUS
  <2>1. PICK k \in StepDirs : /\ evaluated[k].st = "ok" /\ s.valid
                              /\ s \in Range(evaluated[k].data[q])
    BY DEF Correct
  <2>2. DOMAIN evaluated[k].data[q] = 1 .. Len(evaluated[k].data[q])
    BY <2>1, ListShape DEF IInv, FilesInv
  <2>3. PICK i \in 1 .. Len(evaluated[k].data[q]) : evaluated[k].data[q][i] = s
    BY <2>1, <2>2 DEF Range
  <2> QED BY <2>1, <2>3 DEF TimedInv, RowsTimed
<1>2. ASSUME NEW i \in DOMAIN tree, tree[i].valid PROVE tree[i].metric \in Measures
  <2>1. CASE i = 1
    BY <2>1 DEF Sourced, Measures
  <2>2. CASE i # 1
    <3>1. i > 1
      BY <2>2, ListShape
    <3> QED BY <1>1, <1>2, <3>1 DEF Sourced
  <2> QED BY <2>1, <2>2
<1> QED BY <1>2 DEF Timed

LEMMA TreeTimed ==
  ASSUME IInv, MeasuredInv, TimedInv, final.st = "ok", NEW q \in Queries
  PROVE  Timed(final.data[q])
BY SourcedTimed DEF MeasuredInv, IInv, FilesInv, TreeOK

LEMMA DrawnTimed ==
  ASSUME IInv, TInv, MeasuredInv, TimedInv, pc = "sample", final.st = "ok", NEW gen
  PROVE  UpTimed(File(DrawnSamples(gen)))
<1> SUFFICES ASSUME NEW q \in Queries, NEW i \in 1 .. Len(DrawnSamples(gen)[q])
             PROVE  DrawnSamples(gen)[q][i].upMetric \in Measures
  BY FileStates DEF UpTimed
<1> DEFINE tree == final.data[q]
           seeds == SeedsOf(q)
           n == Len(seeds)
           j == (i - 1) \div run.count + 1
           drawn == DrawnSamples(gen)[q]
           answer == gen[<<q, i>>]
           src == <<run.step, i>>
<1>1. Rooted(tree) /\ Timed(tree) /\ run \in RunRecord
  BY TreeTimed DEF IInv, CallInv, TInv, TreesInv, Sound
<1>2. seeds \in Seq(DOMAIN tree)
  BY <1>1, SeedsIn
<1>3. n \in Nat /\ run.count \in Nat /\ BatchSize(q) = n * run.count /\ BatchSize(q) \in Nat
  BY <1>1, <1>2, LenProperties DEF RunRecord, BatchSize
<1>4. drawn = [l \in 1 .. BatchSize(q) |->
                 NewSample(tree, seeds[(l - 1) \div run.count + 1], gen[<<q, l>>], <<run.step, l>>)]
  BY DEF DrawnSamples
<1>5. Len(drawn) = BatchSize(q)
  <2>1. drawn = [l \in 1 .. BatchSize(q) |-> drawn[l]]
    BY <1>4
  <2> HIDE DEF drawn
  <2> QED BY <1>3, <2>1, ListOfFunction
<1>6. i \in 1 .. BatchSize(q)
  BY <1>5
<1>7. drawn[i] = NewSample(tree, seeds[j], answer, src)
  BY <1>4, <1>6
<1>8. j \in 1 .. n
  BY <1>3, <1>6, DivInRange
<1> HIDE DEF tree, seeds, n, j, answer, src, drawn
<1>9. seeds[j] \in DOMAIN tree
  BY <1>2, <1>8, ElementOfSeq DEF n
<1>10. UpstreamMetric(tree, seeds[j]) \in Measures
  BY <1>1, <1>9, UpstreamMetricTimed
<1>11. drawn[i].upMetric = UpstreamMetric(tree, seeds[j])
  BY <1>7 DEF NewSample
<1> QED BY <1>10, <1>11 DEF drawn

LEMMA EvaluatedTimed ==
  ASSUME TInv, TimedInv, NEW k \in StepDirs, sampled[k].st = "ok",
         NEW timed \in [ToEvaluate(k) -> Metrics \cup {0}]
  PROVE  RowsTimed(File(EvaluatedSamples(k, timed)))
<1> SUFFICES ASSUME NEW q \in Queries, NEW i \in 1 .. Len(EvaluatedSamples(k, timed)[q]),
                    EvaluatedSamples(k, timed)[q][i].valid
             PROVE  EvaluatedSamples(k, timed)[q][i].metric \in Measures
  BY FileStates DEF RowsTimed
<1> DEFINE row == sampled[k].data[q]
           done == EvaluatedSamples(k, timed)[q]
           time == IF <<q, i>> \in DOMAIN timed THEN timed[<<q, i>>] ELSE 0
           sample == row[i]
<1>1. row \in Seq(Sample)
  <2>1. sampled[k] \in FileOf([Queries -> Seq(Sample)])
    BY DEF TInv, FilesTyped
  <2> QED BY <2>1, FileTypes
<1>2. Len(row) \in Nat /\ DOMAIN row = 1 .. Len(row)
  <2> HIDE DEF row
  <2> QED BY <1>1, LenProperties
<1>3. done = [l \in 1 .. Len(row) |->
                Evaluated(row[l], IF <<q, l>> \in DOMAIN timed THEN timed[<<q, l>>] ELSE 0)]
  BY <1>2 DEF EvaluatedSamples
<1>4. Len(done) = Len(row)
  <2>1. done = [l \in 1 .. Len(row) |-> done[l]]
    BY <1>3
  <2> HIDE DEF done, row
  <2> QED BY <1>2, <2>1, ListOfFunction
<1>5. done[i] = Evaluated(sample, time) /\ i \in 1 .. Len(row)
  BY <1>3, <1>4
<1>6. sample \in Sample
  <2> HIDE DEF row
  <2> QED BY <1>1, <1>5, ElementOfSeq
<1>7. sample.upMetric \in Measures
  BY <1>5 DEF TimedInv, UpTimed
<1>8. time \in Metrics \cup {0}
  OBVIOUS
<1> HIDE DEF sample, time, done, row
<1>9. CASE sample.gen = "failed"
  <2> DEFINE no == FALSE
             none == 0
  <2>1. Evaluated(sample, time) = [sample EXCEPT !.valid = no, !.metric = none]
    BY <1>9 DEF Evaluated
  <2> HIDE DEF no, none
  <2>2. done[i].valid = no
    BY <1>5, <1>6, <2>1 DEF Sample
  <2> QED BY <2>2 DEF no, done
<1>10. CASE sample.gen = "empty"
  <2> DEFINE up == sample.upMetric
             yes == TRUE
  <2>1. Evaluated(sample, time) = [sample EXCEPT !.valid = yes, !.metric = up]
    BY <1>10 DEF Evaluated
  <2> HIDE DEF up, yes
  <2>2. done[i].metric = up
    BY <1>5, <1>6, <2>1 DEF Sample
  <2> QED BY <1>7, <2>2 DEF up, done
<1>11. CASE sample.gen = "patch"
  <2> DEFINE ok == time # 0
  <2>1. Evaluated(sample, time) = [sample EXCEPT !.valid = ok, !.metric = time]
    BY <1>11 DEF Evaluated
  <2> HIDE DEF ok
  <2>2. done[i].metric = time /\ done[i].valid = ok
    BY <1>5, <1>6, <2>1 DEF Sample
  <2>3. time # 0
    BY <2>2 DEF ok, done
  <2> QED BY <1>8, <2>2, <2>3 DEF Measures, done
<1> QED BY <1>6, <1>9, <1>10, <1>11 DEF Sample

LEMMA TimedStep == IInv /\ TInv /\ MeasuredInv /\ TimedInv /\ [Next]_vars => TimedInv'
<1> SUFFICES ASSUME IInv, TInv, MeasuredInv, TimedInv, [Next]_vars PROVE TimedInv'
  OBVIOUS
<1>1. /\ sampled = [k \in StepDirs |-> sampled[k]]
      /\ evaluated = [k \in StepDirs |-> evaluated[k]]
  BY DEF IInv, FilesInv
<1>2. CASE SamplePlans
  <2>1. /\ evaluated' = evaluated
        /\ \/ sampled' = sampled
           \/ /\ final.st = "ok" /\ pc = "sample"
              /\ \E gen \in [Slots -> Answers], torn \in BOOLEAN :
                   sampled' = [sampled EXCEPT ![run.step] =
                                 IF torn THEN Torn ELSE File(DrawnSamples(gen))]
    BY <1>2 DEF SamplePlans, Tears
  <2>2. ASSUME final.st = "ok", pc = "sample", NEW gen, NEW torn \in BOOLEAN,
               sampled' = [sampled EXCEPT ![run.step] =
                             IF torn THEN Torn ELSE File(DrawnSamples(gen))]
        PROVE  \A k \in StepDirs : UpTimed(sampled'[k])
    <3> DEFINE file == IF torn THEN Torn ELSE File(DrawnSamples(gen))
    <3>1. UpTimed(file)
      BY <2>2, DrawnTimed, FileStates DEF UpTimed
    <3>2. sampled' = [sampled EXCEPT ![run.step] = file]
      BY <2>2
    <3> HIDE DEF file
    <3>3. \A k \in StepDirs : sampled'[k] \in {sampled[k], file}
      BY <1>1, <3>2
    <3> QED BY <3>1, <3>3 DEF TimedInv
  <2>3. \A k \in StepDirs : UpTimed(sampled'[k]) /\ RowsTimed(evaluated'[k])
    BY <2>1, <2>2 DEF TimedInv
  <2> QED BY <2>3 DEF TimedInv, UpTimed, RowsTimed
<1>3. CASE EvaluatePlans
  <2>0. run.step \in StepDirs
    BY <1>3, ConstantTypes
    DEF IInv, CallInv, StepsInv, EvaluatePlans, Stepping, LastStep, StepDirs
  <2>1. /\ sampled' = sampled
        /\ \/ evaluated' = evaluated
           \/ /\ sampled[run.step].st = "ok"
              /\ \E timed \in [ToEvaluate(run.step) -> Metrics \cup {0}], torn \in BOOLEAN :
                   evaluated' = [evaluated EXCEPT ![run.step] =
                                   IF torn THEN Torn
                                   ELSE File(EvaluatedSamples(run.step, timed))]
    BY <1>3 DEF EvaluatePlans, Tears
  <2>2. ASSUME sampled[run.step].st = "ok",
               NEW timed \in [ToEvaluate(run.step) -> Metrics \cup {0}], NEW torn \in BOOLEAN,
               evaluated' = [evaluated EXCEPT ![run.step] =
                               IF torn THEN Torn
                               ELSE File(EvaluatedSamples(run.step, timed))]
        PROVE  \A k \in StepDirs : RowsTimed(evaluated'[k])
    <3> DEFINE file == IF torn THEN Torn ELSE File(EvaluatedSamples(run.step, timed))
    <3>1. RowsTimed(file)
      BY <2>0, <2>2, EvaluatedTimed, FileStates DEF RowsTimed
    <3>2. evaluated' = [evaluated EXCEPT ![run.step] = file]
      BY <2>2
    <3> HIDE DEF file
    <3>3. \A k \in StepDirs : evaluated'[k] \in {evaluated[k], file}
      BY <1>1, <3>2
    <3> QED BY <3>1, <3>3 DEF TimedInv
  <2>3. \A k \in StepDirs : UpTimed(sampled'[k]) /\ RowsTimed(evaluated'[k])
    BY <2>1, <2>2 DEF TimedInv
  <2> QED BY <2>3 DEF TimedInv, UpTimed, RowsTimed
<1>4. CASE ~SamplePlans /\ ~EvaluatePlans
  <2>1. UNCHANGED stepFiles
    BY <1>4 DEF Next, CallStep, StartFresh, StartResume, EarlyExit, Curate, PrepareSampling,
       Restore, Replay, AccumulateStep, TopUp, ProcessResults, Crash, vars, stepFiles
  <2> QED BY <2>1 DEF stepFiles, TimedInv, UpTimed, RowsTimed
<1> QED BY <1>2, <1>3, <1>4

LogOf(tree) ==
  LET heads == FileOrder(Heads(tree))
  IN  [n \in DOMAIN heads |-> LET k == tree[heads[n]].src[1]
                              IN  [step |-> k, best |-> StepBest(tree, k)]]

\* The log is the steps of the tree, by number.
LEMMA LogOfIs ==
  ASSUME NEW tree, IsList(tree), NEW top \in Nat, FromSteps(tree, top), Logs(tree, top)
  PROVE  LogOf(tree) = [k \in 1 .. top |-> [step |-> k, best |-> StepBest(tree, k)]]
<1> DEFINE heads == FileOrder(Heads(tree))
           at(n) == tree[heads[n]].src[1]
<1>1. DOMAIN heads = 1 .. top /\ \A k \in 1 .. top : at(k) = k
  BY HeadsAre
<1>2. LogOf(tree) = [n \in DOMAIN heads |-> [step |-> at(n), best |-> StepBest(tree, at(n))]]
  BY DEF LogOf
<1> HIDE DEF heads, at
<1> QED BY <1>1, <1>2

LEMMA LoggedIs ==
  /\ final.st # "ok" => LoggedSteps = << >>
  /\ final.st = "ok" => LoggedSteps = LogOf(final.data[1])
  /\ final'.st # "ok" => LoggedSteps' = << >>
  /\ final'.st = "ok" => LoggedSteps' = LogOf(final'.data[1])
BY DEF LoggedSteps, LogOf, Heads

\* What the run directory keeps as a log, when no file is torn.
LoggedInv ==
  /\ base.st # "torn"
  /\ sessions = 0 \/ pc = "curate" => base.st = "absent"
  /\ base.st = "absent" => final.st = "absent"
  /\ base.st = "ok" => Logs(base.data[1], 0)
  /\ final.st = "ok" => Logs(final.data[1], Top)

LEMMA RootLogs ==
  ASSUME NEW metric
  PROVE  Logs(<<Root(metric)>>, 0)
<1> DEFINE node == Root(metric)
<1>1. node.src = <<0, 0>>
  BY DEF Root
<1> HIDE DEF node
<1>2. Logs(<<node>>, 0)
  BY <1>1 DEF Logs
<1> QED BY <1>2 DEF node

\* Completed and not in the tree is at most the step about to be merged.
LEMMA TopIsLast ==
  ASSUME IInv, OriginInv, KeptInv, final.st = "ok"
  PROVE  /\ MaxCompleted \in Nat /\ Top \in Nat
         /\ MaxCompleted = Top \/ (pc = "accumulate" /\ MaxCompleted = run.step)
         /\ pc = "accumulate" /\ evaluated[run.step].st = "absent" => MaxCompleted = Top
<1>1. /\ MaxCompleted \in Nat /\ MaxCompleted \in CompletedSteps \cup {0}
      /\ Top \in Nat /\ Top <= MaxCompleted
  BY TopIs, MaxCompletedIsCompleted DEF IInv
<1>2. ASSUME NEW k \in CompletedSteps, InTree(1, k) PROVE k <= Top
  BY <1>2, ConstantTypes DEF InTree, OriginInv, TreesFrom, FromSteps
<1>3. \A k \in CompletedSteps : InTree(1, k) \/ (pc = "accumulate" /\ k = run.step)
  BY ConstantTypes DEF KeptInv
<1>4. \A k \in CompletedSteps : evaluated[k].st # "absent"
  BY DEF CompletedSteps
<1> DEFINE max == MaxCompleted
           t == Top
<1> HIDE DEF max, t
<1>5. /\ max \in Nat /\ t \in Nat /\ t <= max
      /\ max = 0 \/ max <= t \/ (pc = "accumulate" /\ max = run.step /\ evaluated[max].st # "absent")
  BY <1>1, <1>2, <1>3, <1>4 DEF max, t
<1>6. max = t \/ (pc = "accumulate" /\ max = run.step /\ evaluated[max].st # "absent")
  BY <1>5
<1> QED BY <1>5, <1>6 DEF max, t

\* The step loop goes on where the log ends.
LEMMA ToStepTop ==
  ASSUME NEW r \in RunRecord, NEW k \in Nat \ {0}, ToStep(r, k), MaxCompleted' = k - 1
  PROVE  Top' = k - 1
<1>1. CASE k <= r.n
  <2> DEFINE c == SelectStrategy(r.strategy, k, r.m).count
  <2>1. pc' = "sample" /\ run' = [r EXCEPT !.step = k, !.count = c]
    BY <1>1 DEF ToStep
  <2> HIDE DEF c
  <2>2. run'.step = k
    BY <2>1 DEF RunRecord
  <2> QED BY <2>1, <2>2 DEF Top, Stepping
<1>2. CASE ~ (k <= r.n)
  <2>1. pc' = "topup"
    BY <1>2 DEF ToStep
  <2> QED BY <2>1 DEF Top, Stepping
<1> QED BY <1>1, <1>2

\* A step that leaves base and tree alone, and no entry behind.
LEMMA LoggedStays ==
  ASSUME LoggedInv, UNCHANGED <<base, final>>, sessions' = 0 => sessions = 0,
         pc' = "curate" => base.st = "absent", final.st = "ok" => Top' = Top
  PROVE  LoggedInv'
BY DEF LoggedInv

\* Outside of a step and of its start.
LEMMA QuietLogged ==
  ASSUME ~AllowTorn, "best_of" \notin Strategies,
         IInv, TInv, OriginInv, KeptInv, LoggedInv,
         StartFresh \/ StartResume \/ EarlyExit \/ Curate \/ PrepareSampling \/ TopUp
           \/ ProcessResults
  PROVE  LoggedInv' /\ final' = final
<1>1. /\ UNCHANGED <<sampled, evaluated, final>>
      /\ sessions' = sessions \/ sessions' = sessions + 1 \/ sessions' = 1
      /\ ~PrepareSampling => base' = base
  BY DEF StartFresh, StartResume, EarlyExit, Curate, PrepareSampling, TopUp, ProcessResults,
     stepFiles
<1>2. pc \notin Stepping /\ pc' \notin Stepping \cup {"replay"}
  <2>1. CASE TopUp
    <3>1. run.strategy # "best_of" /\ pc = "topup"
      BY <2>1 DEF TInv, HistoryInv, TopUp
    <3> QED BY <2>1, <3>1 DEF TopUp, TopUpApplies, End, Stepping
  <2>2. CASE ~TopUp
    BY <2>2 DEF StartFresh, StartResume, EarlyExit, Curate, PrepareSampling,
       ProcessResults, End, Hang, Stepping
  <2> QED BY <2>1, <2>2
<1>3. Top' = Top
  <2>1. pc # "replay"
    BY DEF KeptInv
  <2> QED BY <1>1, <1>2, <2>1, TopIsCompleted, CompletedStay DEF Top
<1>4. sessions \in Nat /\ (sessions' = 0 => sessions = 0)
  <2>1. sessions \in Nat
    BY DEF IInv, CallInv
  <2> QED BY <1>1, <2>1
<1>5. CASE PrepareSampling
  <2>1. pc = "prepare" /\ pc' # "curate" /\ sessions # 0 /\ sessions' = sessions
    <3>1. pc = "prepare" /\ pc' # "curate" /\ sessions' = sessions
      BY <1>5 DEF PrepareSampling, End
    <3>2. sessions > 0
      BY <3>1 DEF IInv, CallInv
    <3> QED BY <1>4, <3>1, <3>2
  <2>2. base' = base \/ base' = File([q \in Queries |-> <<Root(curated.data[q])>>])
    BY <1>5 DEF PrepareSampling, Tears
  <2>3. CASE base' = base
    BY <1>1, <1>3, <2>1, <2>3, LoggedStays
  <2>4. CASE base' = File([q \in Queries |-> <<Root(curated.data[q])>>])
    <3>1. base'.st = "ok" /\ base'.data[1] = <<Root(curated.data[1])>>
      BY <2>4, FileStates, ConstantTypes
    <3>2. Logs(base'.data[1], 0)
      BY <3>1, RootLogs
    <3> QED BY <1>1, <1>3, <2>1, <3>1, <3>2 DEF LoggedInv
  <2> QED BY <1>1, <2>2, <2>3, <2>4
<1>6. CASE ~PrepareSampling
  <2>1. pc' = "curate" => base.st = "absent"
    <3>1. CASE StartFresh
      BY <3>1 DEF StartFresh, LoggedInv
    <3>2. CASE StartResume
      <4>1. base.st \in {"absent", "torn", "ok"}
        BY DEF IInv, FilesInv
      <4> QED BY <3>2, <4>1 DEF StartResume, LoggedInv
    <3>3. CASE EarlyExit \/ Curate \/ TopUp \/ ProcessResults
      BY <3>3 DEF EarlyExit, Curate, TopUp, ProcessResults, End, Hang
    <3> QED BY <1>6, <3>1, <3>2, <3>3
  <2> QED BY <1>1, <1>3, <1>4, <1>6, <2>1, LoggedStays
<1> QED BY <1>1, <1>5, <1>6

LEMMA SamplePlansLogged ==
  ASSUME IInv, OriginInv, KeptInv, LoggedInv, SamplePlans
  PROVE  LoggedInv' /\ final' = final
<1>1. pc = "sample" /\ UNCHANGED <<sessions, base, evaluated, final>>
  BY DEF SamplePlans
<1>2. MaxCompleted' = MaxCompleted
  BY <1>1, CompletedStay
<1>3. pc' \in {"idle", "hung"} \/ (pc' = "evaluate" /\ run' = run)
  BY DEF SamplePlans, End, Hang
<1>4. final.st = "ok" => Top' = Top
  <2>1. final.st = "ok" => MaxCompleted = Top
    BY <1>1, TopIsLast
  <2> QED BY <1>1, <1>2, <1>3, <2>1 DEF Top, Stepping
<1> QED BY <1>1, <1>3, <1>4, LoggedStays

LEMMA EvaluatePlansLogged ==
  ASSUME ~AllowTorn, IInv, OriginInv, KeptInv, LoggedInv, EvaluatePlans
  PROVE  LoggedInv' /\ final' = final
<1>1. pc = "evaluate" /\ UNCHANGED <<sessions, base, final>>
  BY DEF EvaluatePlans
<1>2. (pc' = "idle" /\ evaluated' = evaluated) \/ (pc' = "accumulate" /\ run' = run)
  BY DEF EvaluatePlans, End, Tears
<1>3. final.st = "ok" => Top' = Top
  <2>1. final.st = "ok" => MaxCompleted = Top
    BY <1>1, TopIsLast
  <2>2. pc' = "idle" => MaxCompleted' = MaxCompleted
    BY <1>2, CompletedStay
  <2> QED BY <1>1, <1>2, <2>1, <2>2 DEF Top, Stepping
<1> QED BY <1>1, <1>2, <1>3, LoggedStays

\* Only the root is in a log without entries.
LEMMA EmptyLog ==
  ASSUME NEW tree, IsList(tree), FromSteps(tree, 0), Logs(tree, 0)
  PROVE  LogOf(tree) = << >>
<1>1. LogOf(tree) = [k \in 1 .. 0 |-> [step |-> k, best |-> StepBest(tree, k)]]
  BY LogOfIs
<1>2. 1 .. 0 = {}
  OBVIOUS
<1> QED BY <1>1, <1>2

LEMMA RestoreLogged ==
  ASSUME ~AllowTorn, "best_of" \notin Strategies,
         IInv, TInv, OriginInv, KeptInv, LoggedInv, Restore
  PROVE  LoggedInv' /\ LoggedSteps' = LoggedSteps
<1> DEFINE r == [run EXCEPT !.maxCompleted = MaxCompleted]
           limit == RebuildLimit(r)
<1>1. /\ pc = "restore" /\ run \in RunRecord
      /\ UNCHANGED <<sessions, base, sampled, evaluated>>
  BY DEF IInv, CallInv, Restore, stepFiles
<1>2. /\ MaxCompleted \in Nat /\ CompletedSteps = 1 .. MaxCompleted
      /\ MaxCompleted' = MaxCompleted /\ Top = MaxCompleted
  BY <1>1, MaxCompletedIsCompleted, CompletedStay DEF IInv, Top, Stepping
<1>3. /\ r \in RunRecord /\ r.n = run.n /\ r.n \in Nat /\ r.resume = run.resume
      /\ r.maxCompleted = MaxCompleted
  BY <1>1, <1>2 DEF RunRecord
<1>4. base.st = "ok" /\ sessions # 0
  <2>1. sessions > 0 /\ base.st # "absent" /\ base.st \in {"absent", "torn", "ok"}
    BY <1>1 DEF IInv, CallInv, FilesInv
  <2> QED BY <2>1 DEF LoggedInv
<1>5. pc' # "curate"
  BY DEF Restore, End, ToReplay, ToStep
<1>6. CASE ~r.resume \/ final.st = "absent" \/ r.n < r.maxCompleted
  <2>1. CompletedSteps = {}
    <3>1. CASE ~run.resume
      BY <1>1, <3>1 DEF IInv, FreshInv, CompletedSteps
    <3>2. CASE final.st = "absent"
      BY <3>2 DEF TInv, HistoryInv, NoStepFiles, CompletedSteps
    <3>3. CASE run.resume /\ final.st # "absent"
      BY <1>1, <1>3, <1>6, <3>3, ResumeReaches
    <3> QED BY <3>1, <3>2, <3>3
  <2>2. MaxCompleted = 0
    <3> DEFINE max == MaxCompleted
    <3>1. max \in Nat /\ 1 .. max = {}
      BY <1>2, <2>1
    <3> HIDE DEF max
    <3>2. max = 0
      BY <3>1
    <3> QED BY <3>2 DEF max
  <2>3. ToReplay(r, 1) /\ final' = base
    BY <1>6, <1>4, FileStates DEF Restore, Tears
  <2>4. limit = 0
    <3> HIDE DEF r
    <3> QED BY <1>2, <1>3, <2>2, MinOfPair DEF RebuildLimit
  <2> HIDE DEF r
  <2>5. ToStep(r, 1)
    BY <2>3, <2>4 DEF ToReplay
  <2>6. Top' = 0
    <3>1. 1 \in Nat \ {0} /\ MaxCompleted' = 1 - 1
      BY <1>2, <2>2
    <3>2. Top' = 1 - 1
      BY <1>3, <2>5, <3>1, ToStepTop
    <3> QED BY <3>2
  <2>7. final'.st = "ok" /\ final'.data[1] = base.data[1] /\ Logs(base.data[1], 0)
    BY <1>4, <2>3 DEF LoggedInv
  <2>8. LoggedInv'
    BY <1>1, <1>4, <1>5, <2>6, <2>7 DEF LoggedInv
  <2>9. LogOf(base.data[1]) = << >>
    <3>1. IsList(base.data[1]) /\ FromSteps(base.data[1], 0)
      BY <1>4, ConstantTypes DEF IInv, FilesInv, TreeOK, OriginInv, TreesFrom
    <3> QED BY <2>7, <3>1, EmptyLog
  <2>10. LoggedSteps = << >>
    <3>1. CASE final.st = "ok"
      <4>1. /\ IsList(final.data[1]) /\ FromSteps(final.data[1], 0)
            /\ Logs(final.data[1], 0)
        BY <1>2, <2>2, <3>1, ConstantTypes
        DEF IInv, FilesInv, TreeOK, OriginInv, TreesFrom, LoggedInv
      <4> QED BY <3>1, <4>1, EmptyLog, LoggedIs
    <3> QED BY <3>1, LoggedIs
  <2> QED BY <2>7, <2>8, <2>9, <2>10, LoggedIs
<1>7. CASE ~ (~r.resume \/ final.st = "absent" \/ r.n < r.maxCompleted)
  <2>1. ToStep(r, limit + 1) /\ final' = final
    BY <1>7 DEF Restore
  <2> HIDE DEF r
  <2>2. limit = MaxCompleted
    <3>1. ~ (r.n < MaxCompleted)
      BY <1>3, <1>7
    <3>2. MaxCompleted <= r.n
      BY <1>2, <1>3, <3>1
    <3> QED BY <1>2, <1>3, <3>2, MinOfPair DEF RebuildLimit
  <2> DEFINE k == MaxCompleted + 1
  <2>3. k \in Nat \ {0} /\ ToStep(r, k) /\ MaxCompleted' = k - 1
    BY <1>2, <2>1, <2>2
  <2>4. k - 1 = Top
    BY <1>2
  <2> HIDE DEF k
  <2>5. Top' = Top
    BY <1>3, <2>3, <2>4, ToStepTop
  <2>6. LoggedInv'
    BY <1>1, <1>4, <1>5, <2>1, <2>5, LoggedStays
  <2>7. LoggedSteps' = LoggedSteps
    BY <2>1, LoggedIs
  <2> QED BY <2>6, <2>7
<1> QED BY <1>6, <1>7

Extends(best) ==
  LoggedSteps' = Append(LoggedSteps, [step |-> Len(LoggedSteps) + 1, best |-> best])

LEMMA AccumulateStepLogged ==
  ASSUME ~AllowTorn, IInv, TInv, OriginInv, KeptInv, MeasuredInv, TimedInv, LoggedInv,
         AccumulateStep
  PROVE  /\ LoggedInv'
         /\ LoggedSteps' = LoggedSteps \/ \E best \in Measures \cup {0} : Extends(best)
<1>1. /\ pc = "accumulate" /\ run \in RunRecord /\ ~run.topup
      /\ UNCHANGED <<sessions, base, sampled, evaluated>>
      /\ run.step \in StepDirs /\ run.step \in Nat \ {0}
      /\ pc' # "curate"
  <2>1. /\ pc = "accumulate" /\ run \in RunRecord /\ ~run.topup
        /\ UNCHANGED <<sessions, base, sampled, evaluated>>
        /\ run.step \in StepDirs
    BY ConstantTypes
    DEF IInv, CallInv, StepsInv, OriginInv, AccumulateStep, Stepping, LastStep, StepDirs,
        stepFiles
  <2>2. pc' # "curate"
    BY DEF AccumulateStep, AfterStep, ToStep, End
  <2> QED BY <2>1, <2>2, ConstantTypes DEF StepDirs
<1>2. MaxCompleted' = MaxCompleted
  BY <1>1, CompletedStay
<1>3. CASE MergeReadable(run.step)
  <2> DEFINE k == run.step
             tree == final.data[1]
             samples == evaluated[k].data[1]
             big == AccumulateSamples(tree, samples)
             best == StepBest(big, k)
  <2>1. /\ final' = File(Accumulated(k)) /\ ToStep(run, k + 1)
        /\ final.st = "ok" /\ evaluated[k].st = "ok"
    BY <1>1, <1>3, FileStates DEF AccumulateStep, AfterStep, MergeStep, Tears, MergeReadable
  <2>2. final'.st = "ok" /\ final'.data[1] = big
    <3>1. final'.data = Accumulated(k)
      BY <2>1, FileStates
    <3> QED BY <2>1, <3>1, FileStates, ConstantTypes DEF Accumulated
  <2>3. Top = k - 1 /\ MaxCompleted = k
    <3>1. Top = k - 1
      BY <1>1 DEF Top, Stepping
    <3>2. k \in CompletedSteps
      BY <1>1, <2>1 DEF CompletedSteps
    <3>3. k <= MaxCompleted /\ MaxCompleted \in Nat
      BY <3>2, MaxCompletedIsCompleted DEF IInv
    <3>4. MaxCompleted = k - 1 \/ MaxCompleted = k
      BY <2>1, <3>1, TopIsLast
    <3> QED BY <1>1, <3>1, <3>3, <3>4
  <2>4. /\ TreeOK(tree) /\ IsList(tree) /\ Rooted(tree) /\ FromSteps(tree, k - 1)
        /\ Logs(tree, k - 1)
    BY <2>1, <2>3, ConstantTypes
    DEF IInv, FilesInv, TreeOK, TInv, TreesInv, Sound, OriginInv, TreesFrom, LoggedInv
  <2>5. IsList(samples) /\ Named(samples, k) /\ Len(samples) # 0
    BY <1>1, <2>1, ConstantTypes
    DEF IInv, FilesInv, OriginInv, NamedFile, KeptInv, SomeSamples
  <2>6. TreeOK(big) /\ IsList(big) /\ Logs(big, k) /\ FromSteps(big, k)
    <3> HIDE DEF tree, samples
    <3>1. TreeOK(AccumulateSamples(tree, samples))
      BY <2>4, <2>5, AccumulateKeepsTree
    <3>2. Logs(AccumulateSamples(tree, samples), k)
      BY <1>1, <2>4, <2>5, AccumulateLogs
    <3>3. FromSteps(AccumulateSamples(tree, samples), k)
      <4>1. k - 1 \in Nat /\ k - 1 < k /\ k \in Nat
        BY <1>1
      <4> QED BY <2>4, <2>5, <4>1, AccumulateFromSteps
    <3> QED BY <3>1, <3>2, <3>3 DEF TreeOK
  <2>7. Timed(big)
    <3>1. Sourced(Accumulated(k)[1], Correct(1))
      BY <1>1, <1>3, MergedSourced, ConstantTypes
    <3>2. Accumulated(k)[1] = big
      BY ConstantTypes DEF Accumulated
    <3> HIDE DEF big
    <3> QED BY <2>6, <3>1, <3>2, SourcedTimed, ConstantTypes
  <2>8. \A n \in 1 .. k - 1 : StepBest(big, n) = StepBest(tree, n)
    <3> SUFFICES ASSUME NEW n \in 1 .. k - 1 PROVE StepBest(big, n) = StepBest(tree, n)
      OBVIOUS
    <3>1. n \in Nat /\ n # k /\ k \in Nat
      BY <1>1
    <3> HIDE DEF tree, samples, k
    <3> QED BY <2>4, <2>5, <3>1, StepBestKept
  <2>9. Top' = k
    <3> DEFINE j == k + 1
    <3>1. j \in Nat \ {0} /\ MaxCompleted' = j - 1 /\ ToStep(run, j) /\ j - 1 = k
      BY <1>1, <1>2, <2>1, <2>3
    <3> HIDE DEF j, k
    <3> QED BY <1>1, <3>1, ToStepTop
  <2>10. LoggedInv'
    BY <1>1, <2>1, <2>2, <2>6, <2>9 DEF LoggedInv
  <2>11. LoggedSteps = [n \in 1 .. k - 1 |-> [step |-> n, best |-> StepBest(tree, n)]]
    <3>1. k - 1 \in Nat
      BY <1>1
    <3> HIDE DEF tree, k
    <3>2. LogOf(tree) = [n \in 1 .. k - 1 |-> [step |-> n, best |-> StepBest(tree, n)]]
      BY <2>4, <3>1, LogOfIs
    <3> QED BY <2>1, <3>2, LoggedIs DEF tree
  <2>12. LoggedSteps' = [n \in 1 .. k |-> [step |-> n, best |-> StepBest(big, n)]]
    <3> HIDE DEF big, k
    <3>1. LogOf(big) = [n \in 1 .. k |-> [step |-> n, best |-> StepBest(big, n)]]
      BY <1>1, <2>6, LogOfIs DEF k
    <3> QED BY <2>2, <3>1, LoggedIs
  <2>13. Extends(best)
    <3>1. k \in Nat \ {0}
      BY <1>1
    <3> HIDE DEF big, tree, k
    <3> DEFINE entry(n) == [step |-> n, best |-> StepBest(big, n)]
               log == [n \in 1 .. k - 1 |-> entry(n)]
    <3>2. LoggedSteps = log
      BY <2>8, <2>11
    <3>3. LoggedSteps' = [n \in 1 .. k |-> entry(n)]
      BY <2>12
    <3> HIDE DEF entry
    <3>4. IsList(log) /\ Len(log) = k - 1
      BY <3>1, ListOfFunction
    <3>5. Append(log, entry(k)) = [n \in 1 .. k |-> entry(n)]
      BY <3>1, <3>4 DEF IsList
    <3>6. entry(k) = [step |-> Len(log) + 1, best |-> best]
      BY <3>1, <3>4 DEF entry
    <3> QED BY <3>2, <3>3, <3>5, <3>6 DEF Extends
  <2>14. best \in Measures \cup {0}
    <3> HIDE DEF big
    <3> QED BY <2>7, StepBestIs
  <2> QED BY <2>10, <2>13, <2>14
<1>4. CASE ~MergeReadable(run.step)
  <2>1. End /\ final' = final
    BY <1>4 DEF AccumulateStep
  <2>2. final.st = "ok" => evaluated[run.step].st = "absent"
    <3>1. evaluated[run.step].st \in {"absent", "torn", "ok"}
      <4>1. evaluated[run.step] \in FileOf([Queries -> Seq(Sample)])
        BY <1>1 DEF TInv, FilesTyped
      <4> QED BY <4>1, FileTypes
    <3> QED BY <1>1, <1>4, <3>1 DEF MergeReadable, KeptInv
  <2>3. final.st = "ok" => Top' = Top
    <3>1. final.st = "ok" => MaxCompleted = Top
      BY <1>1, <2>2, TopIsLast
    <3> QED BY <1>2, <2>1, <3>1 DEF End, Top, Stepping
  <2>4. LoggedInv'
    BY <1>1, <2>1, <2>3, LoggedStays
  <2> QED BY <2>1, <2>4, LoggedIs
<1> QED BY <1>3, <1>4

\* What a call returns first is the best of the base plan and all it has logged.
LEMMA AnswerIsBest ==
  ASSUME IInv, TInv, OriginInv, MeasuredInv, TimedInv, LoggedInv, final.st = "ok"
  PROVE  Outcome(1)[1].metric = Log!BestOf(LoggedSteps)
<1> DEFINE tree == final.data[1]
           top == Top
           bests == {StepBest(tree, k) : k \in 1 .. top}
           S == {BaseMetric} \cup (bests \ {0})
           new == Outcome(1)[1].metric
<1>1. /\ IsList(tree) /\ Rooted(tree) /\ FromSteps(tree, top) /\ Logs(tree, top)
      /\ Timed(tree) /\ top \in Nat /\ tree[1].metric = BaseMetric
      /\ DOMAIN tree = 1 .. Len(tree) /\ Len(tree) \in Nat \ {0}
  BY TopIs, TreeTimed, RootedShape, ConstantTypes
  DEF IInv, FilesInv, TreeOK, TInv, TreesInv, Sound, OriginInv, TreesFrom, LoggedInv,
      MeasuredInv, Sourced
<1>2. /\ \E i \in Ranks(1) : tree[i].metric = new
      /\ \A i \in Ranks(1) : ~Better(tree[i].metric, new) /\ tree[i].metric \in Nat
  BY OutcomeBest, ConstantTypes
<1>3. \A i \in Ranks(1) \ {1} : i \in DOMAIN tree /\ tree[i].valid /\ tree[i].metric # 0
  BY DEF Ranks
<1>4. \A i \in DOMAIN tree : tree[i].valid /\ i # 1 => i \in Ranks(1)
  <2> SUFFICES ASSUME NEW i \in DOMAIN tree, tree[i].valid, i # 1 PROVE i \in Ranks(1)
    OBVIOUS
  <2>1. tree[i].metric # 0
    BY <1>1, MeasuresPositive DEF Timed
  <2>2. tree[i].id = i - 1 /\ i \in Nat
    BY <1>1, RootedShape
  <2> QED BY <2>1, <2>2 DEF Ranks
<1>5. 1 \in Ranks(1)
  BY DEF Ranks
<1>6. LoggedSteps = [k \in 1 .. top |-> [step |-> k, best |-> StepBest(tree, k)]]
  <2> HIDE DEF tree, top
  <2>1. LogOf(tree) = [k \in 1 .. top |-> [step |-> k, best |-> StepBest(tree, k)]]
    BY <1>1, LogOfIs
  <2> QED BY <2>1, LoggedIs DEF tree
<1>7. {LoggedSteps[i].best : i \in DOMAIN LoggedSteps} = bests
  <2> HIDE DEF tree, top
  <2> QED BY <1>6
<1>8. Log!BestOf(LoggedSteps) = Min(S)
  <2>1. Log!BestOf(LoggedSteps)
          = Log!Min({BaseMetric}
                      \cup ({LoggedSteps[i].best : i \in DOMAIN LoggedSteps} \ {0}))
    BY DEF Log!BestOf
  <2>2. Log!BestOf(LoggedSteps) = Log!Min(S)
    BY <1>7, <2>1
  <2> HIDE DEF S
  <2>3. Log!Min(S) = Min(S)
    BY DEF Log!Min, Min
  <2> QED BY <2>2, <2>3
<1>9. S \subseteq Measures
  BY <1>1, StepBestIs DEF Measures
<1>10. Min(S) \in S /\ \A y \in S : Min(S) <= y
  <2> HIDE DEF S
  <2>1. S # {}
    BY DEF S
  <2> QED BY <1>9, <2>1, MeasuresPositive, MinIsElement
<1> HIDE DEF new
\* What is returned is in the set.
<1>11. new \in S \/ \E y \in S : y <= new
  <2>1. PICK i \in Ranks(1) : tree[i].metric = new
    BY <1>2
  <2>2. CASE i = 1
    BY <1>1, <2>1, <2>2
  <2>3. CASE i # 1
    <3> DEFINE k == tree[i].src[1]
    <3>1. i \in DOMAIN tree /\ tree[i].valid
      BY <1>3, <2>3
    <3>2. i \in 2 .. Len(tree) /\ i \in 1 .. Len(tree)
      BY <1>1, <2>3, <3>1
    <3>3. k # 0 /\ k <= top /\ tree[i].src \in Token
      BY <1>1, <3>2 DEF Logs, FromSteps
    <3>4. k \in Nat
      BY <3>3 DEF Token
    <3>5. k \in 1 .. top
      BY <1>1, <3>3, <3>4
    <3>6. StepBest(tree, k) # 0 /\ StepBest(tree, k) <= new
      BY <1>1, <2>1, <3>1, StepBestIs
    <3> QED BY <3>5, <3>6
  <2> QED BY <2>2, <2>3
\* And nothing in the set beats it.
<1>12. \A y \in S : \E i \in Ranks(1) : tree[i].metric = y
  <2> SUFFICES ASSUME NEW y \in S PROVE \E i \in Ranks(1) : tree[i].metric = y
    OBVIOUS
  <2>1. CASE y = BaseMetric
    BY <1>1, <1>5, <2>1
  <2>2. CASE y # BaseMetric
    <3>1. PICK k \in 1 .. top : y = StepBest(tree, k) /\ y # 0
      BY <2>2
    <3>2. PICK i \in DOMAIN tree :
            tree[i].src[1] = k /\ tree[i].valid /\ tree[i].metric = y
      BY <1>1, <3>1, StepBestIs
    <3>3. i # 1
      BY <1>1, <3>1, <3>2 DEF Logs
    <3> QED BY <1>4, <3>2, <3>3
  <2> QED BY <2>1, <2>2
<1> HIDE DEF S, tree
<1>13. \A y \in S : new <= y /\ new \in Nat
  <2> SUFFICES ASSUME NEW y \in S PROVE new <= y /\ new \in Nat
    OBVIOUS
  <2>1. PICK i \in Ranks(1) : tree[i].metric = y
    BY <1>12
  <2>2. y \in Nat \ {0} /\ new \in Nat
    BY <1>2, <1>9, MeasuresPositive
  <2>3. ~Better(y, new)
    BY <1>2, <2>1
  <2> QED BY <2>2, <2>3 DEF Better
<1>14. Min(S) \in Nat
  BY <1>9, <1>10, MeasuresPositive
<1>15. new <= Min(S) /\ Min(S) <= new
  <2> DEFINE m == Min(S)
  <2>1. m \in S /\ m \in Nat /\ \A y \in S : m <= y
    BY <1>10, <1>14
  <2>2. S \subseteq Nat
    BY <1>9, MeasuresPositive
  <2> HIDE DEF m
  <2>3. new <= m /\ m <= new
    BY <1>11, <1>13, <2>1, <2>2
  <2> QED BY <2>3 DEF m
<1>16. new = Min(S)
  BY <1>10, <1>13, <1>14, <1>15
<1> QED BY <1>8, <1>16 DEF new

\* A result is published by the last step of a call, and no partial one after it.
LEMMA PublishStep ==
  ASSUME ~AllowTorn, IInv, TInv, OriginInv, MeasuredInv, OfferInv, TimedInv, LoggedInv,
         [Next]_vars
  PROVE  \/ PublishedMetric' = PublishedMetric
         \/ ProcessResults /\ PublishedMetric' = Log!BestOf(LoggedSteps)
<1>1. CASE EarlyExit
  <2>1. pc = "curate" /\ result' = ResultFile(<< >>)
    BY <1>1 DEF EarlyExit, Tears
  <2>2. final.st = "absent"
    BY <2>1 DEF LoggedInv
  <2>3. PublishedMetric = 0
    BY <2>2 DEF OfferInv, PublishedMetric
  <2>4. PublishedMetric' = 0
    BY <2>1, FileStates DEF PublishedMetric, ResultFile
  <2> QED BY <2>3, <2>4
<1>2. CASE ProcessResults
  <2>1. CASE result' = result
    BY <2>1 DEF PublishedMetric
  <2>2. CASE result' # result
    <3> DEFINE outcome == [q \in Queries |-> Outcome(q)]
    <3>1. final.st # "torn" /\ result' = ResultFile(outcome) /\ pc = "process"
      BY <1>2, <2>2 DEF ProcessResults, Tears
    <3>2. final.st = "ok"
      BY <3>1 DEF IInv, FilesInv, CallInv
    <3>3. outcome[1] = Outcome(1) /\ outcome # << >>
      BY ConstantTypes
    <3> HIDE DEF outcome
    <3>4. PublishedMetric' = Outcome(1)[1].metric
      BY <3>1, <3>3, FileStates DEF PublishedMetric, ResultFile
    <3> QED BY <1>2, <3>2, <3>4, AnswerIsBest
  <2> QED BY <2>1, <2>2
<1>3. CASE ~EarlyExit /\ ~ProcessResults
  <2>1. result' = result
    BY <1>3 DEF Next, CallStep, StartFresh, StartResume, Curate, PrepareSampling, Restore, Replay,
       SamplePlans, EvaluatePlans, AccumulateStep, TopUp, Crash, vars
  <2> QED BY <2>1 DEF PublishedMetric
<1> QED BY <1>1, <1>2, <1>3

LEMMA LoggedStep ==
  ASSUME ~AllowCrash, ~AllowTorn, "best_of" \notin Strategies,
         IInv, TInv, OriginInv, KeptInv, MeasuredInv, OfferInv, TimedInv, LoggedInv, [Next]_vars
  PROVE  LoggedInv' /\ [Log!Extend \/ Log!Publish]_(Log!logVars)
<1>1. \/ PublishedMetric' = PublishedMetric
      \/ ProcessResults /\ PublishedMetric' = Log!BestOf(LoggedSteps)
  BY PublishStep
<1>2. CASE AccumulateStep
  <2>1. PublishedMetric' = PublishedMetric
    BY <1>2 DEF AccumulateStep, PublishedMetric
  <2>2. /\ LoggedInv'
        /\ LoggedSteps' = LoggedSteps \/ \E best \in Measures \cup {0} : Extends(best)
    BY <1>2, AccumulateStepLogged
  <2>3. (\E best \in Measures \cup {0} : Extends(best)) => Log!Extend
    BY <2>1 DEF Extends, Measures, Log!Extend
  <2> QED BY <2>1, <2>2, <2>3 DEF Log!logVars
<1>3. CASE ~AccumulateStep
  <2>1. LoggedInv' /\ (final' = final \/ LoggedSteps' = LoggedSteps)
    <3>1. CASE UNCHANGED vars
      <4>1. Top' = Top
        BY <3>1, CompletedStay DEF vars, stepFiles, Top
      <4> QED BY <3>1, <4>1 DEF vars, LoggedInv
    <3>2. ~Replay /\ ~Crash
      BY DEF KeptInv, Replay, Crash
    <3> QED BY <1>3, <3>1, <3>2, QuietLogged, RestoreLogged, SamplePlansLogged,
              EvaluatePlansLogged DEF Next, CallStep
  <2>2. final' = final => LoggedSteps' = LoggedSteps
    BY LoggedIs
  <2> QED BY <1>1, <2>1, <2>2 DEF Log!logVars, Log!Publish
<1> QED BY <1>2, <1>3

\* A run directory whose calls are not killed is an experiment log, however
\* often it is resumed: each accumulate_samples appends one step to it, in
\* order, and what _process_sampling_results writes is its best measurement.
THEOREM ImplementsExperimentLog ==
  ASSUME ~AllowLowering, ~AllowCrash, ~AllowTorn, "best_of" \notin Strategies
  PROVE  Spec => IsExperimentLog
<1>1. Init => Log!LogInit
  BY FileStates DEF Init, LoggedSteps, PublishedMetric, Log!LogInit
<1>2. Init => MeasuredInv /\ OfferInv /\ TimedInv /\ LoggedInv
  BY FileStates
  DEF Init, MeasuredInv, ReturnedInv, OfferInv, TimedInv, UpTimed, RowsTimed, LoggedInv
<1>3. /\ IInv /\ TInv /\ MeasuredInv /\ [Next]_vars => MeasuredInv'
      /\ IInv /\ TInv /\ OfferInv /\ [Next]_vars => OfferInv'
      /\ IInv /\ TInv /\ MeasuredInv /\ TimedInv /\ [Next]_vars => TimedInv'
      /\ IInv /\ TInv /\ OriginInv /\ KeptInv /\ [Next]_vars => KeptInv'
  BY MeasuredStep, OfferStep, TimedStep, KeptStep
<1>4. IInv /\ TInv /\ OriginInv /\ KeptInv /\ MeasuredInv /\ OfferInv /\ TimedInv /\ LoggedInv
        /\ [Next]_vars => LoggedInv' /\ [Log!Extend \/ Log!Publish]_(Log!logVars)
  BY LoggedStep
<1> QED BY <1>1, <1>2, <1>3, <1>4, InitKept, InvHolds, TInvHolds, OriginHolds, PTL
        DEF Spec, IsExperimentLog, Log!LogSpec
=============================================================================
