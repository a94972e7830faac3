---------------------------- MODULE PlanApiProofs ----------------------------
(***************************************************************************)
(* Proofs about PlanApi for any calls, any plans and patches, any number   *)
(* of workers and any order of their answers.                              *)
(*                                                                         *)
(* What the calls return is stated at their end only.  The strengthening   *)
(* says what every future holds while its phase lasts: a worker's answer   *)
(* fits its own query or plan, whatever the other workers do, and what the *)
(* main thread has taken is stored in that query's place (IInv).           *)
(*                                                                         *)
(* What the plans of an answer are comes second: a patch that is           *)
(* transferred is the difference between what transfer_plan makes of the   *)
(* source plan and of the patched one (MadeInv).  What that computes is a  *)
(* fact about plans, proved apart from the calls in PlanTransferProofs,    *)
(* and put together with the two invariants last.                          *)
(***************************************************************************)
EXTENDS PlanApi, PlanTransferProofs

IsRecord(f) == f = [st |-> f.st, out |-> f.out]

\* The phases follow each other as the call has them, one set of futures each.
ControlInv ==
  /\ args \in Inputs
  /\ phase \in {"plan", "validate", "transfer", "benchmark", "done", "raised"}
  /\ phase = "plan" => args.call \in {"scale", "queries"}
  /\ phase = "validate" => args.call = "validate"
  /\ phase = "transfer" => args.call = "scale"
  /\ phase = "benchmark" => args.call \in {"scale", "queries"}
  /\ phase \in {"plan", "validate", "transfer"} => DOMAIN futures = PerQuery
  /\ futures = [k \in DOMAIN futures |-> futures[k]]
  /\ \A k \in DOMAIN futures :
       /\ IsRecord(futures[k])
       /\ futures[k].st \in {"queued", "running", "ended", "taken"}
  /\ IsFiniteSet(Running) /\ Cardinality(Running) <= MaxWorkers

\* A cached runner is one for the scale it is cached under.
RunnersInv ==
  /\ DOMAIN runners \subseteq {SourceScale, TargetScale}
  /\ \A sf \in DOMAIN runners : runners[sf] = sf

\* An answer of the first phase: an error, or the engine's plan of that query.
PlannedFit(i, out) ==
  /\ out.err \in Errors \cup {"none"}
  /\ out.plan = [structure |-> out.plan.structure, tables |-> out.plan.tables]
  /\ out.err = "none" => out.plan = EnginePlan(i, TargetScale)

Answered(k) == futures[k].st \in {"ended", "taken"}

PlannedInv ==
  /\ planned = [i \in Queries |-> planned[i]]
  /\ \A i \in Queries : PlannedFit(i, planned[i])
  /\ phase \in {"plan", "validate"} =>
       \A k \in PerQuery : Answered(k) => PlannedFit(k[1], futures[k].out)

\* What a sequence of unknown elements is a sequence of.
IsList(s) == s \in Seq(Range(s))

\* A query in the loop over its patches: what is done so far fits.
PatchesFit(i, out) ==
  /\ out = [base |-> out.base, patches |-> out.patches,
            statuses |-> out.statuses, failure |-> out.failure]
  /\ out.statuses \in Seq(Statuses) /\ IsList(out.patches)
  /\ Len(out.patches) = Len(out.statuses)
  /\ out.base.tables = planned[i].plan.tables
  /\ \A j \in 1 .. Len(out.statuses) :
       /\ out.patches[j].none <=> out.statuses[j] # "transferred"
       /\ Patches(i)[j].none <=> out.statuses[j] = "skipped_none"

EndedFit(i, out) ==
  out.statuses \in Seq(Statuses) /\ IsList(out.patches) /\ AlignedTo(i, out)

ScaledInv ==
  /\ \A i \in DOMAIN scaled :
       scaled[i] = Nothing \/ scaled[i].statuses \in Seq(Statuses)
  /\ phase = "transfer" =>
       /\ scaled = [i \in Queries |-> scaled[i]]
       /\ \A k \in PerQuery :
            /\ futures[k].st = "queued" => futures[k].out = Nothing
            /\ futures[k].st = "running" =>
                 futures[k].out = Nothing \/ PatchesFit(k[1], futures[k].out)
            /\ Answered(k) => EndedFit(k[1], futures[k].out)
            /\ futures[k].st = "taken" => scaled[k[1]] = futures[k].out
  /\ phase \in {"benchmark", "done"} /\ args.call = "scale" =>
       /\ scaled = [i \in Queries |-> scaled[i]]
       /\ \A i \in Queries : EndedFit(i, scaled[i])

\* A measurement of an entry of the benchmark.
MeasurementFit(entry, j, r) ==
  /\ r.kind \in {"measured", "patch_missing", "error"}
  /\ r.kind = "measured" => r.tree = PatchedPlan(entry, j)
  /\ r.kind = "patch_missing" <=> entry.patches[j].none

\* The list of an entry's results holds what was taken, at its place.
ResultsInv ==
  /\ phase = "benchmark" =>
       /\ DOMAIN futures = BenchmarkTasks(Entries)
       /\ results = [d \in DOMAIN Entries |-> results[d]]
       /\ \A d \in DOMAIN Entries :
            /\ IsList(results[d]) /\ Len(results[d]) <= Len(Entries[d].patches)
            /\ \A j \in DOMAIN Entries[d].patches :
                 futures[<<d, j>>].st = "taken" =>
                   /\ j \in DOMAIN results[d]
                   /\ results[d][j] = futures[<<d, j>>].out
       /\ \A k \in DOMAIN futures :
            Answered(k) => MeasurementFit(Entries[k[1]], k[2], futures[k].out)
  /\ ResultsAligned

IInv == ControlInv /\ RunnersInv /\ PlannedInv /\ ScaledInv /\ ResultsInv

-----------------------------------------------------------------------------
(* Sequences, sets and records. *)

LEMMA AppendKeeps ==
  ASSUME NEW s, IsList(s), NEW e
  PROVE  /\ IsList(Append(s, e))
         /\ Len(s) \in Nat /\ Len(Append(s, e)) = Len(s) + 1
         /\ DOMAIN Append(s, e) = 1 .. Len(s) + 1
         /\ \A x \in 1 .. Len(s) : Append(s, e)[x] = s[x]
         /\ Append(s, e)[Len(s) + 1] = e
<1> DEFINE S == Range(s) \cup {e}
           t == Append(s, e)
<1>1. s \in Seq(S)
  BY SeqMonotonic DEF IsList
<1> HIDE DEF S
<1>2. e \in S
  BY DEF S
<1>3. /\ t \in Seq(S)
      /\ Len(t) = Len(s) + 1
      /\ \A x \in 1 .. Len(s) : t[x] = s[x]
      /\ t[Len(s) + 1] = e
  BY <1>1, <1>2, AppendProperties
<1>4. Len(s) \in Nat /\ t \in [1 .. Len(t) -> S] /\ DOMAIN t = 1 .. Len(t)
  BY <1>1, <1>3, LenProperties
<1> HIDE DEF t
<1>5. t \in [1 .. Len(t) -> Range(t)]
  BY <1>4 DEF Range
<1>6. Len(t) \in Nat
  BY <1>3, <1>4
<1>7. t \in Seq(Range(t))
  BY <1>5, <1>6, SeqDef
<1> QED BY <1>3, <1>4, <1>7 DEF IsList, t

LEMMA FunctionIsList ==
  ASSUME NEW n \in Nat, NEW f, f = [x \in 1 .. n |-> f[x]]
  PROVE  IsList(f) /\ Len(f) = n /\ DOMAIN f = 1 .. n
<1>1. f \in [1 .. n -> Range(f)]
  BY DEF Range
<1>2. f \in Seq(Range(f))
  BY <1>1, SeqDef
<1>3. DOMAIN f = 1 .. Len(f) /\ Len(f) \in Nat
  BY <1>2, LenProperties
<1>4. DOMAIN f = 1 .. n
  OBVIOUS
<1> QED BY <1>2, <1>3, <1>4 DEF IsList

LEMMA ListDomain ==
  ASSUME NEW s, IsList(s)
  PROVE  Len(s) \in Nat /\ DOMAIN s = 1 .. Len(s) /\ s = [x \in 1 .. Len(s) |-> s[x]]
BY LenProperties DEF IsList

LEMMA EmptyIsList == IsList(<< >>) /\ Len(<< >>) = 0
BY EmptySeq DEF IsList

-----------------------------------------------------------------------------
(* What the steps do to the futures. *)

Replaced(k, new) == [l \in DOMAIN futures |-> IF l = k THEN new ELSE futures[l]]

LEMMA EndedReplaces ==
  ASSUME ControlInv, NEW k \in DOMAIN futures, NEW out
  PROVE  /\ Ended(k, out) = Replaced(k, [st |-> "ended", out |-> out])
         /\ [futures EXCEPT ![k].out = out]
              = Replaced(k, [st |-> futures[k].st, out |-> out])
         /\ \A st : [futures EXCEPT ![k].st = st]
                     = Replaced(k, [st |-> st, out |-> futures[k].out])
<1>1. futures = [l \in DOMAIN futures |-> futures[l]]
  BY DEF ControlInv
<1>2. futures[k] = [st |-> futures[k].st, out |-> futures[k].out]
  BY DEF ControlInv, IsRecord
<1>3. Ended(k, out) = Replaced(k, [st |-> "ended", out |-> out])
  <2> DEFINE g == [futures EXCEPT ![k].st = "ended"]
  <2>1. g = Replaced(k, [st |-> "ended", out |-> futures[k].out])
    BY <1>1, <1>2 DEF Replaced
  <2>2. Ended(k, out) = [g EXCEPT ![k].out = out]
    BY DEF Ended
  <2> HIDE DEF g
  <2>3. g = [l \in DOMAIN futures |-> g[l]] /\ g[k] = [st |-> "ended", out |-> futures[k].out]
    BY <2>1 DEF Replaced
  <2>4. [g EXCEPT ![k].out = out] = Replaced(k, [st |-> "ended", out |-> out])
    BY <2>1, <2>3 DEF Replaced
  <2> QED BY <2>2, <2>4
<1>4. [futures EXCEPT ![k].out = out] = Replaced(k, [st |-> futures[k].st, out |-> out])
  BY <1>1, <1>2 DEF Replaced
<1>5. \A st : [futures EXCEPT ![k].st = st]
                = Replaced(k, [st |-> st, out |-> futures[k].out])
  BY <1>1, <1>2 DEF Replaced
<1> QED BY <1>3, <1>4, <1>5

\* A step that ends, takes or goes on with the work of one future keeps the control.
LEMMA ReplacedKeepsControl ==
  ASSUME ControlInv, NEW k \in DOMAIN futures, NEW st, NEW out,
         st \in {"ended", "taken"} \/ (st = "running" /\ k \in Running),
         futures' = Replaced(k, [st |-> st, out |-> out]),
         UNCHANGED <<args, phase>>
  PROVE  ControlInv'
<1>1. DOMAIN futures' = DOMAIN futures
  BY DEF Replaced
<1>2. futures' = [l \in DOMAIN futures' |-> futures'[l]]
  BY DEF Replaced
<1>3. \A l \in DOMAIN futures' :
        /\ IsRecord(futures'[l])
        /\ futures'[l].st \in {"queued", "running", "ended", "taken"}
  BY DEF Replaced, ControlInv, IsRecord
<1>4. Running' \in SUBSET Running
  BY DEF Running, Replaced
<1>5. IsFiniteSet(Running) /\ Cardinality(Running) <= MaxWorkers
  BY DEF ControlInv
<1> DEFINE R == Running
           RR == Running'
<1>6. IsFiniteSet(RR) /\ Cardinality(RR) <= MaxWorkers
  <2>1. IsFiniteSet(RR) /\ Cardinality(RR) <= Cardinality(R)
    <3> HIDE DEF R, RR
    <3> QED BY <1>4, <1>5, FS_Subset DEF R, RR
  <2>2. Cardinality(RR) \in Nat /\ Cardinality(R) \in Nat /\ MaxWorkers \in Nat
    BY <2>1, <1>5, FS_CardinalityType, PlanApiAssumption
  <2> HIDE DEF R, RR
  <2> QED BY <2>1, <2>2, <1>5 DEF R
<1>7. PerQuery' = PerQuery
  BY DEF PerQuery, Queries
<1> QED BY <1>1, <1>2, <1>3, <1>6, <1>7 DEF ControlInv

LEMMA StartWorkerControl ==
  ASSUME ControlInv, NEW k \in DOMAIN futures, StartWorker(k)
  PROVE  ControlInv' /\ futures' = Replaced(k, [st |-> "running", out |-> futures[k].out])
<1>0. futures' = Replaced(k, [st |-> "running", out |-> futures[k].out])
  BY EndedReplaces DEF StartWorker
<1>1. DOMAIN futures' = DOMAIN futures
  BY <1>0 DEF Replaced
<1>2. futures' = [l \in DOMAIN futures' |-> futures'[l]]
  BY <1>0 DEF Replaced
<1>3. \A l \in DOMAIN futures' :
        /\ IsRecord(futures'[l])
        /\ futures'[l].st \in {"queued", "running", "ended", "taken"}
  BY <1>0 DEF Replaced, ControlInv, IsRecord
<1>4. Running' = Running \cup {k}
  BY <1>0 DEF Running, Replaced
<1>5. IsFiniteSet(Running) /\ Cardinality(Running) < MaxWorkers
  BY DEF ControlInv, StartWorker
<1>6. IsFiniteSet(Running \cup {k}) /\ Cardinality(Running \cup {k}) <= MaxWorkers
  <2>1. Cardinality(Running) \in Nat /\ MaxWorkers \in Nat
    BY <1>5, FS_CardinalityType, PlanApiAssumption
  <2> QED BY <1>5, <2>1, FS_AddElement
<1>7. PerQuery' = PerQuery /\ UNCHANGED <<args, phase>>
  BY DEF PerQuery, Queries, StartWorker
<1> QED BY <1>0, <1>1, <1>2, <1>3, <1>4, <1>6, <1>7 DEF ControlInv

\* A phase starts with its futures queued.
LEMMA SubmitKeepsControl ==
  ASSUME NEW tasks
  PROVE  LET f == Submit(tasks)
         IN  /\ DOMAIN f = tasks
             /\ f = [k \in DOMAIN f |-> f[k]]
             /\ \A k \in tasks : /\ IsRecord(f[k]) /\ f[k].st = "queued"
                                  /\ f[k].out = Nothing
BY DEF Submit, IsRecord

\* What an answer must fit depends on the call, and on the plans it has taken.
LEMMA FitUnchanged ==
  ASSUME UNCHANGED args
  PROVE  /\ Queries' = Queries /\ PerQuery' = PerQuery
         /\ \A i, out : PlannedFit(i, out)' <=> PlannedFit(i, out)
         /\ UNCHANGED planned =>
              /\ \A i, out : PatchesFit(i, out)' <=> PatchesFit(i, out)
              /\ \A i, out : EndedFit(i, out)' <=> EndedFit(i, out)
              /\ UNCHANGED scaled => Entries' = Entries /\ \A i : EntryOf(i)' = EntryOf(i)
<1>1. Queries' = Queries /\ PerQuery' = PerQuery
  BY DEF Queries, PerQuery
<1>2. \A i, out : PlannedFit(i, out)' <=> PlannedFit(i, out)
  BY DEF PlannedFit, EnginePlan
<1>3. \A i : Patches(i)' = Patches(i) /\ SourcePlan(i)' = SourcePlan(i)
  BY DEF Patches, SourcePlan
<1>4. ASSUME UNCHANGED planned
      PROVE  /\ \A i, out : PatchesFit(i, out)' <=> PatchesFit(i, out)
             /\ \A i, out : EndedFit(i, out)' <=> EndedFit(i, out)
  BY <1>3, <1>4 DEF PatchesFit, EndedFit, AlignedTo
<1>5. ASSUME UNCHANGED <<planned, scaled>>
      PROVE  Entries' = Entries /\ \A i : EntryOf(i)' = EntryOf(i)
  <2>1. Successful' = Successful
    BY <1>1, <1>5 DEF Successful
  <2>2. Entries' = Entries
    BY <1>5, <2>1 DEF Entries
  <2>3. \A i : EntryOf(i)' = EntryOf(i)
    BY <1>5 DEF EntryOf
  <2> QED BY <2>2, <2>3
<1> QED BY <1>1, <1>2, <1>4, <1>5

LEMMA InitInv == Init => IInv
<1> SUFFICES ASSUME Init PROVE IInv
  OBVIOUS
<1>1. /\ DOMAIN futures = PerQuery /\ futures = [k \in DOMAIN futures |-> futures[k]]
      /\ \A k \in PerQuery : /\ IsRecord(futures[k]) /\ futures[k].st = "queued"
                              /\ futures[k].out = Nothing
  BY SubmitKeepsControl DEF Init
<1>2. ControlInv
  <2>1. args.call \in {"scale", "queries", "validate"}
    BY PlanApiAssumption DEF Init
  <2>2. Running = {}
    BY <1>1 DEF Running
  <2>3. IsFiniteSet(Running) /\ Cardinality(Running) <= MaxWorkers
    BY <2>2, FS_EmptySet, PlanApiAssumption
  <2> QED BY <1>1, <2>1, <2>3 DEF Init, ControlInv
<1>3. RunnersInv
  BY DEF Init, RunnersInv
<1>4. PlannedInv
  <2>1. \A i : PlannedFit(i, NotPlanned("pending"))
    BY DEF PlannedFit, NotPlanned, NoPlan, Errors
  <2> QED BY <1>1, <2>1 DEF Init, PlannedInv, Answered
<1>5. ScaledInv
  BY DEF Init, ScaledInv
<1>6. ResultsInv
  BY DEF Init, ResultsInv, ResultsAligned
<1> QED BY <1>2, <1>3, <1>4, <1>5, <1>6 DEF IInv

-----------------------------------------------------------------------------
(* Planning and validation. *)

LEMMA AnswerInv ==
  ASSUME IInv, phase \in {"plan", "validate"}, NEW k \in DOMAIN futures,
         NEW out, PlannedFit(k[1], out), futures' = Ended(k, out),
         runners' = Cached,
         UNCHANGED <<args, phase, planned, scaled, results>>
  PROVE  IInv'
<1>1. futures' = Replaced(k, [st |-> "ended", out |-> out])
  BY EndedReplaces DEF IInv
<1>2. ControlInv'
  BY <1>1, ReplacedKeepsControl DEF IInv
<1>3. RunnersInv'
  <2>1. RunnerScale(TargetScale) = TargetScale
    BY DEF IInv, RunnersInv, RunnerScale
  <2> QED BY <2>1 DEF IInv, RunnersInv, Cached, RunnerScale
<1>4. PlannedInv'
  <2>1. \A l \in PerQuery : Answered(l)' => PlannedFit(l[1], futures'[l].out)
    BY <1>1 DEF IInv, PlannedInv, ControlInv, Replaced, Answered
  <2> QED BY <2>1, FitUnchanged DEF IInv, PlannedInv
<1>5. ScaledInv'
  BY DEF IInv, ScaledInv
<1>6. ResultsInv'
  BY DEF IInv, ResultsInv, ResultsAligned
<1> QED BY <1>2, <1>3, <1>4, <1>5, <1>6 DEF IInv

LEMMA EnginePlanFits ==
  ASSUME RunnersInv, NEW i
  PROVE  PlannedFit(i, [plan |-> EnginePlan(i, RunnerScale(TargetScale)), err |-> "none"])
<1>1. RunnerScale(TargetScale) = TargetScale
  BY DEF RunnersInv, RunnerScale
<1> DEFINE p == EnginePlan(i, TargetScale)
<1>2. p = [structure |-> p.structure, tables |-> p.tables]
  BY DEF EnginePlan, ToSuccinct
<1> HIDE DEF p
<1> QED BY <1>1, <1>2 DEF PlannedFit, p

LEMMA ErrorFits ==
  ASSUME NEW i, NEW err \in Errors
  PROVE  PlannedFit(i, NotPlanned(err))
BY DEF PlannedFit, NotPlanned, NoPlan, Errors

LEMMA PlanQueryInv ==
  ASSUME IInv, NEW k \in DOMAIN futures, PlanQuery(k)
  PROVE  IInv'
<1>1. PICK out \in {NotPlanned("plan_error"), NotPlanned("no_plan"), NotPlanned("exception"),
                    [plan |-> EnginePlan(k[1], RunnerScale(TargetScale)), err |-> "none"]} :
        futures' = Ended(k, out)
  BY DEF PlanQuery
<1>2. PlannedFit(k[1], out)
  BY <1>1, EnginePlanFits, ErrorFits DEF IInv, Errors
<1> QED BY <1>1, <1>2, AnswerInv DEF PlanQuery

LEMMA CategoriesAreErrors ==
  ASSUME NEW buildable, NEW report \in Reports(buildable)
  PROVE  Categories(report) \subseteq Errors \cup {"none"}
<1>1. /\ report.syntax \in BOOLEAN /\ report.plan \in BOOLEAN
      /\ report.runs \in BOOLEAN /\ report.empty \in BOOLEAN
      /\ report.plan => report.syntax
      /\ report.runs => report.plan
  BY DEF Reports
<1> QED BY <1>1 DEF Categories, Errors

LEMMA ValidateQueryInv ==
  ASSUME IInv, NEW k \in DOMAIN futures, ValidateQuery(k)
  PROVE  IInv'
<1> DEFINE plan == EnginePlan(k[1], RunnerScale(TargetScale))
           found == UNION {Categories(r) : r \in Reports(FromSuccinct(plan) # Unbuildable)}
           out(err) == IF err = "none" THEN [plan |-> plan, err |-> err] ELSE NotPlanned(err)
<1>1. PICK err \in found \cup {"validation_error", "exception"} : futures' = Ended(k, out(err))
  BY DEF ValidateQuery
<1>2. found \subseteq Errors \cup {"none"}
  BY CategoriesAreErrors
<1>3. err \in Errors \cup {"none"}
  <2> HIDE DEF found
  <2> QED BY <1>1, <1>2 DEF Errors
<1>4. PlannedFit(k[1], out(err))
  <2>1. CASE err = "none"
    BY <2>1, EnginePlanFits DEF IInv
  <2>2. CASE err # "none"
    BY <2>2, <1>3, ErrorFits
  <2> QED BY <2>1, <2>2
<1> HIDE DEF out
<1> QED BY <1>1, <1>4, AnswerInv DEF ValidateQuery

\* A benchmark has one task for each patch of each entry.
LEMMA TasksAreEntries ==
  ASSUME NEW entries
  PROVE  /\ \A d \in DOMAIN entries : \A j \in DOMAIN entries[d].patches :
              <<d, j>> \in BenchmarkTasks(entries)
         /\ \A k \in BenchmarkTasks(entries) :
              /\ k[1] \in DOMAIN entries /\ k[2] \in DOMAIN entries[k[1]].patches
              /\ k = <<k[1], k[2]>>
<1> DEFINE tasks(d) == {d} \X DOMAIN entries[d].patches
<1>1. \A k : k \in BenchmarkTasks(entries) <=> \E d \in DOMAIN entries : k \in tasks(d)
  BY DEF BenchmarkTasks
<1>2. \A d, k : k \in tasks(d) <=>
        /\ k = <<k[1], k[2]>> /\ k[1] = d /\ k[2] \in DOMAIN entries[d].patches
  OBVIOUS
<1>3. \A d : \A j \in DOMAIN entries[d].patches : <<d, j>> \in tasks(d)
  OBVIOUS
<1> HIDE DEF tasks
<1> QED BY <1>1, <1>2, <1>3

LEMMA StartWorkerInv ==
  ASSUME IInv, NEW k \in DOMAIN futures, StartWorker(k)
  PROVE  IInv'
<1>1. ControlInv' /\ futures' = Replaced(k, [st |-> "running", out |-> futures[k].out])
  BY StartWorkerControl DEF IInv
<1>2. UNCHANGED <<args, phase, runners, planned, scaled, results>> /\ futures[k].st = "queued"
  BY DEF StartWorker
<1>3. \A l \in DOMAIN futures :
        /\ futures'[l].out = futures[l].out
        /\ Answered(l)' => Answered(l)
        /\ futures'[l].st = "taken" => futures[l].st = "taken"
        /\ futures'[l].st = "queued" => futures[l].st = "queued"
        /\ futures'[l].st = "running" => futures[l].st \in {"queued", "running"}
  BY <1>1, <1>2 DEF Replaced, Answered
<1>4. DOMAIN futures' = DOMAIN futures
  BY <1>1 DEF Replaced
<1>5. RunnersInv'
  BY <1>2 DEF IInv, RunnersInv
<1>6. PlannedInv'
  BY <1>2, <1>3, FitUnchanged DEF IInv, PlannedInv, ControlInv
<1>7. ScaledInv'
  BY <1>2, <1>3, FitUnchanged DEF IInv, ScaledInv, ControlInv
<1>8. ResultsInv'
  <2>1. ResultsAligned'
    <3>1. phase' = "done" => ResultsAligned /\ phase = "done"
      BY <1>2 DEF IInv, ResultsInv
    <3>2. \A i, j, r : MeasuredAt(i, j, r)' <=> MeasuredAt(i, j, r)
      BY <1>2, FitUnchanged DEF MeasuredAt
    <3> QED BY <1>2, <3>1, <3>2, FitUnchanged DEF ResultsAligned
  <2>2. CASE phase = "benchmark"
    <3>1. \A d \in DOMAIN Entries : \A j \in DOMAIN Entries[d].patches :
            <<d, j>> \in DOMAIN futures
      BY <2>2, TasksAreEntries DEF IInv, ResultsInv
    <3> QED BY <1>2, <1>3, <1>4, <2>1, <2>2, <3>1, FitUnchanged DEF IInv, ResultsInv
  <2>3. CASE phase # "benchmark"
    BY <1>2, <2>1, <2>3 DEF ResultsInv
  <2> QED BY <2>2, <2>3
<1> QED BY <1>1, <1>5, <1>6, <1>7, <1>8 DEF IInv

-----------------------------------------------------------------------------
(* The transfer. *)

LEMMA UnscaledFits ==
  ASSUME ControlInv, NEW i \in Queries, NEW status \in Wholes
  PROVE  EndedFit(i, Unscaled(i, status))
<1> DEFINE s == Unscaled(i, status)
<1>1. IsSequence(Patches(i))
  BY PlanApiAssumption DEF ControlInv, Queries, Patches
<1>2. s.statuses = [j \in 1 .. Len(Patches(i)) |-> status] /\ Len(Patches(i)) \in Nat
  BY <1>1 DEF Unscaled, IsSequence
<1>3. s.statuses \in [1 .. Len(Patches(i)) -> Statuses]
  BY <1>2 DEF Statuses
<1>4. s.statuses \in Seq(Statuses)
  BY <1>2, <1>3, SeqDef
<1>5. Len(s.statuses) = Len(Patches(i))
  BY <1>2, FunctionIsList
<1>6. s.patches = <<NoPatch>> /\ s.base = SourcePlan(i) /\ s.failure = status
  BY DEF Unscaled
<1>7. IsList(s.patches)
  BY <1>6, EmptyIsList DEF IsList, Range
<1>8. \A j \in DOMAIN Patches(i) : s.statuses[j] = status
  BY <1>1, <1>2 DEF IsSequence
<1> HIDE DEF s
<1>9. AlignedTo(i, s)
  BY <1>5, <1>6, <1>8 DEF AlignedTo, Wholes
<1> QED BY <1>4, <1>7, <1>9 DEF EndedFit, s

\* If none of the statuses is the failure then none is a failure.
LEMMA NoFailure ==
  ASSUME NEW statuses \in Seq(Statuses), Failure(statuses) = "none"
  PROVE  \A j \in DOMAIN statuses : statuses[j] \in {"transferred", "skipped_none"}
<1> DEFINE failing == {j \in DOMAIN statuses :
                         statuses[j] \notin {"transferred", "skipped_none"}}
<1>1. \A j \in DOMAIN statuses : j \in Nat /\ statuses[j] \in Statuses
  BY LenProperties
<1>2. failing # {} => Min(failing) \in failing
  <2>1. failing \subseteq Nat
    BY <1>1
  <2> HIDE DEF failing
  <2> QED BY <2>1, MinIsElement
<1>3. failing # {} => Failure(statuses) = statuses[Min(failing)]
  BY DEF Failure
<1>4. failing = {}
  BY <1>1, <1>2, <1>3 DEF Statuses, Wholes
<1> QED BY <1>4

\* The loop goes on with a query, or ends with what fits it.
LEMMA ProgressFits ==
  ASSUME ControlInv, phase = "transfer", NEW k \in DOMAIN futures,
         futures[k].st = "running", NEW out, PatchesFit(k[1], out)
  PROVE  \/ Progress(k, out) = Replaced(k, [st |-> "running", out |-> out])
         \/ \E done : /\ Progress(k, out) = Replaced(k, [st |-> "ended", out |-> done])
                      /\ EndedFit(k[1], done)
<1> DEFINE done == [out EXCEPT !.failure = Failure(out.statuses)]
<1>1. k[1] \in Queries
  BY DEF ControlInv, PerQuery
<1>2. IsSequence(Patches(k[1]))
  BY <1>1, PlanApiAssumption DEF ControlInv, Queries, Patches
<1>3. CASE Len(out.statuses) = Len(Patches(k[1]))
  <2>1. Progress(k, out) = Replaced(k, [st |-> "ended", out |-> done])
    BY <1>3, EndedReplaces DEF Progress
  <2>2. done = [base |-> out.base, patches |-> out.patches, statuses |-> out.statuses,
                failure |-> Failure(out.statuses)]
    BY DEF PatchesFit
  <2>3. DOMAIN out.statuses = 1 .. Len(out.statuses)
    BY LenProperties DEF PatchesFit
  <2>4. DOMAIN Patches(k[1]) = 1 .. Len(out.statuses)
    BY <1>2, <1>3 DEF IsSequence
  <2>5. done.failure = "none" =>
          \A j \in DOMAIN Patches(k[1]) : done.statuses[j] \in {"transferred", "skipped_none"}
    BY <2>2, <2>3, <2>4, NoFailure DEF PatchesFit
  <2> HIDE DEF done
  <2>6. AlignedTo(k[1], done)
    BY <1>3, <2>2, <2>4, <2>5 DEF PatchesFit, AlignedTo
  <2>7. EndedFit(k[1], done)
    BY <2>2, <2>6 DEF PatchesFit, EndedFit
  <2> QED BY <2>1, <2>7
<1>4. CASE Len(out.statuses) # Len(Patches(k[1]))
  BY <1>4, EndedReplaces DEF Progress
<1> QED BY <1>3, <1>4

\* A step of a transfer that leaves what fits keeps the invariant.
LEMMA TransferredInv ==
  ASSUME IInv, phase = "transfer", NEW k \in DOMAIN futures, futures[k].st = "running",
         NEW st, NEW out, futures' = Replaced(k, [st |-> st, out |-> out]),
         \/ st = "running" /\ PatchesFit(k[1], out)
         \/ st = "ended" /\ EndedFit(k[1], out),
         UNCHANGED <<args, phase, runners, planned, scaled, results>>
  PROVE  IInv'
<1>1. k \in Running
  BY DEF Running
<1>2. ControlInv'
  BY <1>1, ReplacedKeepsControl DEF IInv
<1>3. RunnersInv'
  BY DEF IInv, RunnersInv
<1>4. PlannedInv'
  BY FitUnchanged DEF IInv, PlannedInv
<1>5. \A l \in PerQuery : l # k => futures'[l] = futures[l]
  BY DEF IInv, ControlInv, Replaced
<1>6. futures'[k].st = st /\ futures'[k].out = out
  BY DEF Replaced
<1>7. ScaledInv'
  <2>1. \A l \in PerQuery :
          /\ futures'[l].st = "queued" => futures'[l].out = Nothing
          /\ futures'[l].st = "running" =>
               futures'[l].out = Nothing \/ PatchesFit(l[1], futures'[l].out)
          /\ Answered(l)' => EndedFit(l[1], futures'[l].out)
          /\ futures'[l].st = "taken" => scaled[l[1]] = futures'[l].out
    <3> SUFFICES ASSUME NEW l \in PerQuery
                 PROVE  /\ futures'[l].st = "queued" => futures'[l].out = Nothing
                        /\ futures'[l].st = "running" =>
                             futures'[l].out = Nothing \/ PatchesFit(l[1], futures'[l].out)
                        /\ Answered(l)' => EndedFit(l[1], futures'[l].out)
                        /\ futures'[l].st = "taken" => scaled[l[1]] = futures'[l].out
      OBVIOUS
    <3>1. CASE l = k
      BY <1>6, <3>1 DEF Answered
    <3>2. CASE l # k
      BY <1>5, <3>2 DEF IInv, ScaledInv, Answered
    <3> QED BY <3>1, <3>2
  <2> QED BY <2>1, FitUnchanged DEF IInv, ScaledInv
<1>8. ResultsInv'
  BY DEF ResultsInv, ResultsAligned
<1> QED BY <1>2, <1>3, <1>4, <1>7, <1>8 DEF IInv

LEMMA TransferBaseInv ==
  ASSUME IInv, NEW k \in DOMAIN futures, TransferBase(k)
  PROVE  IInv'
<1> DEFINE i == k[1]
           base == Transferred(i, << >>)
           plan == [planned[i].plan EXCEPT !.structure = base.val]
           out == [base |-> plan, patches |-> << >>, statuses |-> << >>, failure |-> "none"]
<1>1. /\ phase = "transfer" /\ k \in DOMAIN futures /\ futures[k].st = "running"
      /\ UNCHANGED <<args, phase, runners, planned, scaled, results>>
  BY DEF TransferBase, Running
<1>2. i \in Queries
  BY <1>1 DEF IInv, ControlInv, PerQuery
<1>3. ASSUME NEW status \in Wholes, futures' = Ended(k, Unscaled(i, status))
      PROVE  IInv'
  <2>1. futures' = Replaced(k, [st |-> "ended", out |-> Unscaled(i, status)])
    BY <1>3, EndedReplaces DEF IInv
  <2>2. EndedFit(k[1], Unscaled(i, status))
    BY <1>2, <1>3, UnscaledFits DEF IInv
  <2> QED BY <1>1, <2>1, <2>2, TransferredInv
<1>4. ASSUME futures' = Progress(k, out)
      PROVE  IInv'
  <2>1. PlannedFit(i, planned[i])
    BY <1>2 DEF IInv, PlannedInv
  <2>2. plan.tables = planned[i].plan.tables
    BY <2>1 DEF PlannedFit
  <2> HIDE DEF plan
  <2>3. PatchesFit(k[1], out)
    BY <2>2, EmptyIsList, EmptySeq DEF PatchesFit
  <2> HIDE DEF out
  <2>4. \/ futures' = Replaced(k, [st |-> "running", out |-> out])
        \/ \E done : /\ futures' = Replaced(k, [st |-> "ended", out |-> done])
                     /\ EndedFit(k[1], done)
    BY <1>1, <1>4, <2>3, ProgressFits DEF IInv
  <2> QED BY <1>1, <2>3, <2>4, TransferredInv
<1>5. \/ \E status \in Wholes : futures' = Ended(k, Unscaled(i, status))
      \/ futures' = Progress(k, out)
  BY DEF TransferBase, Wholes
<1> QED BY <1>3, <1>4, <1>5

\* A patch comes out with a status that says what it is.
LEMMA OutcomeFits ==
  ASSUME NEW i, NEW base, NEW patch, NEW outcome \in PatchOutcomes(i, base, patch)
  PROVE  /\ outcome[1] \in Statuses
         /\ outcome[2].none <=> outcome[1] # "transferred"
         /\ patch.none <=> outcome[1] = "skipped_none"
<1>1. \A ops : Patch(ops).none = FALSE
  BY DEF Patch
<1>2. NoPatch.none = TRUE
  BY DEF NoPatch
<1>3. CASE patch.none
  <2>1. outcome = <<"skipped_none", NoPatch>>
    BY <1>3 DEF PatchOutcomes
  <2> QED BY <1>2, <1>3, <2>1 DEF Statuses
<1>4. CASE ~patch.none
  <2>1. \/ outcome \in {<<"transfer_failed", NoPatch>>, <<"validation_failed", NoPatch>>}
        \/ \E ops : outcome = <<"transferred", Patch(ops)>>
    BY <1>4 DEF PatchOutcomes
  <2> QED BY <1>1, <1>2, <1>4, <2>1 DEF Statuses
<1> QED BY <1>3, <1>4

LEMMA AppendedRecord ==
  ASSUME NEW out, NEW outcome,
         out = [base |-> out.base, patches |-> out.patches,
                statuses |-> out.statuses, failure |-> out.failure]
  PROVE  Appended(out, outcome)
           = [base |-> out.base, patches |-> Append(out.patches, outcome[2]),
              statuses |-> Append(out.statuses, outcome[1]), failure |-> out.failure]
<1> DEFINE b == out.base
           p == out.patches
           s == out.statuses
           f == out.failure
           a == Append(s, outcome[1])
           c == Append(p, outcome[2])
           g == [out EXCEPT !.statuses = a]
<1>1. Appended(out, outcome) = [g EXCEPT !.patches = c]
  BY DEF Appended
<1>2. out = [base |-> b, patches |-> p, statuses |-> s, failure |-> f]
  OBVIOUS
<1> HIDE DEF b, p, s, f, a, c
<1>3. g = [base |-> b, patches |-> p, statuses |-> a, failure |-> f]
  BY <1>2
<1> HIDE DEF g
<1>4. [g EXCEPT !.patches = c] = [base |-> b, patches |-> c, statuses |-> a, failure |-> f]
  BY <1>3
<1> QED BY <1>1, <1>4 DEF b, p, s, f, a, c

\* A turn of the loop adds its outcome to what fits, and leaves the rest.
LEMMA AppendedFits ==
  ASSUME NEW i, NEW out, PatchesFit(i, out),
         NEW outcome \in PatchOutcomes(i, out.base, Patches(i)[Len(out.statuses) + 1])
  PROVE  LET m == Len(out.statuses)
             new == Appended(out, outcome)
         IN  /\ PatchesFit(i, new)
             /\ m \in Nat /\ Len(new.statuses) = m + 1
             /\ new.base = out.base
             /\ new.statuses[m + 1] = outcome[1] /\ new.patches[m + 1] = outcome[2]
             /\ \A x \in 1 .. m :
                  new.statuses[x] = out.statuses[x] /\ new.patches[x] = out.patches[x]
<1> DEFINE m == Len(out.statuses)
           new == Appended(out, outcome)
<1>1. /\ outcome[1] \in Statuses
      /\ outcome[2].none <=> outcome[1] # "transferred"
      /\ Patches(i)[m + 1].none <=> outcome[1] = "skipped_none"
  BY OutcomeFits
<1>2. new = [base |-> out.base, patches |-> Append(out.patches, outcome[2]),
             statuses |-> Append(out.statuses, outcome[1]), failure |-> out.failure]
  BY AppendedRecord DEF PatchesFit
<1> HIDE DEF new
<1>3. /\ Append(out.statuses, outcome[1]) \in Seq(Statuses)
      /\ m \in Nat /\ Len(Append(out.statuses, outcome[1])) = m + 1
      /\ \A x \in 1 .. m : Append(out.statuses, outcome[1])[x] = out.statuses[x]
      /\ Append(out.statuses, outcome[1])[m + 1] = outcome[1]
  BY <1>1, AppendProperties, LenProperties DEF PatchesFit
<1>4. /\ IsList(Append(out.patches, outcome[2]))
      /\ Len(Append(out.patches, outcome[2])) = m + 1
      /\ \A x \in 1 .. m : Append(out.patches, outcome[2])[x] = out.patches[x]
      /\ Append(out.patches, outcome[2])[m + 1] = outcome[2]
  BY AppendKeeps DEF PatchesFit
<1>5. \A j \in 1 .. m + 1 :
        /\ new.patches[j].none <=> new.statuses[j] # "transferred"
        /\ Patches(i)[j].none <=> new.statuses[j] = "skipped_none"
  <2> SUFFICES ASSUME NEW j \in 1 .. m + 1
               PROVE  /\ new.patches[j].none <=> new.statuses[j] # "transferred"
                      /\ Patches(i)[j].none <=> new.statuses[j] = "skipped_none"
    OBVIOUS
  <2>1. CASE j \in 1 .. m
    BY <1>2, <1>3, <1>4, <2>1 DEF PatchesFit
  <2>2. CASE j = m + 1
    BY <1>1, <1>2, <1>3, <1>4, <2>2
  <2>3. j \in 1 .. m \/ j = m + 1
    BY <1>3
  <2> QED BY <2>1, <2>2, <2>3
<1>6. PatchesFit(i, new)
  BY <1>2, <1>3, <1>4, <1>5 DEF PatchesFit
<1> QED BY <1>2, <1>3, <1>4, <1>6 DEF new

LEMMA TransferPatchInv ==
  ASSUME IInv, NEW k \in DOMAIN futures, TransferPatch(k)
  PROVE  IInv'
<1> DEFINE i == k[1]
           out == futures[k].out
<1>1. /\ phase = "transfer" /\ futures[k].st = "running" /\ out # Nothing
      /\ UNCHANGED <<args, phase, runners, planned, scaled, results>>
  BY DEF TransferPatch, Running
<1>2. PICK outcome \in PatchOutcomes(i, out.base, Patches(i)[Len(out.statuses) + 1]) :
        futures' = Progress(k, Appended(out, outcome))
  BY DEF TransferPatch
<1> DEFINE new == Appended(out, outcome)
<1>3. PatchesFit(i, out)
  BY <1>1 DEF IInv, ScaledInv, ControlInv
<1>4. PatchesFit(i, new)
  <2> HIDE DEF out, i
  <2> QED BY <1>2, <1>3, AppendedFits
<1> HIDE DEF out, new
<1>5. \/ futures' = Replaced(k, [st |-> "running", out |-> new])
      \/ \E done : /\ futures' = Replaced(k, [st |-> "ended", out |-> done])
                   /\ EndedFit(k[1], done)
  BY <1>1, <1>2, <1>4, ProgressFits DEF IInv, new
<1> QED BY <1>1, <1>4, <1>5, TransferredInv

-----------------------------------------------------------------------------
(* The benchmark. *)

LEMMA BenchmarkInv ==
  ASSUME IInv, NEW k \in DOMAIN futures, Benchmark(k)
  PROVE  IInv'
<1> DEFINE entry == Entries[k[1]]
           tree == PatchedPlan(entry, k[2])
<1>1. /\ phase = "benchmark" /\ k \in DOMAIN futures /\ futures[k].st = "running"
      /\ UNCHANGED <<args, phase, runners, planned, scaled, results>>
  BY DEF Benchmark, Running
<1>2. PICK out \in IF entry.patches[k[2]].none THEN {NotMeasured("patch_missing")}
                   ELSE {NotMeasured("error")}
                          \cup (IF tree = Unbuildable THEN {} ELSE {Measured(tree)}) :
        futures' = Ended(k, out)
  BY DEF Benchmark
<1>3. MeasurementFit(entry, k[2], out)
  <2> DEFINE missing == NotMeasured("patch_missing")
             error == NotMeasured("error")
             measured == Measured(tree)
  <2>1. /\ missing.kind = "patch_missing" /\ error.kind = "error"
        /\ measured.kind = "measured" /\ measured.tree = tree
    BY DEF NotMeasured, Measured
  <2> HIDE DEF missing, error, measured
  <2>2. IF entry.patches[k[2]].none THEN out = missing ELSE out \in {error, measured}
    BY <1>2 DEF missing, error, measured
  <2> QED BY <2>1, <2>2 DEF MeasurementFit
<1>4. futures' = Replaced(k, [st |-> "ended", out |-> out])
  BY <1>2, EndedReplaces DEF IInv
<1>5. ControlInv'
  BY <1>1, <1>4, ReplacedKeepsControl DEF IInv
<1>6. RunnersInv'
  BY <1>1 DEF IInv, RunnersInv
<1>7. PlannedInv'
  BY <1>1, FitUnchanged DEF IInv, PlannedInv
<1>8. ScaledInv'
  BY <1>1, FitUnchanged DEF IInv, ScaledInv
<1>9. ResultsInv'
  <2>1. DOMAIN futures' = DOMAIN futures
    BY <1>4 DEF Replaced
  <2>2. \A l \in DOMAIN futures' :
          Answered(l)' => MeasurementFit(Entries[l[1]], l[2], futures'[l].out)
    BY <1>1, <1>3, <1>4 DEF IInv, ResultsInv, Replaced, Answered
  <2>3. \A d \in DOMAIN Entries : \A j \in DOMAIN Entries[d].patches :
          /\ <<d, j>> \in DOMAIN futures
          /\ futures'[<<d, j>>].st = "taken" =>
               futures[<<d, j>>].st = "taken" /\ futures'[<<d, j>>] = futures[<<d, j>>]
    BY <1>1, <1>4, TasksAreEntries DEF IInv, ResultsInv, Replaced
  <2>4. ResultsAligned'
    BY <1>1 DEF ResultsAligned
  <2> QED BY <1>1, <2>1, <2>2, <2>3, <2>4, FitUnchanged DEF IInv, ResultsInv
<1> QED BY <1>5, <1>6, <1>7, <1>8, <1>9 DEF IInv

\* A list with an answer stored at its place.
LEMMA StoredKeeps ==
  ASSUME NEW list, IsList(list), NEW j \in Nat \ {0}, NEW out
  PROVE  /\ IsList(Stored(list, j, out))
         /\ Len(Stored(list, j, out)) = IF j > Len(list) THEN j ELSE Len(list)
         /\ j \in DOMAIN Stored(list, j, out) /\ Stored(list, j, out)[j] = out
         /\ \A x \in DOMAIN list \ {j} :
              x \in DOMAIN Stored(list, j, out) /\ Stored(list, j, out)[x] = list[x]
<1> DEFINE n == IF j > Len(list) THEN j ELSE Len(list)
           s == Stored(list, j, out)
<1>1. Len(list) \in Nat /\ DOMAIN list = 1 .. Len(list)
  BY ListDomain
<1>2. n \in Nat /\ j \in 1 .. n /\ \A x \in 1 .. Len(list) : x \in 1 .. n
  BY <1>1
<1>3. s = [x \in 1 .. n |-> IF x = j THEN out
                            ELSE IF x <= Len(list) THEN list[x] ELSE NotMeasured("empty")]
  BY DEF Stored
<1> HIDE DEF n
<1>4. DOMAIN s = 1 .. n /\ s = [x \in 1 .. n |-> s[x]]
  BY <1>3
<1>5. s[j] = out /\ \A x \in 1 .. Len(list) : x # j => s[x] = list[x]
  BY <1>1, <1>2, <1>3
<1> HIDE DEF s
<1>6. IsList(s) /\ Len(s) = n
  BY <1>2, <1>4, FunctionIsList
<1> QED BY <1>1, <1>2, <1>4, <1>5, <1>6 DEF n, s

LEMMA EntriesAreLists ==
  ASSUME args.call = "scale" => \A i \in DOMAIN scaled : IsList(scaled[i].patches)
  PROVE  \A d \in DOMAIN Entries : IsList(Entries[d].patches)
<1>1. CASE args.call = "scale"
  BY <1>1 DEF Entries
<1>2. CASE args.call # "scale"
  <2>1. \A d \in DOMAIN Entries : Entries[d].patches = <<Patch(<< >>)>>
    BY <1>2 DEF Entries
  <2>2. IsList(<<Patch(<< >>)>>)
    BY EmptyIsList DEF IsList, Range
  <2> QED BY <2>1, <2>2
<1> QED BY <1>1, <1>2

LEMMA TakeFutureInv ==
  ASSUME IInv, NEW k \in DOMAIN futures, TakeFuture(k)
  PROVE  IInv'
<1> DEFINE out == futures[k].out
<1>1. /\ futures[k].st = "ended"
      /\ futures' = Replaced(k, [st |-> "taken", out |-> out])
      /\ UNCHANGED <<args, phase, runners>>
      /\ phase \in {"plan", "validate", "transfer", "benchmark"}
      /\ planned' = IF phase \in {"plan", "validate"}
                    THEN [planned EXCEPT ![k[1]] = out] ELSE planned
      /\ scaled' = IF phase = "transfer" THEN [scaled EXCEPT ![k[1]] = out] ELSE scaled
      /\ results' = IF phase = "benchmark"
                    THEN [results EXCEPT ![k[1]] = Stored(@, k[2], out)] ELSE results
  BY EndedReplaces DEF TakeFuture, IInv, ControlInv
<1>2. ControlInv'
  BY <1>1, ReplacedKeepsControl DEF IInv
<1>3. RunnersInv'
  BY <1>1 DEF IInv, RunnersInv
<1>4. /\ DOMAIN futures' = DOMAIN futures
      /\ \A l \in DOMAIN futures :
           /\ futures'[l].out = futures[l].out
           /\ Answered(l)' <=> Answered(l)
           /\ futures'[l].st = "taken" <=> futures[l].st = "taken" \/ l = k
           /\ futures'[l].st = "queued" => futures[l].st = "queued"
           /\ futures'[l].st = "running" => futures[l].st = "running"
  BY <1>1 DEF Replaced, Answered
<1>5. ResultsAligned'
  BY <1>1 DEF ResultsAligned
<1>6. CASE phase \in {"plan", "validate"}
  <2>1. k \in PerQuery /\ k[1] \in Queries /\ DOMAIN futures = PerQuery
    BY <1>6 DEF IInv, ControlInv, PerQuery
  <2>2. PlannedFit(k[1], out)
    BY <1>1, <1>6, <2>1 DEF IInv, PlannedInv, Answered
  <2>3. planned' = [planned EXCEPT ![k[1]] = out]
    BY <1>1, <1>6
  <2>4. PlannedInv'
    <3>1. planned' = [i \in Queries |-> planned'[i]]
      BY <2>3 DEF IInv, PlannedInv
    <3>2. \A i \in Queries : PlannedFit(i, planned'[i])
      BY <2>1, <2>2, <2>3 DEF IInv, PlannedInv
    <3>3. \A l \in PerQuery : Answered(l)' => PlannedFit(l[1], futures'[l].out)
      BY <1>4, <1>6, <2>1 DEF IInv, PlannedInv
    <3> QED BY <1>1, <3>1, <3>2, <3>3, FitUnchanged DEF PlannedInv
  <2>5. ScaledInv' /\ ResultsInv'
    BY <1>1, <1>5, <1>6 DEF IInv, ScaledInv, ResultsInv
  <2> QED BY <1>2, <1>3, <2>4, <2>5 DEF IInv
<1>7. CASE phase = "transfer"
  <2>1. k \in PerQuery /\ k[1] \in Queries /\ DOMAIN futures = PerQuery
    BY <1>7 DEF IInv, ControlInv, PerQuery
  <2>2. \A l \in PerQuery : l[1] = k[1] => l = k
    BY <2>1 DEF PerQuery
  <2>3. EndedFit(k[1], out)
    BY <1>1, <1>7, <2>1 DEF IInv, ScaledInv, Answered
  <2>4. planned' = planned /\ scaled' = [scaled EXCEPT ![k[1]] = out]
    BY <1>1, <1>7
  <2>5. PlannedInv'
    BY <1>1, <1>7, <2>4, FitUnchanged DEF IInv, PlannedInv
  <2>6. scaled = [i \in Queries |-> scaled[i]]
    BY <1>7 DEF IInv, ScaledInv
  <2>7. scaled' = [i \in Queries |-> scaled'[i]] /\ scaled'[k[1]] = out
        /\ \A i \in Queries : i # k[1] => scaled'[i] = scaled[i]
    BY <2>1, <2>4, <2>6
  <2>8. \A i \in Queries : scaled'[i] = Nothing \/ scaled'[i].statuses \in Seq(Statuses)
    BY <2>3, <2>6, <2>7 DEF IInv, ScaledInv, EndedFit
  <2>9. \A l \in PerQuery :
          /\ futures'[l].st = "queued" => futures'[l].out = Nothing
          /\ futures'[l].st = "running" =>
               futures'[l].out = Nothing \/ PatchesFit(l[1], futures'[l].out)
          /\ Answered(l)' => EndedFit(l[1], futures'[l].out)
    BY <1>4, <1>7, <2>1 DEF IInv, ScaledInv
  <2>10. \A l \in PerQuery :
           futures'[l].st = "taken" => scaled'[l[1]] = futures'[l].out
    <3> TAKE l \in PerQuery
    <3>1. CASE l = k
      BY <1>4, <2>1, <2>7, <3>1
    <3>2. CASE l # k
      <4>1. l[1] \in Queries /\ l[1] # k[1]
        BY <2>2, <3>2 DEF PerQuery
      <4> QED BY <1>4, <1>7, <2>1, <2>7, <3>2, <4>1 DEF IInv, ScaledInv
    <3> QED BY <3>1, <3>2
  <2>11. ScaledInv'
    BY <1>1, <1>7, <2>4, <2>7, <2>8, <2>9, <2>10, FitUnchanged DEF ScaledInv
  <2>12. ResultsInv'
    BY <1>1, <1>5, <1>7 DEF ResultsInv
  <2> QED BY <1>2, <1>3, <2>5, <2>11, <2>12 DEF IInv
<1>8. CASE phase = "benchmark"
  <2> DEFINE d == k[1]
             j == k[2]
             new == Stored(results[d], j, out)
  <2>1. UNCHANGED <<planned, scaled>> /\ results' = [results EXCEPT ![d] = new]
    BY <1>1, <1>8
  <2>2. d \in DOMAIN Entries /\ j \in DOMAIN Entries[d].patches /\ k = <<d, j>>
    BY <1>8, TasksAreEntries DEF IInv, ResultsInv
  <2>3. /\ IsList(Entries[d].patches) /\ Len(Entries[d].patches) \in Nat
        /\ DOMAIN Entries[d].patches = 1 .. Len(Entries[d].patches)
    <3>1. args.call = "scale" => \A i \in DOMAIN scaled : IsList(scaled[i].patches)
      BY <1>8 DEF IInv, ScaledInv, EndedFit
    <3> QED BY <2>2, <3>1, EntriesAreLists, ListDomain
  <2>4. IsList(results[d]) /\ Len(results[d]) <= Len(Entries[d].patches)
    BY <1>8, <2>2 DEF IInv, ResultsInv
  <2>5. Len(results[d]) \in Nat
    BY <2>4, ListDomain
  <2>6. j \in Nat \ {0} /\ j <= Len(Entries[d].patches)
    BY <2>2, <2>3
  <2>7. /\ IsList(new) /\ Len(new) <= Len(Entries[d].patches)
        /\ j \in DOMAIN new /\ new[j] = out
        /\ \A x \in DOMAIN results[d] \ {j} : x \in DOMAIN new /\ new[x] = results[d][x]
    <3> HIDE DEF d, j, out
    <3> QED BY <2>3, <2>4, <2>5, <2>6, StoredKeeps
  <2>8. results = [e \in DOMAIN Entries |-> results[e]]
    BY <1>8 DEF IInv, ResultsInv
  <2> HIDE DEF new
  <2>9. /\ results' = [e \in DOMAIN Entries |-> results'[e]] /\ results'[d] = new
        /\ \A e \in DOMAIN Entries : e # d => results'[e] = results[e]
    BY <2>1, <2>2, <2>8
  <2>10. \A e \in DOMAIN Entries :
           /\ IsList(results'[e]) /\ Len(results'[e]) <= Len(Entries[e].patches)
           /\ \A x \in DOMAIN Entries[e].patches :
                futures'[<<e, x>>].st = "taken" =>
                  /\ x \in DOMAIN results'[e]
                  /\ results'[e][x] = futures'[<<e, x>>].out
    <3> TAKE e \in DOMAIN Entries
    <3>1. \A x \in DOMAIN Entries[e].patches : <<e, x>> \in DOMAIN futures
      BY <1>8, TasksAreEntries DEF IInv, ResultsInv
    <3>2. /\ IsList(results[e]) /\ Len(results[e]) <= Len(Entries[e].patches)
          /\ \A x \in DOMAIN Entries[e].patches :
               futures[<<e, x>>].st = "taken" =>
                 /\ x \in DOMAIN results[e]
                 /\ results[e][x] = futures[<<e, x>>].out
      BY <1>8 DEF IInv, ResultsInv
    <3>3. CASE e = d
      <4>1. IsList(results'[e]) /\ Len(results'[e]) <= Len(Entries[e].patches)
        BY <2>7, <2>9, <3>3
      <4>2. ASSUME NEW x \in DOMAIN Entries[e].patches, futures'[<<e, x>>].st = "taken"
            PROVE  x \in DOMAIN results'[e] /\ results'[e][x] = futures'[<<e, x>>].out
        <5>1. CASE x = j
          BY <1>4, <2>2, <2>7, <2>9, <3>1, <3>3, <5>1
        <5>2. CASE x # j
          <6>1. futures[<<e, x>>].st = "taken" /\ futures'[<<e, x>>].out = futures[<<e, x>>].out
            BY <1>4, <2>2, <3>1, <4>2, <5>2
          <6>2. x \in DOMAIN results[d] /\ results[d][x] = futures[<<e, x>>].out
            BY <3>2, <3>3, <6>1
          <6> QED BY <2>7, <2>9, <3>3, <5>2, <6>1, <6>2
        <5> QED BY <5>1, <5>2
      <4> QED BY <4>1, <4>2
    <3>4. CASE e # d
      <4>1. \A x \in DOMAIN Entries[e].patches :
              /\ futures'[<<e, x>>].st = "taken" => futures[<<e, x>>].st = "taken"
              /\ futures'[<<e, x>>].out = futures[<<e, x>>].out
        BY <1>4, <2>2, <3>1, <3>4
      <4> QED BY <2>9, <3>2, <3>4, <4>1
    <3> QED BY <3>3, <3>4
  <2>11. Entries' = Entries
    BY <1>1, <2>1, FitUnchanged
  <2>12. \A l \in DOMAIN futures :
           Answered(l)' => MeasurementFit(Entries[l[1]], l[2], futures'[l].out)
    BY <1>4, <1>8 DEF IInv, ResultsInv
  <2>13. ResultsInv'
    BY <1>1, <1>4, <1>5, <1>8, <2>9, <2>10, <2>11, <2>12 DEF IInv, ResultsInv
  <2>14. PlannedInv' /\ ScaledInv'
    BY <1>1, <1>8, <2>1, FitUnchanged DEF IInv, PlannedInv, ScaledInv
  <2> QED BY <1>2, <1>3, <2>13, <2>14 DEF IInv
<1> QED BY <1>1, <1>6, <1>7, <1>8

-----------------------------------------------------------------------------
(* From phase to phase. *)

\* A new phase's futures keep the control, whatever they are the tasks of.
LEMMA SubmittedControl ==
  ASSUME ControlInv, NEW tasks, futures' = Submit(tasks), UNCHANGED args,
         \/ phase' = "transfer" /\ args.call = "scale" /\ tasks = PerQuery
         \/ phase' = "benchmark" /\ args.call \in {"scale", "queries"}
  PROVE  /\ ControlInv' /\ DOMAIN futures' = tasks
         /\ \A k \in tasks : /\ futures'[k].st = "queued" /\ ~Answered(k)'
                              /\ futures'[k].out = Nothing
<1>1. /\ DOMAIN futures' = tasks /\ futures' = [k \in DOMAIN futures' |-> futures'[k]]
      /\ \A k \in tasks : /\ IsRecord(futures'[k]) /\ futures'[k].st = "queued"
                           /\ futures'[k].out = Nothing
  BY SubmitKeepsControl
<1>2. Running' = {}
  BY <1>1 DEF Running
<1>3. IsFiniteSet(Running') /\ Cardinality(Running') <= MaxWorkers
  BY <1>2, FS_EmptySet, PlanApiAssumption
<1>4. ControlInv'
  BY <1>1, <1>3, FitUnchanged DEF ControlInv
<1> QED BY <1>1, <1>4 DEF Answered

LEMMA StartTransferInv ==
  ASSUME IInv, StartTransfer
  PROVE  IInv'
<1>1. /\ phase = "plan" /\ args.call = "scale" /\ phase' = "transfer"
      /\ futures' = Submit(PerQuery) /\ scaled' = [i \in Queries |-> Nothing]
      /\ UNCHANGED <<args, runners, planned, results>>
  BY DEF StartTransfer
<1>2. /\ ControlInv' /\ DOMAIN futures' = PerQuery
      /\ \A k \in PerQuery : /\ futures'[k].st = "queued" /\ ~Answered(k)'
                              /\ futures'[k].out = Nothing
  BY <1>1, SubmittedControl DEF IInv
<1>3. RunnersInv' /\ PlannedInv'
  BY <1>1, FitUnchanged DEF IInv, RunnersInv, PlannedInv
<1>4. ScaledInv'
  BY <1>1, <1>2, FitUnchanged DEF ScaledInv
<1>5. ResultsInv'
  BY <1>1 DEF ResultsInv, ResultsAligned
<1> QED BY <1>2, <1>3, <1>4, <1>5 DEF IInv

LEMMA StartBenchmarkInv ==
  ASSUME IInv, StartBenchmark
  PROVE  IInv'
<1>1. /\ (phase = "plan" /\ args.call = "queries") \/ phase = "transfer"
      /\ phase' = "benchmark" /\ futures' = Submit(BenchmarkTasks(Entries))
      /\ results' = [d \in DOMAIN Entries |-> << >>]
      /\ UNCHANGED <<args, runners, planned, scaled>>
      /\ \A k \in DOMAIN futures : futures[k].st = "taken"
  BY DEF StartBenchmark, AllTaken
<1>2. args.call \in {"scale", "queries"} /\ (args.call = "scale" => phase = "transfer")
  BY <1>1 DEF IInv, ControlInv
<1>3. /\ ControlInv' /\ DOMAIN futures' = BenchmarkTasks(Entries)
      /\ \A k \in BenchmarkTasks(Entries) : futures'[k].st = "queued" /\ ~Answered(k)'
  BY <1>1, <1>2, SubmittedControl DEF IInv
<1>4. RunnersInv' /\ PlannedInv'
  BY <1>1, FitUnchanged DEF IInv, RunnersInv, PlannedInv
<1>5. ASSUME args.call = "scale"
      PROVE  /\ scaled = [i \in Queries |-> scaled[i]]
             /\ \A i \in Queries : EndedFit(i, scaled[i])
  <2>1. DOMAIN futures = PerQuery /\ scaled = [i \in Queries |-> scaled[i]]
    BY <1>2, <1>5 DEF IInv, ControlInv, ScaledInv
  <2>2. \A i \in Queries : <<i, 1>> \in PerQuery /\ <<i, 1>>[1] = i
    BY DEF PerQuery
  <2>3. \A i \in Queries : EndedFit(i, scaled[i])
    BY <1>1, <1>2, <1>5, <2>1, <2>2 DEF IInv, ScaledInv, Answered
  <2> QED BY <2>1, <2>3
<1>6. ScaledInv'
  BY <1>1, <1>5, FitUnchanged DEF IInv, ScaledInv
<1>7. ResultsInv'
  <2>1. Entries' = Entries
    BY <1>1, FitUnchanged
  <2>2. ResultsAligned'
    BY <1>1 DEF ResultsAligned
  <2>3. \A d \in DOMAIN Entries : Len(Entries[d].patches) \in Nat
    <3>1. args.call = "scale" => \A i \in DOMAIN scaled : IsList(scaled[i].patches)
      BY <1>5 DEF EndedFit
    <3> QED BY <3>1, EntriesAreLists, ListDomain
  <2>4. \A d \in DOMAIN Entries :
          /\ IsList(results'[d]) /\ Len(results'[d]) <= Len(Entries[d].patches)
    BY <1>1, <2>3, EmptyIsList
  <2>5. \A d \in DOMAIN Entries : \A j \in DOMAIN Entries[d].patches :
          futures'[<<d, j>>].st # "taken"
    BY <1>3, TasksAreEntries
  <2>6. results' = [d \in DOMAIN Entries |-> results'[d]]
    BY <1>1
  <2> QED BY <1>1, <1>3, <2>1, <2>2, <2>4, <2>5, <2>6 DEF ResultsInv
<1> QED BY <1>3, <1>4, <1>6, <1>7 DEF IInv

LEMMA RaiseOutInv ==
  ASSUME IInv, RaiseOut
  PROVE  IInv'
<1>1. phase' = "raised" /\ UNCHANGED <<args, runners, futures, planned, scaled, results>>
  BY DEF RaiseOut
<1>2. ControlInv'
  BY <1>1, FitUnchanged DEF IInv, ControlInv, Running
<1>3. RunnersInv' /\ PlannedInv' /\ ScaledInv'
  BY <1>1, FitUnchanged DEF IInv, RunnersInv, PlannedInv, ScaledInv
<1>4. ResultsInv'
  BY <1>1 DEF ResultsInv, ResultsAligned
<1> QED BY <1>2, <1>3, <1>4 DEF IInv

\* Once everything is taken, a list has a measurement for each patch of its entry.
LEMMA ListsAreFull ==
  ASSUME IInv, phase = "benchmark", \A k \in DOMAIN futures : futures[k].st = "taken",
         NEW d \in DOMAIN Entries
  PROVE  /\ Len(results[d]) = Len(Entries[d].patches)
         /\ DOMAIN results[d] = DOMAIN Entries[d].patches
         /\ \A j \in DOMAIN results[d] : MeasurementFit(Entries[d], j, results[d][j])
<1>1. /\ Len(Entries[d].patches) \in Nat
      /\ DOMAIN Entries[d].patches = 1 .. Len(Entries[d].patches)
  <2>1. args.call = "scale" => \A i \in DOMAIN scaled : IsList(scaled[i].patches)
    BY DEF IInv, ScaledInv, EndedFit
  <2> QED BY <2>1, EntriesAreLists, ListDomain
<1>2. /\ IsList(results[d]) /\ Len(results[d]) <= Len(Entries[d].patches)
      /\ DOMAIN futures = BenchmarkTasks(Entries)
  BY DEF IInv, ResultsInv
<1>3. Len(results[d]) \in Nat /\ DOMAIN results[d] = 1 .. Len(results[d])
  BY <1>2, ListDomain
<1>4. \A j \in DOMAIN Entries[d].patches :
        /\ <<d, j>> \in DOMAIN futures
        /\ j \in DOMAIN results[d] /\ results[d][j] = futures[<<d, j>>].out
  BY <1>2, TasksAreEntries DEF IInv, ResultsInv
<1>5. \A j \in DOMAIN Entries[d].patches : MeasurementFit(Entries[d], j, results[d][j])
  <2> TAKE j \in DOMAIN Entries[d].patches
  <2> DEFINE k == <<d, j>>
  <2>1. k \in DOMAIN futures /\ k[1] = d /\ k[2] = j /\ results[d][j] = futures[k].out
    BY <1>4
  <2> HIDE DEF k
  <2>2. MeasurementFit(Entries[k[1]], k[2], futures[k].out)
    BY <2>1 DEF IInv, ResultsInv, Answered
  <2> QED BY <2>1, <2>2
<1>6. Len(results[d]) = Len(Entries[d].patches)
  <2>1. CASE Len(Entries[d].patches) = 0
    BY <1>1, <1>2, <1>3, <2>1
  <2>2. CASE Len(Entries[d].patches) # 0
    <3>1. Len(Entries[d].patches) \in DOMAIN results[d]
      <4>1. Len(Entries[d].patches) \in 1 .. Len(Entries[d].patches)
        BY <1>1, <2>2
      <4>2. Len(Entries[d].patches) \in DOMAIN Entries[d].patches
        BY <1>1, <4>1, Zenon
      <4> QED BY <1>4, <4>2
    <3> QED BY <1>1, <1>2, <1>3, <3>1
  <2> QED BY <2>1, <2>2
<1> QED BY <1>1, <1>3, <1>5, <1>6

\* The entry of a query that could be planned is at the query's rank among them.
LEMMA EntryAtRank ==
  ASSUME ControlInv, args.call = "queries", NEW i \in Successful
  PROVE  /\ RankIn(Successful, i) + 1 \in DOMAIN Entries
         /\ Entries[RankIn(Successful, i) + 1] = EntryOf(i)
<1>1. Queries \in SUBSET Nat /\ IsFiniteSet(Queries)
  <2>1. IsSequence(args.queries)
    BY PlanApiAssumption DEF ControlInv
  <2> QED BY <2>1, FS_Interval DEF IsSequence, Queries
<1>2. Successful \in SUBSET Nat /\ IsFiniteSet(Successful)
  <2>1. Successful \in SUBSET Queries
    BY DEF Successful
  <2> QED BY <1>1, <2>1, FS_Subset
<1> DEFINE r == RankIn(Successful, i) + 1
<1>3. r \in 1 .. Cardinality(Successful) /\ Ascending(Successful)[r] = i
  BY <1>2, AscendingAtRank
<1> HIDE DEF r
<1>4. /\ DOMAIN Entries = 1 .. Cardinality(Successful)
      /\ Entries[r] = [base |-> planned[Ascending(Successful)[r]].plan,
                      patches |-> <<Patch(<< >>)>>]
  BY <1>3 DEF Entries
<1>5. EntryOf(i) = [base |-> planned[i].plan, patches |-> <<Patch(<< >>)>>]
  BY DEF EntryOf
<1> QED BY <1>3, <1>4, <1>5 DEF r

LEMMA ReturnInv ==
  ASSUME IInv, Return
  PROVE  IInv'
<1>1. /\ phase \in {"validate", "benchmark"} /\ phase' = "done"
      /\ \A k \in DOMAIN futures : futures[k].st = "taken"
      /\ results' = IF args.call = "queries" THEN PerQueryResults(results) ELSE results
      /\ UNCHANGED <<args, runners, futures, planned, scaled>>
  BY DEF Return, AllTaken
<1>2. ControlInv'
  BY <1>1, FitUnchanged DEF IInv, ControlInv, Running
<1>3. RunnersInv' /\ PlannedInv'
  BY <1>1, FitUnchanged DEF IInv, RunnersInv, PlannedInv
<1>4. ScaledInv'
  BY <1>1, FitUnchanged DEF IInv, ControlInv, ScaledInv
<1>5. ASSUME args.call # "validate"
      PROVE  /\ DOMAIN results' = Queries
             /\ \A i \in Queries :
                  /\ Len(results'[i]) = Len(EntryOf(i).patches)
                  /\ \A j \in DOMAIN results'[i] : MeasuredAt(i, j, results'[i][j])
  <2>1. phase = "benchmark" /\ args.call \in {"scale", "queries"}
    BY <1>1, <1>5 DEF IInv, ControlInv
  <2>2. \A d \in DOMAIN Entries :
          /\ Len(results[d]) = Len(Entries[d].patches)
          /\ DOMAIN results[d] = DOMAIN Entries[d].patches
          /\ \A j \in DOMAIN results[d] : MeasurementFit(Entries[d], j, results[d][j])
    BY <1>1, <2>1, ListsAreFull
  <2>3. \A i, j, r : /\ MeasurementFit(EntryOf(i), j, r)
                     /\ ~(args.call = "queries" /\ planned[i].err # "none")
                     => MeasuredAt(i, j, r)
    BY DEF MeasurementFit, MeasuredAt
  <2>4. CASE args.call = "scale"
    <3>1. results' = results /\ Entries = scaled /\ \A i : EntryOf(i) = scaled[i]
      BY <1>1, <2>4 DEF Entries, EntryOf
    <3>2. DOMAIN scaled = Queries /\ DOMAIN results = Queries
      BY <2>1, <2>4, <3>1 DEF IInv, ScaledInv, ResultsInv
    <3> QED BY <2>2, <2>3, <2>4, <3>1, <3>2
  <2>5. CASE args.call = "queries"
    <3>1. results' = [i \in Queries |->
                       IF i \in Successful THEN results[RankIn(Successful, i) + 1]
                       ELSE <<NotMeasured("planning_failed")>>]
      BY <1>1, <2>5 DEF PerQueryResults
    <3>2. ASSUME NEW i \in Successful
          PROVE  /\ Len(results'[i]) = Len(EntryOf(i).patches)
                 /\ \A j \in DOMAIN results'[i] : MeasuredAt(i, j, results'[i][j])
      <4> DEFINE d == RankIn(Successful, i) + 1
      <4>1. i \in Queries /\ planned[i].err = "none"
        BY DEF Successful
      <4>2. d \in DOMAIN Entries /\ Entries[d] = EntryOf(i)
        BY <2>5, EntryAtRank DEF IInv
      <4>3. results'[i] = results[d]
        BY <3>1, <4>1
      <4> HIDE DEF d
      <4> QED BY <2>2, <2>3, <4>1, <4>2, <4>3
    <3>3. ASSUME NEW i \in Queries \ Successful
          PROVE  /\ Len(results'[i]) = Len(EntryOf(i).patches)
                 /\ \A j \in DOMAIN results'[i] : MeasuredAt(i, j, results'[i][j])
      <4>1. results'[i] = <<NotMeasured("planning_failed")>> /\ planned[i].err # "none"
        BY <3>1 DEF Successful
      <4>2. EntryOf(i).patches = <<Patch(<< >>)>>
        BY <2>5 DEF EntryOf
      <4>3. EntryOf(i).patches[1].none = FALSE
        BY <4>2 DEF Patch
      <4>4. MeasuredAt(i, 1, NotMeasured("planning_failed"))
        BY <2>5, <4>1, <4>3 DEF MeasuredAt, NotMeasured
      <4> QED BY <4>1, <4>2, <4>4
    <3> QED BY <3>1, <3>2, <3>3
  <2> QED BY <2>1, <2>4, <2>5
<1>6. ResultsAligned'
  <2>1. Queries' = Queries /\ \A i : EntryOf(i)' = EntryOf(i)
    BY <1>1, FitUnchanged
  <2>2. \A i, j, r : MeasuredAt(i, j, r)' <=> MeasuredAt(i, j, r)
    BY <1>1, <2>1 DEF MeasuredAt
  <2> QED BY <1>1, <1>5, <2>1, <2>2 DEF ResultsAligned
<1>7. ResultsInv'
  BY <1>1, <1>6 DEF ResultsInv
<1> QED BY <1>2, <1>3, <1>4, <1>7 DEF IInv

LEMMA UnchangedInv ==
  ASSUME IInv, UNCHANGED vars
  PROVE  IInv'
<1>1. ControlInv' /\ RunnersInv' /\ PlannedInv' /\ ScaledInv'
  BY FitUnchanged DEF vars, IInv, ControlInv, Running, RunnersInv, PlannedInv, ScaledInv,
                      Answered
<1>2. \A i, j, r : MeasuredAt(i, j, r)' <=> MeasuredAt(i, j, r)
  BY FitUnchanged DEF vars, MeasuredAt
<1>3. ResultsAligned'
  BY <1>2, FitUnchanged DEF vars, IInv, ResultsInv, ResultsAligned
<1>4. ResultsInv'
  BY <1>3, FitUnchanged DEF vars, IInv, ResultsInv, Answered
<1> QED BY <1>1, <1>4 DEF IInv

LEMMA StepInv == IInv /\ [Next]_vars => IInv'
<1> SUFFICES ASSUME IInv, [Next]_vars PROVE IInv'
  OBVIOUS
<1>1. ASSUME NEW k \in DOMAIN futures, WorkerStep(k) PROVE IInv'
  BY <1>1, StartWorkerInv, PlanQueryInv, ValidateQueryInv, TransferBaseInv,
     TransferPatchInv, BenchmarkInv DEF WorkerStep
<1>2. ASSUME NEW k \in DOMAIN futures, TakeFuture(k) PROVE IInv'
  BY <1>2, TakeFutureInv
<1>3. CASE StartTransfer \/ StartBenchmark \/ Return \/ RaiseOut
  BY <1>3, StartTransferInv, StartBenchmarkInv, ReturnInv, RaiseOutInv
<1>4. CASE UNCHANGED vars
  BY <1>4, UnchangedInv
<1> QED BY <1>1, <1>2, <1>3, <1>4 DEF Next, Terminated

LEMMA InvHolds == Spec => []IInv
BY InitInv, StepInv, PTL DEF Spec

-----------------------------------------------------------------------------
(* What the calls hold and return, and in which place. *)

\* Everything has its type and max_workers is never exceeded, for any call.
THEOREM TypeOKHolds == Spec => []TypeOK
<1>1. IInv => TypeOK
  <2> SUFFICES ASSUME IInv PROVE TypeOK
    OBVIOUS
  <2>1. \A i \in DOMAIN scaled : scaled[i] # Nothing => Range(scaled[i].statuses) \subseteq Statuses
    BY LenProperties DEF IInv, ScaledInv, Range
  <2> QED BY <2>1 DEF IInv, ControlInv, RunnersInv, PlannedInv, PlannedFit, TypeOK
<1> QED BY <1>1, InvHolds, PTL

\* Every plan the first phase is taken to have found is the engine's plan of its
\* own query at the scale the call asked for, whatever runners were cached before.
THEOREM PlannedForItsQuery ==
  Spec => [](\A i \in Queries : planned[i].err = "none" =>
               planned[i].plan = EnginePlan(i, TargetScale))
<1>1. IInv => \A i \in Queries : planned[i].err = "none" =>
                planned[i].plan = EnginePlan(i, TargetScale)
  BY DEF IInv, PlannedInv, PlannedFit
<1> QED BY <1>1, InvHolds, PTL

\* scale_optimizations returns a status for every patch of every query, and patches
\* that are aligned with them, for any queries, plans, patches and workers.
THEOREM ScaledPatchesAlignedHolds == Spec => []ScaledPatchesAligned
<1>1. IInv => ScaledPatchesAligned
  BY DEF IInv, ScaledInv, EndedFit, ScaledPatchesAligned
<1> QED BY <1>1, InvHolds, PTL

\* Every measurement is returned at the place of what was measured, in whatever
\* order the workers answered.
THEOREM ResultsAlignedHolds == Spec => []ResultsAligned
<1>1. IInv => ResultsAligned
  BY DEF IInv, ResultsInv
<1> QED BY <1>1, InvHolds, PTL

\* At which scale a plan is asked for changes none of its nodes but the scans' data.
LEMMA AtScaleIs ==
  ASSUME NEW v, IsPlan(v), NEW sf
  PROVE  /\ IsVisit(AtScale(v, sf))
         /\ (\E i \in DOMAIN AtScale(v, sf) : Loses(AtScale(v, sf)[i])) <=> LosesChildren(v)
<1> DEFINE D == DOMAIN v
           L == Len(v)
           w == AtScale(v, sf)
           Node == [label : Labels, kids : Seq(Nat)]
<1>1. /\ L \in Nat \ {0} /\ D = 1 .. L
      /\ \A i \in D : /\ v[i].kids \in Seq(i + 1 .. L)
                      /\ HasKids(v[i].label.keys, Len(v[i].kids))
                      /\ i > 1 => \E p \in 1 .. i - 1 : i \in Range(v[p].kids)
  BY DEF IsPlan, IsVisit
<1>2. \A i \in D : v[i] \in Node
  <2>1. v \in Seq(Node)
    BY DEF IsPlan
  <2>2. v \in [1 .. L -> Node]
    <3> HIDE DEF Node
    <3> QED BY <2>1, LenProperties
  <2> HIDE DEF Node, L
  <2> QED BY <1>1, <2>2
<1>3. DOMAIN w = D
  BY DEF AtScale
<1>4. ASSUME NEW i \in D
      PROVE  w[i].kids = v[i].kids /\ w[i].label.keys = v[i].label.keys
  <2> DEFINE node == v[i]
             moved == [node EXCEPT !.label.sf = sf]
  <2>1. node \in Node
    BY <1>2
  <2>2. w[i] = IF IsScan(node.label) THEN moved ELSE node
    BY DEF AtScale
  <2> HIDE DEF node, w
  <2>3. moved.kids = node.kids /\ moved.label.keys = node.label.keys
    BY <2>1 DEF Labels
  <2> QED BY <2>2, <2>3 DEF node
<1>5. Len(w) = L
  <2>1. w = [x \in 1 .. L |-> w[x]]
    BY <1>1 DEF AtScale
  <2> HIDE DEF w, L
  <2> QED BY <1>1, <2>1, TupleIsList
<1> HIDE DEF w, L, Node
<1>6. IsVisit(w)
  <2>1. \A i \in D : i > 1 => \E p \in 1 .. i - 1 : i \in Range(w[p].kids)
    <3> SUFFICES ASSUME NEW i \in D, i > 1 PROVE \E p \in 1 .. i - 1 : i \in Range(w[p].kids)
      OBVIOUS
    <3>1. PICK p \in 1 .. i - 1 : i \in Range(v[p].kids)
      BY <1>1
    <3>2. p \in D
      BY <1>1, <3>1
    <3> QED BY <1>4, <3>1, <3>2
  <2> HIDE DEF D
  <2> QED BY <1>1, <1>3, <1>4, <1>5, <2>1 DEF IsVisit
<1>7. \A i \in D : Loses(w[i]) <=> Loses(v[i])
  BY <1>4 DEF Loses
<1>8. (\E i \in D : Loses(v[i])) <=> LosesChildren(v)
  BY DEF Loses, LosesChildren, Range
<1> QED BY <1>3, <1>6, <1>7, <1>8 DEF w

\* What the program has as the plan of a query gives back the very plan the
\* engine has for it at the scale asked for, however large it is and however its
\* nodes are nested; a plan with a union of two inputs gives none, never another.
THEOREM EnginePlansRoundTripHolds == Spec => []EnginePlansRoundTrip
<1>1. IInv => EnginePlansRoundTrip
  <2> SUFFICES ASSUME IInv, NEW i \in Queries, planned[i].err = "none"
               PROVE  FromSuccinct(planned[i].plan)
                        = IF LosesChildren(args.queries[i].target) THEN Unbuildable
                          ELSE TreeOf(AtScale(args.queries[i].target, TargetScale))
    BY DEF EnginePlansRoundTrip
  <2> DEFINE v == args.queries[i].target
             w == AtScale(v, TargetScale)
  <2>1. planned[i].plan = ToSuccinct(w)
    BY DEF IInv, PlannedInv, PlannedFit, EnginePlan
  <2>2. IsPlan(v)
    BY PlanApiAssumption DEF PlanApiAssumption, IInv, ControlInv, Queries
  <2> HIDE DEF v
  <2>3. IsVisit(w) /\ ((\E k \in DOMAIN w : Loses(w[k])) <=> LosesChildren(v))
    BY <2>2, AtScaleIs
  <2> HIDE DEF w
  <2>4. FromSuccinct(ToSuccinct(w))
          = IF \E k \in DOMAIN w : Loses(w[k]) THEN Unbuildable ELSE TreeOf(w)
    BY <2>3, RoundTrip
  <2> QED BY <2>1, <2>3, <2>4 DEF v, w
<1> QED BY <1>1, InvHolds, PTL

-----------------------------------------------------------------------------
(* make_patch: what it makes of two structures takes the one to the other. *)

IsMap(f) == f = [x \in DOMAIN f |-> f[x]] /\ DOMAIN f \in SUBSET Nat /\ IsFiniteSet(DOMAIN f)

Changed(old, new) ==
  {id \in DOMAIN old \cup DOMAIN new :
     ~(id \in DOMAIN old /\ id \in DOMAIN new /\ old[id] = new[id])}

Change(old, new, id) ==
  [op |-> CASE id \notin DOMAIN old -> "add"
            [] id \notin DOMAIN new -> "remove"
            [] OTHER -> "replace",
   id |-> id, from |-> id, node |-> IF id \in DOMAIN new THEN new[id] ELSE old[id]]

\* Between the two, when the nodes of some numbers are those of the new one.
Mixed(old, new, done) ==
  [id \in (DOMAIN new \cap done) \cup (DOMAIN old \ done) |->
     IF id \in done THEN new[id] ELSE old[id]]

LEMMA ChangeIs ==
  ASSUME NEW old, NEW new, NEW done, NEW id \in Changed(old, new), id \notin done
  PROVE  ApplyOperation(Mixed(old, new, done), Change(old, new, id))
           = Ok(Mixed(old, new, done \cup {id}))
<1> DEFINE f == Mixed(old, new, done)
           g == Mixed(old, new, done \cup {id})
           o == Change(old, new, id)
           a == With(f, id, o.node)
           b == Without(f, id)
<1>1. o.id = id /\ o.node = (IF id \in DOMAIN new THEN new[id] ELSE old[id])
  BY DEF Change
<1>2. id \in DOMAIN old \cup DOMAIN new /\ (id \in DOMAIN old => id \in DOMAIN f)
  BY DEF Changed, Mixed
<1>3. ASSUME id \in DOMAIN new PROVE a = g
  <2>1. o.node = new[id]
    BY <1>1, <1>3
  <2>2. a = [x \in DOMAIN f \cup {id} |-> IF x = id THEN new[id] ELSE f[x]]
    BY <2>1 DEF With
  <2>3. DOMAIN f \cup {id} = DOMAIN g
    BY <1>3 DEF Mixed
  <2>4. \A x \in DOMAIN g : (IF x = id THEN new[id] ELSE f[x])
                            = (IF x \in done \cup {id} THEN new[x] ELSE old[x])
    BY DEF Mixed
  <2>5. g = [x \in DOMAIN g |-> IF x \in done \cup {id} THEN new[x] ELSE old[x]]
    BY DEF Mixed
  <2> HIDE DEF f, g, a
  <2> QED BY <2>2, <2>3, <2>4, <2>5
<1>4. ASSUME id \notin DOMAIN new PROVE b = g
  <2>1. DOMAIN b = DOMAIN g /\ b = [x \in DOMAIN b |-> b[x]] /\ g = [x \in DOMAIN g |-> g[x]]
    BY <1>2, <1>4 DEF Mixed, Without
  <2>2. \A x \in DOMAIN b : b[x] = g[x]
    BY <1>4 DEF Mixed, Without
  <2> HIDE DEF b, g
  <2> QED BY <2>1, <2>2
<1> HIDE DEF f, g, a, b
<1>5. CASE id \notin DOMAIN old
  <2>1. o.op = "add" /\ id \in DOMAIN new
    BY <1>2, <1>5 DEF Change
  <2> HIDE DEF o
  <2>2. ApplyOperation(f, o) = Ok(With(f, o.id, o.node))
    BY <2>1 DEF ApplyOperation
  <2> QED BY <1>1, <1>3, <2>1, <2>2 DEF a, f, g, o
<1>6. CASE id \in DOMAIN old /\ id \notin DOMAIN new
  <2>1. o.op = "remove"
    BY <1>6 DEF Change
  <2> HIDE DEF o
  <2>2. ApplyOperation(f, o) = Ok(Without(f, o.id))
    BY <1>1, <1>2, <1>6, <2>1 DEF ApplyOperation
  <2> QED BY <1>1, <1>4, <1>6, <2>2 DEF b, f, g, o
<1>7. CASE id \in DOMAIN old /\ id \in DOMAIN new
  <2>1. o.op = "replace"
    BY <1>7 DEF Change
  <2> HIDE DEF o
  <2>2. ApplyOperation(f, o) = Ok(With(f, o.id, o.node))
    BY <1>1, <1>2, <1>7, <2>1 DEF ApplyOperation
  <2> QED BY <1>1, <1>3, <1>7, <2>2 DEF a, f, g, o
<1> QED BY <1>5, <1>6, <1>7

LEMMA PatchMade ==
  ASSUME NEW old, NEW new, IsMap(old), IsMap(new)
  PROVE  ApplyPatch(old, MakePatch(old, new)) = Ok(new)
<1> DEFINE C == Changed(old, new)
           n == Cardinality(C)
           asc == Ascending(C)
           ops == MakePatch(old, new)
           N == {old[x] : x \in DOMAIN old} \cup {new[x] : x \in DOMAIN new}
           done(m) == {asc[i] : i \in 1 .. m}
<1>1. C \in SUBSET Nat /\ IsFiniteSet(C)
  <2>1. IsFiniteSet(DOMAIN old \cup DOMAIN new) /\ DOMAIN old \cup DOMAIN new \subseteq Nat
    BY FS_Union DEF IsMap
  <2>2. C \subseteq DOMAIN old \cup DOMAIN new
    BY DEF Changed
  <2> HIDE DEF C
  <2> QED BY <2>1, <2>2, FS_Subset
<1>2. n \in Nat /\ DOMAIN asc = 1 .. n /\ Lists(asc, C)
  <2> HIDE DEF C
  <2> QED BY <1>1, AscendingIs
<1>3. /\ \A k \in 1 .. n : asc[k] \in C
      /\ \A x \in C : \E k \in 1 .. n : asc[k] = x
      /\ \A i, j \in 1 .. n : asc[i] = asc[j] => i = j
  <2> HIDE DEF C, n, asc
  <2> QED BY <1>2 DEF Lists, Range
<1>4. ops = [k \in 1 .. n |-> Change(old, new, asc[k])]
  BY DEF MakePatch, Changed, Change
<1> HIDE DEF ops, asc, n
<1>5. OpsWithin(ops, n, Nat, N)
  <2> SUFFICES ASSUME NEW k \in 1 .. n PROVE ops[k].id \in Nat /\ ops[k].node \in N
    BY <1>4 DEF OpsWithin
  <2>1. asc[k] \in DOMAIN old \cup DOMAIN new /\ asc[k] \in Nat
    BY <1>1, <1>3 DEF Changed
  <2>2. ops[k].id = asc[k]
        /\ ops[k].node = IF asc[k] \in DOMAIN new THEN new[asc[k]] ELSE old[asc[k]]
    BY <1>4 DEF Change
  <2> QED BY <2>1, <2>2
<1>6. old \in Partial(Nat, N)
  BY PartialIs DEF IsMap
<1> HIDE DEF N
<1>7. PICK w : /\ w[0] = Ok(old)
               /\ \A m \in 0 .. n - 1 : w[m + 1] = Applied(w[m], ops[m + 1])
               /\ \A m \in 0 .. n : w[m] \in Results(Nat, N)
               /\ ApplyPatch(old, ops) = w[n]
  <2>1. n \in Nat
    BY <1>2
  <2> HIDE DEF C
  <2> QED BY <2>1, <1>5, <1>6, PatchSteps
<1> DEFINE P == {m \in Nat : m <= n => w[m] = Ok(Mixed(old, new, done(m)))}
<1>8. 0 \in P
  <2>1. done(0) = {}
    OBVIOUS
  <2>2. Mixed(old, new, {}) = [x \in DOMAIN old |-> old[x]]
    BY DEF Mixed
  <2>3. Mixed(old, new, done(0)) = old
    BY <2>1, <2>2 DEF IsMap
  <2> HIDE DEF done
  <2> QED BY <1>7, <2>3
<1>9. ASSUME NEW m \in Nat, m \in P PROVE m + 1 \in P
  <2> SUFFICES ASSUME m + 1 <= n PROVE w[m + 1] = Ok(Mixed(old, new, done(m + 1)))
    OBVIOUS
  <2> DEFINE id == asc[m + 1]
  <2>1. m \in 0 .. n - 1 /\ m + 1 \in 1 .. n /\ w[m] = Ok(Mixed(old, new, done(m)))
    <3> HIDE DEF done
    <3>1. n \in Nat /\ m <= n
      BY <1>2
    <3> QED BY <3>1, <1>9
  <2>2. id \in C /\ id \notin done(m)
    <3>1. \A i \in 1 .. m : i \in 1 .. n /\ i # m + 1
      BY <1>2, <2>1
    <3> QED BY <1>3, <2>1, <3>1
  <2>3. done(m + 1) = done(m) \cup {id}
    BY <2>1
  <2>4. ops[m + 1] = Change(old, new, id)
    BY <1>4, <2>1
  <2> HIDE DEF id, done
  <2>5. ApplyOperation(Mixed(old, new, done(m)), ops[m + 1]) = Ok(Mixed(old, new, done(m + 1)))
    BY <2>2, <2>3, <2>4, ChangeIs
  <2>6. w[m + 1] = Applied(w[m], ops[m + 1])
    BY <1>7, <2>1
  <2> QED BY <2>1, <2>5, <2>6 DEF Applied, Ok
<1>10. n \in P
  <2> HIDE DEF P
  <2>1. Nat \subseteq P
    BY <1>8, <1>9, SetInduction
  <2> QED BY <1>2, <2>1
<1>11. done(n) = C
  BY <1>3
<1>12. Mixed(old, new, C) = new
  <2>1. (DOMAIN new \cap C) \cup (DOMAIN old \ C) = DOMAIN new
    BY DEF Changed
  <2>2. \A x \in DOMAIN new : (IF x \in C THEN new[x] ELSE old[x]) = new[x]
    BY DEF Changed
  <2>3. new = [x \in DOMAIN new |-> new[x]]
    BY DEF IsMap
  <2>4. Mixed(old, new, C) = [x \in DOMAIN new |-> IF x \in C THEN new[x] ELSE old[x]]
    BY <2>1 DEF Mixed
  <2> HIDE DEF C
  <2> QED BY <2>2, <2>3, <2>4
<1>13. w[n] = Ok(Mixed(old, new, done(n)))
  <2> HIDE DEF done
  <2>1. n \in Nat /\ n <= n
    BY <1>2
  <2> QED BY <2>1, <1>10
<1> QED BY <1>7, <1>11, <1>12, <1>13 DEF ops

-----------------------------------------------------------------------------
(* What the transfer makes of a plan. *)

\* The base a query's patches are on, once it has one.
BaseMade(i, out) ==
  /\ planned[i].err = "none" /\ Transferred(i, << >>).ok
  /\ out.base = [planned[i].plan EXCEPT !.structure = Transferred(i, << >>).val]

\* A patch is that from the base to what became of the query's own patch.
PatchMadeOf(i, out, j) ==
  LET opt == Transferred(i, Patches(i)[j].ops)
  IN  opt.ok /\ out.patches[j] = Patch(MakePatch(out.base.structure, opt.val))

Made(i, out) ==
  \A j \in 1 .. Len(out.statuses) :
    out.statuses[j] = "transferred" => BaseMade(i, out) /\ PatchMadeOf(i, out, j)

MadeInv ==
  /\ phase = "transfer" =>
       \A k \in DOMAIN futures :
         /\ Answered(k) => Made(k[1], futures[k].out)
         /\ futures[k].st = "running" /\ futures[k].out # Nothing =>
              BaseMade(k[1], futures[k].out) /\ Made(k[1], futures[k].out)
  /\ phase \in {"benchmark", "done"} /\ args.call = "scale" =>
       \A i \in Queries : Made(i, scaled[i])

LEMMA MadeUnchanged ==
  ASSUME UNCHANGED <<args, planned>>
  PROVE  /\ \A i, out : BaseMade(i, out)' <=> BaseMade(i, out)
         /\ \A i, out : Made(i, out)' <=> Made(i, out)
<1>1. \A i, ops : Transferred(i, ops)' = Transferred(i, ops)
  BY DEF Transferred, SourcePlan
<1>2. \A i : Patches(i)' = Patches(i)
  BY DEF Patches
<1>3. \A i, out : BaseMade(i, out)' <=> BaseMade(i, out)
  BY <1>1 DEF BaseMade
<1>4. \A i, out, j : PatchMadeOf(i, out, j)' <=> PatchMadeOf(i, out, j)
  BY <1>1, <1>2 DEF PatchMadeOf
<1> QED BY <1>3, <1>4 DEF Made

\* A query that is not scaled has no patch that was transferred.
LEMMA UnscaledMade ==
  ASSUME ControlInv, NEW i \in Queries, NEW status \in Wholes
  PROVE  Made(i, Unscaled(i, status))
<1>1. IsSequence(Patches(i))
  BY PlanApiAssumption DEF ControlInv, Queries, Patches
<1> DEFINE s == Unscaled(i, status).statuses
<1>2. s = [j \in 1 .. Len(Patches(i)) |-> status] /\ Len(Patches(i)) \in Nat
  BY <1>1 DEF Unscaled, IsSequence
<1>3. Len(s) = Len(Patches(i))
  BY <1>2, FunctionIsList
<1>4. status # "transferred"
  BY DEF Wholes
<1> QED BY <1>2, <1>3, <1>4 DEF Made

\* A step of a transfer that leaves what is made as said keeps it.
LEMMA ReplacedKeepsMade ==
  ASSUME MadeInv, phase = "transfer", NEW k \in DOMAIN futures, NEW st, NEW out,
         futures' = Replaced(k, [st |-> st, out |-> out]), Made(k[1], out),
         st \in {"running", "ended"}, st = "running" => BaseMade(k[1], out),
         UNCHANGED <<args, phase, planned>>
  PROVE  MadeInv'
<1>1. DOMAIN futures' = DOMAIN futures
      /\ futures'[k].st = st /\ futures'[k].out = out
      /\ \A l \in DOMAIN futures : l # k => futures'[l] = futures[l]
  BY DEF Replaced
<1> SUFFICES ASSUME NEW l \in DOMAIN futures
             PROVE  /\ Answered(l)' => Made(l[1], futures'[l].out)
                    /\ futures'[l].st = "running" /\ futures'[l].out # Nothing =>
                         BaseMade(l[1], futures'[l].out) /\ Made(l[1], futures'[l].out)
  BY <1>1, MadeUnchanged DEF MadeInv
<1>2. CASE l = k
  BY <1>1, <1>2
<1>3. CASE l # k
  BY <1>1, <1>3 DEF MadeInv, Answered
<1> QED BY <1>2, <1>3

LEMMA ProgressKeepsMade ==
  ASSUME IInv, MadeInv, phase = "transfer", NEW k \in DOMAIN futures,
         futures[k].st = "running", NEW out, PatchesFit(k[1], out),
         futures' = Progress(k, out), BaseMade(k[1], out), Made(k[1], out),
         UNCHANGED <<args, phase, planned>>
  PROVE  MadeInv'
<1> DEFINE done == [out EXCEPT !.failure = Failure(out.statuses)]
<1>1. CASE Len(out.statuses) = Len(Patches(k[1]))
  <2>1. futures' = Replaced(k, [st |-> "ended", out |-> done])
    BY <1>1, EndedReplaces DEF Progress, IInv
  <2>2. done.statuses = out.statuses /\ done.patches = out.patches /\ done.base = out.base
    BY DEF PatchesFit
  <2> HIDE DEF done
  <2>3. Made(k[1], done)
    BY <2>2 DEF Made, BaseMade, PatchMadeOf
  <2> QED BY <2>1, <2>3, ReplacedKeepsMade
<1>2. CASE Len(out.statuses) # Len(Patches(k[1]))
  <2>1. futures' = Replaced(k, [st |-> "running", out |-> out])
    BY <1>2, EndedReplaces DEF Progress, IInv
  <2> QED BY <2>1, ReplacedKeepsMade
<1> QED BY <1>1, <1>2

LEMMA TransferBaseMade ==
  ASSUME IInv, MadeInv, NEW k \in DOMAIN futures, TransferBase(k)
  PROVE  MadeInv'
<1> DEFINE i == k[1]
           base == Transferred(i, << >>)
           plan == [planned[i].plan EXCEPT !.structure = base.val]
           out == [base |-> plan, patches |-> << >>, statuses |-> << >>, failure |-> "none"]
<1>1. /\ phase = "transfer" /\ futures[k].st = "running"
      /\ UNCHANGED <<args, phase, planned>>
  BY DEF TransferBase, Running
<1>2. i \in Queries
  BY <1>1 DEF IInv, ControlInv, PerQuery
<1>3. \/ \E status \in Wholes : futures' = Ended(k, Unscaled(i, status))
      \/ futures' = Progress(k, out) /\ planned[i].err = "none" /\ base.ok
  BY DEF TransferBase, Wholes
<1>4. ASSUME NEW status \in Wholes, futures' = Ended(k, Unscaled(i, status))
      PROVE  MadeInv'
  <2>1. futures' = Replaced(k, [st |-> "ended", out |-> Unscaled(i, status)])
    BY <1>4, EndedReplaces DEF IInv
  <2>2. Made(k[1], Unscaled(i, status))
    BY <1>2, UnscaledMade DEF IInv
  <2> QED BY <1>1, <2>1, <2>2, ReplacedKeepsMade
<1>5. ASSUME futures' = Progress(k, out), planned[i].err = "none", base.ok
      PROVE  MadeInv'
  <2>1. PlannedFit(i, planned[i])
    BY <1>2 DEF IInv, PlannedInv
  <2>2. plan.tables = planned[i].plan.tables
    BY <2>1 DEF PlannedFit
  <2>3. BaseMade(k[1], out)
    BY <1>5 DEF BaseMade
  <2> HIDE DEF plan
  <2>4. PatchesFit(k[1], out) /\ Made(k[1], out)
    BY <2>2, EmptyIsList, EmptySeq DEF PatchesFit, Made
  <2> HIDE DEF out
  <2> QED BY <1>1, <1>5, <2>3, <2>4, ProgressKeepsMade
<1> QED BY <1>3, <1>4, <1>5

\* A patch that comes out as transferred is the patch of what it was made of.
LEMMA OutcomeMade ==
  ASSUME NEW i, NEW base, NEW patch, NEW outcome \in PatchOutcomes(i, base, patch),
         outcome[1] = "transferred"
  PROVE  /\ Transferred(i, patch.ops).ok
         /\ outcome[2] = Patch(MakePatch(base.structure, Transferred(i, patch.ops).val))
<1>1. ~patch.none
  BY DEF PatchOutcomes
<1>2. Transferred(i, patch.ops).ok
  BY <1>1 DEF PatchOutcomes
<1>3. outcome \in {<<"transferred", Patch(MakePatch(base.structure, Transferred(i, patch.ops).val))>>,
                   <<"validation_failed", NoPatch>>}
  BY <1>1, <1>2 DEF PatchOutcomes
<1> QED BY <1>2, <1>3

LEMMA TransferPatchMade ==
  ASSUME IInv, MadeInv, NEW k \in DOMAIN futures, TransferPatch(k)
  PROVE  MadeInv'
<1> DEFINE i == k[1]
           out == futures[k].out
           m == Len(out.statuses)
           patch == Patches(i)[m + 1]
<1>1. /\ phase = "transfer" /\ futures[k].st = "running" /\ out # Nothing
      /\ UNCHANGED <<args, phase, planned>>
  BY DEF TransferPatch, Running
<1>2. PICK outcome \in PatchOutcomes(i, out.base, patch) :
        futures' = Progress(k, Appended(out, outcome))
  BY DEF TransferPatch
<1> DEFINE new == Appended(out, outcome)
<1>3. PatchesFit(i, out)
  BY <1>1 DEF IInv, ScaledInv, ControlInv
<1>4. BaseMade(i, out) /\ Made(i, out)
  BY <1>1 DEF MadeInv
<1> HIDE DEF out, i
<1>5. /\ PatchesFit(i, new)
      /\ m \in Nat /\ Len(new.statuses) = m + 1
      /\ new.base = out.base
      /\ new.statuses[m + 1] = outcome[1] /\ new.patches[m + 1] = outcome[2]
      /\ \A x \in 1 .. m :
           new.statuses[x] = out.statuses[x] /\ new.patches[x] = out.patches[x]
  BY <1>2, <1>3, AppendedFits
<1>6. outcome[1] = "transferred" =>
        /\ Transferred(i, patch.ops).ok
        /\ outcome[2] = Patch(MakePatch(out.base.structure, Transferred(i, patch.ops).val))
  <2> HIDE DEF patch
  <2> QED BY <1>2, OutcomeMade
<1> HIDE DEF m, new
<1>7. BaseMade(i, new)
  BY <1>4, <1>5 DEF BaseMade
<1>8. Made(i, new)
  <2> SUFFICES ASSUME NEW j \in 1 .. m + 1, new.statuses[j] = "transferred"
               PROVE  PatchMadeOf(i, new, j)
    BY <1>5, <1>7 DEF Made
  <2>1. CASE j \in 1 .. m
    BY <1>4, <1>5, <2>1 DEF Made, PatchMadeOf, m
  <2>2. CASE j = m + 1
    BY <1>5, <1>6, <2>2 DEF PatchMadeOf
  <2>3. j \in 1 .. m \/ j = m + 1
    BY <1>5
  <2> QED BY <2>1, <2>2, <2>3
<1> QED BY <1>1, <1>2, <1>5, <1>7, <1>8, ProgressKeepsMade DEF new, i

\* Nothing is made outside of the transfer.
LEMMA OtherStepsMade ==
  ASSUME IInv, MadeInv, [Next]_vars,
         ~\E k \in DOMAIN futures : TransferBase(k) \/ TransferPatch(k)
  PROVE  MadeInv'
<1>1. ASSUME NEW k \in DOMAIN futures, StartWorker(k) PROVE MadeInv'
  <2>1. futures' = Replaced(k, [st |-> "running", out |-> futures[k].out])
        /\ UNCHANGED <<args, phase, planned, scaled>> /\ futures[k].st = "queued"
    BY <1>1, StartWorkerControl DEF IInv, StartWorker
  <2>2. phase = "transfer" => futures[k].out = Nothing
    BY <2>1 DEF IInv, ScaledInv, ControlInv
  <2>3. DOMAIN futures' = DOMAIN futures
        /\ futures'[k].st = "running" /\ futures'[k].out = futures[k].out
        /\ \A l \in DOMAIN futures : l # k => futures'[l] = futures[l]
    BY <2>1 DEF Replaced
  <2>4. Queries' = Queries
    BY <2>1 DEF Queries
  <2>5. \A l \in DOMAIN futures' :
          phase = "transfer" =>
            /\ Answered(l)' => Made(l[1], futures'[l].out)
            /\ futures'[l].st = "running" /\ futures'[l].out # Nothing =>
                 BaseMade(l[1], futures'[l].out) /\ Made(l[1], futures'[l].out)
    <3> SUFFICES ASSUME NEW l \in DOMAIN futures, phase = "transfer"
                 PROVE  /\ Answered(l)' => Made(l[1], futures'[l].out)
                        /\ futures'[l].st = "running" /\ futures'[l].out # Nothing =>
                             BaseMade(l[1], futures'[l].out) /\ Made(l[1], futures'[l].out)
      BY <2>3
    <3>1. CASE l = k
      BY <2>2, <2>3, <3>1 DEF Answered
    <3>2. CASE l # k
      BY <2>3, <3>2 DEF MadeInv, Answered
    <3> QED BY <3>1, <3>2
  <2> QED BY <2>1, <2>4, <2>5, MadeUnchanged DEF MadeInv
<1>2. ASSUME NEW k \in DOMAIN futures, PlanQuery(k) \/ ValidateQuery(k) PROVE MadeInv'
  BY <1>2 DEF PlanQuery, ValidateQuery, MadeInv
<1>3. ASSUME NEW k \in DOMAIN futures, Benchmark(k) PROVE MadeInv'
  <2>1. phase = "benchmark" /\ UNCHANGED <<args, phase, planned, scaled>>
    BY <1>3 DEF Benchmark
  <2>2. Queries' = Queries
    BY <2>1 DEF Queries
  <2> QED BY <2>1, <2>2, MadeUnchanged DEF MadeInv
<1>4. ASSUME NEW k \in DOMAIN futures, TakeFuture(k) PROVE MadeInv'
  <2> DEFINE out == futures[k].out
  <2>1. /\ futures[k].st = "ended" /\ futures' = Replaced(k, [st |-> "taken", out |-> out])
        /\ UNCHANGED <<args, phase>> /\ phase # "done"
        /\ phase \in {"transfer", "benchmark"} => UNCHANGED planned
        /\ phase = "benchmark" => UNCHANGED scaled
    BY <1>4, EndedReplaces DEF TakeFuture, IInv
  <2>2. DOMAIN futures' = DOMAIN futures
        /\ \A l \in DOMAIN futures :
             /\ futures'[l].out = futures[l].out /\ (Answered(l)' <=> Answered(l))
             /\ futures'[l].st = "running" => futures[l].st = "running"
    BY <2>1 DEF Replaced, Answered
  <2>3. Queries' = Queries
    BY <2>1 DEF Queries
  <2>4. CASE phase = "transfer"
    BY <2>1, <2>2, <2>4, MadeUnchanged DEF MadeInv
  <2>5. CASE phase = "benchmark"
    BY <2>1, <2>3, <2>5, MadeUnchanged DEF MadeInv
  <2>6. CASE phase \notin {"transfer", "benchmark"}
    BY <2>1, <2>6 DEF MadeInv
  <2> QED BY <2>4, <2>5, <2>6
<1>5. CASE StartTransfer
  <2>1. /\ phase' = "transfer" /\ ControlInv' /\ DOMAIN futures' = PerQuery
        /\ \A k \in PerQuery : ~Answered(k)' /\ futures'[k].st = "queued"
    BY <1>5, SubmittedControl DEF StartTransfer, IInv
  <2> QED BY <2>1 DEF MadeInv
<1>6. CASE StartBenchmark
  <2>1. /\ (phase = "plan" /\ args.call = "queries") \/ phase = "transfer"
        /\ phase' = "benchmark" /\ UNCHANGED <<args, planned, scaled>>
        /\ \A k \in DOMAIN futures : futures[k].st = "taken"
    BY <1>6 DEF StartBenchmark, AllTaken
  <2>2. Queries' = Queries
    BY <2>1 DEF Queries
  <2>3. ASSUME args.call = "scale", NEW i \in Queries PROVE Made(i, scaled[i])
    <3>1. phase = "transfer" /\ DOMAIN futures = PerQuery
      BY <2>1, <2>3 DEF IInv, ControlInv
    <3>2. <<i, 1>> \in PerQuery /\ <<i, 1>>[1] = i
      BY DEF PerQuery
    <3>3. Made(<<i, 1>>[1], futures[<<i, 1>>].out) /\ scaled[<<i, 1>>[1]] = futures[<<i, 1>>].out
      BY <2>1, <3>1, <3>2 DEF MadeInv, IInv, ScaledInv, Answered
    <3> QED BY <3>2, <3>3
  <2> QED BY <2>1, <2>2, <2>3, MadeUnchanged DEF MadeInv
<1>7. CASE Return
  <2>1. phase \in {"validate", "benchmark"} /\ phase' = "done" /\ UNCHANGED <<args, planned, scaled>>
    BY <1>7 DEF Return
  <2>2. args.call = "scale" => phase = "benchmark"
    BY <2>1 DEF IInv, ControlInv
  <2>3. Queries' = Queries
    BY <2>1 DEF Queries
  <2> QED BY <2>1, <2>2, <2>3, MadeUnchanged DEF MadeInv
<1>8. CASE RaiseOut
  BY <1>8 DEF RaiseOut, MadeInv
<1>9. CASE UNCHANGED vars
  <2>1. Queries' = Queries
    BY <1>9 DEF Queries, vars
  <2> QED BY <1>9, <2>1, MadeUnchanged DEF MadeInv, vars, Answered
<1> QED BY <1>1, <1>2, <1>3, <1>4, <1>5, <1>6, <1>7, <1>8, <1>9 DEF Next, WorkerStep, Terminated

LEMMA MadeStep == IInv /\ MadeInv /\ [Next]_vars => MadeInv'
BY TransferBaseMade, TransferPatchMade, OtherStepsMade

LEMMA MadeHolds == Spec => []MadeInv
<1>1. Init => MadeInv
  <2>1. Init => phase \in {"plan", "validate"}
    BY DEF Init
  <2> QED BY <2>1 DEF MadeInv
<1> QED BY <1>1, MadeStep, InvHolds, PTL DEF Spec

\* A patch of a query can be applied to its source plan, and what is transferred
\* has a node for each node of that plan, none at the number of a scan.
LEMMA TransferApart ==
  ASSUME IInv, NEW i \in Queries, planned[i].err = "none", NEW ops, IsPatch(ops),
         Transferred(i, ops).ok
  PROVE  LET new == Transferred(i, ops).val
         IN  /\ IsMap(new) /\ DOMAIN new \cap DOMAIN planned[i].plan.tables = {}
             /\ Cardinality(DOMAIN new) = Cardinality(DOMAIN PatchedSource(i, ops).structure)
<1> DEFINE v == args.queries[i].source
           t == args.queries[i].target
           from == SourcePlan(i)
           to == planned[i].plan
           new == Transferred(i, ops).val
<1>1. IsPlan(v) /\ IsPlan(t)
  BY PlanApiAssumption DEF PlanApiAssumption, IInv, ControlInv, Queries
<1>2. from = ToSuccinct(AtScale(v, SourceScale)) /\ to = ToSuccinct(AtScale(t, TargetScale))
  BY DEF SourcePlan, IInv, PlannedInv, PlannedFit, EnginePlan
<1>3. IsVisit(AtScale(v, SourceScale)) /\ IsVisit(AtScale(t, TargetScale))
  <2> HIDE DEF v, t
  <2> QED BY <1>1, AtScaleIs
<1>4. /\ IsStructure(from.structure)
      /\ DOMAIN to.tables \subseteq Nat /\ IsFiniteSet(DOMAIN to.tables)
  <2> HIDE DEF v, t, from, to
  <2> QED BY <1>2, <1>3, SuccinctStructure
<1>5. Transferred(i, ops) = TransferPlan(from, to, ops)
  BY DEF Transferred
<1>6. from = [structure |-> from.structure, tables |-> from.tables]
  BY DEF SourcePlan, ToSuccinct
<1> HIDE DEF from, to
<1>7. PatchedSource(i, ops).structure = ApplyPatch(from.structure, ops).val
  BY <1>6 DEF PatchedSource, from
<1>8. /\ DOMAIN new \subseteq Nat \ DOMAIN to.tables /\ IsFiniteSet(DOMAIN new)
      /\ Cardinality(DOMAIN new) = Cardinality(DOMAIN ApplyPatch(from.structure, ops).val)
      /\ new = [id \in DOMAIN new |-> new[id]]
  BY <1>4, <1>5, TransferredApart
<1> HIDE DEF new
<1>9. IsMap(new) /\ DOMAIN new \cap DOMAIN to.tables = {}
  BY <1>8 DEF IsMap
<1> QED BY <1>7, <1>8, <1>9 DEF new, to

\* The measured patches: what is applied to the base is what was transferred.
LEMMA MadeApplies ==
  ASSUME IInv, NEW i \in Queries, NEW out, NEW j \in DOMAIN Patches(i),
         BaseMade(i, out), PatchMadeOf(i, out, j)
  PROVE  LET nodes == ApplyPatch(out.base.structure, out.patches[j].ops)
         IN  /\ nodes = Ok(Transferred(i, Patches(i)[j].ops).val)
             /\ out.base.tables = planned[i].plan.tables
             /\ DOMAIN nodes.val \cap DOMAIN planned[i].plan.tables = {}
             /\ Cardinality(DOMAIN nodes.val)
                  = Cardinality(DOMAIN PatchedSource(i, Patches(i)[j].ops).structure)
<1> DEFINE ops == Patches(i)[j].ops
           old == Transferred(i, << >>).val
           new == Transferred(i, ops).val
<1>1. planned[i].err = "none" /\ Transferred(i, << >>).ok /\ Transferred(i, ops).ok
  BY DEF BaseMade, PatchMadeOf
<1>2. planned[i].plan = [structure |-> planned[i].plan.structure, tables |-> planned[i].plan.tables]
  BY DEF IInv, PlannedInv, PlannedFit
<1>3. out.base = [planned[i].plan EXCEPT !.structure = old]
  BY DEF BaseMade
<1>4. out.base.structure = old /\ out.base.tables = planned[i].plan.tables
  <2> HIDE DEF old
  <2> QED BY <1>2, <1>3
<1>5. IsPatch(ops)
  BY PlanApiAssumption DEF PlanApiAssumption, IInv, ControlInv, Queries, Patches
<1>6. IsPatch(<< >>)
  <2>1. Len(<< >>) = 0 /\ DOMAIN << >> = {}
    BY EmptyIsPartial, EmptySeq
  <2> QED BY <2>1 DEF IsPatch
<1>7. out.patches[j].ops = MakePatch(old, new)
  BY <1>4 DEF PatchMadeOf, Patch
<1> HIDE DEF ops
<1>8. IsMap(old)
  BY <1>1, <1>6, TransferApart
<1>9. /\ IsMap(new) /\ DOMAIN new \cap DOMAIN planned[i].plan.tables = {}
      /\ Cardinality(DOMAIN new) = Cardinality(DOMAIN PatchedSource(i, ops).structure)
  BY <1>1, <1>5, TransferApart
<1> HIDE DEF old, new
<1>10. ApplyPatch(old, MakePatch(old, new)) = Ok(new)
  BY <1>8, <1>9, PatchMade
<1>11. Ok(new).val = new
  BY DEF Ok
<1> QED BY <1>4, <1>7, <1>9, <1>10, <1>11 DEF ops, new

\* Whatever patches do to plans of any size, every node comes out of the
\* renumbering as a node of its own, and none at the number of a scan.
THEOREM NodesStayApartHolds == Spec => []NodesStayApart
<1>1. IInv /\ MadeInv => NodesStayApart
  <2> SUFFICES ASSUME IInv, MadeInv, phase \in {"benchmark", "done"}, args.call = "scale",
                      NEW i \in Queries, NEW j \in DOMAIN scaled[i].statuses,
                      scaled[i].statuses[j] = "transferred"
               PROVE  LET nodes == ApplyPatch(scaled[i].base.structure, scaled[i].patches[j].ops).val
                      IN  /\ Cardinality(DOMAIN nodes)
                               = Cardinality(DOMAIN PatchedSource(i, Patches(i)[j].ops).structure)
                          /\ DOMAIN nodes \cap DOMAIN scaled[i].base.tables = {}
    BY DEF NodesStayApart
  <2>1. EndedFit(i, scaled[i])
    BY DEF IInv, ScaledInv
  <2>2. DOMAIN scaled[i].statuses = 1 .. Len(scaled[i].statuses)
        /\ Len(scaled[i].statuses) = Len(Patches(i))
    BY <2>1, LenProperties DEF EndedFit, AlignedTo
  <2>3. DOMAIN Patches(i) = 1 .. Len(Patches(i))
    BY PlanApiAssumption DEF PlanApiAssumption, IInv, ControlInv, Queries, Patches, IsSequence
  <2>4. BaseMade(i, scaled[i]) /\ PatchMadeOf(i, scaled[i], j) /\ j \in DOMAIN Patches(i)
    BY <2>2, <2>3 DEF MadeInv, Made
  <2> QED BY <2>4, MadeApplies
<1> QED BY <1>1, InvHolds, MadeHolds, PTL

-----------------------------------------------------------------------------
(* The transferred plan is the patched source plan for another data set. *)

IsLabel(label) ==
  label = [op |-> label.op, reads |-> label.reads, keys |-> label.keys, sf |-> label.sf]

AreScans(tables) ==
  /\ DOMAIN tables \in SUBSET Nat /\ IsFiniteSet(DOMAIN tables)
  /\ \A id \in DOMAIN tables : tables[id].keys = "scan" /\ IsLabel(tables[id])

AreLabelled(nodes) == \A id \in DOMAIN nodes : IsLabel(nodes[id].label)

LEMMA PatchedLabels ==
  ASSUME NEW nodes, IsStructure(nodes), AreLabelled(nodes), NEW ops, IsPatch(ops)
  PROVE  AreLabelled(ApplyPatch(nodes, ops).val)
<1> DEFINE n == Len(ops)
           N == {nodes[id] : id \in DOMAIN nodes} \cup {ops[k].node : k \in 1 .. n}
<1>1. n \in Nat /\ OpsWithin(ops, n, Nat, N)
  BY DEF IsPatch, OpsWithin
<1>2. nodes \in Partial(Nat, N)
  BY PartialIs DEF IsStructure
<1>3. \A x \in N : IsLabel(x.label)
  <2>1. \A k \in 1 .. n : IsLabel(ops[k].node.label)
    BY DEF IsPatch, Labels, IsLabel
  <2> QED BY <2>1 DEF AreLabelled
<1> HIDE DEF n, N
<1> DEFINE v == ApplyPatch(nodes, ops).val
<1>4. v \in Partial(Nat, N)
  BY <1>1, <1>2, PatchWithin
<1> HIDE DEF v
<1>5. \A x \in DOMAIN v : v[x] \in N
  BY <1>4, PartialIs
<1> QED BY <1>3, <1>5 DEF AreLabelled, v

\* A scan, read from another data set, is what a scan of that data set with the
\* same signature is, up to what the signature does not show.
LEMMA RescaledIs ==
  ASSUME NEW label, IsLabel(label), NEW other, IsLabel(other), IsScan(label),
         other.op = label.op, other.keys = label.keys
  PROVE  /\ UnreadLabel(other) = UnreadLabel(LabelAtScale(label, other.sf))
         /\ other.reads = label.reads => other = LabelAtScale(label, other.sf)
<1> DEFINE moved == LabelAtScale(label, other.sf)
<1>1. moved = [op |-> label.op, reads |-> label.reads, keys |-> label.keys, sf |-> other.sf]
  BY DEF LabelAtScale, IsLabel
<1> HIDE DEF moved
<1>2. UnreadLabel(moved) = [op |-> label.op, reads |-> "", keys |-> label.keys, sf |-> other.sf]
  BY <1>1 DEF UnreadLabel, IsScan
<1>3. UnreadLabel(other) = [op |-> label.op, reads |-> "", keys |-> label.keys, sf |-> other.sf]
  BY DEF UnreadLabel, IsScan, IsLabel
<1> QED BY <1>1, <1>2, <1>3 DEF IsLabel, moved

\* The compacted scans are the scans, in another form.
LEMMA CompactedIs ==
  ASSUME NEW tables, AreScans(tables)
  PROVE  /\ DOMAIN Compacted(tables) = DOMAIN tables
         /\ \A id \in DOMAIN tables :
              Compacted(tables)[id] = [op |-> tables[id].op, reads |-> tables[id].reads,
                                       keys |-> "compacted", sf |-> tables[id].sf]
  BY DEF Compacted, AreScans, IsLabel

\* Another scale changes nothing but the labels of scans.
LEMMA RescaledPlan ==
  ASSUME NEW plan, IsStructure(plan.structure), NEW sf
  PROVE  LET other == PlanAtScale(plan, sf)
         IN  /\ DOMAIN other.structure = DOMAIN plan.structure
             /\ DOMAIN other.tables = DOMAIN plan.tables
             /\ \A id \in DOMAIN plan.structure :
                  /\ other.structure[id].label = LabelAtScale(plan.structure[id].label, sf)
                  /\ other.structure[id].refs = plan.structure[id].refs
             /\ \A id \in DOMAIN plan.tables :
                  other.tables[id] = LabelAtScale(plan.tables[id], sf)
             /\ Ids(other) = Ids(plan) /\ Roots(other) = Roots(plan)
<1> DEFINE other == PlanAtScale(plan, sf)
<1>1. ASSUME NEW id \in DOMAIN plan.structure
      PROVE  /\ other.structure[id].label = LabelAtScale(plan.structure[id].label, sf)
             /\ other.structure[id].refs = plan.structure[id].refs
  <2> DEFINE node == plan.structure[id]
             new == [node EXCEPT !.label = LabelAtScale(@, sf)]
  <2>1. node = [label |-> node.label, refs |-> node.refs]
    BY DEF IsStructure
  <2>2. other.structure[id] = new
    BY DEF PlanAtScale
  <2> HIDE DEF node, other
  <2>3. new.label = LabelAtScale(node.label, sf) /\ new.refs = node.refs
    BY <2>1
  <2> QED BY <2>2, <2>3 DEF node
<1>2. /\ DOMAIN other.structure = DOMAIN plan.structure
      /\ DOMAIN other.tables = DOMAIN plan.tables
      /\ \A id \in DOMAIN plan.tables : other.tables[id] = LabelAtScale(plan.tables[id], sf)
  BY DEF PlanAtScale
<1> HIDE DEF other
<1>3. Ids(other) = Ids(plan)
  BY <1>2 DEF Ids
<1>4. \A id \in Ids(plan) : ChildIds(other, id) = ChildIds(plan, id)
  BY <1>1, <1>2 DEF ChildIds, Ids
<1>5. Roots(other) = Roots(plan)
  BY <1>3, <1>4 DEF Roots
<1> QED BY <1>1, <1>2, <1>3, <1>5 DEF other

\* Forgetting what scans read changes nothing but the labels of scans.
LEMMA UnreadIs ==
  ASSUME NEW plan
  PROVE  LET other == Unread(plan)
         IN  /\ DOMAIN other.structure = DOMAIN plan.structure
             /\ DOMAIN other.tables = DOMAIN plan.tables
             /\ \A id \in DOMAIN plan.structure :
                  /\ other.structure[id].label = UnreadLabel(plan.structure[id].label)
                  /\ other.structure[id].refs = plan.structure[id].refs
             /\ \A id \in DOMAIN plan.tables : other.tables[id] = UnreadLabel(plan.tables[id])
             /\ Ids(other) = Ids(plan) /\ Roots(other) = Roots(plan)
<1> DEFINE other == Unread(plan)
<1>1. /\ DOMAIN other.structure = DOMAIN plan.structure
      /\ DOMAIN other.tables = DOMAIN plan.tables
      /\ \A id \in DOMAIN plan.structure :
           /\ other.structure[id].label = UnreadLabel(plan.structure[id].label)
           /\ other.structure[id].refs = plan.structure[id].refs
      /\ \A id \in DOMAIN plan.tables : other.tables[id] = UnreadLabel(plan.tables[id])
  BY DEF Unread
<1> HIDE DEF other
<1>2. Ids(other) = Ids(plan)
  BY <1>1 DEF Ids
<1>3. \A id \in Ids(plan) : ChildIds(other, id) = ChildIds(plan, id)
  BY <1>1 DEF ChildIds, Ids
<1>4. Roots(other) = Roots(plan)
  BY <1>2, <1>3 DEF Roots
<1> QED BY <1>1, <1>2, <1>4 DEF other

LEMMA UnreadRenumbers ==
  ASSUME NEW m, NEW plan, NEW into, Renumbers(m, plan, into), IsNumbered(plan), IsNumbered(into)
  PROVE  /\ Renumbers(m, Unread(plan), Unread(into))
         /\ IsNumbered(Unread(plan)) /\ IsNumbered(Unread(into))
<1> DEFINE p == Unread(plan)
           q == Unread(into)
<1>1. /\ DOMAIN p.structure = DOMAIN plan.structure /\ DOMAIN p.tables = DOMAIN plan.tables
      /\ \A id \in DOMAIN plan.structure : p.structure[id].refs = plan.structure[id].refs
      /\ Ids(p) = Ids(plan)
  BY UnreadIs
<1>2. /\ DOMAIN q.structure = DOMAIN into.structure /\ DOMAIN q.tables = DOMAIN into.tables
      /\ \A id \in DOMAIN into.structure : q.structure[id].refs = into.structure[id].refs
      /\ Ids(q) = Ids(into)
  BY UnreadIs
<1> HIDE DEF p, q
<1>3. Renumbers(m, p, q)
  <2>1. ASSUME NEW id \in DOMAIN p.structure
        PROVE  LET refs == p.structure[id].refs
               IN  /\ m[id] \in DOMAIN q.structure
                   /\ q.structure[m[id]].refs = [k \in DOMAIN refs |-> m[refs[k]]]
                   /\ \A k \in DOMAIN refs : refs[k] \in Ids(p)
    <3> DEFINE refs == plan.structure[id].refs
    <3>1. /\ m[id] \in DOMAIN into.structure
          /\ into.structure[m[id]].refs = [k \in DOMAIN refs |-> m[refs[k]]]
          /\ \A k \in DOMAIN refs : refs[k] \in Ids(plan)
      BY <1>1 DEF Renumbers
    <3>2. p.structure[id].refs = refs
      BY <1>1
    <3>3. q.structure[m[id]].refs = into.structure[m[id]].refs
      BY <1>2, <3>1
    <3> QED BY <1>1, <1>2, <3>1, <3>2, <3>3
  <2>2. /\ \A id \in DOMAIN p.tables : m[id] \in DOMAIN q.tables
        /\ \A a, b \in DOMAIN p.structure : m[a] = m[b] => a = b
        /\ \A new \in DOMAIN q.structure : \E id \in DOMAIN p.structure : m[id] = new
        /\ DOMAIN p.structure \cap DOMAIN p.tables = {}
        /\ DOMAIN q.structure \cap DOMAIN q.tables = {}
    BY <1>1, <1>2 DEF Renumbers
  <2> QED BY <2>1, <2>2 DEF Renumbers
<1>4. IsNumbered(p) /\ IsNumbered(q)
  BY <1>1, <1>2 DEF IsNumbered
<1> QED BY <1>3, <1>4 DEF p, q

\* A scan that a patch has put among the nodes is rebound to the target's, in the
\* form it was in, the compacted one.
LEMMA ReboundIs ==
  ASSUME NEW nodes, IsStructure(nodes), AreLabelled(nodes), NEW full, AreScans(full),
         NEW sf, \A id \in DOMAIN full : full[id].sf = sf,
         CanPair(EmbeddedScans(nodes), Compacted(full))
  PROVE  \A id \in DOMAIN nodes :
           LET old == LabelAtScale(nodes[id].label, sf)
               new == RebindScans(nodes, Compacted(full))[id]
           IN  /\ BuildAlike(old, new.label)
               /\ UnreadLabel(new.label) = UnreadLabel(old)
               /\ new.refs = nodes[id].refs
<1> DEFINE tables == Compacted(full)
<1>0. /\ DOMAIN tables \in SUBSET Nat /\ IsFiniteSet(DOMAIN tables)
      /\ \A id \in DOMAIN tables :
           IsLabel(tables[id]) /\ tables[id].keys = "compacted" /\ tables[id].sf = sf
  <2>1. /\ DOMAIN tables = DOMAIN full
        /\ \A id \in DOMAIN full :
             tables[id] = [op |-> full[id].op, reads |-> full[id].reads,
                           keys |-> "compacted", sf |-> full[id].sf]
    BY CompactedIs
  <2> HIDE DEF tables
  <2> QED BY <2>1 DEF AreScans, IsLabel
<1> HIDE DEF tables
<1>00. CanPair(EmbeddedScans(nodes), tables)
  BY DEF tables
<1> DEFINE scans == EmbeddedScans(nodes)
           pairs == PairScans(scans, tables)
           rebound(node, label) == [node EXCEPT !.label = label]
<1>1. /\ DOMAIN scans = {id \in DOMAIN nodes : IsScan(nodes[id].label)}
      /\ \A id \in DOMAIN scans : scans[id] = nodes[id].label
  BY DEF EmbeddedScans
<1>2. \A id \in DOMAIN nodes :
        RebindScans(nodes, tables)[id] =
          IF id \in DOMAIN scans THEN rebound(nodes[id], tables[pairs[id]]) ELSE nodes[id]
  BY DEF RebindScans
<1> HIDE DEF scans
<1>3. DOMAIN scans \in SUBSET Nat /\ IsFiniteSet(DOMAIN scans)
  BY <1>1, FS_Subset DEF IsStructure
<1>4. \A id \in DOMAIN scans :
        pairs[id] \in DOMAIN tables /\ Signature(tables[pairs[id]]) = Signature(scans[id])
  BY <1>0, <1>00, <1>3, ScansPairOneToOne DEF scans
<1> HIDE DEF pairs
<1> SUFFICES ASSUME NEW id \in DOMAIN nodes
             PROVE  /\ BuildAlike(LabelAtScale(nodes[id].label, sf),
                                  RebindScans(nodes, tables)[id].label)
                    /\ UnreadLabel(RebindScans(nodes, tables)[id].label)
                         = UnreadLabel(LabelAtScale(nodes[id].label, sf))
                    /\ RebindScans(nodes, tables)[id].refs = nodes[id].refs
  BY DEF tables
<1>5. nodes[id] = [label |-> nodes[id].label, refs |-> nodes[id].refs]
  BY DEF IsStructure
<1>6. \A label : /\ rebound(nodes[id], label).label = label
                 /\ rebound(nodes[id], label).refs = nodes[id].refs
  BY <1>5
<1> HIDE DEF rebound
<1>7. CASE id \in DOMAIN scans
  <2> DEFINE t == tables[pairs[id]]
             old == nodes[id].label
  <2>1. IsLabel(old) /\ IsScan(old) /\ IsLabel(t) /\ t.keys = "compacted"
        /\ Signature(t) = Signature(old) /\ t.sf = sf
    BY <1>0, <1>1, <1>4, <1>7 DEF AreLabelled
  <2>2. RebindScans(nodes, tables)[id].label = t /\ RebindScans(nodes, tables)[id].refs = nodes[id].refs
    BY <1>2, <1>6, <1>7
  <2> HIDE DEF t, old
  <2>3. t.op = old.op /\ t.keys = old.keys
    BY <2>1 DEF Signature
  <2>4. UnreadLabel(t) = UnreadLabel(LabelAtScale(old, sf))
    BY <2>1, <2>3, RescaledIs
  <2>5. LabelAtScale(old, sf).keys = "compacted"
    BY <2>1, <2>3 DEF LabelAtScale, IsLabel
  <2> QED BY <2>1, <2>2, <2>4, <2>5 DEF BuildAlike, old
<1>8. CASE id \notin DOMAIN scans
  <2>1. LabelAtScale(nodes[id].label, sf) = nodes[id].label
    BY <1>1, <1>8 DEF LabelAtScale
  <2> QED BY <1>2, <1>8, <2>1 DEF BuildAlike
<1> QED BY <1>7, <1>8

\* What a transfer that succeeds has computed.
LEMMA TransferIs ==
  ASSUME NEW from, NEW to, NEW ops, TransferPlan(from, to, ops).ok
  PROVE  LET nodes == ApplyPatch(from.structure, ops).val
             scans == Compacted(from.tables)
             targets == Compacted(to.tables)
             rebound == RebindScans(nodes, targets)
         IN  /\ CanPair(scans, targets)
             /\ CanPair(EmbeddedScans(nodes), targets)
             /\ TransferPlan(from, to, ops).val
                  = RewriteReferences(rebound, AssignNewNodeIds(rebound, DOMAIN targets),
                                      PairScans(scans, targets))
<1> DEFINE patched == ApplyPatch(from.structure, ops)
           scans == Compacted(from.tables)
           targets == Compacted(to.tables)
           rebound == RebindScans(patched.val, targets)
           new == RewriteReferences(rebound, AssignNewNodeIds(rebound, DOMAIN targets),
                                    PairScans(scans, targets))
<1>1. /\ CanPair(scans, targets) /\ CanPair(EmbeddedScans(patched.val), targets)
      /\ TransferPlan(from, to, ops) = Ok(new)
  <2> DEFINE fails == \/ ~patched.ok \/ ~CanPair(scans, targets)
                      \/ ~CanPair(EmbeddedScans(patched.val), targets)
             whole == References(new) \subseteq DOMAIN new \cup DOMAIN targets
  <2>1. TransferPlan(from, to, ops)
          = IF fails THEN Raised ELSE IF whole THEN Ok(new) ELSE Raised
    BY DEF TransferPlan
  <2> HIDE DEF new, whole
  <2>2. Raised.ok = FALSE
    BY DEF Raised
  <2> QED BY <2>1, <2>2
<1> QED BY <1>1 DEF Ok

LEMMA TransferEmbeds ==
  ASSUME NEW from, IsStructure(from.structure), AreLabelled(from.structure), AreScans(from.tables),
         NEW to, AreScans(to.tables), NEW sf, \A id \in DOMAIN to.tables : to.tables[id].sf = sf,
         NEW ops, IsPatch(ops), TransferPlan(from, to, ops).ok,
         NEW source, source.structure = ApplyPatch(from.structure, ops).val,
         source.tables = from.tables, IsClean(source),
         NEW into, into.structure = TransferPlan(from, to, ops).val, into.tables = to.tables
  PROVE  LET plan == PlanAtScale(source, sf)
         IN  \E m : /\ Renumbers(m, plan, into) /\ IsNumbered(plan) /\ IsNumbered(into)
                    /\ SameLabels(m, Unread(plan), Unread(into))
                    /\ ReadsInOrder(Compacted(from.tables), Compacted(to.tables))
                         => SameLabels(m, plan, into)
<1> DEFINE nodes == source.structure
           scans == source.tables
           short == Compacted(scans)
           targets == Compacted(to.tables)
           rebound == RebindScans(nodes, targets)
           idMap == AssignNewNodeIds(rebound, DOMAIN to.tables)
           scanMap == PairScans(short, targets)
           plan == PlanAtScale(source, sf)
           m == [id \in Ids(source) |-> MapRef(id, idMap, scanMap)]
           D == DOMAIN nodes
<1>1. IsStructure(nodes) /\ AreLabelled(nodes)
  BY PatchKeeps, PatchedLabels
<1>0. /\ DOMAIN targets = DOMAIN to.tables /\ DOMAIN short = DOMAIN scans
      /\ \A id \in DOMAIN to.tables :
           targets[id] = [op |-> to.tables[id].op, reads |-> to.tables[id].reads,
                          keys |-> "compacted", sf |-> to.tables[id].sf]
      /\ \A id \in DOMAIN scans :
           short[id] = [op |-> scans[id].op, reads |-> scans[id].reads,
                        keys |-> "compacted", sf |-> scans[id].sf]
  BY CompactedIs
<1>2. /\ CanPair(short, targets) /\ CanPair(EmbeddedScans(nodes), targets)
      /\ into.structure = RewriteReferences(rebound, idMap, scanMap)
  <2>1. DOMAIN targets = DOMAIN to.tables
    BY <1>0
  <2> QED BY <2>1, TransferIs
<1>3. IsStructure(rebound) /\ DOMAIN rebound = D
  BY <1>1, RebindKeeps
<1>4. \A id \in D : /\ BuildAlike(LabelAtScale(nodes[id].label, sf), rebound[id].label)
                    /\ UnreadLabel(rebound[id].label)
                         = UnreadLabel(LabelAtScale(nodes[id].label, sf))
                    /\ rebound[id].refs = nodes[id].refs
  <2> HIDE DEF nodes
  <2> QED BY <1>1, <1>2, ReboundIs
<1>5. DOMAIN to.tables \in SUBSET Nat /\ IsFiniteSet(DOMAIN to.tables)
      /\ DOMAIN scans \in SUBSET Nat /\ IsFiniteSet(DOMAIN scans)
  BY DEF AreScans
<1> HIDE DEF rebound
<1>6. IsNumbering(idMap, DOMAIN to.tables) /\ DOMAIN idMap = D
  BY <1>3, <1>5, EveryNodeNumbered
<1>7. /\ \A id \in DOMAIN scans :
           /\ scanMap[id] \in DOMAIN to.tables
           /\ to.tables[scanMap[id]].op = scans[id].op
           /\ ReadsInOrder(short, targets) => to.tables[scanMap[id]].reads = scans[id].reads
      /\ DOMAIN scanMap = DOMAIN scans
  <2>1. DOMAIN scanMap = DOMAIN short
    BY DEF PairScans
  <2> HIDE DEF scans, short, targets
  <2>2. \A id \in DOMAIN short :
          /\ scanMap[id] \in DOMAIN targets
          /\ Signature(targets[scanMap[id]]) = Signature(short[id])
          /\ ReadsInOrder(short, targets) => targets[scanMap[id]].reads = short[id].reads
    BY <1>0, <1>2, <1>5, ScansPairOneToOne
  <2> HIDE DEF scanMap
  <2>3. ASSUME NEW id \in DOMAIN scans
        PROVE  /\ targets[scanMap[id]].op = to.tables[scanMap[id]].op
               /\ targets[scanMap[id]].reads = to.tables[scanMap[id]].reads
               /\ short[id].op = scans[id].op /\ short[id].reads = scans[id].reads
    <3> DEFINE t == scanMap[id]
    <3>1. t \in DOMAIN to.tables
      BY <1>0, <2>2
    <3> HIDE DEF t
    <3>2. targets[t].op = to.tables[t].op /\ targets[t].reads = to.tables[t].reads
      <4>1. targets[t] = [op |-> to.tables[t].op, reads |-> to.tables[t].reads,
                          keys |-> "compacted", sf |-> to.tables[t].sf]
        BY <1>0, <3>1, Zenon
      <4> QED BY <4>1
    <3>3. short[id].op = scans[id].op /\ short[id].reads = scans[id].reads
      BY <1>0
    <3> QED BY <3>2, <3>3 DEF t
  <2>4. \A a, b : Signature(a) = Signature(b) => a.op = b.op
    BY DEF Signature
  <2> QED BY <1>0, <2>1, <2>2, <2>3, <2>4
<1>8. D \cap DOMAIN scans = {} /\ References(nodes) \subseteq Ids(source)
      /\ Ids(source) = D \cup DOMAIN scans
  BY DEF IsClean, Ids
<1> HIDE DEF idMap, scanMap, short, targets
<1>9. /\ \A id \in D : m[id] = idMap[id]
      /\ \A id \in DOMAIN scans : m[id] = scanMap[id]
      /\ \A id \in Ids(source) : m[id] \in Nat /\ m[id] = MapRef(id, idMap, scanMap)
  <2>1. /\ \A id \in D : m[id] = idMap[id]
        /\ \A id \in DOMAIN scans : m[id] = scanMap[id]
    BY <1>6, <1>7, <1>8 DEF MapRef
  <2>2. \A id \in D : idMap[id] \in Nat
    BY <1>6 DEF IsNumbering
  <2>3. \A id \in DOMAIN scans : scanMap[id] \in Nat
    BY <1>5, <1>7
  <2> QED BY <1>8, <2>1, <2>2, <2>3
<1> HIDE DEF m, D
<1>10. ASSUME NEW id \in D
       PROVE  /\ m[id] \in DOMAIN into.structure
              /\ BuildAlike(LabelAtScale(nodes[id].label, sf), into.structure[m[id]].label)
              /\ UnreadLabel(into.structure[m[id]].label)
                   = UnreadLabel(LabelAtScale(nodes[id].label, sf))
              /\ into.structure[m[id]].refs = [k \in DOMAIN nodes[id].refs |-> m[nodes[id].refs[k]]]
              /\ \A k \in DOMAIN nodes[id].refs : nodes[id].refs[k] \in Ids(source)
              /\ nodes[id].refs \in Seq(Nat) /\ into.structure[m[id]].refs \in Seq(Nat)
  <2> DEFINE refs == nodes[id].refs
  <2>1. rebound[id] = [label |-> rebound[id].label, refs |-> rebound[id].refs]
    BY <1>3 DEF IsStructure
  <2>2. /\ m[id] \in DOMAIN into.structure
        /\ into.structure[m[id]].label = rebound[id].label
        /\ into.structure[m[id]].refs
             = [k \in DOMAIN rebound[id].refs |-> MapRef(rebound[id].refs[k], idMap, scanMap)]
    BY <1>2, <1>6, <1>9, <2>1, NodesKeepTheirContent
  <2>3. \A k \in DOMAIN refs : refs[k] \in Ids(source)
    BY <1>8 DEF References, Range, D
  <2>4. refs \in Seq(Nat)
    BY <1>1 DEF IsStructure, D
  <2>5. /\ BuildAlike(LabelAtScale(nodes[id].label, sf), rebound[id].label)
        /\ UnreadLabel(rebound[id].label) = UnreadLabel(LabelAtScale(nodes[id].label, sf))
        /\ rebound[id].refs = refs
    BY <1>4
  <2> HIDE DEF refs
  <2>6. into.structure[m[id]].refs = [k \in DOMAIN refs |-> m[refs[k]]]
    BY <1>9, <2>2, <2>3, <2>5
  <2>7. [k \in DOMAIN refs |-> m[refs[k]]] \in Seq(Nat)
    <3>1. Len(refs) \in Nat /\ DOMAIN refs = 1 .. Len(refs)
      BY <2>4, LenProperties
    <3> DEFINE l == Len(refs)
    <3>2. \A k \in DOMAIN refs : m[refs[k]] \in Nat
      BY <1>9, <2>3
    <3> HIDE DEF l
    <3>3. [k \in 1 .. l |-> m[refs[k]]] \in [1 .. l -> Nat]
      BY <3>1, <3>2 DEF l
    <3>4. [k \in 1 .. l |-> m[refs[k]]] \in Seq(Nat)
      BY <3>1, <3>3, SeqDef DEF l
    <3> QED BY <3>1, <3>4 DEF l
  <2> QED BY <2>2, <2>3, <2>4, <2>5, <2>6, <2>7 DEF refs
<1>11. /\ DOMAIN plan.structure = D /\ DOMAIN plan.tables = DOMAIN scans
       /\ \A id \in D : /\ plan.structure[id].label = LabelAtScale(nodes[id].label, sf)
                        /\ plan.structure[id].refs = nodes[id].refs
       /\ \A id \in DOMAIN scans : plan.tables[id] = LabelAtScale(scans[id], sf)
       /\ Ids(plan) = Ids(source)
  BY <1>1, RescaledPlan DEF D
<1>12. \A id \in DOMAIN scans :
         /\ m[id] \in DOMAIN into.tables
         /\ UnreadLabel(into.tables[m[id]]) = UnreadLabel(plan.tables[id])
         /\ ReadsInOrder(short, targets) => into.tables[m[id]] = plan.tables[id]
  <2> SUFFICES ASSUME NEW id \in DOMAIN scans
               PROVE  LET t == to.tables[scanMap[id]]
                      IN  /\ scanMap[id] \in DOMAIN to.tables
                          /\ UnreadLabel(t) = UnreadLabel(LabelAtScale(scans[id], sf))
                          /\ ReadsInOrder(short, targets) => t = LabelAtScale(scans[id], sf)
    BY <1>9, <1>11
  <2> DEFINE t == to.tables[scanMap[id]]
             old == scans[id]
  <2>1. /\ IsLabel(old) /\ old.keys = "scan" /\ IsLabel(t) /\ t.keys = "scan"
        /\ t.op = old.op /\ t.sf = sf
        /\ ReadsInOrder(short, targets) => t.reads = old.reads
    BY <1>7 DEF AreScans
  <2> HIDE DEF t, old
  <2>2. IsScan(old) /\ t.keys = old.keys
    BY <2>1 DEF IsScan
  <2>3. /\ UnreadLabel(t) = UnreadLabel(LabelAtScale(old, sf))
        /\ t.reads = old.reads => t = LabelAtScale(old, sf)
    BY <2>1, <2>2, RescaledIs
  <2> QED BY <1>7, <2>1, <2>3 DEF t, old
<1>13. DOMAIN into.structure = Range(idMap)
  BY <1>2 DEF RewriteReferences
<1>14. /\ \A new \in DOMAIN into.structure : \E id \in D : m[id] = new
       /\ \A a, b \in D : m[a] = m[b] => a = b
       /\ DOMAIN into.structure \subseteq Nat \ DOMAIN to.tables
  BY <1>6, <1>9, <1>13 DEF IsNumbering, Range
<1> HIDE DEF plan, nodes, scans
<1>15. Renumbers(m, plan, into)
  BY <1>8, <1>10, <1>11, <1>12, <1>14 DEF Renumbers
<1>16. IsNumbered(plan)
  <2>1. D \subseteq Nat /\ IsFiniteSet(D)
    BY <1>1 DEF IsStructure, D
  <2>2. Ids(plan) = D \cup DOMAIN scans
    BY <1>8, <1>11
  <2>3. Ids(plan) \subseteq Nat /\ IsFiniteSet(Ids(plan))
    BY <1>5, <2>1, <2>2, FS_Union
  <2> QED BY <1>10, <1>11, <2>3 DEF IsNumbered
<1>17. IsNumbered(into)
  <2>1. IsFiniteSet(DOMAIN into.structure)
    BY <1>6, <1>13, RangeIsFinite DEF IsNumbering
  <2>2. Ids(into) \subseteq Nat /\ IsFiniteSet(Ids(into))
    BY <1>5, <1>14, <2>1, FS_Union DEF Ids
  <2>3. \A new \in DOMAIN into.structure : into.structure[new].refs \in Seq(Nat)
    BY <1>10, <1>14
  <2> QED BY <2>2, <2>3 DEF IsNumbered
<1>18. ASSUME ReadsInOrder(short, targets) PROVE SameLabels(m, plan, into)
  BY <1>10, <1>11, <1>12, <1>18 DEF SameLabels
<1>19. SameLabels(m, Unread(plan), Unread(into))
  <2> DEFINE p == Unread(plan)
             q == Unread(into)
  <2>1. /\ DOMAIN p.structure = D /\ DOMAIN p.tables = DOMAIN scans
        /\ \A id \in D : p.structure[id].label = UnreadLabel(plan.structure[id].label)
        /\ \A id \in DOMAIN scans : p.tables[id] = UnreadLabel(plan.tables[id])
    BY <1>11, UnreadIs
  <2>2. /\ \A id \in DOMAIN into.structure :
             q.structure[id].label = UnreadLabel(into.structure[id].label)
        /\ \A id \in DOMAIN into.tables : q.tables[id] = UnreadLabel(into.tables[id])
    BY UnreadIs
  <2> HIDE DEF p, q
  <2>3. ASSUME NEW id \in D PROVE q.structure[m[id]].label = p.structure[id].label
    <3>1. /\ m[id] \in DOMAIN into.structure
          /\ UnreadLabel(into.structure[m[id]].label)
               = UnreadLabel(LabelAtScale(nodes[id].label, sf))
      BY <1>10
    <3>2. q.structure[m[id]].label = UnreadLabel(into.structure[m[id]].label)
      BY <2>2, <3>1
    <3>3. p.structure[id].label = UnreadLabel(LabelAtScale(nodes[id].label, sf))
      BY <1>11, <2>1
    <3> QED BY <3>1, <3>2, <3>3
  <2>4. \A id \in DOMAIN scans : q.tables[m[id]] = p.tables[id]
    BY <1>12, <2>1, <2>2
  <2>5. SameLabels(m, p, q)
    BY <2>1, <2>3, <2>4 DEF SameLabels, BuildAlike
  <2> QED BY <2>5 DEF p, q
<1> QED BY <1>15, <1>16, <1>17, <1>18, <1>19 DEF plan, scans, short, targets

\* A plan of the engine at a scale: its scans read that data set.
LEMMA EngineLabels ==
  ASSUME NEW v, IsPlan(v), NEW sf
  PROVE  LET plan == ToSuccinct(AtScale(v, sf))
         IN  /\ IsStructure(plan.structure) /\ AreLabelled(plan.structure)
             /\ AreScans(plan.tables)
             /\ \A id \in DOMAIN plan.tables : plan.tables[id].sf = sf
<1> DEFINE w == AtScale(v, sf)
           plan == ToSuccinct(w)
           Node == [label : Labels, kids : Seq(Nat)]
<1>1. IsVisit(w) /\ DOMAIN w = DOMAIN v
  BY AtScaleIs DEF AtScale
<1>2. ASSUME NEW i \in DOMAIN v
      PROVE  IsLabel(w[i].label)
             /\ (IsScan(w[i].label) => w[i].label.sf = sf /\ w[i].label.keys = "scan")
  <2> DEFINE node == v[i]
             moved == [node EXCEPT !.label.sf = sf]
  <2>1. node \in Node
    <3>1. v \in Seq(Node) /\ DOMAIN v = 1 .. Len(v)
      BY DEF IsPlan, IsVisit
    <3> HIDE DEF Node
    <3> QED BY <3>1, LenProperties
  <2>2. w[i] = IF IsScan(node.label) THEN moved ELSE node
    BY DEF AtScale
  <2> HIDE DEF node, w
  <2>3. /\ moved.label = [op |-> node.label.op, reads |-> node.label.reads,
                          keys |-> node.label.keys, sf |-> sf]
        /\ node.label = [op |-> node.label.op, reads |-> node.label.reads,
                         keys |-> node.label.keys, sf |-> node.label.sf]
    BY <2>1 DEF Labels
  <2>4. CASE IsScan(node.label)
    <3>1. HasKids(node.label.keys, Len(node.kids))
      BY DEF IsPlan, IsVisit, node
    <3>2. node.label.keys = "scan"
      BY <2>4, <3>1 DEF IsScan, HasKids
    <3> QED BY <2>2, <2>3, <2>4, <3>2 DEF IsLabel
  <2>5. CASE ~IsScan(node.label)
    BY <2>2, <2>3, <2>5 DEF IsLabel
  <2> QED BY <2>4, <2>5
<1> HIDE DEF w
<1>3. /\ IsStructure(plan.structure)
      /\ DOMAIN plan.tables \in SUBSET Nat /\ IsFiniteSet(DOMAIN plan.tables)
  BY <1>1, SuccinctStructure
<1>4. /\ DOMAIN plan.structure \cap DOMAIN plan.tables = {}
      /\ DOMAIN plan.structure \cup DOMAIN plan.tables = 0 .. Len(w) - 1
      /\ \A i \in DOMAIN w :
           IF IsScan(w[i].label)
           THEN i - 1 \in DOMAIN plan.tables /\ plan.tables[i - 1] = w[i].label
           ELSE i - 1 \in DOMAIN plan.structure /\ plan.structure[i - 1].label = w[i].label
  <2> HIDE DEF plan
  <2> QED BY <1>1, SuccinctIs DEF plan
<1> HIDE DEF plan
<1>5. \A id \in DOMAIN plan.structure \cup DOMAIN plan.tables :
        \E i \in DOMAIN w : id = i - 1
  <2> SUFFICES ASSUME NEW id \in 0 .. Len(w) - 1 PROVE \E i \in DOMAIN w : id = i - 1
    BY <1>4
  <2>1. Len(w) \in Nat /\ DOMAIN w = 1 .. Len(w)
    BY <1>1 DEF IsVisit
  <2>2. id + 1 \in DOMAIN w /\ id = (id + 1) - 1
    BY <2>1
  <2> QED BY <2>2
<1>6. AreLabelled(plan.structure)
  <2> SUFFICES ASSUME NEW id \in DOMAIN plan.structure PROVE IsLabel(plan.structure[id].label)
    BY DEF AreLabelled
  <2>1. PICK i \in DOMAIN w : id = i - 1
    BY <1>5
  <2> QED BY <1>1, <1>2, <1>4, <2>1
<1>7. \A id \in DOMAIN plan.tables :
        /\ plan.tables[id].keys = "scan" /\ IsLabel(plan.tables[id])
        /\ plan.tables[id].sf = sf
  <2> SUFFICES ASSUME NEW id \in DOMAIN plan.tables
               PROVE  plan.tables[id].keys = "scan" /\ IsLabel(plan.tables[id])
                      /\ plan.tables[id].sf = sf
    OBVIOUS
  <2>1. PICK i \in DOMAIN w : id = i - 1
    BY <1>5
  <2>2. IsScan(w[i].label)
    BY <1>4, <2>1
  <2> QED BY <1>1, <1>2, <1>4, <2>1, <2>2
<1> QED BY <1>3, <1>6, <1>7 DEF AreScans, plan, w

\* The patched plan of the target is the patched source plan at the target scale,
\* up to what scans of one signature read, and altogether if these are in order.
LEMMA ScaledIsPatched ==
  ASSUME IInv, NEW i \in Queries, planned[i].err = "none", NEW ops, IsPatch(ops),
         Transferred(i, ops).ok, IsClean(PatchedSource(i, ops)),
         NEW into, into.structure = Transferred(i, ops).val,
         into.tables = planned[i].plan.tables
  PROVE  LET plan == PlanAtScale(PatchedSource(i, ops), TargetScale)
         IN  /\ FromSuccinct(Unread(into)) = FromSuccinct(Unread(plan))
             /\ ScansInOrder(i) => FromSuccinct(into) = FromSuccinct(plan)
<1> DEFINE from == SourcePlan(i)
           to == planned[i].plan
           source == PatchedSource(i, ops)
           plan == PlanAtScale(source, TargetScale)
<1>1. /\ IsPlan(args.queries[i].source) /\ IsPlan(args.queries[i].target)
  BY PlanApiAssumption DEF PlanApiAssumption, IInv, ControlInv, Queries
<1>2. /\ from = ToSuccinct(AtScale(args.queries[i].source, SourceScale))
      /\ to = ToSuccinct(AtScale(args.queries[i].target, TargetScale))
  BY DEF SourcePlan, IInv, PlannedInv, PlannedFit, EnginePlan
<1>3. from = [structure |-> from.structure, tables |-> from.tables]
  BY DEF SourcePlan, ToSuccinct
<1>30. to = EnginePlan(i, TargetScale)
  BY DEF IInv, PlannedInv, PlannedFit
<1>31. ScansInOrder(i) <=> ReadsInOrder(Compacted(from.tables), Compacted(to.tables))
  BY <1>30 DEF ScansInOrder
<1> HIDE DEF from, to
<1>4. /\ IsStructure(from.structure) /\ AreLabelled(from.structure) /\ AreScans(from.tables)
      /\ AreScans(to.tables) /\ \A id \in DOMAIN to.tables : to.tables[id].sf = TargetScale
  BY <1>1, <1>2, EngineLabels
<1>5. Transferred(i, ops) = TransferPlan(from, to, ops)
  BY DEF Transferred, from, to
<1>6. source.structure = ApplyPatch(from.structure, ops).val /\ source.tables = from.tables
  <2> DEFINE s == ApplyPatch(from.structure, ops).val
  <2>1. source = [from EXCEPT !.structure = s]
    BY DEF PatchedSource, from
  <2> HIDE DEF s, source
  <2> QED BY <1>3, <2>1 DEF s
<1>7. into.tables = to.tables
  BY DEF to
<1> HIDE DEF source
<1>8. IsClean(source)
  BY DEF source
<1>9. PICK m : /\ Renumbers(m, plan, into) /\ IsNumbered(plan) /\ IsNumbered(into)
               /\ SameLabels(m, Unread(plan), Unread(into))
               /\ ScansInOrder(i) => SameLabels(m, plan, into)
  <2>1. \E m : /\ Renumbers(m, PlanAtScale(source, TargetScale), into)
               /\ IsNumbered(PlanAtScale(source, TargetScale)) /\ IsNumbered(into)
               /\ SameLabels(m, Unread(PlanAtScale(source, TargetScale)), Unread(into))
               /\ ReadsInOrder(Compacted(from.tables), Compacted(to.tables))
                    => SameLabels(m, PlanAtScale(source, TargetScale), into)
    <3>1. TransferPlan(from, to, ops).ok /\ into.structure = TransferPlan(from, to, ops).val
      BY <1>5
    <3> QED BY <1>4, <1>6, <1>7, <1>8, <3>1, TransferEmbeds
  <2> QED BY <1>31, <2>1
<1>10. \E r : Roots(plan) \ DOMAIN plan.tables = {r}
  <2> DEFINE R == Roots(plan) \ DOMAIN plan.tables
  <2>1. IsStructure(source.structure)
    BY <1>4, <1>6, PatchKeeps
  <2>2. Roots(plan) = Roots(source) /\ DOMAIN plan.tables = DOMAIN source.tables
    BY <2>1, RescaledPlan
  <2>3. Cardinality(R) = 1
    BY <1>8, <2>2 DEF IsClean
  <2>4. R \subseteq Ids(plan) /\ IsFiniteSet(Ids(plan))
    BY <1>9 DEF Roots, IsNumbered
  <2>5. IsFiniteSet(R)
    BY <2>4, FS_Subset
  <2> QED BY <2>3, <2>5, FS_Singleton
<1> HIDE DEF plan
<1>11. ASSUME ScansInOrder(i) PROVE FromSuccinct(plan) = FromSuccinct(into)
  <2>1. Embeds(m, plan, into)
    BY <1>9, <1>11 DEF Embeds
  <2> QED BY <1>9, <1>10, <2>1, EmbeddedPlan
<1>12. FromSuccinct(Unread(plan)) = FromSuccinct(Unread(into))
  <2> DEFINE p == Unread(plan)
             q == Unread(into)
  <2>1. Renumbers(m, p, q) /\ IsNumbered(p) /\ IsNumbered(q)
    BY <1>9, UnreadRenumbers
  <2>2. Roots(p) = Roots(plan) /\ DOMAIN p.tables = DOMAIN plan.tables
    BY UnreadIs
  <2>3. SameLabels(m, p, q)
    BY <1>9
  <2> HIDE DEF p, q
  <2>4. \E r : Roots(p) \ DOMAIN p.tables = {r}
    BY <1>10, <2>2
  <2>5. Embeds(m, p, q)
    BY <2>1, <2>3 DEF Embeds
  <2>6. FromSuccinct(p) = FromSuccinct(q)
    BY <2>1, <2>4, <2>5, EmbeddedPlan
  <2> QED BY <2>6 DEF p, q
<1> QED BY <1>11, <1>12 DEF plan, source

\* Whatever the plans of a query are and whatever a patch does to them, a patched
\* plan that hangs together and is transferred is, rebuilt at the target scale,
\* the plan it was at the source scale, with scans of the same signatures in their
\* places; they read the same if the target plan has them in the same order.
THEOREM ScaledPlanIsOptimizedHolds == Spec => []ScaledPlanIsOptimized
<1>1. IInv /\ MadeInv => ScaledPlanIsOptimized
  <2> SUFFICES ASSUME IInv, MadeInv, phase \in {"benchmark", "done"}, args.call = "scale",
                      NEW i \in Queries, NEW j \in DOMAIN scaled[i].statuses,
                      scaled[i].statuses[j] = "transferred",
                      IsClean(PatchedSource(i, Patches(i)[j].ops))
               PROVE  LET plan == PlanAtScale(PatchedSource(i, Patches(i)[j].ops), TargetScale)
                      IN  /\ FromSuccinct(Unread(ScaledPlan(i, j))) = FromSuccinct(Unread(plan))
                          /\ ScansInOrder(i) => PatchedPlan(scaled[i], j) = FromSuccinct(plan)
    BY DEF ScaledPlanIsOptimized
  <2> DEFINE ops == Patches(i)[j].ops
             base == scaled[i].base
             patched == ApplyPatch(base.structure, scaled[i].patches[j].ops)
             into == [base EXCEPT !.structure = patched.val]
  <2>1. EndedFit(i, scaled[i])
    BY DEF IInv, ScaledInv
  <2>2. DOMAIN scaled[i].statuses = 1 .. Len(scaled[i].statuses)
        /\ Len(scaled[i].statuses) = Len(Patches(i))
    BY <2>1, LenProperties DEF EndedFit, AlignedTo
  <2>3. DOMAIN Patches(i) = 1 .. Len(Patches(i))
    BY PlanApiAssumption DEF PlanApiAssumption, IInv, ControlInv, Queries, Patches, IsSequence
  <2>4. BaseMade(i, scaled[i]) /\ PatchMadeOf(i, scaled[i], j) /\ j \in DOMAIN Patches(i)
    BY <2>2, <2>3 DEF MadeInv, Made
  <2>5. patched = Ok(Transferred(i, ops).val) /\ base.tables = planned[i].plan.tables
    BY <2>4, MadeApplies
  <2>6. IsPatch(ops)
    BY <2>4, PlanApiAssumption DEF PlanApiAssumption, IInv, ControlInv, Queries, Patches
  <2>7. planned[i].err = "none" /\ Transferred(i, ops).ok
    BY <2>4 DEF BaseMade, PatchMadeOf
  <2>8. PatchedPlan(scaled[i], j) = IF patched.ok THEN FromSuccinct(into) ELSE Unbuildable
    BY DEF PatchedPlan
  <2>9. base = [structure |-> base.structure, tables |-> base.tables]
    <3> DEFINE old == Transferred(i, << >>).val
    <3>1. base = [planned[i].plan EXCEPT !.structure = old]
      BY <2>4 DEF BaseMade
    <3>2. planned[i].plan
            = [structure |-> planned[i].plan.structure, tables |-> planned[i].plan.tables]
      BY DEF IInv, PlannedInv, PlannedFit
    <3> HIDE DEF old, base
    <3> QED BY <3>1, <3>2
  <2>90. ScaledPlan(i, j) = into
    <3>1. ScaledPlan(i, j)
            = [base EXCEPT !.structure = ApplyPatch(@, scaled[i].patches[j].ops).val]
      BY DEF ScaledPlan
    <3> QED BY <2>9, <3>1
  <2> HIDE DEF patched, base, ops
  <2>10. patched.ok /\ patched.val = Transferred(i, ops).val
    BY <2>5 DEF Ok
  <2>11. into.structure = Transferred(i, ops).val /\ into.tables = planned[i].plan.tables
    BY <2>5, <2>9, <2>10
  <2> HIDE DEF into
  <2>12. IsClean(PatchedSource(i, ops))
    BY DEF ops
  <2> DEFINE plan == PlanAtScale(PatchedSource(i, ops), TargetScale)
  <2>13. /\ FromSuccinct(Unread(into)) = FromSuccinct(Unread(plan))
         /\ ScansInOrder(i) => FromSuccinct(into) = FromSuccinct(plan)
    BY <2>6, <2>7, <2>11, <2>12, ScaledIsPatched
  <2> QED BY <2>8, <2>10, <2>13, <2>90 DEF ops
<1> QED BY <1>1, InvHolds, MadeHolds, PTL
=============================================================================
