---------------------------- MODULE QueryGenProofs ----------------------------
(***************************************************************************)
(* What every history of calls, kills and torn writes leaves true of a run *)
(* directory of run_query_generation, for every value of the constants.    *)
(*                                                                         *)
(* The properties speak of files; what a call writes depends on what it    *)
(* loaded.  IInv adds what the call in progress knows: that its step is    *)
(* behind every outcome, that what it has accepted is what the file holds, *)
(* and that the texts it may still accept are none of these.  QInv adds    *)
(* that a call which goes on lacks queries, and TotalInv how many queries  *)
(* the outcomes it has passed have generated.  What the targets, the       *)
(* requests and the lists add up to is proved with the sums of             *)
(* CountingProofs: largest remainders share out exactly the total.         *)
(***************************************************************************)
EXTENDS QueryGen, FiniteSetTheorems, FunctionTheorems, SequenceTheorems,
        CountingProofs, TLAPS

\* The call, and the configuration file, which is that of the call.
CallInv ==
  /\ pc \in {"idle", "clear", "load", "step", "accept"}
  /\ DOMAIN run = DOMAIN NoRun
  /\ config.st \in {"absent", "torn", "ok"}
  /\ config.st = "absent" => final.st # "ok"
  /\ pc # "idle" => run.config \in Configs /\ config = File(run.config)
  /\ pc = "clear" => run.resume = FALSE
  /\ pc = "load" => run.resume = TRUE \/ (run.resume = FALSE /\ final = Absent)

\* The step of a call is behind every outcome there is; when it accepts, its
\* own outcome is the last.
OutcomesInv ==
  /\ outcomes = [k \in Steps |-> outcomes[k]]
  /\ pc \in {"step", "accept"} => run.step \in Nat
  /\ pc = "step" => \A k \in Steps : k >= run.step => outcomes[k] = Absent
  /\ pc = "accept" => \A k \in Steps : k > run.step => outcomes[k] = Absent

\* What a call has accepted is what the file holds, if it can be read.
KeptInv ==
  /\ final.st = "ok" => final.data.queries \in Seq(Queries)
  /\ pc \in {"step", "accept"} =>
       /\ run.accepted \in Seq(Queries)
       /\ final.st = "ok" => final.data.queries = run.accepted
  /\ pc = "accept" => run.valid \subseteq [text : Texts, level : Levels]

\* The texts accepted are among those seen, and those about to be are not
\* among the texts accepted.
DistinctInv ==
  /\ NoTextTwice
  /\ pc \in {"step", "accept"} =>
       /\ Distinct(run.accepted)
       /\ TextsOf(run.accepted) \subseteq run.seen
  /\ pc = "accept" =>
       /\ \A p, q \in run.valid : p.text = q.text => p = q
       /\ \A q \in run.valid : q.text \in run.seen /\ q.text \notin TextsOf(run.accepted)

OfConfig(queries, cfg) == \A i \in DOMAIN queries : queries[i].config = cfg

\* Queries belong to the configuration beside them.
ConfigInv ==
  AllowKilledRestart = FALSE =>
    /\ FinalOfConfig
    /\ pc \in {"step", "accept"} => OfConfig(run.accepted, run.config)

IInv == CallInv /\ OutcomesInv /\ KeptInv /\ DistinctInv /\ ConfigInv

\* What AcceptedIsKept and OutcomesWrittenOnce say of one step.
StepKeeps ==
  pc # "clear" =>
    /\ final.st = "ok" /\ final'.st = "ok" => IsPrefix(final.data.queries, final'.data.queries)
    /\ \A k \in Steps : outcomes[k] # Absent => outcomes'[k] = outcomes[k]

-----------------------------------------------------------------------------
(* Files, lists and maxima. *)

LEMMA FileStates ==
  /\ Absent.st = "absent" /\ Torn.st = "torn"
  /\ \A d : File(d).st = "ok" /\ File(d).data = d
  BY DEF Absent, Torn, File

LEMMA WrittenFile ==
  ASSUME NEW d, NEW f \in Written(d)
  PROVE  f = Torn \/ f = File(d)
  BY DEF Written

LEMMA PrefixOfItself ==
  ASSUME NEW s \in Seq(Queries)
  PROVE  IsPrefix(s, s)
  BY DEF IsPrefix

\* A finite set listed by SetToSeq: its elements, each once.
LEMMA Listed ==
  ASSUME NEW T, IsFiniteSet(T)
  PROVE  /\ SetToSeq(T) \in Seq(T)
         /\ \A i, j \in DOMAIN SetToSeq(T) : SetToSeq(T)[i] = SetToSeq(T)[j] => i = j
<1>1. Cardinality(T) \in Nat /\ ExistsBijection(1 .. Cardinality(T), T)
  BY FS_CardinalityType
<1>2. \E f \in [1 .. Cardinality(T) -> T] : IsInjective(f)
  BY <1>1 DEF ExistsBijection, Bijection, Injection
<1>3. SetToSeq(T) \in [1 .. Cardinality(T) -> T] /\ IsInjective(SetToSeq(T))
  BY <1>2 DEF SetToSeq
<1> QED BY <1>1, <1>3 DEF IsInjective

\* The step after the last outcome is behind all of them.
LEMMA NextStepIsNew ==
  ASSUME OutcomesInv
  PROVE  NextStep \in Nat /\ \A k \in Steps : k >= NextStep => outcomes[k] = Absent
<1> DEFINE S == OutcomeSteps \cup {0}
<1>1. S \subseteq 0 .. MaxSteps /\ S # {} /\ MaxSteps \in Nat
  BY QueryGenAssumption DEF QueryGenAssumption, OutcomeSteps, Steps
<1>2. Max(S) \in S /\ \A y \in S : Max(S) >= y
  BY <1>1, MaxOfBounded
<1>3. Max(S) \in Nat /\ NextStep = Max(S) + 1
  BY <1>1, <1>2 DEF NextStep
<1> HIDE DEF S
<1>4. \A k \in Steps : outcomes[k] # Absent => k \in S
  BY DEF S, OutcomeSteps
<1> QED BY <1>1, <1>2, <1>3, <1>4 DEF Steps

\* A batch of valid queries is finite ...
LEMMA ChosenFinite ==
  ASSUME NEW chosen \in SUBSET [text : Texts, level : Levels]
  PROVE  IsFiniteSet(chosen)
<1> DEFINE P == [text : Texts, level : Levels]
           f == [p \in Texts \X Levels |-> [text |-> p[1], level |-> p[2]]]
<1>1. IsFiniteSet(Texts \X Levels)
  BY QueryGenAssumption, FS_Product DEF QueryGenAssumption
<1>2. f \in Surjection(Texts \X Levels, P)
  <2>1. f \in [Texts \X Levels -> P]
    OBVIOUS
  <2>2. ASSUME NEW q \in P
        PROVE  \E p \in Texts \X Levels : f[p] = q
    <3>1. <<q.text, q.level>> \in Texts \X Levels /\ f[<<q.text, q.level>>] = q
      BY <2>2
    <3> QED BY <3>1
  <2> QED BY <2>1, <2>2 DEF Surjection
<1> HIDE DEF f
<1>3. IsFiniteSet(P)
  BY <1>1, <1>2, FS_Surjection
<1> QED BY <1>3, FS_Subset

\* ... and so is what is made of it.
LEMMA AcceptedFinite ==
  ASSUME NEW chosen \in SUBSET [text : Texts, level : Levels], NEW cfg
  PROVE  IsFiniteSet({[text |-> q.text, level |-> q.level, config |-> cfg] : q \in chosen})
<1> DEFINE T == {[text |-> q.text, level |-> q.level, config |-> cfg] : q \in chosen}
           g == [q \in chosen |-> [text |-> q.text, level |-> q.level, config |-> cfg]]
<1>1. IsFiniteSet(chosen)
  BY ChosenFinite
<1>2. g \in Surjection(chosen, T)
  BY DEF Surjection
<1> HIDE DEF g, T
<1>3. IsFiniteSet(T)
  BY <1>1, <1>2, FS_Surjection
<1> QED BY <1>3 DEF T

-----------------------------------------------------------------------------
(* The actions. *)

\* Two lists of queries without a text twice, or in both, make a third.
LEMMA AppendDistinct ==
  ASSUME NEW old \in Seq(Queries), NEW new \in Seq(Queries),
         Distinct(old), Distinct(new),
         \A i \in DOMAIN new : new[i].text \notin TextsOf(old)
  PROVE  /\ old \o new \in Seq(Queries) /\ Distinct(old \o new)
         /\ IsPrefix(old, old \o new)
         /\ TextsOf(old \o new) \subseteq TextsOf(old) \cup TextsOf(new)
         /\ \A cfg : OfConfig(old, cfg) /\ OfConfig(new, cfg) => OfConfig(old \o new, cfg)
<1> DEFINE both == old \o new
<1>1. /\ both \in Seq(Queries) /\ Len(both) = Len(old) + Len(new)
      /\ \A i \in 1 .. Len(old) + Len(new) :
           both[i] = IF i <= Len(old) THEN old[i] ELSE new[i - Len(old)]
  BY ConcatProperties
<1>2. Len(old) \in Nat /\ Len(new) \in Nat
  OBVIOUS
<1>3. /\ DOMAIN both = 1 .. Len(old) + Len(new)
      /\ DOMAIN old = 1 .. Len(old) /\ DOMAIN new = 1 .. Len(new)
  BY <1>1
<1> HIDE DEF both
<1>4. \A i \in DOMAIN both :
        \/ i \in DOMAIN old /\ both[i] = old[i]
        \/ /\ i > Len(old) /\ i - Len(old) \in DOMAIN new
           /\ both[i] = new[i - Len(old)]
  BY <1>1, <1>2, <1>3
<1>5. Distinct(both)
  <2> SUFFICES ASSUME NEW i \in DOMAIN both, NEW j \in DOMAIN both,
                      both[i].text = both[j].text
               PROVE  i = j
    BY DEF Distinct
  <2>1. CASE i \in DOMAIN old /\ both[i] = old[i] /\ j \in DOMAIN old /\ both[j] = old[j]
    BY <2>1 DEF Distinct
  <2>2. CASE /\ i - Len(old) \in DOMAIN new /\ both[i] = new[i - Len(old)]
             /\ j - Len(old) \in DOMAIN new /\ both[j] = new[j - Len(old)]
    <3>1. i - Len(old) = j - Len(old)
      BY <2>2 DEF Distinct
    <3> QED BY <3>1, <1>2, <1>3
  <2> QED BY <1>4, <2>1, <2>2 DEF TextsOf
<1>6. IsPrefix(old, both)
  <2>1. SubSeq(old, 1, Len(old)) = SubSeq(both, 1, Len(old))
    BY <1>1, <1>2, <1>3
  <2> QED BY <1>1, <1>2, <2>1 DEF IsPrefix
<1>7. TextsOf(both) \subseteq TextsOf(old) \cup TextsOf(new)
  BY <1>4 DEF TextsOf
<1>8. \A cfg : OfConfig(old, cfg) /\ OfConfig(new, cfg) => OfConfig(both, cfg)
  BY <1>4 DEF OfConfig
<1> QED BY <1>1, <1>5, <1>6, <1>7, <1>8 DEF both

\* The queries chosen of a batch, listed.
ListOf(chosen, cfg) ==
  SetToSeq({[text |-> q.text, level |-> q.level, config |-> cfg] : q \in chosen})

LEMMA ChosenListed ==
  ASSUME NEW cfg \in Configs,
         NEW chosen \in SUBSET [text : Texts, level : Levels],
         \A p, q \in chosen : p.text = q.text => p = q
  PROVE  /\ ListOf(chosen, cfg) \in Seq(Queries) /\ Distinct(ListOf(chosen, cfg))
         /\ TextsOf(ListOf(chosen, cfg)) \subseteq {q.text : q \in chosen}
         /\ OfConfig(ListOf(chosen, cfg), cfg)
<1> DEFINE T == {[text |-> q.text, level |-> q.level, config |-> cfg] : q \in chosen}
           new == SetToSeq(T)
<1>1. new \in Seq(T) /\ \A i, j \in DOMAIN new : new[i] = new[j] => i = j
  <2>1. IsFiniteSet(T)
    BY AcceptedFinite
  <2> HIDE DEF T
  <2> QED BY <2>1, Listed
<1>2. \A i \in DOMAIN new : new[i] \in T
  <2> HIDE DEF T, new
  <2> QED BY <1>1
<1>3. new \in Seq(Queries)
  <2>1. T \subseteq Queries
    BY DEF Queries
  <2> HIDE DEF T, new
  <2> QED BY <1>1, <2>1
<1>4. \A t \in T : t.config = cfg /\ t.text \in {q.text : q \in chosen}
  OBVIOUS
<1>5. \A t, u \in T : t.text = u.text => t = u
  OBVIOUS
<1> HIDE DEF T
<1>6. Distinct(new)
  BY <1>1, <1>2, <1>5 DEF Distinct
<1> HIDE DEF new
<1>7. TextsOf(new) \subseteq {q.text : q \in chosen} /\ OfConfig(new, cfg)
  BY <1>2, <1>4 DEF TextsOf, OfConfig
<1> QED BY <1>3, <1>6, <1>7 DEF new, T, ListOf

LEMMA StartInductive ==
  ASSUME IInv, NEW cfg \in Configs, NEW resume \in BOOLEAN, Start(cfg, resume)
  PROVE  IInv' /\ StepKeeps
<1> USE FileStates
<1>1. /\ UNCHANGED <<outcomes, final>> /\ pc = "idle"
      /\ answer'.queries = << >>
  BY DEF Start, Raise, NoAnswer
<1>2. \/ pc' = "idle" /\ run' = NoRun /\ (UNCHANGED config \/ config'.st = "torn")
      \/ /\ pc' = IF resume THEN "load" ELSE "clear"
         /\ run' = [NoRun EXCEPT !.resume = resume, !.config = cfg]
         /\ config' = File(cfg)
         /\ resume => config.st # "ok" \/ config.data = cfg
         /\ config.st # "torn"
  BY WrittenFile DEF Start, Raise, End
<1>3. CallInv'
  <2>1. CASE pc' = "idle"
    <3>1. run' = NoRun /\ (UNCHANGED config \/ config'.st = "torn")
      BY <1>2, <2>1
    <3> QED BY <1>1, <2>1, <3>1 DEF CallInv, IInv
  <2>2. CASE pc' # "idle"
    <3>1. /\ DOMAIN run' = DOMAIN NoRun
          /\ run'.resume = resume /\ run'.config = cfg
      BY <1>2, <2>2 DEF NoRun
    <3>2. config' = File(cfg) /\ pc' = IF resume THEN "load" ELSE "clear"
      BY <1>2, <2>2
    <3> QED BY <1>1, <2>2, <3>1, <3>2 DEF CallInv, IInv
  <2> QED BY <2>1, <2>2
<1>4. OutcomesInv'
  BY <1>1, <1>2 DEF OutcomesInv, IInv
<1>5. KeptInv'
  BY <1>1, <1>2 DEF KeptInv, IInv
<1>6. DistinctInv'
  BY <1>1, <1>2 DEF DistinctInv, IInv, NoTextTwice, Distinct
<1>7. ConfigInv'
  BY <1>1, <1>2 DEF ConfigInv, IInv, CallInv, FinalOfConfig
<1>8. StepKeeps
  BY <1>1, PrefixOfItself DEF StepKeeps, KeptInv, IInv
<1> QED BY <1>3, <1>4, <1>5, <1>6, <1>7, <1>8 DEF IInv

LEMMA FinalUnchangedKeeps ==
  ASSUME IInv, UNCHANGED final,
         pc # "clear" => \A k \in Steps : outcomes[k] # Absent => outcomes'[k] = outcomes[k]
  PROVE  StepKeeps
  BY PrefixOfItself DEF StepKeeps, KeptInv, IInv

\* A call that ends leaves the files as they are.
LEMMA EndInductive ==
  ASSUME IInv, End, UNCHANGED files, pc # "clear" \/ AllowKilledRestart = TRUE,
         Distinct(answer'.queries)
  PROVE  IInv' /\ StepKeeps
<1> USE DEF End, files, IInv
<1>1. CallInv'
  BY DEF CallInv
<1>2. OutcomesInv' /\ KeptInv'
  BY DEF OutcomesInv, KeptInv
<1>3. DistinctInv'
  BY DEF DistinctInv, NoTextTwice
<1>4. ConfigInv'
  BY DEF ConfigInv, FinalOfConfig
<1>5. StepKeeps
  BY FinalUnchangedKeeps
<1> QED BY <1>1, <1>2, <1>3, <1>4, <1>5

LEMMA ClearOutcomeInductive ==
  ASSUME IInv, NEW k \in Steps, ClearOutcome(k)
  PROVE  IInv' /\ StepKeeps
<1> USE DEF ClearOutcome, IInv
<1>1. CallInv' /\ KeptInv'
  BY DEF CallInv, KeptInv
<1>2. OutcomesInv'
  BY DEF OutcomesInv
<1>3. DistinctInv' /\ ConfigInv'
  BY DEF DistinctInv, NoTextTwice, ConfigInv, FinalOfConfig
<1>4. StepKeeps
  BY DEF StepKeeps
<1> QED BY <1>1, <1>2, <1>3, <1>4

LEMMA ClearFinalInductive ==
  ASSUME IInv, ClearFinal
  PROVE  IInv' /\ StepKeeps
<1> USE FileStates DEF ClearFinal, IInv
<1>1. CallInv'
  BY DEF CallInv
<1>2. OutcomesInv' /\ KeptInv'
  BY DEF OutcomesInv, KeptInv
<1>3. DistinctInv' /\ ConfigInv'
  BY DEF DistinctInv, NoTextTwice, ConfigInv, FinalOfConfig
<1>4. StepKeeps
  BY DEF StepKeeps
<1> QED BY <1>1, <1>2, <1>3, <1>4

LEMMA LoadInductive ==
  ASSUME IInv, Load
  PROVE  IInv' /\ StepKeeps
<1> USE FileStates
<1>1. /\ pc = "load" /\ UNCHANGED files
      /\ run.config \in Configs /\ config = File(run.config)
  BY DEF Load, CallInv, IInv
<1>2. /\ Existing \in Seq(Queries) /\ Distinct(Existing)
      /\ final.st = "ok" => Existing = final.data.queries
      /\ AllowKilledRestart = FALSE => OfConfig(Existing, run.config)
  <2>1. CASE run.resume = TRUE /\ final.st = "ok"
    BY <1>1, <2>1
    DEF Existing, IInv, KeptInv, DistinctInv, NoTextTwice, ConfigInv, FinalOfConfig, OfConfig
  <2>2. CASE ~ (run.resume = TRUE /\ final.st = "ok")
    <3>1. Existing = << >> /\ final.st # "ok"
      BY <1>1, <2>2 DEF Existing, IInv, CallInv
    <3> QED BY <3>1 DEF Distinct, OfConfig
  <2> QED BY <2>1, <2>2
<1>3. CASE Raise
  BY <1>1, <1>3, EndInductive DEF Raise, Distinct
<1>4. CASE Return(Existing)
  BY <1>1, <1>2, <1>4, EndInductive DEF Return
<1>5. CASE pc' = "step" /\ run' = Loaded /\ UNCHANGED answer
  <2>1. /\ DOMAIN run' = DOMAIN NoRun /\ run'.config = run.config
        /\ run'.step = NextStep /\ run'.accepted = Existing
        /\ run'.seen = TextsOf(Existing)
    BY <1>5 DEF Loaded, IInv, CallInv, NoRun
  <2>2. CallInv'
    BY <1>1, <1>5, <2>1 DEF CallInv, IInv, files
  <2>3. OutcomesInv'
    BY <1>1, <1>5, <2>1, NextStepIsNew DEF OutcomesInv, IInv, files
  <2>4. KeptInv'
    BY <1>1, <1>2, <1>5, <2>1 DEF KeptInv, IInv, files
  <2>5. DistinctInv'
    BY <1>1, <1>2, <1>5, <2>1 DEF DistinctInv, NoTextTwice, IInv, files
  <2>6. ConfigInv'
    BY <1>1, <1>2, <1>5, <2>1 DEF ConfigInv, FinalOfConfig, IInv, files
  <2>7. StepKeeps
    BY <1>1, FinalUnchangedKeeps DEF files
  <2> QED BY <2>2, <2>3, <2>4, <2>5, <2>6, <2>7 DEF IInv
<1> QED BY <1>3, <1>4, <1>5 DEF Load

LEMMA GenerateInductive ==
  ASSUME IInv, Generate
  PROVE  IInv' /\ StepKeeps
<1> USE FileStates
<1>1. /\ pc = "step" /\ run.step \in Nat
      /\ UNCHANGED <<config, final, answer>>
  BY DEF Generate, OutcomesInv, IInv
<1>2. PICK valid \in ValidBatches : \E generated \in {Cardinality(valid), NeedN} :
        /\ \E written \in Written(generated) :
             outcomes' = [outcomes EXCEPT ![run.step] = written]
        /\ IF outcomes'[run.step].st = "torn" THEN End
           ELSE /\ pc' = "accept"
                /\ run' = [run EXCEPT !.valid = valid, !.total = @ + generated,
                             !.seen = @ \cup {q.text : q \in valid}]
  BY DEF Generate
<1>3. /\ outcomes' = [k \in Steps |-> outcomes'[k]]
      /\ \A k \in Steps : k # run.step => outcomes'[k] = outcomes[k]
  BY <1>2 DEF OutcomesInv, IInv
<1>4. StepKeeps
  BY <1>1, <1>3, FinalUnchangedKeeps DEF OutcomesInv, IInv
<1>5. CASE End
  <2>1. CallInv' /\ OutcomesInv'
    BY <1>1, <1>3, <1>5 DEF End, CallInv, OutcomesInv, IInv
  <2>2. KeptInv'
    BY <1>1, <1>5 DEF End, KeptInv, IInv
  <2>3. DistinctInv' /\ ConfigInv'
    BY <1>1, <1>5 DEF End, DistinctInv, NoTextTwice, ConfigInv, FinalOfConfig, IInv
  <2> QED BY <1>4, <2>1, <2>2, <2>3 DEF IInv
<1>6. CASE /\ pc' = "accept"
           /\ \E generated \in {Cardinality(valid), NeedN} :
                run' = [run EXCEPT !.valid = valid, !.total = @ + generated,
                             !.seen = @ \cup {q.text : q \in valid}]
  <2>1. /\ DOMAIN run' = DOMAIN NoRun /\ run'.config = run.config
        /\ run'.step = run.step /\ run'.accepted = run.accepted
        /\ run'.valid = valid /\ run'.seen = run.seen \cup {q.text : q \in valid}
    BY <1>6 DEF IInv, CallInv, NoRun
  <2>2. /\ valid \subseteq [text : Texts, level : Levels]
        /\ \A p, q \in valid : p.text = q.text => p = q
        /\ \A q \in valid : q.text \notin run.seen
    BY DEF ValidBatches
  <2>3. CallInv'
    BY <1>1, <1>6, <2>1 DEF CallInv, IInv
  <2>4. OutcomesInv'
    <3>1. \A k \in Steps : k > run.step => k >= run.step /\ k # run.step
      BY <1>1, QueryGenAssumption DEF Steps, QueryGenAssumption
    <3> QED BY <1>1, <1>3, <1>6, <2>1, <3>1 DEF OutcomesInv, IInv
  <2>5. KeptInv'
    BY <1>1, <1>6, <2>1, <2>2 DEF KeptInv, IInv
  <2>6. DistinctInv'
    <3>1. Distinct(run'.accepted) /\ TextsOf(run'.accepted) \subseteq run.seen
      BY <1>1, <2>1 DEF DistinctInv, IInv
    <3>2. \A q \in valid : q.text \in run'.seen /\ q.text \notin TextsOf(run'.accepted)
      BY <2>1, <2>2, <3>1
    <3>3. TextsOf(run'.accepted) \subseteq run'.seen
      BY <2>1, <3>1
    <3>4. NoTextTwice'
      BY <1>1 DEF DistinctInv, NoTextTwice, IInv
    <3> QED BY <1>6, <2>1, <2>2, <3>1, <3>2, <3>3, <3>4 DEF DistinctInv
  <2>7. ConfigInv'
    BY <1>1, <1>6, <2>1 DEF ConfigInv, FinalOfConfig, IInv
  <2> QED BY <1>4, <2>3, <2>4, <2>5, <2>6, <2>7 DEF IInv
<1> QED BY <1>2, <1>5, <1>6

LEMMA AcceptInductive ==
  ASSUME IInv, Accept
  PROVE  IInv' /\ StepKeeps
<1> USE FileStates
<1>1. /\ pc = "accept" /\ UNCHANGED <<config, outcomes>>
      /\ run.config \in Configs /\ config = File(run.config) /\ run.step \in Nat
  BY DEF Accept, CallInv, OutcomesInv, IInv
<1>2. PICK chosen \in Acceptable :
        LET queries == run.accepted \o ListOf(chosen, run.config)
        IN  /\ final' \in Written([queries |-> queries, generated |-> run.total,
                                   step |-> run.step])
            /\ IF final'.st = "torn" THEN End /\ UNCHANGED answer
               ELSE IF Len(queries) >= run.config.n
               THEN Return(queries)
               ELSE IF chosen = {} /\ run.step >= MaxSteps
               THEN Raise
               ELSE /\ pc' = "step" /\ UNCHANGED answer
                    /\ run' = [run EXCEPT !.accepted = queries, !.step = @ + 1,
                                          !.valid = {}]
  BY DEF Accept, ListOf
<1> DEFINE new == ListOf(chosen, run.config)
           queries == run.accepted \o new
<1>3. /\ chosen \in SUBSET [text : Texts, level : Levels]
      /\ \A p, q \in chosen : p.text = q.text => p = q
      /\ \A q \in chosen : q.text \in run.seen /\ q.text \notin TextsOf(run.accepted)
  BY <1>1 DEF Acceptable, KeptInv, DistinctInv, IInv
<1>4. /\ new \in Seq(Queries) /\ Distinct(new) /\ OfConfig(new, run.config)
      /\ TextsOf(new) \subseteq {q.text : q \in chosen}
  BY <1>1, <1>3, ChosenListed
<1> HIDE DEF new
<1>5. /\ run.accepted \in Seq(Queries) /\ Distinct(run.accepted)
      /\ TextsOf(run.accepted) \subseteq run.seen
      /\ final.st = "ok" => final.data.queries = run.accepted
      /\ AllowKilledRestart = FALSE => OfConfig(run.accepted, run.config)
  BY <1>1 DEF KeptInv, DistinctInv, ConfigInv, IInv
<1>6. \A i \in DOMAIN new : new[i].text \notin TextsOf(run.accepted)
  <2> TAKE i \in DOMAIN new
  <2>1. new[i].text \in TextsOf(new)
    BY DEF TextsOf
  <2>2. PICK q \in chosen : new[i].text = q.text
    BY <1>4, <2>1
  <2> QED BY <1>3, <2>2
<1>7. /\ queries \in Seq(Queries) /\ Distinct(queries) /\ IsPrefix(run.accepted, queries)
      /\ TextsOf(queries) \subseteq run.seen
      /\ AllowKilledRestart = FALSE => OfConfig(queries, run.config)
  BY <1>3, <1>4, <1>5, <1>6, AppendDistinct
<1>8. final' = Torn \/ (final'.st = "ok" /\ final'.data.queries = queries)
  <2> DEFINE d == [queries |-> queries, generated |-> run.total, step |-> run.step]
  <2>1. final' \in Written(d)
    BY <1>2 DEF new
  <2>2. d.queries = queries
    OBVIOUS
  <2> HIDE DEF d, queries
  <2>3. final' = Torn \/ final' = File(d)
    BY <2>1, WrittenFile
  <2> QED BY <2>2, <2>3
<1>9. StepKeeps
  BY <1>1, <1>5, <1>7, <1>8 DEF StepKeeps
<1>10. /\ pc' = "idle" => End /\ Distinct(answer'.queries)
       /\ pc' # "idle" =>
            /\ pc' = "step" /\ UNCHANGED answer /\ final'.st # "torn"
            /\ run' = [run EXCEPT !.accepted = queries, !.step = @ + 1, !.valid = {}]
  <2>1. Distinct(answer.queries) /\ Distinct(<< >>)
    BY DEF DistinctInv, NoTextTwice, Distinct, IInv
  <2>2. \/ End /\ UNCHANGED answer
        \/ Return(queries)
        \/ Raise
        \/ /\ pc' = "step" /\ UNCHANGED answer /\ final'.st # "torn"
           /\ run' = [run EXCEPT !.accepted = queries, !.step = @ + 1, !.valid = {}]
    BY <1>2 DEF new
  <2> HIDE DEF queries
  <2> QED BY <2>1, <2>2, <1>7 DEF End, Return, Raise
<1> HIDE DEF queries
<1>11. ConfigInv' /\ KeptInv' /\ DistinctInv' /\ CallInv' /\ OutcomesInv'
  <2>1. CASE pc' = "idle"
    <3>1. run' = NoRun /\ Distinct(answer'.queries)
      BY <1>10, <2>1 DEF End
    <3>2. CallInv' /\ OutcomesInv'
      BY <1>1, <2>1, <3>1 DEF CallInv, OutcomesInv, IInv
    <3>3. KeptInv'
      BY <1>7, <1>8, <2>1 DEF KeptInv
    <3>4. DistinctInv'
      BY <1>7, <1>8, <2>1, <3>1 DEF DistinctInv, NoTextTwice
    <3>5. ConfigInv'
      BY <1>1, <1>7, <1>8, <2>1 DEF ConfigInv, FinalOfConfig, OfConfig
    <3> QED BY <3>2, <3>3, <3>4, <3>5
  <2>2. CASE pc' # "idle"
    <3>1. /\ pc' = "step" /\ UNCHANGED answer /\ final'.st = "ok"
          /\ DOMAIN run' = DOMAIN NoRun /\ run'.config = run.config
          /\ run'.accepted = queries /\ run'.step = run.step + 1 /\ run'.seen = run.seen
      BY <1>8, <1>10, <2>2 DEF IInv, CallInv, NoRun
    <3>2. CallInv'
      BY <1>1, <3>1 DEF CallInv
    <3>3. OutcomesInv'
      BY <1>1, <3>1 DEF OutcomesInv, IInv, Steps
    <3>4. KeptInv'
      BY <1>7, <1>8, <3>1 DEF KeptInv
    <3>5. DistinctInv'
      BY <1>7, <1>8, <3>1 DEF DistinctInv, NoTextTwice, IInv
    <3>6. ConfigInv'
      BY <1>1, <1>7, <1>8, <3>1 DEF ConfigInv, FinalOfConfig, OfConfig
    <3> QED BY <3>2, <3>3, <3>4, <3>5, <3>6
  <2> QED BY <2>1, <2>2
<1> QED BY <1>9, <1>11 DEF IInv

-----------------------------------------------------------------------------
(* Texts, configurations and outcomes. *)

LEMMA InitIInv == Init => IInv
<1> SUFFICES ASSUME Init
             PROVE  IInv
  OBVIOUS
<1> USE FileStates DEF Init
<1>1. CallInv /\ OutcomesInv
  BY DEF CallInv, OutcomesInv
<1>2. KeptInv /\ DistinctInv /\ ConfigInv
  BY DEF KeptInv, DistinctInv, NoTextTwice, Distinct, NoAnswer, ConfigInv, FinalOfConfig
<1> QED BY <1>1, <1>2 DEF IInv

LEMMA NextIInv == IInv /\ [Next]_vars => IInv' /\ StepKeeps
<1> SUFFICES ASSUME IInv, [Next]_vars
             PROVE  IInv' /\ StepKeeps
  OBVIOUS
<1>1. CASE \E cfg \in Configs, resume \in BOOLEAN : Start(cfg, resume)
  BY <1>1, StartInductive
<1>2. CASE \E k \in Steps : ClearOutcome(k)
  BY <1>2, ClearOutcomeInductive
<1>3. CASE ClearFinal
  BY <1>3, ClearFinalInductive
<1>4. CASE Load
  BY <1>4, LoadInductive
<1>5. CASE Generate
  BY <1>5, GenerateInductive
<1>6. CASE GiveUp
  BY <1>6, EndInductive DEF GiveUp, Raise, Distinct
<1>7. CASE Accept
  BY <1>7, AcceptInductive
<1>8. CASE Crash
  <2>1. pc # "clear" \/ AllowKilledRestart = TRUE
    BY <1>8, QueryGenAssumption DEF Crash, QueryGenAssumption
  <2>2. Distinct(answer'.queries)
    BY <1>8 DEF Crash, IInv, DistinctInv, NoTextTwice
  <2> QED BY <1>8, <2>1, <2>2, EndInductive DEF Crash
<1>9. CASE UNCHANGED vars
  <2> USE <1>9 DEF vars, files
  <2>1. CallInv' /\ OutcomesInv' /\ KeptInv'
    BY DEF IInv, CallInv, OutcomesInv, KeptInv
  <2>2. DistinctInv' /\ ConfigInv'
    BY DEF IInv, DistinctInv, NoTextTwice, ConfigInv, FinalOfConfig
  <2>3. StepKeeps
    BY FinalUnchangedKeeps
  <2> QED BY <2>1, <2>2, <2>3 DEF IInv
<1> QED BY <1>1, <1>2, <1>3, <1>4, <1>5, <1>6, <1>7, <1>8, <1>9 DEF Next, CallStep

LEMMA Invariance == Spec => []IInv
  BY InitIInv, NextIInv, PTL DEF Spec

\* No text is kept or returned twice, over any number of calls and kills.
THEOREM NoTextTwiceHolds == Spec => []NoTextTwice
<1>1. IInv => NoTextTwice
  BY DEF IInv, DistinctInv
<1> QED BY <1>1, Invariance, PTL

\* If no restart is killed while it clears the directory, the queries kept are
\* those of the configuration beside them.
THEOREM FinalOfConfigHolds ==
  ASSUME AllowKilledRestart = FALSE
  PROVE  Spec => []FinalOfConfig
<1>1. IInv => FinalOfConfig
  BY DEF IInv, ConfigInv
<1> QED BY <1>1, Invariance, PTL

\* What is accepted stays: final_queries.json is only ever extended.
THEOREM AcceptedIsKeptHolds == Spec => AcceptedIsKept
<1>1. IInv /\ [Next]_vars =>
        [pc # "clear" /\ final.st = "ok" /\ final'.st = "ok" =>
           IsPrefix(final.data.queries, final'.data.queries)]_vars
  BY NextIInv DEF StepKeeps
<1> QED BY <1>1, Invariance, PTL DEF Spec, AcceptedIsKept

\* No outcome is written over, readable or not.
THEOREM OutcomesWrittenOnceHolds == Spec => OutcomesWrittenOnce
<1>1. IInv /\ [Next]_vars =>
        [pc # "clear" => \A k \in Steps : outcomes[k] # Absent => outcomes'[k] = outcomes[k]]_vars
  BY NextIInv DEF StepKeeps
<1> QED BY <1>1, Invariance, PTL DEF Spec, OutcomesWrittenOnce
-----------------------------------------------------------------------------
(* Powers. *)

\* The k-th power, as the recursion that Power is.
LEMMA PowerIs ==
  ASSUME NEW base \in Nat
  PROVE  /\ Power(base, 0) = 1
         /\ \A k \in Nat : Power(base, k) \in Nat /\ Power(base, k + 1) = base * Power(base, k)
<1> DEFINE f == [p \in Nat \X Nat |-> base * p[2]]
           Is(g) == g = [i \in Nat |-> IF i = 0 THEN 1 ELSE base * g[i - 1]]
<1>1. PICK h : Iterates(h, Nat, 1, f)
  <2>1. f \in [Nat \X Nat -> Nat]
    OBVIOUS
  <2> HIDE DEF f
  <2> QED BY <2>1, IterationExists
<1>2. h \in [Nat -> Nat] /\ h[0] = 1 /\ \A n \in Nat : h[n + 1] = base * h[n]
  BY <1>1 DEF Iterates
<1>3. Is(h)
  <2>1. ASSUME NEW i \in Nat PROVE h[i] = IF i = 0 THEN 1 ELSE base * h[i - 1]
    <3>1. CASE i = 0
      BY <1>2, <3>1
    <3>2. CASE i # 0
      <4>1. i - 1 \in Nat /\ (i - 1) + 1 = i
        BY <3>2
      <4> QED BY <1>2, <3>2, <4>1
    <3> QED BY <3>1, <3>2
  <2> QED BY <1>2, <2>1
<1> DEFINE g == CHOOSE g : Is(g)
<1>4. Is(g)
  BY <1>3
<1>5. \A k : Power(base, k) = g[k]
  BY DEF Power
<1> HIDE DEF g
<1>6. g[0] = 1 /\ \A k \in Nat : g[k + 1] = base * g[k]
  BY <1>4
<1> DEFINE N == {k \in Nat : g[k] \in Nat}
<1>7. Nat \subseteq N
  <2>1. 0 \in N /\ \A k \in Nat : k \in N => k + 1 \in N
    BY <1>6
  <2> HIDE DEF N
  <2> QED BY <2>1, SetInduction
<1> QED BY <1>5, <1>6, <1>7

\* 1.5 ** k is at least 1.
LEMMA PowersGrow ==
  ASSUME NEW k \in Nat
  PROVE  /\ Power(2, k) \in Nat /\ Power(3, k) \in Nat
         /\ 1 <= Power(2, k) /\ Power(2, k) <= Power(3, k)
<1> DEFINE N == {i \in Nat : 1 <= Power(2, i) /\ Power(2, i) <= Power(3, i)}
<1>1. \A i \in Nat : /\ Power(2, i) \in Nat /\ Power(2, i + 1) = 2 * Power(2, i)
  BY PowerIs
<1>2. \A i \in Nat : /\ Power(3, i) \in Nat /\ Power(3, i + 1) = 3 * Power(3, i)
  BY PowerIs
<1>3. 0 \in N
  <2>1. Power(2, 0) = 1 /\ Power(3, 0) = 1
    BY PowerIs
  <2> QED BY <2>1
<1>4. \A i \in Nat : i \in N => i + 1 \in N
  BY <1>1, <1>2
<1>5. Nat \subseteq N
  <2> HIDE DEF N
  <2> QED BY <1>3, <1>4, SetInduction
<1> QED BY <1>1, <1>2, <1>5

-----------------------------------------------------------------------------
(* Targets and requests. *)

Weights == [Levels -> Nat]

LEMMA LevelsFinite == IsFiniteSet(Levels) /\ Levels \subseteq Nat
  BY QueryGenAssumption DEF QueryGenAssumption

LEMMA TotalIs ==
  ASSUME NEW f, DOMAIN f = Levels
  PROVE  Total(f) = SumFunctionOnSet(f, Levels)
  BY DEF Total, FoldFunction, SumFunctionOnSet

LEMMA TotalType ==
  ASSUME NEW f \in Weights
  PROVE  Total(f) \in Nat /\ \A c \in Levels : f[c] <= Total(f)
<1>1. \A c \in Levels : f[c] \in Nat
  BY DEF Weights
<1>2. Total(f) = SumFunctionOnSet(f, Levels)
  BY TotalIs DEF Weights
<1>3. SumFunctionOnSet(f, Levels) \in Nat
  BY <1>1, LevelsFinite, SumType
<1>4. ASSUME NEW c \in Levels PROVE f[c] <= Total(f)
  <2>1. /\ SumFunctionOnSet(f, Levels) = f[c] + SumFunctionOnSet(f, Levels \ {c})
        /\ SumFunctionOnSet(f, Levels \ {c}) \in Nat
    BY <1>1, LevelsFinite, SumRemove
  <2> QED BY <1>1, <1>2, <2>1
<1> QED BY <1>2, <1>3, <1>4

\* Division with remainder.
LEMMA Divided ==
  ASSUME NEW a \in Nat, NEW w \in Nat \ {0}
  PROVE  /\ a \div w \in Nat /\ a % w \in Nat /\ a % w < w
         /\ a = w * (a \div w) + (a % w)
  OBVIOUS

LEMMA FewRemain ==
  ASSUME NEW w \in Nat \ {0}, NEW k \in Int, NEW p \in Nat, NEW r \in Nat,
         w * k = r, r <= (w - 1) * p
  PROVE  0 <= k /\ k <= p
<1>1. 0 <= k
  <2>1. CASE k < 0
    <3>1. w * k < 0
      BY <2>1
    <3> QED BY <3>1
  <2> QED BY <2>1
<1>2. k <= p
  <2>1. CASE k >= p + 1
    <3>1. w * k >= w * (p + 1)
      BY <2>1
    <3>2. w * (p + 1) = w * p + w /\ (w - 1) * p = w * p - p
      OBVIOUS
    <3> QED BY <3>1, <3>2
  <2> QED BY <2>1
<1> QED BY <1>1, <1>2

\* How many summands count one.
LEMMA MarksCounted ==
  ASSUME NEW S, IsFiniteSet(S), NEW T \in SUBSET S, NEW f,
         \A x \in S : f[x] = IF x \in T THEN 1 ELSE 0
  PROVE  SumFunctionOnSet(f, S) = Cardinality(T) /\ Cardinality(T) \in Nat
<1> DEFINE one == [x \in S |-> 1]
           P == {U \in SUBSET T : SumFunctionOnSet(f, U) = Cardinality(U)}
<1>1. IsFiniteSet(T)
  BY FS_Subset
<1>2. {} \in P
  BY SumEmpty, FS_EmptySet
<1>3. \A x \in S : f[x] \in Nat
  OBVIOUS
<1>4. ASSUME NEW U \in SUBSET T, NEW x \in T \ U, U \in P
      PROVE  U \cup {x} \in P
  <2>1. f[x] = 1 /\ SumFunctionOnSet(f, U) = Cardinality(U) /\ U \cup {x} \in SUBSET T
    BY <1>4
  <2> HIDE DEF P
  <2>2. IsFiniteSet(U)
    BY <1>1, FS_Subset
  <2>3. Cardinality(U \cup {x}) = Cardinality(U) + 1
    BY <2>2, FS_AddElement
  <2>4. U \in SUBSET S /\ x \in S \ U
    OBVIOUS
  <2>5. SumFunctionOnSet(f, U \cup {x}) = SumFunctionOnSet(f, U) + f[x]
    BY <1>3, <2>4, SumOneMore
  <2> QED BY <2>1, <2>3, <2>5 DEF P
<1>5. T \in P
  <2> HIDE DEF P
  <2> QED BY <1>1, <1>2, <1>4, SubsetInduction
<1>6. SumFunctionOnSet(f, S) = SumFunctionOnSet(f, T)
  <2>1. \A x \in S \ T : f[x] = 0
    OBVIOUS
  <2> HIDE DEF P
  <2> QED BY <1>3, <2>1, SumOfZeros
<1> QED BY <1>1, <1>5, <1>6, FS_CardinalityType

\* Shares by largest remainder: they add up, none is less than its floor, and
\* nothing is shared out to a weight of zero.
LEMMA Allocated ==
  ASSUME NEW weights \in Weights, NEW total \in Nat, NEW w \in Nat \ {0},
         w = Total(weights)
  PROVE  /\ AllocateTargets(weights, total) \in Weights
         /\ Total(AllocateTargets(weights, total)) = total
         /\ \A c \in Levels :
              /\ AllocateTargets(weights, total)[c] >= (total * weights[c]) \div w
              /\ weights[c] = 0 => AllocateTargets(weights, total)[c] = 0
<1> DEFINE share == [c \in Levels |-> total * weights[c]]
           floor == [c \in Levels |-> (total * weights[c]) \div w]
           frac  == [c \in Levels |-> (total * weights[c]) % w]
           whole == [c \in Levels |-> w * floor[c]]
           R == {p \in Levels \X Levels :
                   frac[p[1]] > frac[p[2]] \/ (frac[p[1]] = frac[p[2]] /\ p[1] < p[2])}
           k == total - Total(floor)
           extra == {c \in Levels : Place(R, Levels, c) < k}
           mark == [c \in Levels |-> IF c \in extra THEN 1 ELSE 0]
           some == {c \in Levels : frac[c] > 0}
           p == Cardinality(some)
           all == AllocateTargets(weights, total)
<1>1. \A c \in Levels : weights[c] \in Nat /\ total * weights[c] \in Nat
  BY DEF Weights
<1>2. \A c \in Levels : /\ floor[c] \in Nat /\ frac[c] \in Nat /\ frac[c] < w
                        /\ share[c] = whole[c] + frac[c] /\ whole[c] \in Nat
  <2> TAKE c \in Levels
  <2> DEFINE a == total * weights[c]
  <2>1. a \in Nat
    BY <1>1
  <2> HIDE DEF a
  <2>2. /\ a \div w \in Nat /\ a % w \in Nat /\ a % w < w
        /\ a = w * (a \div w) + (a % w)
    BY <2>1, Divided
  <2>3. w * (a \div w) \in Nat
    BY <2>2
  <2> QED BY <2>2, <2>3 DEF a
<1>3. all = [c \in Levels |->
               IF Cardinality({d \in Levels : frac[d] > frac[c] \/ (frac[d] = frac[c] /\ d < c)})
                    < total - Total(floor)
               THEN floor[c] + 1 ELSE floor[c]]
  BY DEF AllocateTargets
<1>4. \A c \in Levels : {d \in Levels : frac[d] > frac[c] \/ (frac[d] = frac[c] /\ d < c)}
                          = {d \in Levels : <<d, c>> \in R}
  OBVIOUS
<1>5. all = [c \in Levels |-> floor[c] + mark[c]]
  <2>1. \A c \in Levels : all[c] = IF Place(R, Levels, c) < k THEN floor[c] + 1 ELSE floor[c]
    <3> HIDE DEF R, floor, frac
    <3> QED BY <1>3, <1>4 DEF Place
  <2>2. \A c \in Levels : all[c] = floor[c] + mark[c]
    <3> TAKE c \in Levels
    <3>1. floor[c] + 1 \in Nat /\ floor[c] + 0 = floor[c]
      BY <1>2
    <3> HIDE DEF R, floor, all
    <3> QED BY <2>1, <3>1
  <2>3. all = [c \in Levels |-> all[c]]
    BY <1>3
  <2> HIDE DEF all, mark, floor
  <2> QED BY <2>2, <2>3
<1>6. Orders(R, Levels)
  <2>1. \A c \in Levels : c \in Nat
    BY LevelsFinite
  <2>2. \A x \in Levels : <<x, x>> \notin R
    BY <1>2, <2>1
  <2>3. \A x, y \in Levels : <<x, y>> \in R <=>
           frac[x] > frac[y] \/ (frac[x] = frac[y] /\ x < y)
    OBVIOUS
  <2> HIDE DEF R, frac
  <2>4. \A x \in Levels : frac[x] \in Nat
    BY <1>2
  <2>5. \A x, y, z \in Levels : <<x, y>> \in R /\ <<y, z>> \in R => <<x, z>> \in R
    BY <2>1, <2>3, <2>4
  <2>6. \A x, y \in Levels : x = y \/ <<x, y>> \in R \/ <<y, x>> \in R
    <3> TAKE x, y \in Levels
    <3>1. frac[x] > frac[y] \/ frac[y] > frac[x] \/ frac[x] = frac[y]
      BY <2>4
    <3>2. x < y \/ y < x \/ x = y
      BY <2>1
    <3> QED BY <2>3, <3>1, <3>2
  <2> QED BY <2>2, <2>5, <2>6 DEF Orders
<1>7. Total(weights) = SumFunctionOnSet(weights, Levels) /\ Total(floor) = SumFunctionOnSet(floor, Levels)
  BY TotalIs DEF Weights
<1> DEFINE F == SumFunctionOnSet(floor, Levels)
           r == SumFunctionOnSet(frac, Levels)
<1>8. F \in Nat /\ r \in Nat
  <2>1. \A c \in Levels : floor[c] \in Nat
    BY <1>2
  <2>2. \A c \in Levels : frac[c] \in Nat
    BY <1>2
  <2> HIDE DEF floor, frac
  <2> QED BY <2>1, <2>2, LevelsFinite, SumType
<1>9. total * w = w * F + r
  <2>1. \A c \in Levels : weights[c] \in Nat
    BY <1>1
  <2>2. \A c \in Levels : share[c] = total * weights[c]
    OBVIOUS
  <2>3. \A c \in Levels : floor[c] \in Nat
    BY <1>2
  <2>4. \A c \in Levels : whole[c] = w * floor[c]
    OBVIOUS
  <2>5. \A c \in Levels : frac[c] \in Nat
    BY <1>2
  <2>6. \A c \in Levels : whole[c] \in Nat
    BY <1>2
  <2>7. \A c \in Levels : share[c] = whole[c] + frac[c]
    BY <1>2
  <2> HIDE DEF share, floor, frac, whole
  <2>8. SumFunctionOnSet(share, Levels) = total * SumFunctionOnSet(weights, Levels)
    BY <2>1, <2>2, LevelsFinite, SumScaled
  <2>9. SumFunctionOnSet(whole, Levels) = w * SumFunctionOnSet(floor, Levels)
    <3> DEFINE v == w
    <3>1. v \in Nat /\ \A c \in Levels : whole[c] = v * floor[c]
      BY <2>4
    <3> HIDE DEF v, R, k, F, r, all, extra, mark, some, p
    <3>2. SumFunctionOnSet(whole, Levels) = v * SumFunctionOnSet(floor, Levels)
      BY <2>3, <3>1, LevelsFinite, SumScaled
    <3> QED BY <3>2 DEF v
  <2>10. SumFunctionOnSet(share, Levels) = SumFunctionOnSet(whole, Levels) + r
    BY <2>5, <2>6, <2>7, LevelsFinite, SumOfSums
  <2> QED BY <1>7, <2>8, <2>9, <2>10
<1>10. p \in Nat /\ p <= Cardinality(Levels) /\ Cardinality(Levels) \in Nat
  <2>1. some \in SUBSET Levels
    OBVIOUS
  <2> HIDE DEF some
  <2> QED BY <2>1, LevelsFinite, FS_Subset, FS_CardinalityType
<1>11. r <= (w - 1) * p
  <2> DEFINE ind == [c \in Levels |-> IF c \in some THEN 1 ELSE 0]
             most == [c \in Levels |-> (w - 1) * ind[c]]
  <2>1. some \in SUBSET Levels /\ \A c \in Levels : ind[c] = IF c \in some THEN 1 ELSE 0
    OBVIOUS
  <2>2. \A c \in Levels : ind[c] \in Nat
    OBVIOUS
  <2>3. \A c \in Levels : most[c] = (w - 1) * ind[c]
    OBVIOUS
  <2>4. ASSUME NEW c \in Levels
        PROVE  frac[c] \in Nat /\ most[c] \in Nat /\ frac[c] <= most[c]
    <3>1. frac[c] \in Nat /\ frac[c] < w /\ (c \in some <=> frac[c] > 0)
      BY <1>2
    <3>2. CASE c \in some
      <4>1. most[c] = w - 1
        BY <3>2
      <4> HIDE DEF most, frac, some
      <4> QED BY <3>1, <4>1
    <3>3. CASE c \notin some
      <4>1. most[c] = 0
        BY <3>3
      <4> HIDE DEF most, frac
      <4> QED BY <3>1, <3>3, <4>1
    <3> QED BY <3>2, <3>3
  <2>5. w - 1 \in Nat
    OBVIOUS
  <2> HIDE DEF some, ind, most, frac
  <2>6. SumFunctionOnSet(ind, Levels) = p
    BY <2>1, LevelsFinite, MarksCounted
  <2>7. SumFunctionOnSet(most, Levels) = (w - 1) * SumFunctionOnSet(ind, Levels)
    <3> DEFINE v == w - 1
    <3>1. v \in Nat /\ \A c \in Levels : most[c] = v * ind[c]
      BY <2>3, <2>5
    <3> HIDE DEF v, R, k, F, r, all, share, floor, whole, p
    <3>2. SumFunctionOnSet(most, Levels) = v * SumFunctionOnSet(ind, Levels)
      BY <2>2, <3>1, LevelsFinite, SumScaled
    <3> QED BY <3>2 DEF v
  <2>8. r <= SumFunctionOnSet(most, Levels)
    BY <2>4, LevelsFinite, SumMonotone
  <2> QED BY <2>6, <2>7, <2>8
<1>12. k \in Nat /\ k <= p
  <2>1. k = total - F
    BY <1>7
  <2> HIDE DEF F, r, p, k
  <2>2. k \in Int /\ w * k = r
    <3>1. w * (total - F) = w * total - w * F /\ total * w = w * total
      BY <1>8
    <3> QED BY <1>8, <1>9, <2>1, <3>1
  <2> QED BY <1>8, <1>10, <1>11, <2>2, FewRemain
<1>13. Cardinality(extra) = k
  <2> HIDE DEF R, k, p
  <2>1. k <= Cardinality(Levels)
    BY <1>10, <1>12
  <2> QED BY <1>6, <1>12, <2>1, LevelsFinite, FirstPlaces
<1>14. \A c \in Levels : all[c] = floor[c] + mark[c] /\ floor[c] \in Nat /\ mark[c] \in Nat
  <2>1. \A c \in Levels : floor[c] \in Nat
    BY <1>2
  <2>2. \A c \in Levels : mark[c] \in Nat
    OBVIOUS
  <2> HIDE DEF floor, mark, all
  <2> QED BY <1>5, <2>1, <2>2
<1>15. all \in Weights
  <2> HIDE DEF floor, mark, all
  <2> QED BY <1>5, <1>14 DEF Weights
<1>16. Total(all) = total
  <2>1. extra \in SUBSET Levels /\ \A c \in Levels : mark[c] = IF c \in extra THEN 1 ELSE 0
    OBVIOUS
  <2> HIDE DEF floor, mark, all, extra, k
  <2>2. SumFunctionOnSet(mark, Levels) = Cardinality(extra)
    BY <2>1, LevelsFinite, MarksCounted
  <2>3. \A c \in Levels : floor[c] \in Nat
    BY <1>14
  <2>4. \A c \in Levels : mark[c] \in Nat
    BY <1>14
  <2>5. \A c \in Levels : all[c] = floor[c] + mark[c]
    BY <1>14
  <2>6. SumFunctionOnSet(all, Levels) = F + SumFunctionOnSet(mark, Levels)
    BY <2>3, <2>4, <2>5, LevelsFinite, SumOfSums
  <2>7. Total(all) = SumFunctionOnSet(all, Levels)
    BY <1>15, TotalIs DEF Weights
  <2>8. k = total - F
    BY <1>7 DEF k
  <2> QED BY <1>8, <1>13, <2>2, <2>6, <2>7, <2>8
<1>17. ASSUME NEW c \in Levels, weights[c] = 0
       PROVE  all[c] = 0
  <2>1. floor[c] = 0 /\ frac[c] = 0
    <3>1. total * weights[c] = 0
      BY <1>17
    <3>2. 0 \div w = 0 /\ 0 % w = 0
      OBVIOUS
    <3> QED BY <3>1, <3>2
  <2> DEFINE B == {d \in Levels : <<d, c>> \in R}
  <2>2. some \in SUBSET B /\ B \in SUBSET Levels
    BY <2>1
  <2>3. p <= Cardinality(B) /\ Cardinality(B) \in Nat
    <3> HIDE DEF some, B
    <3>1. IsFiniteSet(B)
      BY <2>2, LevelsFinite, FS_Subset
    <3> QED BY <2>2, <3>1, FS_Subset, FS_CardinalityType
  <2>4. Place(R, Levels, c) = Cardinality(B)
    BY DEF Place
  <2> HIDE DEF R, some, k, p, floor, all, B
  <2>5. ~ (Place(R, Levels, c) < k)
    BY <1>10, <1>12, <2>3, <2>4
  <2>6. mark[c] = 0
    BY <2>5
  <2> HIDE DEF mark
  <2> QED BY <1>14, <2>1, <2>6
<1>18. ASSUME NEW c \in Levels
       PROVE  all[c] >= (total * weights[c]) \div w
  <2>1. floor[c] = (total * weights[c]) \div w
    OBVIOUS
  <2> HIDE DEF floor, mark, all
  <2> QED BY <1>14, <2>1
<1> HIDE DEF all
<1>19. Total(all) = total /\ all \in Weights
  BY <1>15, <1>16
<1> QED BY <1>17, <1>18, <1>19 DEF all

LEMMA TargetsAre ==
  ASSUME NEW cfg \in Configs
  PROVE  Targets(cfg) \in Weights /\ Total(Targets(cfg)) = cfg.n /\ cfg.n \in Nat \ {0}
<1> DEFINE weights == cfg.weights
           w == Total(weights)
<1>1. weights \in Weights /\ cfg.n \in Nat \ {0} /\ \E c \in Levels : weights[c] > 0
  BY QueryGenAssumption DEF QueryGenAssumption, Weights
<1> HIDE DEF weights
<1>2. w \in Nat \ {0}
  <2>1. w \in Nat /\ \A c \in Levels : weights[c] <= w
    BY <1>1, TotalType
  <2>2. PICK c \in Levels : weights[c] > 0
    BY <1>1
  <2>3. weights[c] \in Nat /\ weights[c] <= w
    BY <1>1, <2>1 DEF Weights
  <2> HIDE DEF w
  <2> QED BY <2>1, <2>2, <2>3
<1>3. cfg.n \in Nat
  BY <1>1
<1> HIDE DEF w
<1>4. /\ AllocateTargets(weights, cfg.n) \in Weights
      /\ Total(AllocateTargets(weights, cfg.n)) = cfg.n
  BY <1>1, <1>2, <1>3, Allocated DEF w
<1> QED BY <1>1, <1>4 DEF Targets, weights

\* The queries of a list, level by level.
Counts(queries) == [c \in Levels |-> CountAt(queries, c)]

LEMMA QueriesCounted ==
  ASSUME NEW queries \in Seq(Queries)
  PROVE  /\ Counts(queries) \in Weights /\ Total(Counts(queries)) = Len(queries)
         /\ \A c \in Levels : CountAt(queries, c) \in Nat
<1> DEFINE I == DOMAIN queries
           m == [i \in I |-> queries[i].level]
           f == Counts(queries)
<1>1. I = 1 .. Len(queries) /\ Len(queries) \in Nat
  OBVIOUS
<1>2. IsFiniteSet(I) /\ Cardinality(I) = Len(queries)
  <2>1. 1 \in Int /\ Len(queries) \in Int
    BY <1>1
  <2>2. /\ IsFiniteSet(1 .. Len(queries))
        /\ Cardinality(1 .. Len(queries)) = IF 1 > Len(queries) THEN 0 ELSE Len(queries) - 1 + 1
    BY <2>1, FS_Interval
  <2> HIDE DEF I
  <2> QED BY <1>1, <2>2
<1>3. \A i \in I : m[i] \in Levels
  <2>1. \A i \in I : queries[i] \in Queries
    OBVIOUS
  <2>2. \A q \in Queries : q.level \in Levels
    BY DEF Queries
  <2> QED BY <2>1, <2>2
<1>4. f = CountsOf(m, I, Levels)
  <2>1. \A c \in Levels :
          {i \in I : m[i] = c} = {i \in DOMAIN queries : queries[i].level = c}
    OBVIOUS
  <2> HIDE DEF m, I
  <2> QED BY <2>1 DEF Counts, CountAt, CountsOf
<1>5. \A c \in Levels : CountAt(queries, c) \in Nat
  <2> TAKE c \in Levels
  <2> DEFINE J == {i \in DOMAIN queries : queries[i].level = c}
  <2>1. J \in SUBSET I
    OBVIOUS
  <2> HIDE DEF J, I
  <2>2. IsFiniteSet(J)
    BY <1>2, <2>1, FS_Subset
  <2> QED BY <2>2, FS_CardinalityType DEF CountAt, J
<1>6. f \in Weights
  BY <1>5 DEF Counts, Weights
<1>7. Total(f) = SumFunctionOnSet(f, Levels)
  BY TotalIs DEF Counts
<1>8. SumFunctionOnSet(f, Levels) = Cardinality(I)
  <2> HIDE DEF I, m, f
  <2> QED BY <1>2, <1>3, <1>4, LevelsFinite, SumOfCounts
<1> QED BY <1>2, <1>5, <1>6, <1>7, <1>8

\* A list within the targets that is long enough meets them.
LEMMA FullIsExact ==
  ASSUME NEW cfg \in Configs, NEW queries, Fits(queries, cfg), Len(queries) >= cfg.n
  PROVE  \A c \in Levels : CountAt(queries, c) = Targets(cfg)[c]
<1> DEFINE f == Counts(queries)
           g == Targets(cfg)
<1>1. queries \in Seq(Queries) /\ \A c \in Levels : CountAt(queries, c) <= g[c]
  BY DEF Fits
<1>2. f \in Weights /\ Total(f) = Len(queries)
  BY <1>1, QueriesCounted
<1>3. g \in Weights /\ Total(g) = cfg.n
  BY TargetsAre
<1>4. \A c \in Levels : f[c] = CountAt(queries, c)
  BY DEF Counts
<1> HIDE DEF f, g
<1>5. /\ \A c \in Levels : f[c] \in Nat
      /\ \A c \in Levels : g[c] \in Nat
      /\ \A c \in Levels : f[c] <= g[c]
  <2>1. \A c \in Levels : CountAt(queries, c) <= g[c]
    BY <1>1 DEF g
  <2> QED BY <1>2, <1>3, <1>4, <2>1 DEF Weights
<1>6. SumFunctionOnSet(g, Levels) <= SumFunctionOnSet(f, Levels)
  <2>1. Total(f) = SumFunctionOnSet(f, Levels) /\ Total(g) = SumFunctionOnSet(g, Levels)
    BY <1>2, <1>3, TotalIs DEF Weights
  <2> QED BY <1>2, <1>3, <2>1
<1>7. ASSUME NEW c \in Levels PROVE f[c] = g[c]
  <2> DEFINE S == Levels
  <2>1. /\ \A x \in S : f[x] \in Nat
        /\ \A x \in S : g[x] \in Nat
        /\ \A x \in S : f[x] <= g[x]
        /\ SumFunctionOnSet(g, S) <= SumFunctionOnSet(f, S)
        /\ IsFiniteSet(S) /\ c \in S
    BY <1>5, <1>6, LevelsFinite
  <2> HIDE DEF S
  <2> QED BY ONLY <2>1, SumTight
<1> QED BY <1>4, <1>7 DEF g

\* What is missing of every level, and in all.
LEMMA RemainingIs ==
  ASSUME run.config \in Configs, Fits(run.accepted, run.config)
  PROVE  /\ Remaining \in Weights
         /\ \A c \in Levels :
              CountAt(run.accepted, c) + Remaining[c] = Targets(run.config)[c]
         /\ Len(run.accepted) + Total(Remaining) = run.config.n
<1> DEFINE cfg == run.config
           queries == run.accepted
           f == Counts(queries)
           g == Targets(cfg)
<1>1. queries \in Seq(Queries) /\ \A c \in Levels : CountAt(queries, c) <= g[c]
  BY DEF Fits
<1>2. f \in Weights /\ Total(f) = Len(queries)
  BY <1>1, QueriesCounted
<1>3. g \in Weights /\ Total(g) = cfg.n
  BY TargetsAre
<1>4. \A c \in Levels : f[c] = CountAt(queries, c)
  BY DEF Counts
<1>5. Remaining = [c \in Levels |->
                     IF CountAt(queries, c) < g[c] THEN g[c] - CountAt(queries, c) ELSE 0]
  BY DEF Remaining
<1> HIDE DEF f, g, queries
<1>6. \A c \in Levels : /\ Remaining[c] \in Nat /\ f[c] \in Nat /\ g[c] \in Nat
                        /\ f[c] + Remaining[c] = g[c]
  <2> TAKE c \in Levels
  <2>1. f[c] \in Nat /\ g[c] \in Nat /\ CountAt(queries, c) = f[c] /\ f[c] <= g[c]
    BY <1>1, <1>2, <1>3, <1>4 DEF Weights
  <2>2. Remaining[c] = IF f[c] < g[c] THEN g[c] - f[c] ELSE 0
    BY <1>5, <2>1
  <2> QED BY <2>1, <2>2
<1>7. Remaining \in Weights
  BY <1>5, <1>6 DEF Weights
<1>8. Total(f) + Total(Remaining) = Total(g)
  <2>1. /\ Total(f) = SumFunctionOnSet(f, Levels)
        /\ Total(g) = SumFunctionOnSet(g, Levels)
        /\ Total(Remaining) = SumFunctionOnSet(Remaining, Levels)
    BY <1>2, <1>3, <1>7, TotalIs DEF Weights
  <2>2. \A c \in Levels : f[c] \in Nat
    BY <1>6
  <2>3. \A c \in Levels : Remaining[c] \in Nat
    BY <1>6
  <2>4. \A c \in Levels : g[c] = f[c] + Remaining[c]
    BY <1>6
  <2>5. SumFunctionOnSet(g, Levels)
          = SumFunctionOnSet(f, Levels) + SumFunctionOnSet(Remaining, Levels)
    BY <2>2, <2>3, <2>4, LevelsFinite, SumOfSums
  <2> QED BY <2>1, <2>5
<1> QED BY <1>2, <1>3, <1>4, <1>6, <1>7, <1>8 DEF g, queries

\* A larger total, at least a share as large.
LEMMA ShareAtLeast ==
  ASSUME NEW need \in Nat, NEW w \in Nat \ {0}, NEW r \in Nat, need >= w
  PROVE  (need * r) \div w >= r
<1> DEFINE q == (need * r) \div w
<1>1. need * r >= w * r /\ need * r \in Nat
  OBVIOUS
<1>2. q \in Nat /\ need * r < w * q + w
  <2> DEFINE a == need * r
  <2> HIDE DEF a
  <2>1. a \in Nat
    BY <1>1 DEF a
  <2>2. /\ a \div w \in Nat /\ a % w < w /\ a % w \in Nat
        /\ a = w * (a \div w) + (a % w)
    BY <2>1, Divided
  <2>3. w * (a \div w) \in Nat
    BY <2>2
  <2>4. a < w * (a \div w) + w
    BY <2>1, <2>2, <2>3
  <2> QED BY <2>2, <2>4 DEF a
<1> HIDE DEF q
<1>3. CASE q < r
  <2>1. w * (q + 1) <= w * r
    BY <1>2, <1>3
  <2>2. w * (q + 1) = w * q + w
    BY <1>2
  <2> QED BY <1>1, <1>2, <2>1, <2>2
<1>4. CASE q >= r
  BY <1>4 DEF q
<1> QED BY <1>2, <1>3, <1>4

LEMMA NeedCovers ==
  ASSUME NEW m \in Nat, m = Total(Remaining), run.step \in Nat \ {0}
  PROVE  NeedN \in Nat /\ NeedN >= m
<1> DEFINE k == run.step - 1
           a == OversampleCap * m
           b == (m * Power(3, k)) \div Power(2, k)
<1>1. k \in Nat /\ OversampleCap \in Nat \ {0}
  BY QueryGenAssumption DEF QueryGenAssumption
<1>2. a \in Nat /\ a >= m
  BY <1>1
<1>3. b \in Nat /\ b >= m
  <2> DEFINE x == Power(2, k)
             y == Power(3, k)
  <2>1. x \in Nat \ {0} /\ y \in Nat /\ y >= x
    <3> HIDE DEF k
    <3> QED BY <1>1, PowersGrow
  <2> HIDE DEF x, y
  <2>2. (y * m) \div x >= m
    BY <2>1, ShareAtLeast
  <2>3. y * m = m * y /\ m * y \in Nat
    BY <2>1
  <2>4. (m * y) \div x \in Nat
    <3> DEFINE z == m * y
    <3> HIDE DEF z
    <3>1. z \in Nat
      BY <2>3 DEF z
    <3>2. z \div x \in Nat
      BY <2>1, <3>1, Divided
    <3> QED BY <3>2 DEF z
  <2> QED BY <2>2, <2>3, <2>4 DEF x, y
<1>4. NeedN = Min({a, b})
  BY DEF NeedN
<1> HIDE DEF a, b
<1>5. Min({a, b}) = IF a <= b THEN a ELSE b
  BY <1>2, <1>3, MinOfPair
<1> QED BY <1>2, <1>3, <1>4, <1>5

\* What RequestCovers says, of a call that has not all its queries yet.
LEMMA RequestsCover ==
  ASSUME run.config \in Configs, Fits(run.accepted, run.config),
         Len(run.accepted) < run.config.n, run.step \in Nat \ {0}
  PROVE  /\ NeedN \in Nat /\ Requests \in Weights /\ Total(Requests) = NeedN
         /\ \A c \in Levels : /\ Requests[c] >= Remaining[c]
                              /\ Remaining[c] = 0 => Requests[c] = 0
<1> DEFINE m == Total(Remaining)
           need == NeedN
           rem == Remaining
<1>1. rem \in Weights /\ Len(run.accepted) + m = run.config.n
  BY RemainingIs
<1>2. m \in Nat
  BY <1>1, TotalType
<1>3. Len(run.accepted) \in Nat
  BY DEF Fits
<1>4. m \in Nat \ {0}
  <2> HIDE DEF m
  <2> QED BY <1>1, <1>2, <1>3
<1>5. need \in Nat /\ need >= m
  <2> HIDE DEF m
  <2> QED BY <1>2, NeedCovers DEF m
<1> HIDE DEF m, need, rem
<1>6. /\ AllocateTargets(rem, need) \in Weights
      /\ Total(AllocateTargets(rem, need)) = need
      /\ \A c \in Levels :
           /\ AllocateTargets(rem, need)[c] >= (need * rem[c]) \div m
           /\ rem[c] = 0 => AllocateTargets(rem, need)[c] = 0
  <2>1. m = Total(rem)
    BY DEF m, rem
  <2> QED BY <1>1, <1>4, <1>5, <2>1, Allocated
<1>7. ASSUME NEW c \in Levels
      PROVE  AllocateTargets(rem, need)[c] >= rem[c]
  <2>1. rem[c] \in Nat /\ AllocateTargets(rem, need)[c] \in Nat
    BY <1>1, <1>6 DEF Weights
  <2>2. (need * rem[c]) \div m >= rem[c]
    BY <1>4, <1>5, <2>1, ShareAtLeast
  <2> DEFINE q == (need * rem[c]) \div m
  <2>3. q \in Int
    <3> DEFINE z == need * rem[c]
    <3>1. z \in Nat
      BY <1>5, <2>1
    <3> HIDE DEF z
    <3>2. z \div m \in Nat
      BY <1>4, <3>1, Divided
    <3> QED BY <3>2 DEF z
  <2>4. AllocateTargets(rem, need)[c] >= q
    BY <1>6
  <2> HIDE DEF q
  <2>5. q >= rem[c]
    BY <2>2 DEF q
  <2> QED BY <2>1, <2>3, <2>4, <2>5
<1>8. Requests = AllocateTargets(rem, need)
  BY DEF Requests, rem, need
<1> QED BY <1>5, <1>6, <1>7, <1>8 DEF rem, need

LEMMA CountOfConcat ==
  ASSUME NEW old \in Seq(Queries), NEW new \in Seq(Queries), NEW c \in Levels
  PROVE  CountAt(old \o new, c) <= CountAt(old, c) + CountAt(new, c)
<1> DEFINE both == old \o new
           A == {i \in DOMAIN old : old[i].level = c}
           B == {i \in DOMAIN new : new[i].level = c}
           C == {i \in DOMAIN both : both[i].level = c}
           n == Len(old)
           D == {i \in C : i \notin A}
           f == [i \in D |-> i - n]
<1>1. /\ both \in Seq(Queries) /\ Len(both) = n + Len(new)
      /\ \A i \in 1 .. n + Len(new) : both[i] = IF i <= n THEN old[i] ELSE new[i - n]
  BY ConcatProperties
<1>2. n \in Nat /\ Len(new) \in Nat /\ DOMAIN old = 1 .. n /\ DOMAIN new = 1 .. Len(new)
      /\ DOMAIN both = 1 .. n + Len(new)
  BY <1>1
<1>3. IsFiniteSet(1 .. n) /\ IsFiniteSet(1 .. Len(new)) /\ IsFiniteSet(1 .. n + Len(new))
  <2> HIDE DEF n
  <2>1. 1 \in Int /\ n \in Int /\ Len(new) \in Int /\ n + Len(new) \in Int
    BY <1>2
  <2> QED BY <2>1, FS_Interval
<1>4. \A i \in D : i \in 1 .. n + Len(new) /\ ~ (i <= n) /\ i - n \in B
  <2> HIDE DEF n, both
  <2> TAKE i \in D
  <2>1. i \in 1 .. n + Len(new) /\ both[i].level = c /\ ~ (i \in 1 .. n /\ old[i].level = c)
    BY <1>2
  <2>2. CASE i <= n
    <3>1. both[i] = old[i] /\ i \in 1 .. n
      BY <1>1, <1>2, <2>1, <2>2
    <3> QED BY <2>1, <3>1
  <2>3. CASE ~ (i <= n)
    <3>1. both[i] = new[i - n] /\ i - n \in 1 .. Len(new)
      BY <1>1, <1>2, <2>1, <2>3
    <3> QED BY <1>2, <2>1, <2>3, <3>1
  <2> QED BY <2>2, <2>3
<1>5. f \in Injection(D, B)
  <2>1. f \in [D -> B]
    BY <1>4
  <2>2. \A i, j \in D : f[i] = f[j] => i = j
    <3> HIDE DEF D, n
    <3>1. \A i \in D : i \in Int
      BY <1>2, <1>4
    <3> QED BY <1>2, <3>1
  <2> HIDE DEF f, D, B
  <2> QED BY <2>1, <2>2 DEF Injection, IsInjective
<1>6. IsFiniteSet(A) /\ IsFiniteSet(B) /\ IsFiniteSet(D)
  <2>1. A \in SUBSET (1 .. n) /\ B \in SUBSET (1 .. Len(new)) /\ D \in SUBSET (1 .. n + Len(new))
    BY <1>2
  <2> HIDE DEF A, B, D, n
  <2> QED BY <1>3, <2>1, FS_Subset
<1>7. C \subseteq A \cup D
  OBVIOUS
<1> HIDE DEF A, B, C, D, f
<1>8. Cardinality(D) <= Cardinality(B)
  BY <1>5, <1>6, FS_Injection
<1>9. /\ IsFiniteSet(A \cup D)
      /\ Cardinality(A \cup D) = Cardinality(A) + Cardinality(D) - Cardinality(A \cap D)
  BY <1>6, FS_Union
<1>10. IsFiniteSet(C) /\ Cardinality(C) <= Cardinality(A \cup D)
  BY <1>7, <1>9, FS_Subset
<1>11. IsFiniteSet(A \cap D)
  BY <1>6, FS_Intersection
<1>12. /\ Cardinality(A) \in Nat /\ Cardinality(B) \in Nat /\ Cardinality(C) \in Nat
       /\ Cardinality(D) \in Nat /\ Cardinality(A \cap D) \in Nat
  BY <1>6, <1>10, <1>11, FS_CardinalityType
<1>13. Cardinality(C) <= Cardinality(A) + Cardinality(B)
  BY <1>8, <1>9, <1>10, <1>12
<1> QED BY <1>13 DEF CountAt, A, B, C

\* Of each level, a batch is not longer listed than it is.
LEMMA CountOfChosen ==
  ASSUME NEW cfg \in Configs, NEW c \in Levels,
         NEW chosen \in SUBSET [text : Texts, level : Levels],
         \A p, q \in chosen : p.text = q.text => p = q
  PROVE  CountAt(ListOf(chosen, cfg), c) <= Cardinality({q \in chosen : q.level = c})
<1> DEFINE T == {[text |-> q.text, level |-> q.level, config |-> cfg] : q \in chosen}
           new == SetToSeq(T)
           A == {i \in DOMAIN new : new[i].level = c}
           B == {q \in chosen : q.level = c}
           f == [i \in A |-> [text |-> new[i].text, level |-> new[i].level]]
<1>1. new \in Seq(T) /\ \A i, j \in DOMAIN new : new[i] = new[j] => i = j
  <2>1. IsFiniteSet(T)
    BY AcceptedFinite
  <2> HIDE DEF T
  <2> QED BY <2>1, Listed
<1>2. \A i \in DOMAIN new : new[i] \in T
  <2> HIDE DEF T, new
  <2> QED BY <1>1
<1>3. \A t \in T : /\ [text |-> t.text, level |-> t.level] \in chosen
                   /\ t = [text |-> t.text, level |-> t.level, config |-> cfg]
  OBVIOUS
<1>4. f \in Injection(A, B)
  <2> HIDE DEF T, new
  <2>1. f \in [A -> B]
    BY <1>2, <1>3
  <2>2. ASSUME NEW i \in A, NEW j \in A, f[i] = f[j]
        PROVE  i = j
    <3>1. new[i].text = new[j].text /\ new[i].level = new[j].level
      BY <2>2
    <3>2. new[i] \in T /\ new[j] \in T
      BY <1>2
    <3>3. new[i] = new[j]
      BY <1>3, <3>1, <3>2
    <3> QED BY <1>1, <3>3
  <2> HIDE DEF f, A, B
  <2> QED BY <2>1, <2>2 DEF Injection, IsInjective
<1>5. IsFiniteSet(B)
  <2>1. IsFiniteSet(chosen)
    BY ChosenFinite
  <2> QED BY <2>1, FS_Subset
<1>6. Cardinality(A) <= Cardinality(B)
  <2> HIDE DEF f, A, B
  <2> QED BY <1>4, <1>5, FS_Injection
<1> QED BY <1>6 DEF CountAt, ListOf

\* What is chosen of a batch fits into what is missing.
LEMMA AcceptedFits ==
  ASSUME run.config \in Configs, Fits(run.accepted, run.config),
         run.valid \subseteq [text : Texts, level : Levels],
         \A p, q \in run.valid : p.text = q.text => p = q,
         NEW chosen \in Acceptable
  PROVE  Fits(run.accepted \o ListOf(chosen, run.config), run.config)
<1> DEFINE cfg == run.config
           old == run.accepted
           new == ListOf(chosen, cfg)
<1>1. /\ chosen \in SUBSET run.valid
      /\ \A c \in Levels : Cardinality({q \in chosen : q.level = c})
                             = Min({Cardinality({q \in run.valid : q.level = c}), Remaining[c]})
  BY DEF Acceptable
<1>2. /\ chosen \in SUBSET [text : Texts, level : Levels]
      /\ \A p, q \in chosen : p.text = q.text => p = q
  BY <1>1
<1>3. old \in Seq(Queries) /\ new \in Seq(Queries)
  BY <1>2, ChosenListed DEF Fits
<1>4. old \o new \in Seq(Queries)
  <2> HIDE DEF old, new
  <2> QED BY <1>3
<1>5. ASSUME NEW c \in Levels
      PROVE  CountAt(old \o new, c) <= Targets(cfg)[c]
  <2> DEFINE a == Cardinality({q \in run.valid : q.level = c})
             b == Cardinality({q \in chosen : q.level = c})
  <2>1. a \in Nat
    <3>1. IsFiniteSet(run.valid)
      BY ChosenFinite
    <3>2. IsFiniteSet({q \in run.valid : q.level = c})
      BY <3>1, FS_Subset
    <3> QED BY <3>2, FS_CardinalityType
  <2>2. Remaining[c] \in Nat /\ CountAt(old, c) + Remaining[c] = Targets(cfg)[c]
    BY RemainingIs DEF Weights
  <2>3. b = Min({a, Remaining[c]})
    BY <1>1
  <2> HIDE DEF a
  <2>4. b \in Nat /\ b <= Remaining[c]
    <3> HIDE DEF b
    <3>1. Min({a, Remaining[c]}) = IF a <= Remaining[c] THEN a ELSE Remaining[c]
      BY <2>1, <2>2, MinOfPair
    <3> QED BY <2>1, <2>2, <2>3, <3>1
  <2>5. CountAt(new, c) <= b
    BY <1>2, CountOfChosen
  <2>6. CountAt(old \o new, c) <= CountAt(old, c) + CountAt(new, c)
    <3> HIDE DEF old, new
    <3> QED BY <1>3, CountOfConcat
  <2>7. CountAt(old, c) \in Nat /\ CountAt(new, c) \in Nat /\ CountAt(old \o new, c) \in Nat
    <3> HIDE DEF old, new
    <3> QED BY <1>3, <1>4, QueriesCounted
  <2> HIDE DEF b, old, new
  <2> QED BY <2>2, <2>4, <2>5, <2>6, <2>7
<1> QED BY <1>4, <1>5 DEF Fits

-----------------------------------------------------------------------------
(* The types of a state, and what a call that goes on lacks. *)

\* The parts of TypeOK.
FilesOK ==
  /\ config \in {Absent, Torn} \/ (config = File(config.data) /\ config.data \in Configs)
  /\ \A k \in Steps : outcomes[k] \in {Absent, Torn}
                        \/ (outcomes[k] = File(outcomes[k].data) /\ outcomes[k].data \in Nat)
  /\ \/ final \in {Absent, Torn}
     \/ /\ final = File(final.data)
        /\ final.data.generated \in Nat /\ final.data.step \in Steps
        /\ \E cfg \in Configs : Fits(final.data.queries, cfg)

RunOK ==
  /\ run.resume \in BOOLEAN /\ run.config \in Configs
  /\ run.step \in 0 .. MaxSteps + 1 /\ run.total \in Nat
  /\ Fits(run.accepted, run.config)
  /\ run.seen \subseteq Texts
  /\ run.valid \subseteq [text : Texts, level : Levels]

AnswerOK ==
  /\ answer.kind \in {"none", "raised", "returned"}
  /\ answer.queries \in Seq(Queries)
  /\ ReturnedAsAsked

LEMMA TypeOKIs ==
  TypeOK /\ ReturnedAsAsked <=>
    /\ pc \in {"idle", "clear", "load", "step", "accept"} /\ calls \in 0 .. MaxCalls
    /\ FilesOK /\ AnswerOK
    /\ pc # "idle" => RunOK
  BY DEF TypeOK, IsFile, FilesOK, AnswerOK, RunOK

LEMMA NothingFits ==
  ASSUME NEW cfg \in Configs
  PROVE  Fits(<< >>, cfg)
<1>1. << >> \in Seq(Queries) /\ DOMAIN << >> = {}
  OBVIOUS
<1>2. \A c \in Levels : {i \in DOMAIN << >> : << >>[i].level = c} = {}
  BY <1>1
<1>3. \A c \in Levels : CountAt(<< >>, c) = 0
  BY <1>2, FS_EmptySet DEF CountAt
<1>4. \A c \in Levels : Targets(cfg)[c] \in Nat
  BY TargetsAre DEF Weights
<1> QED BY <1>1, <1>3, <1>4 DEF Fits

\* The step after the last is one of the run, or the first behind it.
LEMMA NextStepIn ==
  NextStep \in 1 .. MaxSteps + 1
<1> DEFINE S == OutcomeSteps \cup {0}
<1>1. S \subseteq 0 .. MaxSteps /\ S # {} /\ MaxSteps \in Nat
  BY QueryGenAssumption DEF QueryGenAssumption, OutcomeSteps, Steps
<1>2. Max(S) \in S /\ \A y \in S : Max(S) >= y
  BY <1>1, MaxOfBounded
<1>3. Max(S) \in 0 .. MaxSteps
  <2> HIDE DEF S
  <2> QED BY <1>1, <1>2
<1> QED BY <1>1, <1>3 DEF NextStep

-----------------------------------------------------------------------------
(* What the outcomes add up to. *)

Amounts(o) == [k \in Steps |-> IF o[k].st = "ok" THEN o[k].data ELSE 0]

UpTo(o, m) == Total([k \in 1 .. m |-> IF o[k].st = "ok" THEN o[k].data ELSE 0])

LEMMA StepsFinite ==
  ASSUME NEW m \in 0 .. MaxSteps
  PROVE  IsFiniteSet(1 .. m) /\ 1 .. m \in SUBSET Steps /\ m \in Nat /\ IsFiniteSet(Steps)
<1>1. MaxSteps \in Nat
  BY QueryGenAssumption DEF QueryGenAssumption
<1>2. m \in Int /\ 1 \in Int /\ MaxSteps \in Int
  BY <1>1
<1>3. IsFiniteSet(1 .. m) /\ IsFiniteSet(1 .. MaxSteps)
  BY <1>2, FS_Interval
<1> QED BY <1>1, <1>3 DEF Steps

LEMMA UpToIs ==
  ASSUME NEW o, \A k \in Steps : o[k].st = "ok" => o[k].data \in Nat,
         NEW m \in 0 .. MaxSteps
  PROVE  /\ UpTo(o, m) = SumFunctionOnSet(Amounts(o), 1 .. m)
         /\ UpTo(o, m) \in Nat
<1> DEFINE f == [k \in 1 .. m |-> IF o[k].st = "ok" THEN o[k].data ELSE 0]
           S == 1 .. m
<1>1. IsFiniteSet(S) /\ S \in SUBSET Steps
  BY StepsFinite
<1>2. \A k \in S : f[k] \in Nat
  BY <1>1
<1>3. \A k \in S : Amounts(o)[k] = f[k]
  BY <1>1 DEF Amounts
<1>4. Total(f) = SumFunctionOnSet(f, S)
  BY DEF Total, FoldFunction, SumFunctionOnSet
<1> HIDE DEF f, S
<1>5. SumFunctionOnSet(Amounts(o), S) = SumFunctionOnSet(f, S)
  BY ONLY <1>1, <1>2, <1>3, SumSame
<1>6. SumFunctionOnSet(f, S) \in Nat
  BY <1>1, <1>2, SumType
<1> QED BY <1>4, <1>5, <1>6 DEF UpTo, f, S

\* One outcome more.
LEMMA UpToNext ==
  ASSUME NEW o, \A k \in Steps : o[k].st = "ok" => o[k].data \in Nat,
         NEW m \in Steps
  PROVE  UpTo(o, m) = UpTo(o, m - 1) + (IF o[m].st = "ok" THEN o[m].data ELSE 0)
<1> DEFINE f == Amounts(o)
           S == 1 .. m
           T == 1 .. m - 1
<1>1. m \in 0 .. MaxSteps /\ m - 1 \in 0 .. MaxSteps
  BY QueryGenAssumption DEF Steps, QueryGenAssumption
<1>2. IsFiniteSet(S) /\ S \in SUBSET Steps
  BY <1>1, StepsFinite
<1>3. T \in SUBSET S /\ m \in S \ T /\ T \cup {m} = S
  BY <1>1 DEF Steps
<1>4. \A k \in S : f[k] \in Nat
  BY <1>2 DEF Amounts
<1>5. UpTo(o, m) = SumFunctionOnSet(f, S) /\ UpTo(o, m - 1) = SumFunctionOnSet(f, T)
  BY <1>1, UpToIs
<1>6. f[m] = IF o[m].st = "ok" THEN o[m].data ELSE 0
  BY DEF Amounts
<1> HIDE DEF f, S, T
<1>7. SumFunctionOnSet(f, T \cup {m}) = SumFunctionOnSet(f, T) + f[m]
  BY <1>2, <1>3, <1>4, SumOneMore
<1> QED BY <1>3, <1>5, <1>6, <1>7

\* Outcomes that are the same add up to the same.
LEMMA UpToSame ==
  ASSUME NEW o, NEW p, NEW m, \A k \in 1 .. m : p[k] = o[k]
  PROVE  UpTo(p, m) = UpTo(o, m)
<1>1. [k \in 1 .. m |-> IF p[k].st = "ok" THEN p[k].data ELSE 0]
        = [k \in 1 .. m |-> IF o[k].st = "ok" THEN o[k].data ELSE 0]
  OBVIOUS
<1> QED BY <1>1 DEF UpTo

\* Outcomes that are not there add nothing.
LEMMA UpToAll ==
  ASSUME NEW o, \A k \in Steps : o[k].st = "ok" => o[k].data \in Nat,
         NEW m \in 0 .. MaxSteps, \A k \in Steps : k > m => o[k] = Absent
  PROVE  Total([k \in Steps |-> IF o[k].st = "ok" THEN o[k].data ELSE 0]) = UpTo(o, m)
<1> DEFINE f == Amounts(o)
           S == Steps
           T == 1 .. m
<1>1. T \in SUBSET S /\ m \in Nat /\ IsFiniteSet(S) /\ \A k \in S : k \in Nat
  BY StepsFinite DEF Steps
<1>2. \A k \in S : f[k] \in Nat
  BY DEF Amounts
<1>3. \A k \in S \ T : f[k] = 0
  <2> TAKE k \in S \ T
  <2>1. k \in Steps /\ k > m
    BY <1>1 DEF Steps
  <2> QED BY <2>1, FileStates DEF Amounts
<1>4. Total(f) = SumFunctionOnSet(f, S)
  BY DEF Total, FoldFunction, SumFunctionOnSet, Amounts
<1>5. UpTo(o, m) = SumFunctionOnSet(f, T)
  BY UpToIs
<1> HIDE DEF f, S, T
<1>6. SumFunctionOnSet(f, S) = SumFunctionOnSet(f, T)
  BY <1>1, <1>2, <1>3, SumOfZeros
<1> QED BY <1>4, <1>5, <1>6 DEF f, Amounts

LEMMA GeneratedType ==
  ASSUME FilesOK
  PROVE  TotalGenerated \in Nat
<1> DEFINE f == [k \in Steps |-> IF outcomes[k].st = "ok" THEN outcomes[k].data ELSE 0]
           S == Steps
<1>1. \A k \in S : f[k] \in Nat
  BY FileStates DEF FilesOK
<1>2. IsFiniteSet(S)
  <2>1. 0 \in 0 .. MaxSteps
    BY QueryGenAssumption DEF QueryGenAssumption
  <2> QED BY <2>1, StepsFinite
<1>3. TotalGenerated = SumFunctionOnSet(f, S)
  BY DEF TotalGenerated, Total, FoldFunction, SumFunctionOnSet
<1> HIDE DEF f, S
<1> QED BY <1>1, <1>2, <1>3, SumType

-----------------------------------------------------------------------------
(* A call asks for what is missing and returns what was asked for. *)

\* A call that goes on lacks queries.
LacksInv ==
  /\ pc \in {"step", "accept"} => run.step # 0 /\ Len(run.accepted) < run.config.n
  /\ pc = "accept" => run.step \in Steps

QInv ==
  /\ pc \in {"idle", "clear", "load", "step", "accept"} /\ calls \in 0 .. MaxCalls
  /\ FilesOK /\ AnswerOK /\ LacksInv
  /\ pc # "idle" => RunOK

LEMMA WrittenOutcome ==
  ASSUME NEW n \in Nat, NEW o \in Written(n)
  PROVE  o \in {Absent, Torn} \/ (o = File(o.data) /\ o.data \in Nat)
  BY WrittenFile, FileStates

LEMMA EmptyQueries == << >> \in Seq(Queries)
  OBVIOUS

LEMMA StartTyped ==
  ASSUME IInv, QInv, NEW cfg \in Configs, NEW resume \in BOOLEAN, Start(cfg, resume)
  PROVE  QInv'
<1> USE FileStates
<1>1. /\ pc = "idle" /\ calls < MaxCalls /\ calls' = calls + 1
      /\ UNCHANGED <<outcomes, final>>
  BY DEF Start
<1>2. calls' \in 0 .. MaxCalls
  BY <1>1, QueryGenAssumption DEF QInv, QueryGenAssumption
<1>3. \/ /\ pc' = "idle" /\ (UNCHANGED config \/ config' = Torn)
         /\ answer' = NoAnswer \/ answer' = [kind |-> "raised", queries |-> << >>]
      \/ /\ pc' = IF resume THEN "load" ELSE "clear"
         /\ run' = [NoRun EXCEPT !.resume = resume, !.config = cfg]
         /\ config' = File(cfg) /\ answer' = NoAnswer
  BY WrittenFile DEF Start, Raise, End
<1>4. FilesOK'
  BY <1>1, <1>3 DEF FilesOK, QInv
<1>5. AnswerOK'
  <2>1. answer'.kind \in {"none", "raised"} /\ answer'.queries = << >>
    BY <1>3 DEF NoAnswer
  <2>2. answer'.kind # "returned"
    BY <2>1
  <2> QED BY <2>1, <2>2, EmptyQueries DEF AnswerOK, ReturnedAsAsked
<1>6. pc' \in {"idle", "load", "clear"}
  BY <1>3
<1>7. pc' # "idle" => RunOK'
  <2> HAVE pc' # "idle"
  <2>1. run' = [NoRun EXCEPT !.resume = resume, !.config = cfg]
    BY <1>3
  <2>2. /\ run'.resume = resume /\ run'.config = cfg /\ run'.step = 0 /\ run'.total = 0
        /\ run'.accepted = << >> /\ run'.seen = {} /\ run'.valid = {}
    BY <2>1 DEF NoRun
  <2>3. 0 \in 0 .. MaxSteps + 1
    BY QueryGenAssumption DEF QueryGenAssumption
  <2> QED BY <2>2, <2>3, NothingFits DEF RunOK
<1>8. LacksInv'
  BY <1>6 DEF LacksInv
<1> QED BY <1>2, <1>4, <1>5, <1>6, <1>7, <1>8 DEF QInv

\* A call that ends with an answer of the right kind.
LEMMA EndTyped ==
  ASSUME QInv, End, UNCHANGED <<calls, files>>, AnswerOK'
  PROVE  QInv'
<1>1. FilesOK'
  BY DEF FilesOK, QInv, files
<1> QED BY <1>1 DEF QInv, End, LacksInv

LEMMA RaiseTyped ==
  ASSUME Raise
  PROVE  End /\ AnswerOK'
  BY EmptyQueries DEF Raise, AnswerOK, ReturnedAsAsked

\* A list that fits and is long enough is what was asked for.
LEMMA ReturnTyped ==
  ASSUME QInv, CallInv, pc # "idle", UNCHANGED config,
         NEW queries, Fits(queries, run.config), Len(queries) >= run.config.n,
         Return(queries)
  PROVE  End /\ AnswerOK'
<1>1. run.config \in Configs /\ config = File(run.config)
  BY DEF CallInv
<1>2. config'.st = "ok" /\ config'.data = run.config
  BY <1>1, FileStates
<1>3. ASSUME NEW c \in Levels
      PROVE  CountAt(queries, c) = Targets(run.config)[c]
  BY <1>1, FullIsExact
<1>4. End /\ answer'.kind = "returned" /\ answer'.queries = queries
  BY DEF Return
<1>5. queries \in Seq(Queries)
  BY DEF Fits
<1> QED BY <1>2, <1>3, <1>4, <1>5 DEF AnswerOK, ReturnedAsAsked

LEMMA ClearTyped ==
  ASSUME IInv, QInv, ClearFinal \/ \E k \in Steps : ClearOutcome(k)
  PROVE  QInv'
<1>1. UNCHANGED <<run, calls, config, answer>> /\ pc' \in {"clear", "load"} /\ pc = "clear"
  BY DEF ClearFinal, ClearOutcome
<1>2. FilesOK'
  <2>1. CASE ClearFinal
    BY <1>1, <2>1 DEF ClearFinal, FilesOK, QInv
  <2>2. ASSUME NEW k \in Steps, ClearOutcome(k)
        PROVE  FilesOK'
    <3>1. /\ UNCHANGED final
          /\ \A j \in Steps : outcomes'[j] = outcomes[j] \/ outcomes'[j] = Absent
      BY <2>2 DEF ClearOutcome, IInv, OutcomesInv
    <3>2. FilesOK
      BY DEF QInv
    <3> QED BY <1>1, <3>1, <3>2 DEF FilesOK
  <2> QED BY <2>1, <2>2
<1>3. AnswerOK' /\ RunOK'
  BY <1>1 DEF AnswerOK, ReturnedAsAsked, RunOK, QInv
<1> QED BY <1>1, <1>2, <1>3 DEF QInv, LacksInv

LEMMA LoadTyped ==
  ASSUME IInv, QInv, Load
  PROVE  QInv'
<1>1. /\ pc = "load" /\ UNCHANGED <<calls, files>> /\ run.config \in Configs
      /\ CallInv /\ FilesOK /\ RunOK
  BY DEF Load, CallInv, IInv, QInv
<1>2. CASE Raise
  BY <1>1, <1>2, RaiseTyped, EndTyped
<1>3. CASE ~ Raise
  <2>1. \A c \in Levels : ~ (CountAt(Existing, c) > Targets(run.config)[c])
    BY <1>3 DEF Load
  <2>2. Existing \in Seq(Queries)
    BY EmptyQueries, FileStates DEF Existing, IInv, KeptInv
  <2>3. Fits(Existing, run.config)
    <3>1. ASSUME NEW c \in Levels
          PROVE  CountAt(Existing, c) \in Nat /\ Targets(run.config)[c] \in Nat
      BY <1>1, <2>2, QueriesCounted, TargetsAre DEF Weights
    <3> QED BY <2>1, <2>2, <3>1 DEF Fits
  <2>4. run.config.n \in Nat /\ Len(Existing) \in Nat
    BY <1>1, <2>2, TargetsAre
  <2>5. CASE Len(Existing) >= run.config.n
    <3>1. Return(Existing)
      BY <1>3, <2>5 DEF Load
    <3>2. UNCHANGED config
      BY <1>1 DEF files
    <3> QED BY <1>1, <2>3, <2>5, <3>1, <3>2, ReturnTyped, EndTyped
  <2>6. CASE ~ (Len(Existing) >= run.config.n)
    <3>1. pc' = "step" /\ run' = Loaded /\ UNCHANGED answer
      BY <1>3, <2>6 DEF Load
    <3>2. /\ run'.resume = run.resume /\ run'.config = run.config /\ run'.step = NextStep
          /\ run'.total = TotalGenerated /\ run'.accepted = Existing
          /\ run'.seen = TextsOf(Existing) /\ run'.valid = run.valid
      BY <3>1 DEF Loaded, IInv, CallInv, NoRun
    <3>3. NextStep \in 0 .. MaxSteps + 1 /\ NextStep # 0
      BY NextStepIn
    <3>4. TotalGenerated \in Nat
      BY <1>1, GeneratedType
    <3>5. TextsOf(Existing) \subseteq Texts
      <4>1. \A i \in DOMAIN Existing : Existing[i] \in Queries
        BY <2>2
      <4>2. \A q \in Queries : q.text \in Texts
        BY DEF Queries
      <4> QED BY <4>1, <4>2 DEF TextsOf
    <3>6. RunOK'
      BY <1>1, <2>3, <3>2, <3>3, <3>4, <3>5 DEF RunOK
    <3>7. LacksInv'
      BY <2>4, <2>6, <3>1, <3>2, <3>3 DEF LacksInv
    <3>8. FilesOK' /\ AnswerOK'
      BY <1>1, <3>1 DEF FilesOK, AnswerOK, ReturnedAsAsked, files, QInv
    <3> QED BY <1>1, <3>1, <3>6, <3>7, <3>8 DEF QInv
  <2> QED BY <2>5, <2>6
<1> QED BY <1>2, <1>3

LEMMA GenerateTyped ==
  ASSUME IInv, QInv, Generate
  PROVE  QInv'
<1>1. /\ pc = "step" /\ run.step <= MaxSteps /\ UNCHANGED <<calls, config, final, answer>>
      /\ FilesOK /\ RunOK /\ AnswerOK /\ LacksInv
  BY DEF Generate, QInv
<1>2. PICK valid \in ValidBatches : \E generated \in {Cardinality(valid), NeedN} :
        /\ \E written \in Written(generated) :
             outcomes' = [outcomes EXCEPT ![run.step] = written]
        /\ IF outcomes'[run.step].st = "torn" THEN End
           ELSE /\ pc' = "accept"
                /\ run' = [run EXCEPT !.valid = valid, !.total = @ + generated,
                             !.seen = @ \cup {q.text : q \in valid}]
  BY DEF Generate
<1>3. PICK generated \in {Cardinality(valid), NeedN} :
        /\ \E written \in Written(generated) :
             outcomes' = [outcomes EXCEPT ![run.step] = written]
        /\ IF outcomes'[run.step].st = "torn" THEN End
           ELSE /\ pc' = "accept"
                /\ run' = [run EXCEPT !.valid = valid, !.total = @ + generated,
                             !.seen = @ \cup {q.text : q \in valid}]
  BY <1>2
<1>4. valid \subseteq [text : Texts \ run.seen, level : Levels]
  BY DEF ValidBatches
<1>5. /\ valid \in SUBSET [text : Texts, level : Levels]
      /\ {q.text : q \in valid} \subseteq Texts
  BY <1>4
<1>6. run.step \in Nat \ {0} /\ run.step \in Steps
  BY <1>1, QueryGenAssumption DEF RunOK, LacksInv, Steps, QueryGenAssumption
<1>7. generated \in Nat
  <2>1. NeedN \in Nat
    BY <1>1, <1>6, RequestsCover DEF RunOK, LacksInv
  <2>2. Cardinality(valid) \in Nat
    <3>1. IsFiniteSet(valid)
      BY <1>5, ChosenFinite
    <3> QED BY <3>1, FS_CardinalityType
  <2> QED BY <2>1, <2>2
<1>8. FilesOK'
  <2>1. PICK written \in Written(generated) :
          outcomes' = [outcomes EXCEPT ![run.step] = written]
    BY <1>3
  <2>2. written \in {Absent, Torn} \/ (written = File(written.data) /\ written.data \in Nat)
    BY <1>7, WrittenOutcome
  <2>3. \A k \in Steps : outcomes'[k] = outcomes[k] \/ outcomes'[k] = written
    BY <2>1 DEF IInv, OutcomesInv
  <2> QED BY <1>1, <2>2, <2>3 DEF FilesOK
<1>9. AnswerOK'
  BY <1>1 DEF AnswerOK, ReturnedAsAsked
<1>10. CASE End
  BY <1>1, <1>8, <1>9, <1>10 DEF QInv, End, LacksInv
<1>11. CASE ~ End
  <2>1. /\ pc' = "accept"
        /\ run' = [run EXCEPT !.valid = valid, !.total = @ + generated,
                             !.seen = @ \cup {q.text : q \in valid}]
    BY <1>3, <1>11
  <2>2. /\ run'.resume = run.resume /\ run'.config = run.config /\ run'.step = run.step
        /\ run'.accepted = run.accepted /\ run'.valid = valid
        /\ run'.total = run.total + generated /\ run'.seen = run.seen \cup {q.text : q \in valid}
    BY <2>1 DEF IInv, CallInv, NoRun
  <2>3. run'.total \in Nat
    BY <1>1, <1>7, <2>2 DEF RunOK
  <2>4. RunOK'
    BY <1>1, <1>5, <2>2, <2>3 DEF RunOK
  <2>5. LacksInv'
    BY <1>1, <1>6, <2>1, <2>2 DEF LacksInv
  <2> QED BY <1>1, <1>8, <1>9, <2>1, <2>4, <2>5 DEF QInv
<1> QED BY <1>10, <1>11

LEMMA AcceptTyped ==
  ASSUME IInv, QInv, Accept
  PROVE  QInv'
<1>1. /\ pc = "accept" /\ UNCHANGED <<calls, config, outcomes>>
      /\ FilesOK /\ RunOK /\ AnswerOK /\ LacksInv /\ CallInv
  BY DEF Accept, QInv, IInv
<1>2. PICK chosen \in Acceptable :
        LET queries == run.accepted \o ListOf(chosen, run.config)
        IN  /\ final' \in Written([queries |-> queries, generated |-> run.total,
                                   step |-> run.step])
            /\ IF final'.st = "torn" THEN End /\ UNCHANGED answer
               ELSE IF Len(queries) >= run.config.n
               THEN Return(queries)
               ELSE IF chosen = {} /\ run.step >= MaxSteps
               THEN Raise
               ELSE /\ pc' = "step" /\ UNCHANGED answer
                    /\ run' = [run EXCEPT !.accepted = queries, !.step = @ + 1,
                                          !.valid = {}]
  BY DEF Accept, ListOf
<1> DEFINE queries == run.accepted \o ListOf(chosen, run.config)
           d == [queries |-> queries, generated |-> run.total, step |-> run.step]
<1>3. /\ final' \in Written(d)
      /\ \/ End /\ UNCHANGED answer
         \/ Len(queries) >= run.config.n /\ Return(queries)
         \/ Raise
         \/ /\ pc' = "step" /\ UNCHANGED answer /\ ~ (Len(queries) >= run.config.n)
            /\ run' = [run EXCEPT !.accepted = queries, !.step = @ + 1, !.valid = {}]
  BY <1>2
<1>4. Fits(queries, run.config)
  <2>1. \A p, q \in run.valid : p.text = q.text => p = q
    BY <1>1 DEF IInv, DistinctInv
  <2> QED BY <1>1, <2>1, AcceptedFits DEF RunOK
<1>5. d.queries = queries /\ d.generated = run.total /\ d.step = run.step
  OBVIOUS
<1> HIDE DEF d, queries
<1>6. FilesOK'
  <2>1. final' = Torn \/ final' = File(d)
    BY <1>3, WrittenFile
  <2>2. d.generated \in Nat /\ d.step \in Steps /\ \E cfg \in Configs : Fits(d.queries, cfg)
    BY <1>1, <1>4, <1>5 DEF RunOK, LacksInv
  <2>3. final' = Torn \/ (final'.data = d /\ final' = File(final'.data))
    BY <2>1, FileStates
  <2>4. UNCHANGED <<config, outcomes>>
    BY <1>1
  <2> QED BY <1>1, <2>2, <2>3, <2>4 DEF FilesOK
<1>7. CASE End
  <2>1. AnswerOK'
    <3>1. CASE UNCHANGED answer
      BY <1>1, <3>1 DEF AnswerOK, ReturnedAsAsked
    <3>2. CASE Len(queries) >= run.config.n /\ Return(queries)
      BY <1>1, <1>4, <3>2, ReturnTyped
    <3>3. CASE Raise
      BY <3>3, RaiseTyped
    <3> QED BY <1>3, <3>1, <3>2, <3>3
  <2> QED BY <1>1, <1>6, <1>7, <2>1 DEF QInv, End, LacksInv
<1>8. CASE ~ End
  <2>1. /\ pc' = "step" /\ UNCHANGED answer /\ ~ (Len(queries) >= run.config.n)
        /\ run' = [run EXCEPT !.accepted = queries, !.step = @ + 1, !.valid = {}]
    BY <1>3, <1>8 DEF Return, Raise
  <2>2. /\ run'.resume = run.resume /\ run'.config = run.config /\ run'.step = run.step + 1
        /\ run'.accepted = queries /\ run'.valid = {}
        /\ run'.total = run.total /\ run'.seen = run.seen
    BY <1>1, <2>1 DEF CallInv, NoRun
  <2>3. run.step \in Steps /\ MaxSteps \in Nat
    BY <1>1, QueryGenAssumption DEF LacksInv, QueryGenAssumption
  <2>4. run'.step \in 0 .. MaxSteps + 1 /\ run'.step # 0
    BY <2>2, <2>3 DEF Steps
  <2>5. RunOK'
    BY <1>1, <1>4, <2>2, <2>4 DEF RunOK
  <2>6. LacksInv'
    <3>1. Len(queries) \in Nat /\ run.config.n \in Nat
      BY <1>1, <1>4, TargetsAre DEF RunOK, Fits
    <3> QED BY <2>1, <2>2, <2>4, <3>1 DEF LacksInv
  <2>7. AnswerOK'
    BY <1>1, <2>1 DEF AnswerOK, ReturnedAsAsked
  <2> QED BY <1>1, <1>6, <2>1, <2>5, <2>6, <2>7 DEF QInv
<1> QED BY <1>7, <1>8

LEMMA InitTyped == Init => QInv
<1> SUFFICES ASSUME Init PROVE QInv
  OBVIOUS
<1>1. FilesOK
  BY DEF Init, FilesOK
<1>2. answer.kind # "returned"
  BY DEF Init, NoAnswer
<1>3. AnswerOK
  BY <1>2, EmptyQueries DEF Init, NoAnswer, AnswerOK, ReturnedAsAsked
<1>4. calls \in 0 .. MaxCalls
  BY QueryGenAssumption DEF Init, QueryGenAssumption
<1> QED BY <1>1, <1>3, <1>4 DEF QInv, Init, LacksInv

LEMMA NextTyped == IInv /\ QInv /\ [Next]_vars => QInv'
<1> SUFFICES ASSUME IInv, QInv, [Next]_vars
             PROVE  QInv'
  OBVIOUS
<1>1. CASE \E cfg \in Configs, resume \in BOOLEAN : Start(cfg, resume)
  BY <1>1, StartTyped
<1>2. CASE ClearFinal \/ \E k \in Steps : ClearOutcome(k)
  BY <1>2, ClearTyped
<1>3. CASE Load
  BY <1>3, LoadTyped
<1>4. CASE Generate
  BY <1>4, GenerateTyped
<1>5. CASE GiveUp
  BY <1>5, RaiseTyped, EndTyped DEF GiveUp
<1>6. CASE Accept
  BY <1>6, AcceptTyped
<1>7. CASE Crash
  <2>1. End /\ UNCHANGED <<calls, files>> /\ UNCHANGED <<answer, config>>
    BY <1>7 DEF Crash, files
  <2>2. AnswerOK'
    BY <2>1 DEF AnswerOK, ReturnedAsAsked, QInv
  <2> QED BY <2>1, <2>2, EndTyped
<1>8. CASE UNCHANGED vars
  <2> USE <1>8 DEF vars, files
  <2>1. FilesOK' /\ AnswerOK'
    BY DEF QInv, FilesOK, AnswerOK, ReturnedAsAsked
  <2>2. LacksInv' /\ (pc' # "idle" => RunOK')
    BY DEF QInv, LacksInv, RunOK
  <2> QED BY <2>1, <2>2 DEF QInv
<1> QED BY <1>1, <1>2, <1>3, <1>4, <1>5, <1>6, <1>7, <1>8 DEF Next, CallStep

LEMMA TypeInvariance == Spec => []QInv
<1>1. Init => QInv
  BY InitTyped
<1>2. IInv /\ QInv /\ [Next]_vars => QInv'
  BY NextTyped
<1> QED BY <1>1, <1>2, Invariance, PTL DEF Spec

\* No list of accepted queries outgrows the targets of the configuration it
\* was collected for.
THEOREM TypeOKHolds == Spec => []TypeOK
<1>1. QInv => TypeOK
  BY TypeOKIs DEF QInv
<1> QED BY <1>1, TypeInvariance, PTL

\* A call returns as many queries of every level as its target, whatever calls
\* were killed before.
THEOREM ReturnedAsAskedHolds == Spec => []ReturnedAsAsked
<1>1. QInv => ReturnedAsAsked
  BY DEF QInv, AnswerOK
<1> QED BY <1>1, TypeInvariance, PTL

\* A batch can finish the job: its requests add up to what the step needs and
\* cover what is missing of every level, and of no other.
THEOREM RequestCoversHolds == Spec => []RequestCovers
<1>1. QInv => RequestCovers
  <2> SUFFICES ASSUME QInv, pc = "step"
               PROVE  RequestCovers
    BY DEF RequestCovers
  <2>1. run.config \in Configs /\ Fits(run.accepted, run.config)
    BY DEF QInv, RunOK
  <2>2. Len(run.accepted) < run.config.n /\ run.step \in Nat \ {0}
    BY DEF QInv, RunOK, LacksInv
  <2> QED BY <2>1, <2>2, RequestsCover DEF RequestCovers
<1> QED BY <1>1, TypeInvariance, PTL

-----------------------------------------------------------------------------
(* How many queries were generated. *)

\* The call counts what the outcomes before its step say, and what the file
\* says was counted over the outcomes up to one that is there.
TotalInv ==
  /\ pc # "clear" /\ final.st = "ok" =>
       /\ final.data.step \in Steps /\ outcomes[final.data.step] # Absent
       /\ final.data.generated = UpTo(outcomes, final.data.step)
  /\ pc = "step" /\ run.step \in Steps => run.total = UpTo(outcomes, run.step - 1)
  /\ pc = "accept" => /\ run.step \in Steps /\ outcomes[run.step] # Absent
                      /\ run.total = UpTo(outcomes, run.step)

LEMMA OutcomeAmounts ==
  ASSUME FilesOK
  PROVE  \A k \in Steps : outcomes[k].st = "ok" => outcomes[k].data \in Nat
  BY FileStates DEF FilesOK

\* A step that changes no outcome and no final_queries.json, and no call.
LEMMA TotalStays ==
  ASSUME TotalInv, UNCHANGED <<outcomes, final>>, pc # "clear",
         pc' \in {"idle", "clear", "load"}
  PROVE  TotalInv'
  BY DEF TotalInv

LEMMA LoadTotal ==
  ASSUME IInv, QInv, TotalInv, Load
  PROVE  TotalInv'
<1>1. /\ pc = "load" /\ UNCHANGED <<outcomes, final>> /\ FilesOK
      /\ End \/ (pc' = "step" /\ run' = Loaded)
  BY DEF Load, Raise, Return, files, QInv
<1>2. CASE End
  BY <1>1, <1>2, TotalStays DEF End
<1>3. CASE ~ End
  <2>1. pc' = "step" /\ run' = Loaded
    BY <1>1, <1>3
  <2>2. run'.step = NextStep /\ run'.total = TotalGenerated
    BY <2>1 DEF Loaded, IInv, CallInv, NoRun
  <2>3. ASSUME NextStep \in Steps
        PROVE  TotalGenerated = UpTo(outcomes, NextStep - 1)
    <3>1. NextStep - 1 \in 0 .. MaxSteps
      BY <2>3, QueryGenAssumption DEF Steps, QueryGenAssumption
    <3>2. \A k \in Steps : k >= NextStep => outcomes[k] = Absent
      BY NextStepIsNew DEF IInv
    <3>3. \A k \in Steps : k > NextStep - 1 => outcomes[k] = Absent
      BY <2>3, <3>2 DEF Steps
    <3>4. \A k \in Steps : outcomes[k].st = "ok" => outcomes[k].data \in Nat
      BY <1>1, OutcomeAmounts
    <3> QED BY <3>1, <3>3, <3>4, UpToAll DEF TotalGenerated
  <2> QED BY <1>1, <2>1, <2>2, <2>3 DEF TotalInv
<1> QED BY <1>2, <1>3

\* Writing an outcome that was not there leaves the count of those before it.
LEMMA GenerateTotal ==
  ASSUME IInv, QInv, TotalInv, Generate
  PROVE  TotalInv'
<1>1. /\ pc = "step" /\ UNCHANGED final /\ FilesOK /\ FilesOK'
      /\ run.step \in Steps
      /\ \A k \in Steps : k >= run.step => outcomes[k] = Absent
  <2>1. run.step \in Steps
    BY QueryGenAssumption DEF Generate, QInv, RunOK, LacksInv, Steps, QueryGenAssumption
  <2>2. FilesOK'
    BY GenerateTyped DEF QInv
  <2> QED BY <2>1, <2>2 DEF Generate, QInv, IInv, OutcomesInv
<1>2. PICK valid \in ValidBatches : \E generated \in {Cardinality(valid), NeedN} :
        /\ \E written \in Written(generated) :
             outcomes' = [outcomes EXCEPT ![run.step] = written]
        /\ IF outcomes'[run.step].st = "torn" THEN End
           ELSE /\ pc' = "accept"
                /\ run' = [run EXCEPT !.valid = valid, !.total = @ + generated,
                             !.seen = @ \cup {q.text : q \in valid}]
  BY DEF Generate
<1>3. PICK generated \in {Cardinality(valid), NeedN} :
        /\ \E written \in Written(generated) :
             outcomes' = [outcomes EXCEPT ![run.step] = written]
        /\ IF outcomes'[run.step].st = "torn" THEN End
           ELSE /\ pc' = "accept"
                /\ run' = [run EXCEPT !.valid = valid, !.total = @ + generated,
                             !.seen = @ \cup {q.text : q \in valid}]
  BY <1>2
<1>4. PICK written \in Written(generated) :
        outcomes' = [outcomes EXCEPT ![run.step] = written]
  BY <1>3
<1>5. /\ outcomes'[run.step] = written
      /\ \A k \in Steps : k # run.step => outcomes'[k] = outcomes[k]
  BY <1>1, <1>4 DEF IInv, OutcomesInv
<1>6. written = Torn \/ written = File(generated)
  BY WrittenFile
<1>7. \A k \in 1 .. run.step - 1 : outcomes'[k] = outcomes[k]
  <2>1. MaxSteps \in Nat
    BY QueryGenAssumption DEF QueryGenAssumption
  <2>2. \A k \in 1 .. run.step - 1 : k \in Steps /\ k # run.step
    BY <1>1, <2>1 DEF Steps
  <2> QED BY <1>5, <2>2
<1>8. final.st = "ok" =>
        /\ final.data.step \in Steps /\ outcomes'[final.data.step] # Absent
        /\ final.data.generated = UpTo(outcomes', final.data.step)
  <2> SUFFICES ASSUME final.st = "ok"
               PROVE  /\ final.data.step \in Steps /\ outcomes'[final.data.step] # Absent
                      /\ final.data.generated = UpTo(outcomes', final.data.step)
    OBVIOUS
  <2> DEFINE m == final.data.step
  <2>1. m \in Steps /\ outcomes[m] # Absent /\ final.data.generated = UpTo(outcomes, m)
    BY <1>1 DEF TotalInv
  <2> HIDE DEF m
  <2>2. ~ (m >= run.step)
    BY <1>1, <2>1
  <2>3. m < run.step /\ m # run.step
    BY <1>1, <2>1, <2>2 DEF Steps
  <2>4. \A k \in 1 .. m : outcomes'[k] = outcomes[k]
    BY <1>1, <1>7, <2>1, <2>3 DEF Steps
  <2>5. UpTo(outcomes', m) = UpTo(outcomes, m)
    BY <2>4, UpToSame
  <2> QED BY <1>5, <2>1, <2>3, <2>5 DEF m
<1>9. CASE End
  BY <1>1, <1>8, <1>9 DEF End, TotalInv
<1>10. CASE ~ End
  <2>1. /\ outcomes'[run.step].st # "torn" /\ pc' = "accept"
        /\ run' = [run EXCEPT !.valid = valid, !.total = @ + generated,
                             !.seen = @ \cup {q.text : q \in valid}]
    BY <1>3, <1>10
  <2>2. run'.step = run.step /\ run'.total = run.total + generated
    BY <2>1 DEF IInv, CallInv, NoRun
  <2>3. written = File(generated)
    BY <1>5, <1>6, <2>1, FileStates
  <2>4. run.total = UpTo(outcomes, run.step - 1)
    BY <1>1 DEF TotalInv
  <2>5. UpTo(outcomes', run.step - 1) = UpTo(outcomes, run.step - 1)
    BY <1>7, UpToSame
  <2>6. UpTo(outcomes', run.step) = UpTo(outcomes', run.step - 1) + generated
    <3>1. \A k \in Steps : outcomes'[k].st = "ok" => outcomes'[k].data \in Nat
      BY <1>1, FileStates DEF FilesOK
    <3>2. UpTo(outcomes', run.step) = UpTo(outcomes', run.step - 1)
            + (IF outcomes'[run.step].st = "ok" THEN outcomes'[run.step].data ELSE 0)
      BY <1>1, <3>1, UpToNext
    <3>3. outcomes'[run.step].st = "ok" /\ outcomes'[run.step].data = generated
      BY <1>5, <2>3, FileStates
    <3> QED BY <3>2, <3>3
  <2>7. outcomes'[run.step] # Absent
    BY <1>5, <2>3, FileStates
  <2> QED BY <1>1, <1>8, <2>1, <2>2, <2>4, <2>5, <2>6, <2>7 DEF TotalInv
<1> QED BY <1>9, <1>10

LEMMA AcceptTotal ==
  ASSUME IInv, QInv, TotalInv, Accept
  PROVE  TotalInv'
<1>1. /\ pc = "accept" /\ UNCHANGED outcomes
      /\ run.step \in Steps /\ outcomes[run.step] # Absent
      /\ run.total = UpTo(outcomes, run.step)
  BY DEF Accept, TotalInv
<1>2. PICK chosen \in Acceptable :
        LET queries == run.accepted \o ListOf(chosen, run.config)
        IN  /\ final' \in Written([queries |-> queries, generated |-> run.total,
                                   step |-> run.step])
            /\ IF final'.st = "torn" THEN End /\ UNCHANGED answer
               ELSE IF Len(queries) >= run.config.n
               THEN Return(queries)
               ELSE IF chosen = {} /\ run.step >= MaxSteps
               THEN Raise
               ELSE /\ pc' = "step" /\ UNCHANGED answer
                    /\ run' = [run EXCEPT !.accepted = queries, !.step = @ + 1,
                                          !.valid = {}]
  BY DEF Accept, ListOf
<1> DEFINE queries == run.accepted \o ListOf(chosen, run.config)
           d == [queries |-> queries, generated |-> run.total, step |-> run.step]
<1>3. /\ final' \in Written(d)
      /\ \/ End
         \/ /\ pc' = "step"
            /\ run' = [run EXCEPT !.accepted = queries, !.step = @ + 1, !.valid = {}]
  BY <1>2 DEF Return, Raise
<1>4. d.generated = run.total /\ d.step = run.step
  OBVIOUS
<1> HIDE DEF d, queries
<1>5. final'.st = "ok" => final'.data.step = run.step /\ final'.data.generated = run.total
  BY <1>3, <1>4, WrittenFile, FileStates
<1>6. CASE End
  BY <1>1, <1>5, <1>6 DEF End, TotalInv
<1>7. CASE ~ End
  <2>1. /\ pc' = "step"
        /\ run' = [run EXCEPT !.accepted = queries, !.step = @ + 1, !.valid = {}]
    BY <1>3, <1>7
  <2>2. run'.step = run.step + 1 /\ run'.total = run.total
    BY <2>1 DEF IInv, CallInv, NoRun
  <2>3. run'.step - 1 = run.step
    BY <1>1, <2>2 DEF Steps
  <2> QED BY <1>1, <1>5, <2>1, <2>2, <2>3 DEF TotalInv
<1> QED BY <1>6, <1>7

LEMMA TotalStep ==
  ASSUME AllowKilledRestart = FALSE
  PROVE  IInv /\ QInv /\ TotalInv /\ [Next]_vars => TotalInv'
<1> SUFFICES ASSUME IInv, QInv, TotalInv, [Next]_vars
             PROVE  TotalInv'
  OBVIOUS
<1>1. CASE \E cfg \in Configs, resume \in BOOLEAN : Start(cfg, resume)
  <2>1. /\ UNCHANGED <<outcomes, final>> /\ pc = "idle"
        /\ pc' \in {"idle", "clear", "load"}
    BY <1>1 DEF Start, Raise, End
  <2> QED BY <2>1, TotalStays
<1>2. CASE ClearFinal
  BY <1>2, FileStates DEF ClearFinal, TotalInv
<1>3. CASE \E k \in Steps : ClearOutcome(k)
  BY <1>3 DEF ClearOutcome, TotalInv
<1>4. CASE Load
  BY <1>4, LoadTotal
<1>5. CASE Generate
  BY <1>5, GenerateTotal
<1>6. CASE GiveUp
  BY <1>6, TotalStays DEF GiveUp, Raise, End, files
<1>7. CASE Accept
  BY <1>7, AcceptTotal
<1>8. CASE Crash
  BY <1>8, TotalStays DEF Crash, End, files
<1>9. CASE UNCHANGED vars
  BY <1>9 DEF vars, TotalInv
<1> QED BY <1>1, <1>2, <1>3, <1>4, <1>5, <1>6, <1>7, <1>8, <1>9 DEF Next, CallStep

\* n_generated counts every query of the outcomes before it, those of calls
\* that were killed before accepting any included, if no call is killed while
\* it clears the directory.
THEOREM GeneratedCountedHolds ==
  ASSUME AllowKilledRestart = FALSE
  PROVE  Spec => []GeneratedCounted
<1>1. Init => TotalInv
  BY FileStates DEF Init, TotalInv
<1>2. IInv /\ QInv /\ TotalInv /\ [Next]_vars => TotalInv'
  BY TotalStep
<1>3. TotalInv => GeneratedCounted
  BY DEF TotalInv, GeneratedCounted, UpTo
<1> QED BY <1>1, <1>2, <1>3, Invariance, TypeInvariance, PTL DEF Spec
=============================================================================
