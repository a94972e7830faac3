------------------------------- MODULE QueryGen -------------------------------
(***************************************************************************)
(* run_query_generation (query_gen/orchestrator.py): one run directory,    *)
(* over several calls that create it, resume it or start it over.  Each    *)
(* step generates a batch of queries, validates it, writes outcome_k.json, *)
(* and then adds what it accepts to final_queries.json.                    *)
(*                                                                         *)
(* As in SamplingRun an action is the code between two changes of files,   *)
(* and a call may be killed between two actions or in a write.             *)
(***************************************************************************)
EXTENDS Naturals, FiniteSetsExt, Functions, SequencesExt

CONSTANTS
  Texts,               \* the SQL texts the LLM may come up with
  Levels,              \* complexity levels, as numbers
  Configs,             \* the configurations callers pass: weights and n
  MaxSteps,            \* max_steps
  OversampleCap,       \* oversample_cap, a whole number
  MaxCalls,            \* bound: calls made on the directory
  AllowTorn,           \* may a call be killed in the middle of a write?
  AllowKilledRestart   \* may a call with resume=False be killed while it clears?

ASSUME QueryGenAssumption ==
  /\ Levels \subseteq Nat /\ IsFiniteSet(Levels) /\ IsFiniteSet(Texts)
  /\ Configs \subseteq [weights : [Levels -> Nat], n : Nat \ {0}]
  /\ \A cfg \in Configs : \E c \in Levels : cfg.weights[c] > 0
  /\ {MaxSteps, OversampleCap, MaxCalls} \subseteq Nat \ {0}
  /\ {AllowTorn, AllowKilledRestart} \subseteq BOOLEAN

VARIABLES
  pc,        \* "idle", "clear", "load", "step" or "accept"
  run,       \* the parameters and locals of the call
  calls,     \* calls made so far
  config,    \* generate_config.json
  outcomes,  \* outcome_k.json for every k: how many queries it generated
  final,     \* final_queries.json
  answer     \* what the latest call returned

files == <<config, outcomes, final>>
vars == <<pc, run, calls, config, outcomes, final, answer>>

Steps == 1 .. MaxSteps

Absent  == [st |-> "absent", data |-> << >>]
Torn    == [st |-> "torn", data |-> << >>]
File(d) == [st |-> "ok", data |-> d]

\* What a write leaves: the file, or a part of it when the call is killed.
Written(d) == {File(d)} \cup (IF AllowTorn THEN {Torn} ELSE {})

NoRun == [resume |-> FALSE, config |-> << >>, step |-> 0, total |-> 0,
          accepted |-> << >>, seen |-> {}, valid |-> {}]

NoAnswer == [kind |-> "none", queries |-> << >>]

Init ==
  /\ pc = "idle" /\ run = NoRun /\ calls = 0
  /\ config = Absent /\ final = Absent
  /\ outcomes = [k \in Steps |-> Absent]
  /\ answer = NoAnswer

End == pc' = "idle" /\ run' = NoRun
Raise == End /\ answer' = [kind |-> "raised", queries |-> << >>]
Return(queries) == End /\ answer' = [kind |-> "returned", queries |-> queries]

-----------------------------------------------------------------------------
(* Targets and requests per level. *)

Total(f) == FoldFunction(+, 0, f)

\* Fault: only the levels that divide evenly get their share.
FaultyAllocateTargets(weights, total) ==
  [c \in Levels |-> (total * weights[c]) \div Total(weights)]

\* _allocate_targets: shares of a total by largest remainder; of equal
\* remainders the first level of the dictionary wins.
AllocateTargets(weights, total) ==
  LET floor == [c \in Levels |-> (total * weights[c]) \div Total(weights)]
      frac  == [c \in Levels |-> (total * weights[c]) % Total(weights)]
      Before(c, d) == frac[c] > frac[d] \/ (frac[c] = frac[d] /\ c < d)
  IN  [c \in Levels |->
         IF Cardinality({d \in Levels : Before(d, c)}) < total - Total(floor)
         THEN floor[c] + 1 ELSE floor[c]]

Targets(cfg) == AllocateTargets(cfg.weights, cfg.n)

CountAt(queries, c) == Cardinality({i \in DOMAIN queries : queries[i].level = c})

Remaining ==
  [c \in Levels |->
     LET have == CountAt(run.accepted, c)
     IN  IF have < Targets(run.config)[c] THEN Targets(run.config)[c] - have ELSE 0]

\* base ** k
Power(base, k) ==
  LET power[i \in Nat] == IF i = 0 THEN 1 ELSE base * power[i - 1] IN power[k]

\* min(oversample_cap, 1.5 ** (step - 1)) of what is missing.
NeedN ==
  Min({OversampleCap * Total(Remaining),
       (Total(Remaining) * Power(3, run.step - 1)) \div Power(2, run.step - 1)})

Requests == AllocateTargets(Remaining, NeedN)

-----------------------------------------------------------------------------
(* Starting a call. *)

\* Fault: a resume with another configuration overwrites it and goes on.
FaultyStart(cfg, resume) ==
  /\ pc = "idle" /\ calls < MaxCalls
  /\ calls' = calls + 1
  /\ IF config.st = "torn"
     THEN Raise /\ UNCHANGED config
     ELSE /\ config' \in IF config = File(cfg) THEN {config} ELSE Written(cfg)
          /\ IF config'.st = "torn" THEN End
             ELSE /\ pc' = IF resume THEN "load" ELSE "clear"
                  /\ run' = [NoRun EXCEPT !.resume = resume, !.config = cfg]
          /\ answer' = NoAnswer
  /\ UNCHANGED <<outcomes, final>>

\* The configuration of the directory is read, compared and written.
Start(cfg, resume) ==
  /\ pc = "idle" /\ calls < MaxCalls
  /\ calls' = calls + 1
  /\ IF config.st = "torn" \/ (resume /\ config.st = "ok" /\ config.data # cfg)
     THEN Raise /\ UNCHANGED config
     ELSE /\ config' \in IF config = File(cfg) THEN {config} ELSE Written(cfg)
          /\ IF config'.st = "torn" THEN End
             ELSE /\ pc' = IF resume THEN "load" ELSE "clear"
                  /\ run' = [NoRun EXCEPT !.resume = resume, !.config = cfg]
          /\ answer' = NoAnswer
  /\ UNCHANGED <<outcomes, final>>

\* resume=False removes the outcomes one by one, in any order ...
ClearOutcome(k) ==
  /\ pc = "clear" /\ outcomes[k] # Absent
  /\ outcomes' = [outcomes EXCEPT ![k] = Absent]
  /\ UNCHANGED <<pc, run, calls, config, final, answer>>

\* ... and then final_queries.json.
ClearFinal ==
  /\ pc = "clear" /\ \A k \in Steps : outcomes[k] = Absent
  /\ final' = Absent /\ pc' = "load"
  /\ UNCHANGED <<run, calls, config, outcomes, answer>>

OutcomeSteps == {k \in Steps : outcomes[k] # Absent}
\* Fault: the outcomes that can be read are counted, none is looked at by number.
FaultyNextStep == Cardinality({k \in Steps : outcomes[k].st = "ok"}) + 1

NextStep == Max(OutcomeSteps \cup {0}) + 1

\* An outcome that cannot be read counts as a step, not as generated queries.
TotalGenerated ==
  Total([k \in Steps |-> IF outcomes[k].st = "ok" THEN outcomes[k].data ELSE 0])

TextsOf(queries) == {queries[i].text : i \in DOMAIN queries}

\* Fault: a resume starts from nothing.
FaultyExisting == << >>

\* What a resume finds in final_queries.json.
Existing == IF run.resume /\ final.st = "ok" THEN final.data.queries ELSE << >>

\* Fault: what was accepted earlier is not among the queries seen.
ForgetfulLoaded ==
  [run EXCEPT !.step = NextStep, !.total = TotalGenerated,
              !.accepted = Existing]

Loaded ==
  [run EXCEPT !.step = NextStep, !.total = TotalGenerated,
              !.accepted = Existing, !.seen = TextsOf(Existing)]

\* The state of the directory is loaded; a complete one is returned.
Load ==
  /\ pc = "load"
  /\ IF \/ run.resume /\ final.st = "torn"
        \/ \E c \in Levels : CountAt(Existing, c) > Targets(run.config)[c]
     THEN Raise
     ELSE IF Len(Existing) >= run.config.n
     THEN Return(Existing)
     ELSE \/ pc' = "step" /\ run' = Loaded /\ UNCHANGED answer
          \/ Raise  \* the schema cannot be fetched
  /\ UNCHANGED <<calls, files>>

-----------------------------------------------------------------------------
(* One step. *)

\* The queries of a batch that can be found valid: nobody has seen them,
\* each once, and no more than were requested of a level.
ValidBatches ==
  {valid \in SUBSET [text : Texts \ run.seen, level : Levels] :
     /\ \A p, q \in valid : p.text = q.text => p = q
     /\ \A c \in Levels : Cardinality({q \in valid : q.level = c}) <= Requests[c]}

\* Fault: only the valid queries of the batch count as generated.
FaultyGenerate ==
  /\ pc = "step" /\ run.step <= MaxSteps
  /\ \E valid \in ValidBatches :
       \E generated \in {Cardinality(valid), NeedN} :
         /\ \E written \in Written(generated) :
              outcomes' = [outcomes EXCEPT ![run.step] = written]
         /\ IF outcomes'[run.step].st = "torn" THEN End
            ELSE /\ pc' = "accept"
                 /\ run' = [run EXCEPT !.valid = valid, !.total = @ + Cardinality(valid),
                              !.seen = @ \cup {q.text : q \in valid}]
  /\ UNCHANGED <<calls, config, final, answer>>

\* Generate, validate and deduplicate a batch; write the outcome.  Of the
\* queries asked for, all come back or those only that will be valid.
Generate ==
  /\ pc = "step" /\ run.step <= MaxSteps
  /\ \E valid \in ValidBatches :
       \E generated \in {Cardinality(valid), NeedN} :
         /\ \E written \in Written(generated) :
              outcomes' = [outcomes EXCEPT ![run.step] = written]
         /\ IF outcomes'[run.step].st = "torn" THEN End
            ELSE /\ pc' = "accept"
                 /\ run' = [run EXCEPT !.valid = valid, !.total = @ + generated,
                              !.seen = @ \cup {q.text : q \in valid}]
  /\ UNCHANGED <<calls, config, final, answer>>

\* The steps are used up, or a validation raises.
GiveUp ==
  /\ pc = "step"
  /\ Raise
  /\ UNCHANGED <<calls, files>>

\* Fault: everything valid is taken.
FaultyAcceptable == {run.valid}

\* Of each level no more are taken than are missing, at random.
Acceptable ==
  {chosen \in SUBSET run.valid :
     \A c \in Levels :
       LET at(S) == Cardinality({q \in S : q.level = c})
       IN  at(chosen) = Min({at(run.valid), Remaining[c]})}

\* Accept queries and write final_queries.json; go on, return or give up.
Accept ==
  /\ pc = "accept"
  /\ \E chosen \in Acceptable :
       LET queries == run.accepted \o SetToSeq(
                        {[text |-> q.text, level |-> q.level, config |-> run.config] :
                           q \in chosen})
       IN  /\ final' \in Written([queries |-> queries, generated |-> run.total,
                                  step |-> run.step])
           /\ IF final'.st = "torn" THEN End /\ UNCHANGED answer
              ELSE IF Len(queries) >= run.config.n
              THEN Return(queries)
              ELSE IF chosen = {} /\ run.step >= MaxSteps
              THEN Raise
              ELSE /\ pc' = "step" /\ UNCHANGED answer
                   /\ run' = [run EXCEPT !.accepted = queries, !.step = @ + 1,
                                         !.valid = {}]
  /\ UNCHANGED <<calls, config, outcomes>>

Crash ==
  /\ pc # "idle" /\ (AllowKilledRestart \/ pc # "clear")
  /\ End
  /\ UNCHANGED <<calls, files, answer>>

CallStep ==
  \/ \E k \in Steps : ClearOutcome(k)
  \/ ClearFinal \/ Load \/ Generate \/ GiveUp \/ Accept

Next ==
  \/ \E cfg \in Configs, resume \in BOOLEAN : Start(cfg, resume)
  \/ CallStep
  \/ Crash

Spec == Init /\ [][Next]_vars

-----------------------------------------------------------------------------
(* Properties. *)

Queries == [text : Texts, level : Levels, config : Configs]

IsFile(f, good(_)) == f \in {Absent, Torn} \/ (f = File(f.data) /\ good(f.data))

\* No more queries of a level than its target.
Fits(queries, cfg) ==
  /\ queries \in Seq(Queries)
  /\ \A c \in Levels : CountAt(queries, c) <= Targets(cfg)[c]

\* Types of every variable: a list of accepted queries never outgrows the
\* targets of the configuration it was collected for (orchestrator.py 362-376).
TypeOK ==
  /\ pc \in {"idle", "clear", "load", "step", "accept"}
  /\ calls \in 0 .. MaxCalls
  /\ IsFile(config, LAMBDA d : d \in Configs)
  /\ \A k \in Steps : IsFile(outcomes[k], LAMBDA d : d \in Nat)
  /\ IsFile(final, LAMBDA d : /\ d.generated \in Nat /\ d.step \in Steps
                             /\ \E cfg \in Configs : Fits(d.queries, cfg))
  /\ pc # "idle" => /\ run.resume \in BOOLEAN /\ run.config \in Configs
                    /\ run.step \in 0 .. MaxSteps + 1 /\ run.total \in Nat
                    /\ Fits(run.accepted, run.config)
                    /\ run.seen \subseteq Texts
                    /\ run.valid \subseteq [text : Texts, level : Levels]
  /\ answer.kind \in {"none", "raised", "returned"}
  /\ answer.queries \in Seq(Queries)

\* What a call returns is what was asked for: as many queries of each level
\* as its target, whatever calls were killed before.
ReturnedAsAsked ==
  answer.kind = "returned" =>
    /\ config.st = "ok"
    /\ \A c \in Levels : CountAt(answer.queries, c) = Targets(config.data)[c]

Distinct(queries) ==
  \A i, j \in DOMAIN queries : queries[i].text = queries[j].text => i = j

\* No text is kept or returned twice, although what a killed call had seen is
\* gone and what was not accepted is forgotten with every resume.
NoTextTwice ==
  /\ final.st = "ok" => Distinct(final.data.queries)
  /\ Distinct(answer.queries)

\* The queries kept are those of the configuration beside them: a resume with
\* another one is refused, a restart with another one clears them first.
FinalOfConfig ==
  pc # "clear" /\ config.st = "ok" /\ final.st = "ok" =>
    \A i \in DOMAIN final.data.queries : final.data.queries[i].config = config.data

\* n_generated of final_queries.json counts every query of the outcomes that
\* precede it, those of calls that were killed before accepting any included.
GeneratedCounted ==
  pc # "clear" /\ final.st = "ok" =>
    final.data.generated =
      Total([k \in 1 .. final.data.step |->
               IF outcomes[k].st = "ok" THEN outcomes[k].data ELSE 0])

\* A batch can finish the job: it asks for as many queries of every level as
\* are missing, for none of a level that is complete, and for NeedN in all.
RequestCovers ==
  pc = "step" /\ run.step <= MaxSteps =>
    /\ Total(Requests) = NeedN
    /\ \A c \in Levels : /\ Requests[c] >= Remaining[c]
                          /\ Remaining[c] = 0 => Requests[c] = 0

\* A query once kept stays where it is, over all resumes: final_queries.json
\* is only ever extended, but for a write that is cut off and a restart.
AcceptedIsKept ==
  [][pc # "clear" /\ final.st = "ok" /\ final'.st = "ok" =>
       IsPrefix(final.data.queries, final'.data.queries)]_vars

\* No outcome is written over, one that cannot be read included: a resume
\* goes on behind the last step there is.
OutcomesWrittenOnce ==
  [][pc # "clear" => \A k \in Steps : outcomes[k] # Absent => outcomes'[k] = outcomes[k]]_vars
=============================================================================
