------------------------------ MODULE SampleTree ------------------------------
(***************************************************************************)
(* The sample tree of one query: the list "sampled_plans" of an entry of   *)
(* final_sampling.json, and the pure functions the sampling package        *)
(* applies to it (sampling/sample_plans.py, sampling/accumulate_samples.py,*)
(* sampling/prepare_sampling.py).                                          *)
(*                                                                         *)
(* A tree is a sequence of nodes in file order.  The root is the engine's  *)
(* plan.  Its sample_id None is written 0: accumulate_samples itself reads *)
(* None as 0 when it looks for the highest id, and hands out ids from 1.   *)
(* A metric of 0 stands for "no evaluation stats"; the code treats both as *)
(* infinite when it ranks (the idiom "value or inf").                      *)
(***************************************************************************)
EXTENDS Naturals, Sequences, SequencesExt, FiniteSetsExt

\* An LLM answer is named by the step file and the position it is written at.
Token == Nat \X Nat

\* What a patch does to a plan is abstracted to its name, so a plan is the
\* sequence of the patches applied to the base plan.
Plan == Seq(Token)

(***************************************************************************)
(* "built" and "src" are history: the plan that was validated and timed    *)
(* for this node, and the sample it was accumulated from.  The file keeps  *)
(* neither; no operator of the code reads them.                            *)
(***************************************************************************)
Node == [id : Nat, parent : Nat, isLast : BOOLEAN, isLeaf : BOOLEAN,
         patch : Plan, valid : BOOLEAN, metric : Nat,
         built : Plan, src : Token]

\* The root entry that prepare_sampling writes for a curated query.
Root(metric) ==
  [id |-> 0, parent |-> 0, isLast |-> TRUE, isLeaf |-> TRUE,
   patch |-> << >>, valid |-> TRUE, metric |-> metric,
   built |-> << >>, src |-> <<0, 0>>]

Ids(tree) == {tree[i].id : i \in DOMAIN tree}

\* sampleid2sampleidx: a later node with the same id hides an earlier one.
IndexOf(tree, id) == Max({i \in DOMAIN tree : tree[i].id = id})

-----------------------------------------------------------------------------
(***************************************************************************)
(* One move of the parent walk of get_upstream_patches.  It stays at the   *)
(* root, where the walk ends, and at a node whose parent is not in the     *)
(* tree, where the code raises KeyError.                                   *)
(***************************************************************************)
Up(tree) ==
  [i \in DOMAIN tree |->
     IF tree[i].id = 0 \/ tree[i].parent \notin Ids(tree)
     THEN i ELSE IndexOf(tree, tree[i].parent)]

\* The walk from a node.  One that is not at the root after Len(tree) nodes
\* is stuck at a missing parent, or repeats a node and never ends.
Walk(tree, start) ==
  LET at[n \in Nat] == IF n = 0 THEN start ELSE Up(tree)[at[n - 1]]
  IN  [n \in 1 .. Len(tree) |-> at[n - 1]]

WalkReachesRoot(tree, start) == tree[Last(Walk(tree, start))].id = 0

\* The walk met a node whose parent_sample_id is not in the tree.
WalkDangles(tree, start) ==
  LET end == tree[Last(Walk(tree, start))]
  IN  end.id # 0 /\ end.parent \notin Ids(tree)

\* Fault: the patches of invalid ancestors are kept.
FaultyUpstreamPatches(tree, start) ==
  LET walk == Walk(tree, start)
  IN  FlattenSeq(Reverse([n \in 1 .. Len(tree) |-> tree[walk[n]].patch]))

\* What a node adds to the patches of its descendants (the root adds none).
OwnPatch(node) == IF node.valid THEN node.patch ELSE << >>

\* The patches of the valid nodes on the walk, root first.
UpstreamPatches(tree, start) ==
  LET walk == Walk(tree, start)
  IN  FlattenSeq(Reverse([n \in 1 .. Len(tree) |-> OwnPatch(tree[walk[n]])]))

\* The stats of the nearest valid node, the start included.
UpstreamMetric(tree, start) ==
  LET walk == Walk(tree, start)
  IN  tree[walk[Min({n \in 1 .. Len(tree) : tree[walk[n]].valid})]].metric

-----------------------------------------------------------------------------
(* Which nodes seed the next round of sampling. *)

\* Lower is better and 0 is infinite.
Better(a, b) == a # 0 /\ (b = 0 \/ a < b)

\* Fault: the worst is ranked first.
FaultyRanksBefore(tree, i, j) ==
  \/ Better(tree[j].metric, tree[i].metric)
  \/ ~Better(tree[i].metric, tree[j].metric) /\ i < j

\* sorted() is stable: equal metrics keep file order.
RanksBefore(tree, i, j) ==
  \/ Better(tree[i].metric, tree[j].metric)
  \/ ~Better(tree[j].metric, tree[i].metric) /\ i < j

\* The elements of S in the strict total order "before".
InOrder(S, before(_, _)) ==
  [n \in 1 .. Cardinality(S) |->
     CHOOSE i \in S : Cardinality({j \in S : before(j, i)}) = n - 1]

FileOrder(S) == InOrder(S, LAMBDA i, j : i < j)

Ranked(tree, S) == InOrder(S, LAMBDA i, j : RanksBefore(tree, i, j))

Candidates(tree, strategy) ==
  {i \in DOMAIN tree :
     /\ strategy.start = "of_last" => tree[i].isLast
     /\ strategy.start = "of_leafs" => tree[i].isLeaf
     /\ strategy.validOnly => tree[i].valid}

\* s[:n]
Take(s, n) == SubSeq(s, 1, Min({n, Len(s)}))

\* The indices get_base_plans_for_sampling returns, in order; "best" is the
\* n of best_n (1 for best_1), or 0 for the final selector "all".
BasePlans(tree, strategy) ==
  CASE strategy.start = "original" -> <<IndexOf(tree, 0)>>
    [] strategy.start # "original" /\ strategy.best = 0 ->
         FileOrder(Candidates(tree, strategy))
    [] OTHER -> Take(Ranked(tree, Candidates(tree, strategy)), strategy.best)

ORIGINAL_STRATEGY == [start |-> "original", best |-> 0, validOnly |-> FALSE]

\* _select_strategy: the SamplingStrategy and the samples per base plan.
SelectStrategy(strategy, step, nSamples) ==
  CASE strategy = "pst_evol" /\ step > 1 ->
         [by |-> [start |-> "of_last", best |-> 0, validOnly |-> FALSE],
          count |-> 1]
    [] strategy = "bol_evol" ->
         [by |-> [start |-> "of_last", best |-> 1, validOnly |-> FALSE],
          count |-> nSamples]
    [] OTHER -> [by |-> ORIGINAL_STRATEGY, count |-> nSamples]

-----------------------------------------------------------------------------
(***************************************************************************)
(* A sample of a step file.  "gen" is what the LLM call produced: no       *)
(* usable answer, an empty patch, or a patch; "valid" and "metric" are     *)
(* what evaluate_sampled_plans adds.                                       *)
(***************************************************************************)
Sample == [parent : Nat, upstream : Plan, upMetric : Nat,
           gen : {"failed", "empty", "patch"}, src : Token,
           valid : BOOLEAN, metric : Nat]

PatchOf(sample) == IF sample.gen = "patch" THEN <<sample.src>> ELSE << >>

\* The plan evaluate_sampled_plans builds: upstream patches, then its own.
BuiltPlan(sample) == sample.upstream \o PatchOf(sample)

\* Fault: the parent is recorded by its index instead of its sample_id.
FaultyNewSample(tree, base, gen, src) ==
  [parent |-> base,
   upstream |-> UpstreamPatches(tree, base),
   upMetric |-> UpstreamMetric(tree, base),
   gen |-> gen, src |-> src,
   valid |-> gen # "failed", metric |-> 0]

\* Fault: the upstream patches of the base plan are lost.
ForgetfulNewSample(tree, base, gen, src) ==
  [parent |-> tree[base].id,
   upstream |-> << >>,
   upMetric |-> UpstreamMetric(tree, base),
   gen |-> gen, src |-> src,
   valid |-> gen # "failed", metric |-> 0]

\* One entry of sampled_plans.json, before evaluation.
NewSample(tree, base, gen, src) ==
  [parent |-> tree[base].id,
   upstream |-> UpstreamPatches(tree, base),
   upMetric |-> UpstreamMetric(tree, base),
   gen |-> gen, src |-> src,
   valid |-> gen # "failed", metric |-> 0]

\* The verdict evaluate_sampled_plans writes into the entry; "timed" is the
\* metric of the benchmark, 0 when validation or evaluation failed.
Evaluated(sample, timed) ==
  CASE sample.gen = "failed" -> [sample EXCEPT !.valid = FALSE, !.metric = 0]
    [] sample.gen = "empty" ->
         [sample EXCEPT !.valid = TRUE, !.metric = sample.upMetric]
    [] OTHER -> [sample EXCEPT !.valid = timed # 0, !.metric = timed]

\* Fault: the highest id is handed out again.
FaultyNewSampleId(tree) == Max(Ids(tree))

NewSampleId(tree) == Max(Ids(tree)) + 1

NodeOf(sample, id) ==
  [id |-> id, parent |-> sample.parent, isLast |-> TRUE, isLeaf |-> TRUE,
   patch |-> PatchOf(sample), valid |-> sample.valid,
   metric |-> sample.metric, built |-> BuiltPlan(sample), src |-> sample.src]

Parents(samples) == {samples[i].parent : i \in DOMAIN samples}

\* Fault: a root that gets children stays a leaf, as its id is None.
FaultyAged(node, samples) ==
  [node EXCEPT !.isLast = @ /\ samples = << >>,
               !.isLeaf = @ /\ (node.id = 0 \/ node.id \notin Parents(samples))]

\* Fault: is_last is never cleared.
StickyAged(node, samples) ==
  [node EXCEPT !.isLeaf = @ /\ node.id \notin Parents(samples)]

\* The flags an old node keeps when the samples are added.
Aged(node, samples) ==
  [node EXCEPT !.isLast = @ /\ samples = << >>,
               !.isLeaf = @ /\ node.id \notin Parents(samples)]

\* accumulate_samples, for one query.
AccumulateSamples(tree, samples) ==
  [i \in 1 .. Len(tree) |-> Aged(tree[i], samples)]
    \o [i \in 1 .. Len(samples) |->
          NodeOf(samples[i], NewSampleId(tree) + i - 1)]
=============================================================================
