-------------------------- MODULE MCEvaluateSamples --------------------------
(* Symmetry for model checking the safety of EvaluateSamples. *)
EXTENDS EvaluateSamples, TLC

\* Samples and result sets are only compared for equality.
MCSymmetry == Permutations(Samples) \cup Permutations(ResultData)
=============================================================================
