---------------------------- MODULE MCSamplingRun ----------------------------
(* Bounds and values for model checking SamplingRun. *)
EXTENDS SamplingRun

\* A base plan of metric 2 can be beaten (1) or not (3).
MCBaseMetric == 2
MCMetrics == {1, 3}
=============================================================================
