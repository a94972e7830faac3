---------------------------- MODULE ExperimentLog ----------------------------
(***************************************************************************)
(* What a run directory of optimize_queries promises for one query: steps  *)
(* are appended to a log in order, each exactly once, and every answer     *)
(* that is published is the best measurement among the base plan and all   *)
(* the steps logged so far.                                                *)
(***************************************************************************)
EXTENDS Naturals, Sequences, FiniteSetsExt

CONSTANTS BaseMetric, Metrics

VARIABLES
  log,     \* per step: its number, and its best metric (0: nothing valid)
  answer   \* the metric of the best patch published, 0 before the first

logVars == <<log, answer>>

LogInit == log = << >> /\ answer = 0

Extend ==
  \E best \in Metrics \cup {0, BaseMetric} :
    /\ log' = Append(log, [step |-> Len(log) + 1, best |-> best])
    /\ UNCHANGED answer

BestOf(entries) ==
  Min({BaseMetric} \cup ({entries[i].best : i \in DOMAIN entries} \ {0}))

Publish == answer' = BestOf(log) /\ UNCHANGED log

LogSpec == LogInit /\ [][Extend \/ Publish]_logVars
=============================================================================
