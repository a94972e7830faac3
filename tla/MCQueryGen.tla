------------------------------ MODULE MCQueryGen ------------------------------
(* Configurations for model checking QueryGen. *)
EXTENDS QueryGen

\* Even and uneven targets: 1 + 1 of two queries, 1 + 2 of three.
MCConfigs == {[weights |-> <<1, 1>>, n |-> 2], [weights |-> <<1, 2>>, n |-> 3]}
MCLevels == {1, 2}
=============================================================================
