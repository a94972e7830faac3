------------------------------ MODULE PlanFormat ------------------------------
(***************************************************************************)
(* The exchange format of physical plans (physical_plan.rs): a plan of the *)
(* engine is flattened to numbered nodes, and a possibly edited set of     *)
(* numbered nodes is built into a plan again.                              *)
(*                                                                         *)
(* A label is what a node is apart from its children:                      *)
(*   op     the operator and its details; for a scan the columns of its    *)
(*          schema, its projection, constraints and predicate              *)
(*   reads  what else a scan is asked to read: the table its files are of, *)
(*          the limit and the ordering; "" for other nodes                 *)
(*   keys   the fields its children are in: "input", "sides" (left,        *)
(*          right), "inputs", "none"; for a parquet scan "scan", or        *)
(*          "compacted" for the short form of one                          *)
(*   sf     the data set a scan reads, its files and statistics; 0 for     *)
(*          other nodes                                                    *)
(* A succinct plan is [structure |-> id :> [label, refs], tables |-> id :> *)
(* label]: the numbered nodes, and the scans kept apart from them, which   *)
(* are the full_table_info; Compacted(tables) is the succinct_table_info.  *)
(***************************************************************************)
EXTENDS Naturals, SequencesExt, FiniteSetsExt

Label(op, keys) == [op |-> op, reads |-> "", keys |-> keys, sf |-> 0]
Labels == [op : STRING, reads : STRING, keys : STRING, sf : Nat]

IsScan(label) == label.keys \in {"scan", "compacted"}

\* compact_parquet_scan_stats: scans without their options and with columns and
\* statistics in a form of the program's own.
Compacted(tables) == [id \in DOMAIN tables |-> [tables[id] EXCEPT !.keys = "compacted"]]

\* populate_child_ids: the children of a node are written by their number, into
\* the fields the node has for that number of children, or nowhere.
PopulateChildIds(keys, ids) ==
  IF \/ keys = "input" /\ Len(ids) = 1
     \/ keys = "sides" /\ Len(ids) = 2
     \/ keys = "inputs" /\ Len(ids) >= 3
  THEN ids ELSE << >>

\* A plan of the engine is the sequence of its nodes as plan.apply visits them,
\* each with its label and the positions of its children.  A node's id is the
\* number of nodes visited before it.
ToSuccinct(visited) ==
  LET scans == {i \in DOMAIN visited : IsScan(visited[i].label)}
      idOf(i) == i - 1
      childIds(i) == [k \in DOMAIN visited[i].kids |-> idOf(visited[i].kids[k])]
  IN  [structure |->
         [id \in {idOf(i) : i \in DOMAIN visited \ scans} |->
            LET label == visited[id + 1].label
            IN  [label |-> label,
                 refs |-> PopulateChildIds(label.keys, childIds(id + 1))]],
       tables |-> [id \in {idOf(i) : i \in scans} |-> visited[id + 1].label]]

\* What the engine's operators have for children.
HasKids(keys, n) ==
  \/ keys \in {"none", "scan"} /\ n = 0
  \/ keys = "input" /\ n = 1
  \/ keys = "sides" /\ n = 2
  \/ keys = "inputs" /\ n >= 2

\* plan.apply visits the root, and every other node after one it is a child of.
IsVisit(visited) ==
  /\ Len(visited) \in Nat \ {0} /\ DOMAIN visited = 1 .. Len(visited)
  /\ \A i \in DOMAIN visited :
       /\ visited[i].kids \in Seq(i + 1 .. Len(visited))
       /\ HasKids(visited[i].label.keys, Len(visited[i].kids))
       /\ i > 1 => \E p \in 1 .. i - 1 : i \in Range(visited[p].kids)

\* The same plan as a tree: a tree is the tuple of its label and its subtrees.
TreeOf(visited) ==
  LET tree[i \in DOMAIN visited] ==
        <<visited[i].label>> \o
          [k \in DOMAIN visited[i].kids |-> tree[visited[i].kids[k]]]
  IN  tree[1]

-----------------------------------------------------------------------------
Ids(plan) == DOMAIN plan.structure \cup DOMAIN plan.tables

\* extract_child_ids and children_map: a scan has no children, and a scan entry
\* takes the place of a structure node of the same id.
ChildIds(plan, id) ==
  IF id \in DOMAIN plan.tables THEN << >> ELSE plan.structure[id].refs

\* validate_execution_plan_graph: no node reaches itself.  A node is grounded
\* at n if every path down from it has at most n steps; an id that names no node
\* ends its path.
IsAcyclic(plan) ==
  LET grounded[n \in Nat] ==
        LET below == IF n = 0 THEN {} ELSE grounded[n - 1]
        IN  {id \in Ids(plan) : Range(ChildIds(plan, id)) \cap Ids(plan) \subseteq below}
  IN  grounded[Cardinality(Ids(plan))] = Ids(plan)

\* The nodes nothing refers to.
Roots(plan) ==
  Ids(plan) \ UNION {Range(ChildIds(plan, id)) : id \in Ids(plan)}

\* The order of ids below 100 as strings, which is that of the structure's keys
\* ("10" is between "1" and "2").
StringRank(id) ==
  IF id < 10 THEN 11 * id ELSE (11 * (id \div 10)) + (id % 10) + 1

\* The first node, structure before scans, that is nobody's child.
RootId(plan) ==
  LET inner == Roots(plan) \cap DOMAIN plan.structure
  IN  IF inner # {}
      THEN CHOOSE r \in inner : \A o \in inner : StringRank(r) <= StringRank(o)
      ELSE Min(Roots(plan))

\* What the engine's own deserialization makes of a number of children.
Accepts(keys, n) ==
  CASE keys \in {"none", "scan"} -> n = 0
    [] keys = "input"  -> n = 1
    [] keys = "sides"  -> n = 2
    [] keys = "inputs" -> n >= 3   \* two are put back as "left" and "right"
    [] keys = "compacted" -> FALSE \* not the form the engine writes scans in

Unbuildable == << >>

\* build_execution_plan_tree below the root.
BuildTree(plan) ==
  LET build[id \in Nat] ==
        IF id \in DOMAIN plan.tables THEN <<plan.tables[id]>>
        ELSE IF id \notin DOMAIN plan.structure THEN Unbuildable
        ELSE LET node == plan.structure[id]
                 kids == [k \in DOMAIN node.refs |-> build[node.refs[k]]]
             IN  IF Accepts(node.label.keys, Len(kids)) /\ Unbuildable \notin Range(kids)
                 THEN <<node.label>> \o kids
                 ELSE Unbuildable
  IN  build[RootId(plan)]

\* execution_plan_from_succinct_json
FromSuccinct(plan) ==
  IF IsAcyclic(plan) /\ Roots(plan) # {} THEN BuildTree(plan) ELSE Unbuildable
=============================================================================
