----------------------------- MODULE PlanTransfer -----------------------------
(***************************************************************************)
(* plan_scaler.py: an optimised plan of one data set becomes a plan of     *)
(* another.  The patch is applied to the source plan, scans are matched by *)
(* a signature that shows a part of what they read, nodes are renumbered   *)
(* around the target's scans, and every reference follows.                 *)
(*                                                                         *)
(* A patch is a sequence of operations on whole nodes; an operation on a   *)
(* field of a node is the "replace" of that node.  What may raise gives    *)
(* [ok, val].                                                              *)
(***************************************************************************)
EXTENDS PlanFormat

Ok(val) == [ok |-> TRUE, val |-> val]
Raised == [ok |-> FALSE, val |-> << >>]

Without(f, key) == [k \in DOMAIN f \ {key} |-> f[k]]
With(f, key, val) == [k \in DOMAIN f \cup {key} |-> IF k = key THEN val ELSE f[k]]

\* One operation of _apply_json_patch, on the nodes an earlier one left.  "add"
\* writes over what is there; the others need the path they name.
ApplyOperation(nodes, o) ==
  CASE o.op = "add" -> Ok(With(nodes, o.id, o.node))
    [] o.op = "replace" /\ o.id \in DOMAIN nodes -> Ok(With(nodes, o.id, o.node))
    [] o.op = "remove" /\ o.id \in DOMAIN nodes -> Ok(Without(nodes, o.id))
    [] o.op = "copy" /\ o.from \in DOMAIN nodes ->
         Ok(With(nodes, o.id, nodes[o.from]))
    [] o.op = "move" /\ o.from \in DOMAIN nodes ->
         Ok(With(Without(nodes, o.from), o.id, nodes[o.from]))
    [] o.op = "test" /\ o.id \in DOMAIN nodes /\ nodes[o.id] = o.node -> Ok(nodes)
    [] OTHER -> Raised

ApplyPatch(nodes, ops) ==
  FoldLeft(LAMBDA r, o : IF r.ok THEN ApplyOperation(r.val, o) ELSE r, Ok(nodes), ops)

\* What is in a patch: nodes, and the ids they are put at.
IsPatch(ops) ==
  /\ Len(ops) \in Nat /\ DOMAIN ops = 1 .. Len(ops)
  /\ \A k \in DOMAIN ops : ops[k].id \in Nat /\ ops[k].node \in [label : Labels, refs : Seq(Nat)]

-----------------------------------------------------------------------------
\* _scan_normalized_signature: the columns, projection, constraints and predicate,
\* the columns in the form they are written in.  The files, and with them the
\* table, the statistics, the limit and the ordering are left out.
Signature(label) == <<label.op, label.keys>>

SameSignature(scans, label) ==
  {id \in DOMAIN scans : Signature(scans[id]) = Signature(label)}

RankIn(ids, id) == Cardinality({x \in ids : x < id})

Ascending(ids) == [k \in 1 .. Cardinality(ids) |-> CHOOSE x \in ids : RankIn(ids, x) = k - 1]

\* There are at least as many scans of each signature in "to" as in "from".
CanPair(from, to) ==
  \A id \in DOMAIN from :
    Cardinality(SameSignature(from, from[id])) <= Cardinality(SameSignature(to, from[id]))

\* _build_scan_id_mapping: scans of one signature are paired in the order of
\* their ids, whatever else they read.
PairScans(from, to) ==
  [id \in DOMAIN from |->
     CHOOSE t \in SameSignature(to, from[id]) :
       RankIn(SameSignature(to, from[id]), t)
         = RankIn(SameSignature(from, from[id]), id)]

\* What pairing by rank relies on and nothing checks: the k-th scan of a signature
\* in the one plan reads what the k-th of that signature reads in the other.
ReadsInOrder(from, to) ==
  \A id \in DOMAIN from, t \in DOMAIN to :
    /\ Signature(to[t]) = Signature(from[id])
    /\ RankIn(SameSignature(to, to[t]), t) = RankIn(SameSignature(from, from[id]), id)
    => to[t].reads = from[id].reads

\* _rebind_parquet_scans_in_structure: a scan a patch has put among the nodes
\* becomes the compacted scan of the other data set that it is paired with.  (The
\* predicate that is kept is the same, being in the signature.)
EmbeddedScans(nodes) ==
  LET ids == {id \in DOMAIN nodes : IsScan(nodes[id].label)}
  IN  [id \in ids |-> nodes[id].label]

RebindScans(nodes, tables) ==
  LET scans == EmbeddedScans(nodes)
      pairs == PairScans(scans, tables)
  IN  [id \in DOMAIN nodes |->
         IF id \in DOMAIN scans
         THEN [nodes[id] EXCEPT !.label = tables[pairs[id]]]
         ELSE nodes[id]]

-----------------------------------------------------------------------------
References(nodes) == UNION {Range(nodes[id].refs) : id \in DOMAIN nodes}

\* _find_roots, in the order of their ids; the first node if all are referenced.
FindRoots(nodes) ==
  LET roots == DOMAIN nodes \ References(nodes)
  IN  IF roots # {} \/ nodes = << >> THEN Ascending(roots)
      ELSE <<Min(DOMAIN nodes)>>

\* _topo_order_from_roots: depth first from the roots and then from every node,
\* a node after its children.
TopoOrder(nodes) ==
  LET dfs[acc \in [visited : SUBSET DOMAIN nodes, order : Seq(DOMAIN nodes)]] ==
        [id \in Nat |->
           IF id \notin DOMAIN nodes \ acc.visited THEN acc
           ELSE LET entered == [acc EXCEPT !.visited = @ \cup {id}]
                    left == FoldLeft(LAMBDA a, c : dfs[a][c], entered, nodes[id].refs)
                IN  [left EXCEPT !.order = Append(@, id)]]
      starts == FindRoots(nodes) \o Ascending(DOMAIN nodes)
  IN  FoldLeft(LAMBDA a, id : dfs[a][id], [visited |-> {}, order |-> << >>],
               starts).order

\* next_free(0)
NextFree(used) == Min((0 .. Cardinality(used)) \ used)

\* Fault: only ids of nodes count as used.
FaultyNewId(id, used, reserved) ==
  IF id \notin used THEN id ELSE NextFree(used \ reserved)

\* A node keeps its id if nothing has it, or takes the lowest free one.
NewId(id, used, reserved) == IF id \notin used THEN id ELSE NextFree(used)

\* _assign_new_node_ids, in the order of the traversal
AssignNewNodeIds(nodes, reserved) ==
  FoldLeft(LAMBDA map, id :
             With(map, id, NewId(id, reserved \cup Range(map), reserved)),
           << >>, TopoOrder(nodes))

\* Fault: only references to scans are followed.
FaultyMapRef(ref, idMap, scanMap) ==
  IF ref \in DOMAIN scanMap THEN scanMap[ref] ELSE ref

\* map_ref: the node of that id, or else the scan of that id, or as it is
MapRef(ref, idMap, scanMap) ==
  IF ref \in DOMAIN idMap THEN idMap[ref]
  ELSE IF ref \in DOMAIN scanMap THEN scanMap[ref]
  ELSE ref

\* _rewrite_plan_references
RewriteReferences(nodes, idMap, scanMap) ==
  [new \in Range(idMap) |->
     LET node == nodes[CHOOSE old \in DOMAIN idMap : idMap[old] = new]
     IN  [node EXCEPT !.refs =
            [k \in DOMAIN node.refs |-> MapRef(node.refs[k], idMap, scanMap)]]]

\* transfer_plan: "from" and "to" are succinct plans, what comes out is the
\* structure of the patched plan for the data set of "to".  All it is given of
\* scans is the succinct_table_info.
TransferPlan(from, to, ops) ==
  LET patched == ApplyPatch(from.structure, ops)
      scans == Compacted(from.tables)
      targets == Compacted(to.tables)
  IN  IF \/ ~patched.ok
         \/ ~CanPair(scans, targets)
         \/ ~CanPair(EmbeddedScans(patched.val), targets)
      THEN Raised
      ELSE LET rebound == RebindScans(patched.val, targets)
               new == RewriteReferences(
                        rebound,
                        AssignNewNodeIds(rebound, DOMAIN targets),
                        PairScans(scans, targets))
           IN  IF References(new) \subseteq DOMAIN new \cup DOMAIN targets
               THEN Ok(new) ELSE Raised
=============================================================================
