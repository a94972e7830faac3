------------------------------ MODULE MCPlanApi ------------------------------
EXTENDS PlanApi

F == Label("filter", "input")
R == Label("repartition", "input")
J == Label("join", "sides")
U == Label("union", "inputs")

\* L reads another part of what A reads, and their signatures are the same.
Scan(columns, reads) == [Label(columns, "scan") EXCEPT !.reads = reads]
A == Scan("l_columns", "lineitem")
L == Scan("l_columns", "lineitem, limit")
B == Scan("o_columns", "orders")

\* Plans as the engine visits them: the positions of the children are given.
N(label, kids) == [label |-> label, kids |-> kids]
Leaf(label) == N(label, << >>)

FJAB  == <<N(F, <<2>>), N(J, <<3, 4>>), Leaf(A), Leaf(B)>>
FJRAB == <<N(F, <<2>>), N(J, <<3, 5>>), N(R, <<4>>), Leaf(A), Leaf(B)>>
FJRBA == <<N(F, <<2>>), N(J, <<3, 5>>), N(R, <<4>>), Leaf(B), Leaf(A)>>
JAB   == <<N(J, <<2, 3>>), Leaf(A), Leaf(B)>>
JARA  == <<N(J, <<2, 3>>), Leaf(A), N(R, <<4>>), Leaf(A)>>
UABA  == <<N(U, <<2, 3, 4>>), Leaf(A), Leaf(B), Leaf(A)>>
UAB   == <<N(U, <<2, 3>>), Leaf(A), Leaf(B)>>
JAL   == <<N(J, <<2, 3>>), Leaf(A), Leaf(L)>>
FJAL  == <<N(F, <<2>>), N(J, <<3, 4>>), Leaf(A), Leaf(L)>>
JRLA  == <<N(J, <<2, 4>>), N(R, <<3>>), Leaf(L), Leaf(A)>>

\* Operations on nodes.
Node(label, refs) == [label |-> label, refs |-> refs]
Operation(op, id, from, node) == [op |-> op, id |-> id, from |-> from, node |-> node]
AddOp(id, node) == Operation("add", id, id, node)
ReplaceOp(id, node) == Operation("replace", id, id, node)
RemoveOp(id) == Operation("remove", id, id, Node(F, << >>))
MoveOp(from, id) == Operation("move", id, from, Node(F, << >>))
CopyOp(from, id) == Operation("copy", id, from, Node(F, << >>))
TestOp(id, node) == Operation("test", id, id, node)

Query(source, target, patches) ==
  [source |-> source, target |-> target, patches |-> patches]

\* Patches of FJRAB, whose join is node 1 over 2 and 4.
Swap     == Patch(<<TestOp(1, Node(J, <<2, 4>>)), ReplaceOp(1, Node(J, <<4, 2>>))>>)
Unfilter == Patch(<<RemoveOp(0)>>)
Twice    == Patch(<<CopyOp(2, 12), ReplaceOp(12, Node(R, <<4>>)),
                    ReplaceOp(1, Node(J, <<2, 12>>))>>)
Moved    == Patch(<<MoveOp(2, 11), ReplaceOp(1, Node(J, <<11, 4>>))>>)
Embedded == Patch(<<AddOp(6, Node([A EXCEPT !.keys = "compacted"], << >>)),
                    ReplaceOp(2, Node(R, <<6>>))>>)
BadPath  == Patch(<<RemoveOp(77)>>)
Stale    == Patch(<<TestOp(1, Node(J, <<4, 2>>))>>)
Circle   == Patch(<<ReplaceOp(2, Node(R, <<1>>))>>)
Orphan   == Patch(<<ReplaceOp(1, Node(J, <<3, 4>>))>>)
Dangling == Patch(<<ReplaceOp(2, Node(R, <<50>>))>>)

\* Patches that make a plan of the same shape again, for any source plan: sides
\* swapped, a node put above a child, a node taken out, a scan read directly, as
\* it is in the full_table_info or in the succinct_table_info.
Structure(visited) == ToSuccinct(visited).structure

WithRef(node, k, id) == [node EXCEPT !.refs[k] = id]

Swaps(nodes) ==
  {Patch(<<ReplaceOp(n, [nodes[n] EXCEPT !.refs = Reverse(@)])>>) :
     n \in {n \in DOMAIN nodes : Len(nodes[n].refs) = 2}}

Inserts(nodes, new) ==
  UNION {{Patch(<<AddOp(new, Node(R, <<nodes[n].refs[k]>>)),
                  ReplaceOp(n, WithRef(nodes[n], k, new))>>) :
            k \in DOMAIN nodes[n].refs} : n \in DOMAIN nodes}

Bypasses(nodes) ==
  UNION {UNION {{Patch(<<ReplaceOp(n, WithRef(nodes[n], k, nodes[nodes[n].refs[k]].refs[1])),
                         RemoveOp(nodes[n].refs[k])>>) :
                   k \in {k \in DOMAIN nodes[n].refs :
                            /\ nodes[n].refs[k] \in DOMAIN nodes
                            /\ Len(nodes[nodes[n].refs[k]].refs) = 1}} : n \in DOMAIN nodes}}

Embeds(visited, new) ==
  LET plan == ToSuccinct(visited)
  IN  UNION {UNION {{Patch(<<AddOp(new, Node(tables[plan.structure[n].refs[k]], << >>)),
                             ReplaceOp(n, WithRef(plan.structure[n], k, new))>>) :
                       k \in {k \in DOMAIN plan.structure[n].refs :
                                plan.structure[n].refs[k] \in DOMAIN tables}} :
                    n \in DOMAIN plan.structure} :
             tables \in {plan.tables, Compacted(plan.tables)}}

Reshaped(visited) ==
  Swaps(Structure(visited)) \cup Inserts(Structure(visited), 5)
    \cup Inserts(Structure(visited), 12) \cup Bypasses(Structure(visited))
    \cup Embeds(AtScale(visited, SourceScale), 6)

Shapes == {FJAB, FJRAB, FJRBA, JAB, JARA, UABA, UAB, JAL, FJAL, JRLA, <<Leaf(A)>>}

Input(call, skip, queries) == [call |-> call, queries |-> queries, skip |-> skip]

\* Every shape scaled to every shape with every patch, unvalidated.
WideInputs ==
  UNION {{Input("scale", TRUE, <<Query(s, t, <<p>>)>>) : p \in Reshaped(s), t \in Shapes} :
         s \in Shapes}

\* Patches that fail in every way, with validation.
FailingInputs ==
  {Input("scale", FALSE, <<Query(FJRAB, t, <<p, q>>)>>) :
     t \in {JAB, FJRBA},
     p \in {Swap, NoPatch, Embedded, Twice, Stale},
     q \in {Moved, Unfilter, Circle, BadPath, Dangling, Orphan}}

\* Several queries at once.
MixedQueries ==
  {<<Query(FJRAB, JAB, <<Swap, NoPatch>>), Query(<<Leaf(A)>>, UABA, <<Patch(<< >>)>>)>>,
   <<Query(UAB, UAB, <<NoPatch>>), Query(JAB, FJAB, <<Patch(<< >>), BadPath>>)>>}

MCInputs ==
  WideInputs \cup FailingInputs
    \cup {Input(c, skip, q) : c \in {"scale", "queries", "validate"}, skip \in BOOLEAN,
                              q \in MixedQueries}
    \cup {Input(c, FALSE, <<Query(UAB, t, << >>), Query(UAB, u, << >>), Query(UAB, JAB, << >>)>>) :
            c \in {"queries", "validate"}, t \in Shapes, u \in {UAB, FJRAB}}
=============================================================================
