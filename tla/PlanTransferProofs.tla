-------------------------- MODULE PlanTransferProofs --------------------------
(***************************************************************************)
(* Proofs about the exchange format and the transfer of plans, for plans   *)
(* and patches of any size: scans are paired one to one; the renumbering   *)
(* visits every node once and gives it a number of its own, none of a      *)
(* scan; a node keeps its content; a plan of the engine comes back from    *)
(* the exchange format as it was, or not at all; and a plan with other     *)
(* numbers, among more scans, is rebuilt as the same plan.                 *)
(*                                                                         *)
(* The recursive functions of the model (the depth-first search, the       *)
(* levels of the circle check, the building of the tree) are first shown   *)
(* to exist: what their CHOOSE is of is known only then.                   *)
(***************************************************************************)
EXTENDS PlanTransfer, CountingProofs, SequenceTheorems

-----------------------------------------------------------------------------
(* Ranks. *)

\* The only element of a set below which there are as many as below another is
\* that element: positions tell the elements of a set of numbers apart.
LEMMA RankIsInjective ==
  ASSUME NEW S \in SUBSET Nat, IsFiniteSet(S), NEW x \in S, NEW y \in S,
         RankIn(S, x) = RankIn(S, y)
  PROVE  x = y
<1>1. ASSUME NEW a \in S, NEW b \in S, a < b
      PROVE  RankIn(S, a) # RankIn(S, b)
  <2> DEFINE A == {z \in S : z < a}
             B == {z \in S : z < b}
  <2>1. B \in SUBSET S
    OBVIOUS
  <2>2. IsFiniteSet(B)
    BY <2>1, FS_Subset
  <2>3. A \in SUBSET B
    <3>1. \A z \in S : z < a => z < b
      <4> TAKE z \in S
      <4>1. z \in Nat /\ a \in Nat /\ b \in Nat
        OBVIOUS
      <4> QED BY <1>1, <4>1
    <3> QED BY <3>1
  <2>4. a \in B /\ a \notin A
    BY <1>1
  <2> HIDE DEF A, B
  <2>5. Cardinality(A) # Cardinality(B)
    BY <2>2, <2>3, <2>4, FS_Subset
  <2> QED BY <2>5 DEF RankIn, A, B
<1>2. x < y \/ y < x \/ x = y
  OBVIOUS
<1> QED BY <1>1, <1>2

LEMMA AscendingPicks ==
  ASSUME NEW S, NEW k \in 1 .. Cardinality(S), NEW x \in S, RankIn(S, x) = k - 1
  PROVE  Ascending(S)[k] \in S /\ RankIn(S, Ascending(S)[k]) = k - 1
<1>1. Ascending(S)[k] = CHOOSE y \in S : RankIn(S, y) = k - 1
  BY DEF Ascending
<1> QED BY <1>1

LEMMA AscendingAtRank ==
  ASSUME NEW S \in SUBSET Nat, IsFiniteSet(S), NEW x \in S
  PROVE  /\ RankIn(S, x) + 1 \in 1 .. Cardinality(S)
         /\ Ascending(S)[RankIn(S, x) + 1] = x
<1> DEFINE B == {z \in S : z < x}
<1>1. B \in SUBSET S /\ x \notin B /\ B # S
  OBVIOUS
<1> HIDE DEF B
<1>2. /\ Cardinality(B) <= Cardinality(S) /\ Cardinality(B) # Cardinality(S)
      /\ IsFiniteSet(B)
  BY <1>1, FS_Subset
<1>3. Cardinality(B) \in Nat /\ Cardinality(S) \in Nat
  BY <1>2, FS_CardinalityType
<1>4. RankIn(S, x) = Cardinality(B)
  BY DEF RankIn, B
<1>5. RankIn(S, x) + 1 \in 1 .. Cardinality(S)
  BY <1>2, <1>3, <1>4
<1>6. RankIn(S, x) = (RankIn(S, x) + 1) - 1
  BY <1>3, <1>4
<1>7. Ascending(S)[RankIn(S, x) + 1] \in S
        /\ RankIn(S, Ascending(S)[RankIn(S, x) + 1]) = RankIn(S, x)
  BY <1>5, <1>6, AscendingPicks
<1>8. \A y \in S : RankIn(S, y) = RankIn(S, x) => y = x
  BY RankIsInjective
<1> QED BY <1>5, <1>7, <1>8

\* The numbers of elements below the elements of a set of n numbers are all the
\* numbers below n.
LEMMA RankIsOnto ==
  ASSUME NEW S \in SUBSET Nat, IsFiniteSet(S), NEW k \in Nat, k < Cardinality(S)
  PROVE  \E x \in S : RankIn(S, x) = k
<1> DEFINE n == Cardinality(S)
           rank == [x \in S |-> RankIn(S, x)]
           R == Range(rank)
<1>1. n \in Nat
  BY FS_CardinalityType
<1>2. \A x \in S : RankIn(S, x) + 1 \in 1 .. n
  BY AscendingAtRank
<1>3. \A x \in S : RankIn(S, x) \in 0 .. n - 1
  <2> TAKE x \in S
  <2>1. IsFiniteSet({z \in S : z < x})
    BY FS_Subset
  <2>2. RankIn(S, x) \in Nat
    BY <2>1, FS_CardinalityType DEF RankIn
  <2>3. RankIn(S, x) + 1 \in 1 .. n
    BY <1>2
  <2> HIDE DEF n
  <2> QED BY <1>1, <2>2, <2>3
<1>4. rank \in Surjection(S, R) /\ rank \in Injection(S, R)
  <2>1. rank \in [S -> R] /\ \A y \in R : \E x \in S : rank[x] = y
    BY DEF Range
  <2>2. \A x, y \in S : rank[x] = rank[y] => x = y
    BY RankIsInjective
  <2> HIDE DEF rank, R
  <2> QED BY <2>1, <2>2 DEF Surjection, Injection, IsInjective
<1>5. IsFiniteSet(R) /\ Cardinality(R) = n
  <2> HIDE DEF rank, R
  <2> QED BY <1>4, FS_Surjection
<1>6. R \in SUBSET (0 .. n - 1)
  BY <1>3 DEF Range
<1>7. IsFiniteSet(0 .. n - 1) /\ Cardinality(0 .. n - 1) = n
  <2> HIDE DEF n
  <2>1. n - 1 \in Int /\ 0 \in Int
    BY <1>1
  <2>2. IsFiniteSet(0 .. n - 1)
          /\ Cardinality(0 .. n - 1) = IF 0 > n - 1 THEN 0 ELSE (n - 1) - 0 + 1
    BY <2>1, FS_Interval
  <2> QED BY <1>1, <2>2
<1>8. R = 0 .. n - 1
  <2> HIDE DEF n, R
  <2> QED BY <1>5, <1>6, <1>7, FS_Subset
<1>9. k \in R
  <2> HIDE DEF R
  <2> QED BY <1>1, <1>8
<1> QED BY <1>9 DEF Range

-----------------------------------------------------------------------------
(* Scans. *)

\* If the scans of one plan can be paired with those of another, each is paired
\* with one of the same signature and of the same place among those that have it,
\* and no two with the same one.  Where these places tell what a scan reads, which
\* the signature does not, it is paired with one that reads the same.
THEOREM ScansPairOneToOne ==
  ASSUME NEW from, NEW to,
         DOMAIN from \in SUBSET Nat, IsFiniteSet(DOMAIN from),
         DOMAIN to \in SUBSET Nat, IsFiniteSet(DOMAIN to),
         CanPair(from, to)
  PROVE  LET pairs == PairScans(from, to)
         IN  /\ \A id \in DOMAIN from :
                  /\ pairs[id] \in DOMAIN to
                  /\ Signature(to[pairs[id]]) = Signature(from[id])
                  /\ RankIn(SameSignature(to, from[id]), pairs[id])
                       = RankIn(SameSignature(from, from[id]), id)
                  /\ ReadsInOrder(from, to) => to[pairs[id]].reads = from[id].reads
             /\ \A a, b \in DOMAIN from : pairs[a] = pairs[b] => a = b
<1> DEFINE F(id) == SameSignature(from, from[id])
           T(id) == SameSignature(to, from[id])
           pairs == PairScans(from, to)
<1>1. \A id \in DOMAIN from :
        /\ F(id) \in SUBSET Nat /\ IsFiniteSet(F(id)) /\ id \in F(id)
        /\ T(id) \in SUBSET Nat /\ IsFiniteSet(T(id))
        /\ Cardinality(F(id)) <= Cardinality(T(id))
  <2> TAKE id \in DOMAIN from
  <2>1. F(id) \in SUBSET DOMAIN from /\ id \in F(id) /\ T(id) \in SUBSET DOMAIN to
    BY DEF SameSignature
  <2>2. Cardinality(F(id)) <= Cardinality(T(id))
    BY DEF CanPair
  <2> HIDE DEF F, T
  <2> QED BY <2>1, <2>2, FS_Subset
<1>2. ASSUME NEW id \in DOMAIN from
      PROVE  /\ pairs[id] \in T(id)
             /\ RankIn(T(id), pairs[id]) = RankIn(F(id), id)
  <2> DEFINE k == RankIn(F(id), id)
             U == T(id)
  <2>1. k + 1 \in 1 .. Cardinality(F(id))
    BY <1>1, AscendingAtRank
  <2>2. k \in Nat
    <3>1. IsFiniteSet({z \in F(id) : z < id})
      <4> HIDE DEF F
      <4> QED BY <1>1, FS_Subset
    <3> QED BY <3>1, FS_CardinalityType DEF RankIn
  <2>3. Cardinality(F(id)) \in Nat /\ Cardinality(U) \in Nat
    <3> HIDE DEF F, U
    <3> QED BY <1>1, FS_CardinalityType DEF U
  <2>4. U \in SUBSET Nat /\ IsFiniteSet(U) /\ Cardinality(F(id)) <= Cardinality(U)
    BY <1>1
  <2>5. pairs[id] = CHOOSE t \in U : RankIn(U, t) = k
    BY DEF PairScans
  <2> HIDE DEF k, U, F
  <2>6. k < Cardinality(U)
    BY <2>1, <2>2, <2>3, <2>4
  <2>7. \E t \in U : RankIn(U, t) = k
    BY <2>2, <2>4, <2>6, RankIsOnto
  <2>8. pairs[id] \in U /\ RankIn(U, pairs[id]) = k
    <3> HIDE DEF pairs
    <3> QED BY <2>5, <2>7
  <2> QED BY <2>8 DEF U, k
<1>3. \A id \in DOMAIN from :
        pairs[id] \in DOMAIN to /\ Signature(to[pairs[id]]) = Signature(from[id])
  BY <1>2 DEF SameSignature
<1>4. ASSUME NEW a \in DOMAIN from, NEW b \in DOMAIN from, pairs[a] = pairs[b]
      PROVE  a = b
  <2>1. Signature(from[a]) = Signature(from[b])
    BY <1>3, <1>4
  <2>2. F(a) = F(b) /\ T(a) = T(b)
    BY <2>1 DEF SameSignature
  <2>3. RankIn(F(a), a) = RankIn(F(a), b)
    <3> HIDE DEF F, T, pairs
    <3> QED BY <1>2, <1>4, <2>2
  <2>4. F(a) \in SUBSET Nat /\ IsFiniteSet(F(a)) /\ a \in F(a) /\ b \in F(a)
    <3> HIDE DEF F
    <3> QED BY <1>1, <2>2
  <2> HIDE DEF F
  <2> QED BY <2>3, <2>4, RankIsInjective
<1>5. ASSUME NEW id \in DOMAIN from, ReadsInOrder(from, to)
      PROVE  to[pairs[id]].reads = from[id].reads
  <2> DEFINE t == pairs[id]
  <2>1. t \in DOMAIN to /\ Signature(to[t]) = Signature(from[id])
    BY <1>3
  <2>2. SameSignature(to, to[t]) = T(id)
    BY <2>1 DEF SameSignature
  <2>3. RankIn(SameSignature(to, to[t]), t) = RankIn(F(id), id)
    <3> HIDE DEF F, T, pairs
    <3> QED BY <1>2, <2>2
  <2> HIDE DEF t
  <2>4. to[t].reads = from[id].reads
    BY <1>5, <2>1, <2>3 DEF ReadsInOrder
  <2> QED BY <2>4 DEF t
<1> QED BY <1>2, <1>3, <1>4, <1>5

-----------------------------------------------------------------------------
(* The numbers of the nodes. *)

\* The number a node is given is one that nothing has.
LEMMA NewIdIsFree ==
  ASSUME NEW used \in SUBSET Nat, IsFiniteSet(used), NEW id \in Nat, NEW reserved
  PROVE  NewId(id, used, reserved) \in Nat \ used
<1> DEFINE n == Cardinality(used)
           free == (0 .. n) \ used
<1>1. n \in Nat
  BY FS_CardinalityType
<1>2. free # {}
  <2> SUFFICES ASSUME 0 .. n \subseteq used PROVE FALSE
    OBVIOUS
  <2>1. Cardinality(0 .. n) = n + 1 /\ Cardinality(0 .. n) <= Cardinality(used)
    <3> HIDE DEF n
    <3>1. Cardinality(0 .. n) = n + 1
      BY <1>1, FS_Interval
    <3>2. Cardinality(0 .. n) <= Cardinality(used)
      BY FS_Subset
    <3> QED BY <3>1, <3>2
  <2> QED BY <1>1, <2>1
<1>3. free \subseteq Nat
  BY <1>1
<1>4. Min(free) \in free
  <2> HIDE DEF free
  <2> QED BY <1>2, <1>3, MinIsElement
<1>5. Min(free) \in Nat /\ Min(free) \notin used
  BY <1>3, <1>4
<1> QED BY <1>5 DEF NewId, NextFree

\* A numbering of some nodes: no number twice, and none of a reserved one.
IsNumbering(map, reserved) ==
  /\ DOMAIN map \in SUBSET Nat /\ IsFiniteSet(DOMAIN map)
  /\ \A id \in DOMAIN map : map[id] \in Nat \ reserved
  /\ \A a, b \in DOMAIN map : map[a] = map[b] => a = b

\* One turn of _assign_new_node_ids: whatever nodes were numbered before, and in
\* whatever order, a numbering is one again with the next node.
THEOREM NumberingKept ==
  ASSUME NEW reserved \in SUBSET Nat, IsFiniteSet(reserved),
         NEW map, IsNumbering(map, reserved), NEW id \in Nat \ DOMAIN map
  PROVE  IsNumbering(With(map, id, NewId(id, reserved \cup Range(map), reserved)), reserved)
<1> DEFINE used == reserved \cup Range(map)
           new == NewId(id, used, reserved)
           next == With(map, id, new)
           m == [k \in DOMAIN map |-> map[k]]
<1>1. Range(map) \in SUBSET Nat /\ IsFiniteSet(Range(map))
  <2>1. m \in Surjection(DOMAIN map, Range(map))
    <3>1. m \in [DOMAIN map -> Range(map)]
      BY DEF Range
    <3>2. \A y \in Range(map) : \E x \in DOMAIN map : m[x] = y
      BY DEF Range
    <3> HIDE DEF m
    <3> QED BY <3>1, <3>2 DEF Surjection
  <2>2. IsFiniteSet(Range(map))
    <3> HIDE DEF m
    <3> QED BY <2>1, FS_Surjection DEF IsNumbering
  <2> QED BY <2>2 DEF IsNumbering, Range
<1>2. used \in SUBSET Nat /\ IsFiniteSet(used)
  BY <1>1, FS_Union
<1>3. new \in Nat \ used
  <2> HIDE DEF used
  <2> QED BY <1>2, NewIdIsFree
<1>4. \A k \in DOMAIN map : map[k] \in used
  BY DEF Range
<1> HIDE DEF new
<1>5. /\ DOMAIN next = DOMAIN map \cup {id} /\ next[id] = new
      /\ \A k \in DOMAIN map : next[k] = map[k]
  BY DEF With
<1> HIDE DEF next
<1>6. DOMAIN next \in SUBSET Nat /\ IsFiniteSet(DOMAIN next)
  BY <1>5, FS_AddElement DEF IsNumbering
<1>7. \A k \in DOMAIN next : next[k] \in Nat \ reserved
  BY <1>3, <1>5 DEF IsNumbering
<1>8. \A a, b \in DOMAIN next : next[a] = next[b] => a = b
  BY <1>3, <1>4, <1>5 DEF IsNumbering
<1>9. IsNumbering(next, reserved)
  BY <1>6, <1>7, <1>8 DEF IsNumbering
<1> QED BY <1>9 DEF next, new

\* Under a numbering every node keeps its label, and its references are followed
\* one by one.
THEOREM NodesKeepTheirContent ==
  ASSUME NEW nodes, NEW idMap, NEW scanMap, NEW reserved, IsNumbering(idMap, reserved),
         NEW id \in DOMAIN idMap,
         nodes[id] = [label |-> nodes[id].label, refs |-> nodes[id].refs]
  PROVE  LET new == RewriteReferences(nodes, idMap, scanMap)
         IN  /\ idMap[id] \in DOMAIN new
             /\ new[idMap[id]].label = nodes[id].label
             /\ new[idMap[id]].refs = [k \in DOMAIN nodes[id].refs |->
                                         MapRef(nodes[id].refs[k], idMap, scanMap)]
<1> DEFINE refs == [k \in DOMAIN nodes[id].refs |-> MapRef(nodes[id].refs[k], idMap, scanMap)]
           old == CHOOSE x \in DOMAIN idMap : idMap[x] = idMap[id]
           new == RewriteReferences(nodes, idMap, scanMap)
<1>1. idMap[id] \in Range(idMap)
  BY DEF Range
<1>2. old = id
  <2>1. \A x \in DOMAIN idMap : idMap[x] = idMap[id] => x = id
    BY DEF IsNumbering
  <2> QED BY <2>1
<1>3. DOMAIN new = Range(idMap)
        /\ new[idMap[id]] = [nodes[old] EXCEPT !.refs =
             [k \in DOMAIN nodes[old].refs |-> MapRef(nodes[old].refs[k], idMap, scanMap)]]
  BY <1>1 DEF RewriteReferences
<1>4. new[idMap[id]] = [nodes[id] EXCEPT !.refs = refs]
  <2> HIDE DEF new
  <2> QED BY <1>2, <1>3
<1>5. new[idMap[id]] = [label |-> nodes[id].label, refs |-> refs]
  <2> HIDE DEF new, refs
  <2> QED BY <1>4
<1>6. idMap[id] \in DOMAIN new
  BY <1>1, <1>3
<1> HIDE DEF new
<1>7. new[idMap[id]].label = nodes[id].label /\ new[idMap[id]].refs = refs
  BY <1>5
<1> QED BY <1>6, <1>7 DEF new

-----------------------------------------------------------------------------
(* Plans whose references form no circle. *)

\* The nodes all of whose children are below.
Above(plan, below) ==
  {id \in Ids(plan) : Range(ChildIds(plan, id)) \cap Ids(plan) \subseteq below}

IsLevels(plan, g) ==
  /\ g[0] = {}
  /\ \A n \in Nat : g[n + 1] = Above(plan, g[n])

LEMMA LevelsExist ==
  ASSUME NEW plan, Cardinality(Ids(plan)) \in Nat
  PROVE  \E g : /\ IsLevels(plan, g)
                /\ IsAcyclic(plan) <=> g[Cardinality(Ids(plan)) + 1] = Ids(plan)
<1> DEFINE G(below) == {id \in Ids(plan) : Range(ChildIds(plan, id)) \cap Ids(plan) \subseteq below}
           Is(h) == h = [n \in Nat |-> G(IF n = 0 THEN {} ELSE h[n - 1])]
           D == SUBSET Ids(plan)
           f == [p \in Nat \X D |-> G(p[2])]
           K == Cardinality(Ids(plan))
<1>1. \E h : Is(h)
  <2>1. G({}) \in D /\ f \in [Nat \X D -> D]
    OBVIOUS
  <2>2. PICK h : Iterates(h, D, G({}), f)
    <3> HIDE DEF D, f, G
    <3> QED BY <2>1, IterationExists
  <2>3. /\ h \in [Nat -> D] /\ h[0] = G({})
        /\ \A n \in Nat : h[n + 1] = G(h[n])
    <3>1. /\ h \in [Nat -> D] /\ h[0] = G({})
          /\ \A n \in Nat : h[n + 1] = f[<<n, h[n]>>]
      <4> HIDE DEF D, f, G
      <4> QED BY <2>2 DEF Iterates
    <3>2. \A n \in Nat, x \in D : f[<<n, x>>] = G(x)
      OBVIOUS
    <3> HIDE DEF D, f, G
    <3> QED BY <3>1, <3>2
  <2> HIDE DEF G, D
  <2>4. ASSUME NEW n \in Nat PROVE h[n] = G(IF n = 0 THEN {} ELSE h[n - 1])
    <3>1. CASE n # 0
      <4>1. n - 1 \in Nat /\ (n - 1) + 1 = n
        BY <3>1
      <4> QED BY <2>3, <3>1, <4>1
    <3> QED BY <2>3, <3>1
  <2>5. Is(h)
    BY <2>3, <2>4
  <2> QED BY <2>5
<1> DEFINE h == CHOOSE h : Is(h)
<1>2. Is(h)
  BY <1>1
<1>3. IsAcyclic(plan) <=> h[K] = Ids(plan)
  BY DEF IsAcyclic
<1>4. \A x : G(x) = Above(plan, x)
  BY DEF Above
<1> HIDE DEF h, G, K
<1> DEFINE g == [n \in Nat |-> IF n = 0 THEN {} ELSE h[n - 1]]
<1>5. \A n \in Nat : g[n + 1] = h[n] /\ h[n] = G(g[n])
  <2> TAKE n \in Nat
  <2>1. n + 1 \in Nat /\ n + 1 # 0 /\ (n + 1) - 1 = n
    OBVIOUS
  <2> QED BY <1>2, <2>1
<1>6. g[0] = {}
  OBVIOUS
<1> HIDE DEF g
<1>7. IsLevels(plan, g)
  BY <1>4, <1>5, <1>6 DEF IsLevels
<1>8. K \in Nat /\ g[K + 1] = h[K]
  BY <1>5 DEF K
<1> QED BY <1>3, <1>7, <1>8 DEF K

LEMMA LevelsGrow ==
  ASSUME NEW plan, NEW g, IsLevels(plan, g)
  PROVE  \A n \in Nat : g[n] \subseteq g[n + 1] /\ g[n] \subseteq Ids(plan)
<1> DEFINE P == {n \in Nat : g[n] \subseteq g[n + 1] /\ g[n] \subseteq Ids(plan)}
<1>1. 0 \in P
  BY DEF IsLevels
<1>2. ASSUME NEW n \in P PROVE n + 1 \in P
  <2>1. n \in Nat /\ n + 1 \in Nat /\ g[n] \subseteq g[n + 1]
    OBVIOUS
  <2>2. g[n + 1] = Above(plan, g[n]) /\ g[(n + 1) + 1] = Above(plan, g[n + 1])
    BY <2>1 DEF IsLevels
  <2>3. g[n + 1] \subseteq g[(n + 1) + 1] /\ g[n + 1] \subseteq Ids(plan)
    BY <2>1, <2>2 DEF Above
  <2> QED BY <2>1, <2>3
<1>3. Nat \subseteq P
  <2> HIDE DEF P
  <2> QED BY <1>1, <1>2, SetInduction
<1> QED BY <1>3

\* If any level has all nodes then so has that which the program looks at.
LEMMA LevelsEnough ==
  ASSUME NEW plan, IsFiniteSet(Ids(plan)), NEW g, IsLevels(plan, g),
         NEW n \in Nat, g[n] = Ids(plan)
  PROVE  g[Cardinality(Ids(plan)) + 1] = Ids(plan)
<1> DEFINE I == Ids(plan)
           K == Cardinality(I)
<1>1. K \in Nat
  BY FS_CardinalityType
<1>2. \A m \in Nat : g[m] \subseteq g[m + 1] /\ g[m] \subseteq I
  BY LevelsGrow
<1> HIDE DEF I, K
<1> DEFINE P == {m \in Nat : g[m] = g[m + 1] \/ Cardinality(g[m]) >= m}
<1>3. 0 \in P
  <2>1. g[0] = {} /\ Cardinality({}) = 0
    BY FS_EmptySet DEF IsLevels
  <2> QED BY <2>1
<1>4. ASSUME NEW m \in P PROVE m + 1 \in P
  <2>1. m \in Nat /\ m + 1 \in Nat
    OBVIOUS
  <2>2. CASE g[m] = g[m + 1]
    <3>1. g[m + 1] = g[(m + 1) + 1]
      BY <2>1, <2>2 DEF IsLevels
    <3> QED BY <2>1, <3>1
  <2>3. CASE g[m] # g[m + 1]
    <3> DEFINE A == g[m]
               B == g[m + 1]
    <3>1. IsFiniteSet(B) /\ A \in SUBSET B /\ A # B
      <4>1. B \subseteq I /\ A \in SUBSET B
        BY <1>2, <2>1
      <4> HIDE DEF A, B
      <4> QED BY <4>1, <2>3, FS_Subset DEF I, A, B
    <3> HIDE DEF A, B
    <3>2. /\ IsFiniteSet(A) /\ Cardinality(A) <= Cardinality(B)
          /\ Cardinality(A) # Cardinality(B)
      BY <3>1, FS_Subset
    <3>3. Cardinality(A) \in Nat /\ Cardinality(B) \in Nat
      BY <3>1, <3>2, FS_CardinalityType
    <3>4. Cardinality(A) >= m
      BY <2>3 DEF A
    <3>5. Cardinality(B) >= m + 1
      BY <2>1, <3>2, <3>3, <3>4
    <3> QED BY <2>1, <3>5 DEF B
  <2> QED BY <2>2, <2>3
<1>5. K \in P
  <2> HIDE DEF P
  <2>1. Nat \subseteq P
    BY <1>3, <1>4, SetInduction
  <2> QED BY <1>1, <2>1
<1>6. CASE Cardinality(g[K]) >= K
  <2> DEFINE A == g[K]
  <2>1. A \in SUBSET I /\ IsFiniteSet(I)
    BY <1>1, <1>2 DEF I
  <2> HIDE DEF A
  <2>2. Cardinality(A) <= K /\ (Cardinality(A) = K => A = I) /\ IsFiniteSet(A)
    BY <2>1, FS_Subset DEF K
  <2>3. Cardinality(A) \in Nat
    BY <2>2, FS_CardinalityType
  <2>4. A = I
    BY <1>1, <1>6, <2>2, <2>3 DEF A
  <2>5. K + 1 \in Nat
    BY <1>1
  <2>6. g[K] = I
    BY <2>4 DEF A
  <2>7. g[K] \subseteq g[K + 1] /\ g[K + 1] \subseteq I
    BY <1>1, <1>2, <2>5
  <2>8. g[K + 1] = I
    BY <2>6, <2>7
  <2> QED BY <2>8 DEF I, K
<1>7. CASE g[K] = g[K + 1]
  <2> DEFINE Q == {m \in Nat : g[m] \subseteq g[K]}
  <2>1. 0 \in Q
    BY DEF IsLevels
  <2>2. ASSUME NEW m \in Q PROVE m + 1 \in Q
    <3>1. m \in Nat /\ g[m + 1] = Above(plan, g[m]) /\ g[K + 1] = Above(plan, g[K])
      BY <1>1 DEF IsLevels
    <3>2. g[m + 1] \subseteq g[K]
      BY <1>7, <2>2, <3>1 DEF Above
    <3> QED BY <3>1, <3>2
  <2>3. n \in Q
    <3> HIDE DEF Q
    <3>1. Nat \subseteq Q
      BY <2>1, <2>2, SetInduction
    <3> QED BY <3>1
  <2>4. I \subseteq g[K]
    BY <2>3 DEF I
  <2> QED BY <1>1, <1>2, <1>7, <2>4 DEF I, K
<1>8. Cardinality(g[K]) >= K \/ g[K] = g[K + 1]
  BY <1>5
<1> QED BY <1>6, <1>7, <1>8

LEMMA AcyclicIs ==
  ASSUME NEW plan, IsFiniteSet(Ids(plan))
  PROVE  \E g : IsLevels(plan, g) /\ (IsAcyclic(plan) <=> \E n \in Nat : g[n] = Ids(plan))
<1> DEFINE K == Cardinality(Ids(plan))
<1>1. K \in Nat /\ K + 1 \in Nat
  <2>1. K \in Nat
    BY FS_CardinalityType
  <2> HIDE DEF K
  <2> QED BY <2>1
<1>2. PICK g : IsLevels(plan, g) /\ (IsAcyclic(plan) <=> g[K + 1] = Ids(plan))
  BY <1>1, LevelsExist
<1>3. (\E n \in Nat : g[n] = Ids(plan)) => g[K + 1] = Ids(plan)
  BY <1>2, LevelsEnough
<1> HIDE DEF K
<1> QED BY <1>1, <1>2, <1>3

\* build_execution_plan_tree at an id, from what it makes of the others.
BuiltNode(plan, id, b) ==
  IF id \in DOMAIN plan.tables THEN <<plan.tables[id]>>
  ELSE IF id \notin DOMAIN plan.structure THEN Unbuildable
  ELSE LET node == plan.structure[id]
           kids == [k \in DOMAIN node.refs |-> b[node.refs[k]]]
       IN  IF Accepts(node.label.keys, Len(kids)) /\ Unbuildable \notin Range(kids)
           THEN <<node.label>> \o kids
           ELSE Unbuildable

IsBuild(plan, b) == b = [id \in Nat |-> BuiltNode(plan, id, b)]

\* A plan as far as building it goes: numbered, with numbers for references.
IsNumbered(plan) ==
  /\ Ids(plan) \subseteq Nat /\ IsFiniteSet(Ids(plan))
  /\ \A id \in DOMAIN plan.structure : plan.structure[id].refs \in Seq(Nat)

\* The nodes of a plan without a circle can be built from below.
LEMMA AcyclicBuilds ==
  ASSUME NEW plan, IsNumbered(plan), IsAcyclic(plan)
  PROVE  \E b : IsBuild(plan, b)
<1>1. PICK g : IsLevels(plan, g) /\ \E n \in Nat : g[n] = Ids(plan)
  BY AcyclicIs DEF IsNumbered
<1>2. PICK L \in Nat : g[L] = Ids(plan)
  BY <1>1
<1> DEFINE E(n) == (Nat \ Ids(plan)) \cup g[n]
           Upto(n, b) == b = [id \in E(n) |-> BuiltNode(plan, id, b)]
           S == {n \in Nat : \E b : Upto(n, b)}
<1>3. \A n \in Nat : E(n) \subseteq E(n + 1) /\ E(n) \subseteq Nat
  BY <1>1, LevelsGrow DEF IsNumbered
<1>4. ASSUME NEW n \in Nat, NEW id \in E(n + 1), id \in DOMAIN plan.structure,
             id \notin DOMAIN plan.tables, NEW k \in DOMAIN plan.structure[id].refs
      PROVE  plan.structure[id].refs[k] \in E(n)
  <2> DEFINE refs == plan.structure[id].refs
  <2>1. refs \in Seq(Nat)
    BY <1>4 DEF IsNumbered
  <2>2. refs[k] \in Nat /\ refs[k] \in Range(refs)
    BY <1>4, <2>1, LenProperties DEF Range
  <2>3. id \in Ids(plan) /\ ChildIds(plan, id) = refs
    BY <1>4 DEF Ids, ChildIds
  <2>4. id \in Above(plan, g[n])
    BY <1>1, <1>4, <2>3 DEF IsLevels
  <2> HIDE DEF refs
  <2>5. refs[k] \in Ids(plan) => refs[k] \in g[n]
    BY <2>2, <2>3, <2>4 DEF Above
  <2> QED BY <2>2, <2>5 DEF refs
<1>5. 0 \in S
  <2>1. \A id \in E(0) : ~ (id \in DOMAIN plan.structure \cup DOMAIN plan.tables)
    BY <1>1 DEF IsLevels, Ids
  <2> DEFINE b == [id \in E(0) |-> Unbuildable]
  <2>2. \A id \in E(0) : BuiltNode(plan, id, b) = Unbuildable
    BY <2>1 DEF BuiltNode
  <2>3. Upto(0, b)
    <3> HIDE DEF E
    <3> QED BY <2>2
  <2> QED BY <2>3
<1> HIDE DEF E
<1>6. ASSUME NEW n \in Nat, n \in S PROVE n + 1 \in S
  <2>1. PICK b : Upto(n, b)
    BY <1>6
  <2> DEFINE h == [id \in E(n + 1) |-> IF id \in E(n) THEN b[id] ELSE BuiltNode(plan, id, b)]
  <2>2. ASSUME NEW id \in E(n + 1) PROVE h[id] = BuiltNode(plan, id, h)
    <3>1. h[id] = BuiltNode(plan, id, b)
      <4>1. id \in E(n) => b[id] = BuiltNode(plan, id, b)
        BY <2>1
      <4> QED BY <4>1
    <3>2. CASE id \in DOMAIN plan.structure /\ id \notin DOMAIN plan.tables
      <4> DEFINE refs == plan.structure[id].refs
      <4>1. \A k \in DOMAIN refs : refs[k] \in E(n) /\ refs[k] \in E(n + 1)
        BY <1>3, <1>4, <3>2
      <4>2. \A k \in DOMAIN refs : h[refs[k]] = b[refs[k]]
        BY <4>1
      <4> HIDE DEF h
      <4>3. [k \in DOMAIN refs |-> h[refs[k]]] = [k \in DOMAIN refs |-> b[refs[k]]]
        BY <4>2
      <4>4. BuiltNode(plan, id, h) = BuiltNode(plan, id, b)
        BY <4>3 DEF BuiltNode
      <4> QED BY <3>1, <4>4
    <3>3. CASE ~(id \in DOMAIN plan.structure /\ id \notin DOMAIN plan.tables)
      <4> HIDE DEF h
      <4> QED BY <3>1, <3>3 DEF BuiltNode
    <3> QED BY <3>2, <3>3
  <2>3. h = [id \in E(n + 1) |-> h[id]]
    OBVIOUS
  <2> HIDE DEF h
  <2>4. h = [id \in E(n + 1) |-> BuiltNode(plan, id, h)]
    BY <2>2, <2>3
  <2> QED BY <2>4
<1>7. L \in S
  <2> HIDE DEF S
  <2>1. Nat \subseteq S
    BY <1>5, <1>6, SetInduction
  <2> QED BY <2>1
<1>8. E(L) = Nat
  BY <1>2 DEF IsNumbered, E
<1>9. PICK b : Upto(L, b)
  BY <1>7
<1>10. b = [id \in Nat |-> BuiltNode(plan, id, b)]
  BY <1>8, <1>9
<1> QED BY <1>10 DEF IsBuild

\* What is built is the tree of the root.
LEMMA BuiltIs ==
  ASSUME NEW plan, IsNumbered(plan), IsAcyclic(plan)
  PROVE  \E b : IsBuild(plan, b) /\ BuildTree(plan) = b[RootId(plan)]
<1> DEFINE b == CHOOSE b : IsBuild(plan, b)
<1>1. IsBuild(plan, b)
  BY AcyclicBuilds
<1>2. BuildTree(plan) = b[RootId(plan)]
  BY DEF BuildTree, IsBuild, BuiltNode
<1> HIDE DEF b
<1> QED BY <1>1, <1>2

-----------------------------------------------------------------------------
(* A plan of the engine, to the exchange format and back. *)

\* A node whose children are not written: they would go to a left and a right.
Loses(node) == node.label.keys = "inputs" /\ Len(node.kids) = 2

\* The references written for a node.
RefsOf(node) ==
  IF Loses(node) THEN << >> ELSE [k \in 1 .. Len(node.kids) |-> node.kids[k] - 1]

\* A sequence of subtrees or of numbers is a list.
LEMMA TupleIsList ==
  ASSUME NEW n \in Nat, NEW f, f = [x \in 1 .. n |-> f[x]]
  PROVE  f \in Seq(Range(f)) /\ Len(f) = n /\ DOMAIN f = 1 .. n
<1>1. f \in [1 .. n -> Range(f)]
  BY DEF Range
<1>2. f \in Seq(Range(f))
  BY <1>1, SeqDef
<1>3. DOMAIN f = 1 .. Len(f) /\ Len(f) \in Nat
  BY <1>2, LenProperties
<1>4. DOMAIN f = 1 .. n
  OBVIOUS
<1> QED BY <1>2, <1>3, <1>4

\* The children of a node come after it, and a scan has none.
LEMMA VisitIs ==
  ASSUME NEW v, IsVisit(v), NEW i \in DOMAIN v
  PROVE  LET kids == v[i].kids
         IN  /\ i \in 1 .. Len(v) /\ Len(v) \in Nat \ {0} /\ DOMAIN v = 1 .. Len(v)
             /\ Len(kids) \in Nat /\ DOMAIN kids = 1 .. Len(kids)
             /\ \A k \in 1 .. Len(kids) : kids[k] \in i + 1 .. Len(v) /\ kids[k] \in DOMAIN v
             /\ HasKids(v[i].label.keys, Len(kids))
             /\ IsScan(v[i].label) => kids = << >> /\ Len(kids) = 0
<1> DEFINE kids == v[i].kids
           S == i + 1 .. Len(v)
<1>1. /\ i \in 1 .. Len(v) /\ Len(v) \in Nat \ {0} /\ DOMAIN v = 1 .. Len(v)
      /\ kids \in Seq(S) /\ HasKids(v[i].label.keys, Len(kids))
  BY DEF IsVisit
<1>2. Len(kids) \in Nat /\ DOMAIN kids = 1 .. Len(kids) /\ kids \in [1 .. Len(kids) -> S]
  <2> HIDE DEF kids, S
  <2> QED BY <1>1, LenProperties
<1>3. \A k \in 1 .. Len(kids) : kids[k] \in S /\ kids[k] \in DOMAIN v
  BY <1>1, <1>2
<1>4. IsScan(v[i].label) => Len(kids) = 0
  BY <1>1 DEF IsScan, HasKids
<1>5. Len(kids) = 0 => kids = << >>
  <2> HIDE DEF kids, S
  <2> QED BY <1>1, EmptySeq
<1> QED BY <1>1, <1>2, <1>3, <1>4, <1>5

\* What ToSuccinct writes of each node.
LEMMA SuccinctIs ==
  ASSUME NEW v, IsVisit(v)
  PROVE  LET plan == ToSuccinct(v)
         IN  /\ DOMAIN plan.structure \cup DOMAIN plan.tables = 0 .. Len(v) - 1
             /\ DOMAIN plan.structure \cap DOMAIN plan.tables = {}
             /\ \A i \in DOMAIN v :
                  IF IsScan(v[i].label)
                  THEN i - 1 \in DOMAIN plan.tables /\ plan.tables[i - 1] = v[i].label
                  ELSE /\ i - 1 \in DOMAIN plan.structure
                       /\ plan.structure[i - 1].label = v[i].label
                       /\ plan.structure[i - 1].refs = RefsOf(v[i])
<1> DEFINE D == DOMAIN v
           scans == {i \in D : IsScan(v[i].label)}
           inner == {i - 1 : i \in D \ scans}
           outer == {i - 1 : i \in scans}
           childIds(i) == [k \in DOMAIN v[i].kids |-> v[i].kids[k] - 1]
           node(id) == LET label == v[id + 1].label
                       IN  [label |-> label,
                            refs |-> PopulateChildIds(label.keys, childIds(id + 1))]
           plan == ToSuccinct(v)
<1>1. /\ plan.structure = [id \in inner |-> node(id)]
      /\ plan.tables = [id \in outer |-> v[id + 1].label]
  BY DEF ToSuccinct
<1>2. D = 1 .. Len(v) /\ Len(v) \in Nat \ {0}
  BY DEF IsVisit
<1>3. inner \cup outer = 0 .. Len(v) - 1 /\ inner \cap outer = {}
  <2>1. \A id \in 0 .. Len(v) - 1 : id + 1 \in D /\ (id + 1) - 1 = id
    BY <1>2
  <2>2. \A i \in D : i - 1 \in 0 .. Len(v) - 1
    BY <1>2
  <2>3. \A i, j \in D : i - 1 = j - 1 => i = j
    BY <1>2
  <2>4. inner \cup outer \subseteq 0 .. Len(v) - 1
    BY <2>2
  <2>5. 0 .. Len(v) - 1 \subseteq inner \cup outer
    <3> SUFFICES ASSUME NEW id \in 0 .. Len(v) - 1 PROVE id \in inner \cup outer
      OBVIOUS
    <3> DEFINE i == id + 1
    <3>1. i \in D /\ id = i - 1
      BY <2>1
    <3> HIDE DEF i, D
    <3> QED BY <3>1
  <2>6. inner \cap outer = {}
    <3> HIDE DEF D
    <3> QED BY <2>3
  <2> QED BY <2>4, <2>5, <2>6
<1>4. ASSUME NEW i \in D
      PROVE  IF IsScan(v[i].label)
             THEN i - 1 \in outer /\ plan.tables[i - 1] = v[i].label
             ELSE /\ i - 1 \in inner
                  /\ plan.structure[i - 1].label = v[i].label
                  /\ plan.structure[i - 1].refs = RefsOf(v[i])
  <2>1. (i - 1) + 1 = i
    BY <1>2
  <2>2. CASE IsScan(v[i].label)
    <3>1. i - 1 \in outer
      BY <2>2
    <3>2. plan.tables[i - 1] = v[(i - 1) + 1].label
      <4> HIDE DEF outer, plan
      <4> QED BY <1>1, <3>1
    <3> QED BY <2>1, <2>2, <3>1, <3>2
  <2>3. CASE ~IsScan(v[i].label)
    <3> DEFINE id == i - 1
               kids == v[i].kids
               refs == childIds(i)
    <3>1. id \in inner
      BY <2>3
    <3>2. plan.structure[id] = node(id)
      <4> HIDE DEF inner, plan, node, id
      <4> QED BY <1>1, <3>1
    <3>3. /\ plan.structure[id].label = v[id + 1].label
          /\ plan.structure[id].refs = PopulateChildIds(v[id + 1].label.keys, childIds(id + 1))
      <4> HIDE DEF plan, id, childIds
      <4> QED BY <3>2
    <3>4. /\ Len(kids) \in Nat /\ DOMAIN kids = 1 .. Len(kids)
          /\ HasKids(v[i].label.keys, Len(kids))
      BY VisitIs
    <3>5. /\ refs = [k \in 1 .. Len(kids) |-> kids[k] - 1]
          /\ Len(refs) = Len(kids)
      <4>1. refs = [k \in 1 .. Len(kids) |-> kids[k] - 1]
        BY <3>4
      <4>2. refs = [k \in 1 .. Len(kids) |-> refs[k]]
        BY <4>1
      <4> HIDE DEF refs
      <4> QED BY <3>4, <4>1, <4>2, TupleIsList
    <3>6. Len(kids) = 0 => refs = << >>
      <4>1. refs \in Seq(Range(refs))
        <5>1. refs = [k \in 1 .. Len(kids) |-> refs[k]]
          BY <3>5
        <5> HIDE DEF refs
        <5> QED BY <3>4, <5>1, TupleIsList
      <4> HIDE DEF refs
      <4> QED BY <3>5, <4>1, EmptySeq
    <3>7. PopulateChildIds(v[i].label.keys, refs) = RefsOf(v[i])
      <4> DEFINE keys == v[i].label.keys
      <4>1. keys # "scan"
        BY <2>3 DEF IsScan
      <4>2. RefsOf(v[i]) = IF keys = "inputs" /\ Len(kids) = 2 THEN << >> ELSE refs
        BY <3>5 DEF RefsOf, Loses
      <4> DEFINE n == Len(kids)
      <4>3. n \in Nat /\ HasKids(keys, n) /\ Len(refs) = n /\ (n = 0 => refs = << >>)
        BY <3>4, <3>5, <3>6
      <4>4. RefsOf(v[i]) = IF keys = "inputs" /\ n = 2 THEN << >> ELSE refs
        BY <4>2
      <4>5. PopulateChildIds(keys, refs)
              = IF \/ keys = "input" /\ n = 1
                   \/ keys = "sides" /\ n = 2
                   \/ keys = "inputs" /\ n >= 3
                THEN refs ELSE << >>
        <5> HIDE DEF refs, keys, n
        <5> QED BY <4>3 DEF PopulateChildIds
      <4> SUFFICES PopulateChildIds(keys, refs) = RefsOf(v[i])
        OBVIOUS
      <4> HIDE DEF refs, keys, n
      <4>6. CASE n = 0
        BY <4>3, <4>4, <4>5, <4>6
      <4>7. CASE n # 0
        <5>1. \/ keys = "input" /\ n = 1
              \/ keys = "sides" /\ n = 2
              \/ keys = "inputs" /\ n >= 2
          BY <4>1, <4>3, <4>7 DEF HasKids
        <5>2. CASE n >= 3
          BY <4>3, <4>4, <4>5, <5>1, <5>2
        <5>3. CASE n = 1
          BY <4>4, <4>5, <5>1, <5>3
        <5>4. CASE n = 2
          BY <4>4, <4>5, <5>1, <5>4
        <5> QED BY <4>3, <4>7, <5>2, <5>3, <5>4
      <4> QED BY <4>6, <4>7
    <3>8. id + 1 = i
      BY <2>1
    <3> HIDE DEF refs, childIds, id, plan
    <3> QED BY <2>3, <3>1, <3>3, <3>7, <3>8 DEF refs, id
  <2> QED BY <2>2, <2>3
<1> HIDE DEF inner, outer, node
<1>5. DOMAIN plan.structure = inner /\ DOMAIN plan.tables = outer
  BY <1>1
<1> QED BY <1>3, <1>4, <1>5

\* The references of a node are to nodes after it.
LEMMA RefsAfter ==
  ASSUME NEW v, IsVisit(v), NEW i \in DOMAIN v
  PROVE  LET refs == RefsOf(v[i])
             kids == v[i].kids
         IN  /\ refs \in Seq(i .. Len(v) - 1) /\ DOMAIN refs = 1 .. Len(refs)
             /\ \A k \in DOMAIN refs : refs[k] \in i .. Len(v) - 1
             /\ ~Loses(v[i]) =>
                  Len(refs) = Len(kids) /\ \A k \in 1 .. Len(kids) : refs[k] = kids[k] - 1
             /\ Loses(v[i]) => Len(refs) = 0
<1> DEFINE refs == RefsOf(v[i])
           kids == v[i].kids
           S == i .. Len(v) - 1
<1>1. /\ i \in 1 .. Len(v) /\ Len(v) \in Nat \ {0}
      /\ Len(kids) \in Nat /\ \A k \in 1 .. Len(kids) : kids[k] \in i + 1 .. Len(v)
  BY VisitIs
<1>2. CASE Loses(v[i])
  <2>1. refs = << >>
    BY <1>2 DEF RefsOf
  <2> HIDE DEF S
  <2> QED BY <1>2, <2>1, EmptySeq
<1>3. CASE ~Loses(v[i])
  <2>1. refs = [k \in 1 .. Len(kids) |-> kids[k] - 1]
    BY <1>3 DEF RefsOf
  <2>2. \A k \in 1 .. Len(kids) : kids[k] - 1 \in S
    BY <1>1
  <2>3. refs \in [1 .. Len(kids) -> S]
    <3> HIDE DEF S, kids
    <3> QED BY <2>1, <2>2
  <2> HIDE DEF S, kids, refs
  <2>4. refs \in Seq(S)
    BY <1>1, <2>3, SeqDef
  <2>5. DOMAIN refs = 1 .. Len(refs) /\ Len(refs) \in Nat /\ DOMAIN refs = 1 .. Len(kids)
    BY <2>3, <2>4, LenProperties
  <2>6. Len(refs) = Len(kids)
    BY <1>1, <2>5
  <2>7. \A k \in DOMAIN refs : refs[k] \in S
    BY <2>3
  <2>8. \A k \in 1 .. Len(kids) : refs[k] = kids[k] - 1
    BY <2>1
  <2> QED BY <1>3, <2>4, <2>5, <2>6, <2>7, <2>8 DEF S, kids, refs
<1> QED BY <1>2, <1>3

\* TreeOf: the tree of a node, from those of the nodes below it.
NodeTree(node, t) == <<node.label>> \o [k \in DOMAIN node.kids |-> t[node.kids[k]]]

IsTree(v, t) == t = [i \in DOMAIN v |-> NodeTree(v[i], t)]

\* As children come later, the trees can be put together from the last node on.
LEMMA TreesExist ==
  ASSUME NEW v, IsVisit(v)
  PROVE  \E t : IsTree(v, t)
<1> DEFINE D == DOMAIN v
           L == Len(v)
           E(n) == {i \in D : i + n > L}
           Upto(n, t) == t = [i \in E(n) |-> NodeTree(v[i], t)]
           S == {n \in Nat : \E t : Upto(n, t)}
<1>1. L \in Nat /\ D = 1 .. L
  BY DEF IsVisit
<1>2. \A i \in D : \A k \in DOMAIN v[i].kids : v[i].kids[k] \in D /\ v[i].kids[k] > i
  <2> SUFFICES ASSUME NEW i \in D, NEW k \in DOMAIN v[i].kids
               PROVE  v[i].kids[k] \in D /\ v[i].kids[k] > i
    OBVIOUS
  <2>1. v[i].kids[k] \in i + 1 .. L /\ v[i].kids[k] \in D /\ i \in 1 .. L
    BY VisitIs
  <2> QED BY <1>1, <2>1
<1> HIDE DEF D, L
<1>3. 0 \in S
  <2>1. E(0) = {}
    BY <1>1
  <2>2. Upto(0, [i \in E(0) |-> 0])
    BY <2>1
  <2> QED BY <2>2
<1>4. ASSUME NEW n \in Nat, n \in S PROVE n + 1 \in S
  <2>1. PICK t : Upto(n, t)
    BY <1>4
  <2> DEFINE g == [i \in E(n + 1) |-> IF i \in E(n) THEN t[i] ELSE NodeTree(v[i], t)]
  <2>2. ASSUME NEW i \in E(n + 1) PROVE g[i] = NodeTree(v[i], g)
    <3>1. \A k \in DOMAIN v[i].kids :
            v[i].kids[k] \in E(n) /\ v[i].kids[k] \in E(n + 1)
      BY <1>1, <1>2
    <3>2. \A k \in DOMAIN v[i].kids : g[v[i].kids[k]] = t[v[i].kids[k]]
      BY <3>1
    <3>3. NodeTree(v[i], g) = NodeTree(v[i], t)
      <4> HIDE DEF g
      <4> QED BY <3>2 DEF NodeTree
    <3>4. i \in E(n) => t[i] = NodeTree(v[i], t)
      <4> HIDE DEF E
      <4> QED BY <2>1
    <3>5. g[i] = NodeTree(v[i], t)
      <4> HIDE DEF E
      <4> QED BY <3>4
    <3> QED BY <3>3, <3>5
  <2>3. g = [i \in E(n + 1) |-> g[i]]
    OBVIOUS
  <2> HIDE DEF g, E
  <2>4. g = [i \in E(n + 1) |-> NodeTree(v[i], g)]
    BY <2>2, <2>3
  <2> QED BY <2>4
<1>5. L \in S
  <2> HIDE DEF S
  <2> QED BY <1>1, <1>3, <1>4, SetInduction
<1>6. E(L) = D
  BY <1>1
<1>7. PICK t : Upto(L, t)
  BY <1>5
<1>8. t = [i \in D |-> NodeTree(v[i], t)]
  <2> HIDE DEF E
  <2> QED BY <1>6, <1>7
<1> QED BY <1>8 DEF IsTree, D

\* TreeOf of a plan is the tree of its first node.
LEMMA TreeOfIs ==
  ASSUME NEW v, IsVisit(v)
  PROVE  \E t : /\ TreeOf(v) = t[1]
                /\ \A i \in DOMAIN v : t[i] = NodeTree(v[i], t) /\ t[i] # << >>
<1> DEFINE t == CHOOSE t : IsTree(v, t)
<1>1. IsTree(v, t)
  BY TreesExist
<1>2. TreeOf(v) = t[1]
  BY DEF TreeOf, IsTree, NodeTree
<1> HIDE DEF t
<1>3. ASSUME NEW i \in DOMAIN v PROVE t[i] = NodeTree(v[i], t)
  BY <1>1 DEF IsTree
<1>4. ASSUME NEW i \in DOMAIN v PROVE NodeTree(v[i], t) # << >>
  <2> DEFINE kids == v[i].kids
             rest == [k \in 1 .. Len(kids) |-> t[kids[k]]]
             S == {v[i].label} \cup Range(rest)
  <2>1. Len(kids) \in Nat /\ DOMAIN kids = 1 .. Len(kids)
    BY VisitIs
  <2>2. NodeTree(v[i], t) = <<v[i].label>> \o rest
    BY <2>1 DEF NodeTree
  <2>3. rest = [k \in 1 .. Len(kids) |-> rest[k]]
    OBVIOUS
  <2> HIDE DEF rest
  <2>4. rest \in Seq(Range(rest))
    BY <2>1, <2>3, TupleIsList
  <2>5. rest \in Seq(S) /\ <<v[i].label>> \in Seq(S)
    BY <2>4, SeqMonotonic
  <2> HIDE DEF S
  <2>6. /\ Len(<<v[i].label>> \o rest) = Len(<<v[i].label>>) + Len(rest)
        /\ Len(<<v[i].label>>) = 1 /\ Len(rest) \in Nat
    BY <2>5, ConcatProperties, LenProperties
  <2>7. Len(<< >>) = 0
    BY EmptySeq
  <2> QED BY <2>2, <2>6, <2>7
<1> QED BY <1>2, <1>3, <1>4

\* Numbered nodes, whether or not they hang together.
IsStructure(nodes) ==
  /\ DOMAIN nodes \in SUBSET Nat /\ IsFiniteSet(DOMAIN nodes)
  /\ nodes = [id \in DOMAIN nodes |-> nodes[id]]
  /\ \A id \in DOMAIN nodes :
       /\ nodes[id] = [label |-> nodes[id].label, refs |-> nodes[id].refs]
       /\ nodes[id].refs \in Seq(Nat)

\* What comes out of the engine is a structure, and its scans are finitely many.
LEMMA SuccinctStructure ==
  ASSUME NEW v, IsVisit(v)
  PROVE  /\ IsStructure(ToSuccinct(v).structure)
         /\ DOMAIN ToSuccinct(v).tables \in SUBSET Nat /\ IsFiniteSet(DOMAIN ToSuccinct(v).tables)
<1> DEFINE plan == ToSuccinct(v)
           s == plan.structure
           L == Len(v)
           D == DOMAIN v
           inner == {i - 1 : i \in D \ {i \in D : IsScan(v[i].label)}}
           childIds(i) == [k \in DOMAIN v[i].kids |-> v[i].kids[k] - 1]
           node(id) == LET label == v[id + 1].label
                       IN  [label |-> label,
                            refs |-> PopulateChildIds(label.keys, childIds(id + 1))]
<1>1. s = [id \in inner |-> node(id)]
  BY DEF ToSuccinct
<1>2. DOMAIN s = inner /\ s = [id \in DOMAIN s |-> s[id]]
      /\ \A id \in inner : s[id] = [label |-> s[id].label, refs |-> s[id].refs]
  BY <1>1
<1>3. D = 1 .. L /\ L \in Nat \ {0}
  BY DEF IsVisit
<1> HIDE DEF node
<1>4. DOMAIN s \subseteq 0 .. L - 1 /\ DOMAIN plan.tables \subseteq 0 .. L - 1
  <2> HIDE DEF inner
  <2> QED BY SuccinctIs
<1>5. IsFiniteSet(0 .. L - 1) /\ 0 .. L - 1 \subseteq Nat
  BY <1>3, FS_Interval
<1>6. IsFiniteSet(DOMAIN s) /\ IsFiniteSet(DOMAIN plan.tables)
  <2> HIDE DEF plan
  <2> QED BY <1>4, <1>5, FS_Subset
<1>7. ASSUME NEW id \in inner PROVE s[id].refs \in Seq(Nat)
  <2>1. PICK i \in D \ {i \in D : IsScan(v[i].label)} : id = i - 1
    OBVIOUS
  <2>2. s[i - 1].refs = RefsOf(v[i])
    BY <2>1, SuccinctIs
  <2>3. RefsOf(v[i]) \in Seq(i .. L - 1)
    BY <2>1, RefsAfter
  <2>4. i .. L - 1 \subseteq Nat
    BY <1>3
  <2>5. RefsOf(v[i]) \in Seq(Nat)
    BY <2>3, <2>4, SeqMonotonic
  <2> QED BY <2>1, <2>2, <2>5
<1> HIDE DEF inner, s
<1>8. IsStructure(s)
  <2>1. DOMAIN s \in SUBSET Nat
    BY <1>4, <1>5
  <2> QED BY <1>2, <1>6, <1>7, <2>1 DEF IsStructure
<1> QED BY <1>4, <1>5, <1>6, <1>8 DEF s

\* What is written for a node refers to later ones only.
LEMMA ChildIdsAfter ==
  ASSUME NEW v, IsVisit(v)
  PROVE  LET plan == ToSuccinct(v)
         IN  /\ Ids(plan) = 0 .. Len(v) - 1 /\ Len(v) \in Nat \ {0}
             /\ \A id \in Ids(plan) : \A ref \in Range(ChildIds(plan, id)) :
                  ref \in Nat /\ ref > id
<1> DEFINE plan == ToSuccinct(v)
<1>1. Len(v) \in Nat \ {0} /\ DOMAIN v = 1 .. Len(v)
  BY DEF IsVisit
<1>2. /\ Ids(plan) = 0 .. Len(v) - 1
      /\ \A i \in DOMAIN v :
           IF IsScan(v[i].label) THEN i - 1 \in DOMAIN plan.tables
           ELSE i - 1 \in DOMAIN plan.structure /\ plan.structure[i - 1].refs = RefsOf(v[i])
  BY SuccinctIs DEF Ids
<1> HIDE DEF plan
<1>3. ASSUME NEW id \in Ids(plan), NEW ref \in Range(ChildIds(plan, id))
      PROVE  ref \in Nat /\ ref > id
  <2> DEFINE i == id + 1
  <2>1. i \in DOMAIN v /\ id = i - 1 /\ i \in Nat
    BY <1>1, <1>2
  <2> HIDE DEF i
  <2>2. ChildIds(plan, id) = << >> \/ ChildIds(plan, id) = RefsOf(v[i])
    BY <1>2, <2>1 DEF ChildIds
  <2>3. Range(<< >>) = {}
    BY DEF Range
  <2>4. ref \in Range(RefsOf(v[i]))
    BY <2>2, <2>3
  <2>5. PICK k \in DOMAIN RefsOf(v[i]) : RefsOf(v[i])[k] = ref
    BY <2>4 DEF Range
  <2>6. ref \in i .. Len(v) - 1
    BY <2>1, <2>5, RefsAfter
  <2> QED BY <1>1, <2>1, <2>6
<1> QED BY <1>1, <1>2, <1>3 DEF plan

\* validate_execution_plan_graph accepts it.
LEMMA SuccinctAcyclic ==
  ASSUME NEW v, IsVisit(v)
  PROVE  IsNumbered(ToSuccinct(v)) /\ IsAcyclic(ToSuccinct(v))
<1> DEFINE plan == ToSuccinct(v)
           L == Len(v)
<1>1. /\ Ids(plan) = 0 .. L - 1 /\ L \in Nat \ {0}
      /\ \A id \in Ids(plan) : \A ref \in Range(ChildIds(plan, id)) : ref \in Nat /\ ref > id
  BY ChildIdsAfter
<1>2. IsStructure(plan.structure)
  BY SuccinctStructure
<1> HIDE DEF plan, L
<1>3. Ids(plan) \subseteq Nat /\ IsFiniteSet(Ids(plan))
  BY <1>1, FS_Interval
<1>4. IsNumbered(plan)
  BY <1>2, <1>3 DEF IsNumbered, IsStructure
<1>5. PICK g : IsLevels(plan, g) /\ (IsAcyclic(plan) <=> \E n \in Nat : g[n] = Ids(plan))
  BY <1>3, AcyclicIs
<1> DEFINE S == {n \in Nat : \A id \in Ids(plan) : id + n >= L => id \in g[n]}
<1>6. 0 \in S
  BY <1>1
<1>7. ASSUME NEW n \in S PROVE n + 1 \in S
  <2> SUFFICES ASSUME NEW id \in Ids(plan), id + (n + 1) >= L PROVE id \in g[n + 1]
    OBVIOUS
  <2>1. Range(ChildIds(plan, id)) \cap Ids(plan) \subseteq g[n]
    <3> SUFFICES ASSUME NEW ref \in Range(ChildIds(plan, id)), ref \in Ids(plan)
                 PROVE  ref \in g[n]
      OBVIOUS
    <3>1. ref \in Nat /\ id \in Nat /\ ref > id
      BY <1>1
    <3>2. ref + n >= L
      BY <1>1, <3>1
    <3> QED BY <3>2
  <2> QED BY <1>5, <2>1 DEF IsLevels, Above
<1>8. L \in S
  <2> HIDE DEF S
  <2> QED BY <1>1, <1>6, <1>7, SetInduction
<1>9. Ids(plan) \subseteq g[L]
  BY <1>1, <1>8
<1>10. g[L] \subseteq Ids(plan)
  BY <1>1, <1>5, LevelsGrow
<1> QED BY <1>1, <1>4, <1>5, <1>9, <1>10 DEF plan

\* BuildTree of what ToSuccinct wrote.
LEMMA BuildTreeIs ==
  ASSUME NEW v, IsVisit(v)
  PROVE  \E b : /\ BuildTree(ToSuccinct(v)) = b[RootId(ToSuccinct(v))]
                /\ \A i \in DOMAIN v :
                     b[i - 1] =
                       IF IsScan(v[i].label) THEN <<v[i].label>>
                       ELSE LET refs == RefsOf(v[i])
                                kids == [k \in 1 .. Len(refs) |-> b[refs[k]]]
                            IN  IF /\ Accepts(v[i].label.keys, Len(refs))
                                   /\ Unbuildable \notin Range(kids)
                                THEN <<v[i].label>> \o kids ELSE Unbuildable
<1> DEFINE plan == ToSuccinct(v)
<1>1. PICK b : IsBuild(plan, b) /\ BuildTree(plan) = b[RootId(plan)]
  BY SuccinctAcyclic, BuiltIs
<1>2. ASSUME NEW i \in DOMAIN v
      PROVE  b[i - 1] =
               IF IsScan(v[i].label) THEN <<v[i].label>>
               ELSE LET refs == RefsOf(v[i])
                        kids == [k \in 1 .. Len(refs) |-> b[refs[k]]]
                    IN  IF /\ Accepts(v[i].label.keys, Len(refs))
                           /\ Unbuildable \notin Range(kids)
                        THEN <<v[i].label>> \o kids ELSE Unbuildable
  <2> DEFINE id == i - 1
             refs == RefsOf(v[i])
             kids == [k \in 1 .. Len(refs) |-> b[refs[k]]]
  <2>1. id \in Nat
    BY VisitIs
  <2>2. /\ DOMAIN plan.structure \cap DOMAIN plan.tables = {}
        /\ IF IsScan(v[i].label)
           THEN id \in DOMAIN plan.tables /\ plan.tables[id] = v[i].label
           ELSE /\ id \in DOMAIN plan.structure
                /\ plan.structure[id].label = v[i].label
                /\ plan.structure[id].refs = RefsOf(v[i])
    BY SuccinctIs
  <2> HIDE DEF plan, id
  <2>3. b[id] = BuiltNode(plan, id, b)
    BY <1>1, <2>1 DEF IsBuild
  <2>4. CASE IsScan(v[i].label)
    <3>1. b[id] = <<v[i].label>>
      BY <2>2, <2>3, <2>4 DEF BuiltNode
    <3> QED BY <2>4, <3>1 DEF id
  <2>5. CASE ~IsScan(v[i].label)
    <3>1. /\ refs \in Seq(i .. Len(v) - 1) /\ DOMAIN refs = 1 .. Len(refs)
      BY RefsAfter
    <3>2. Len(refs) \in Nat
      <4> HIDE DEF refs
      <4> QED BY <3>1, LenProperties
    <3>3. kids = [k \in 1 .. Len(refs) |-> kids[k]]
      OBVIOUS
    <3> HIDE DEF kids
    <3>4. Len(kids) = Len(refs)
      BY <3>2, <3>3, TupleIsList
    <3>5. BuiltNode(plan, id, b)
            = LET ks == [k \in DOMAIN refs |-> b[refs[k]]]
              IN  IF Accepts(v[i].label.keys, Len(ks)) /\ Unbuildable \notin Range(ks)
                  THEN <<v[i].label>> \o ks ELSE Unbuildable
      <4> HIDE DEF refs
      <4> QED BY <2>2, <2>5 DEF BuiltNode, refs
    <3>6. [k \in DOMAIN refs |-> b[refs[k]]] = kids
      BY <3>1 DEF kids
    <3>7. b[id] = IF Accepts(v[i].label.keys, Len(refs)) /\ Unbuildable \notin Range(kids)
                  THEN <<v[i].label>> \o kids ELSE Unbuildable
      <4> HIDE DEF refs
      <4> QED BY <2>3, <3>4, <3>5, <3>6
    <3> QED BY <2>5, <3>7 DEF id, kids
  <2> QED BY <2>4, <2>5
<1> QED BY <1>1, <1>2

\* The root it is rebuilt from is the node that was visited first.
LEMMA SuccinctRoot ==
  ASSUME NEW v, IsVisit(v)
  PROVE  Roots(ToSuccinct(v)) # {} /\ RootId(ToSuccinct(v)) = 0
<1> DEFINE plan == ToSuccinct(v)
           inner == Roots(plan) \cap DOMAIN plan.structure
<1>1. /\ Ids(plan) = 0 .. Len(v) - 1 /\ Len(v) \in Nat \ {0} /\ DOMAIN v = 1 .. Len(v)
      /\ \A id \in Ids(plan) : \A ref \in Range(ChildIds(plan, id)) : ref \in Nat /\ ref > id
  BY ChildIdsAfter DEF IsVisit
<1>2. /\ DOMAIN plan.structure \cap DOMAIN plan.tables = {}
      /\ \A i \in DOMAIN v : IF IsScan(v[i].label) THEN i - 1 \in DOMAIN plan.tables
                             ELSE i - 1 \in DOMAIN plan.structure
  BY SuccinctIs
<1> HIDE DEF plan
<1>3. 0 \in Roots(plan) /\ Roots(plan) \subseteq Nat
  <2>1. 0 \in Ids(plan) /\ Ids(plan) \subseteq Nat
    BY <1>1
  <2>2. \A id \in Ids(plan) : 0 \notin Range(ChildIds(plan, id))
    BY <1>1
  <2> QED BY <2>1, <2>2 DEF Roots
<1>4. StringRank(0) = 0 /\ \A id \in Nat \ {0} : StringRank(id) > 0
  <2>1. StringRank(0) = 0
    BY DEF StringRank
  <2>2. ASSUME NEW id \in Nat \ {0} PROVE StringRank(id) > 0
    <3>1. CASE id < 10
      BY <3>1 DEF StringRank
    <3>2. CASE ~ (id < 10)
      <4>1. id \div 10 \in Nat /\ id % 10 \in Nat
        OBVIOUS
      <4> DEFINE tens == id \div 10
                 units == id % 10
      <4>2. StringRank(id) = (11 * tens) + units + 1
        BY <3>2 DEF StringRank
      <4>3. tens \in Nat /\ units \in Nat
        BY <4>1
      <4> HIDE DEF tens, units
      <4> QED BY <4>2, <4>3
    <3> QED BY <3>1, <3>2
  <2> QED BY <2>1, <2>2
<1>5. CASE ~IsScan(v[1].label)
  <2>1. 0 \in inner
    <3>1. 1 - 1 \in DOMAIN plan.structure
      BY <1>1, <1>2, <1>5
    <3> QED BY <1>3, <3>1
  <2>2. RootId(plan) = CHOOSE r \in inner : \A o \in inner : StringRank(r) <= StringRank(o)
    BY <2>1 DEF RootId
  <2>3. \A r \in inner : StringRank(r) >= 0 /\ (r # 0 => StringRank(r) > 0)
    <3> SUFFICES ASSUME NEW r \in inner
                 PROVE  StringRank(r) >= 0 /\ (r # 0 => StringRank(r) > 0)
      OBVIOUS
    <3> DEFINE x == StringRank(r)
    <3>1. r \in Nat
      BY <1>3
    <3>2. x \in Int
      BY <3>1 DEF StringRank
    <3>3. (r = 0 => x = 0) /\ (r # 0 => x > 0)
      BY <1>4, <3>1
    <3> HIDE DEF x
    <3>4. x >= 0 /\ (r # 0 => x > 0)
      BY <3>2, <3>3
    <3> QED BY <3>4 DEF x
  <2> HIDE DEF inner
  <2>4. \A o \in inner : StringRank(0) <= StringRank(o)
    BY <1>4, <2>3
  <2>5. \A r \in inner : (\A o \in inner : StringRank(r) <= StringRank(o)) => r = 0
    <3> SUFFICES ASSUME NEW r \in inner, \A o \in inner : StringRank(r) <= StringRank(o), r # 0
                 PROVE  FALSE
      OBVIOUS
    <3>1. StringRank(r) <= 0 /\ StringRank(r) > 0
      BY <1>4, <2>1, <2>3
    <3>2. r \in Nat
      BY <1>3 DEF inner
    <3>3. StringRank(r) \in Int
      BY <3>2 DEF StringRank
    <3> DEFINE x == StringRank(r)
    <3>4. x \in Int /\ x <= 0 /\ x > 0
      BY <3>1, <3>3
    <3> HIDE DEF x
    <3> QED BY <3>4
  <2>6. RootId(plan) = 0
    BY <2>1, <2>2, <2>4, <2>5
  <2> QED BY <1>3, <2>6 DEF plan
<1>6. CASE IsScan(v[1].label)
  <2>1. Len(v) = 1
    <3> SUFFICES ASSUME Len(v) # 1 PROVE FALSE
      OBVIOUS
    <3>1. 2 \in DOMAIN v /\ 1 \in DOMAIN v
      BY <1>1
    <3>2. PICK p \in 1 .. 2 - 1 : 2 \in Range(v[p].kids)
      BY <3>1 DEF IsVisit
    <3>3. p = 1
      BY <3>2
    <3>4. v[1].kids = << >>
      BY <1>6, <3>1, VisitIs
    <3>5. Range(<< >>) = {}
      BY DEF Range
    <3> QED BY <3>2, <3>3, <3>4, <3>5
  <2>2. Ids(plan) = {0} /\ 0 \in DOMAIN plan.tables
    <3>1. 1 - 1 \in DOMAIN plan.tables /\ 1 - 1 = 0
      BY <1>1, <1>2, <1>6
    <3>2. 0 .. 1 - 1 = {0}
      OBVIOUS
    <3> QED BY <1>1, <2>1, <3>1, <3>2
  <2>3. Roots(plan) = {0} /\ inner = {}
    <3>1. Roots(plan) = {0}
      BY <1>3, <2>2 DEF Roots
    <3> QED BY <1>2, <2>2, <3>1
  <2>4. RootId(plan) = Min({0})
    BY <2>3 DEF RootId
  <2>5. Min({0}) = 0
    <3> DEFINE S == {0}
    <3>1. S \subseteq Nat /\ S # {} /\ \A x \in S : x = 0
      OBVIOUS
    <3> HIDE DEF S
    <3>2. Min(S) = 0
      BY <3>1, MinIsElement
    <3> QED BY <3>2 DEF S
  <2> QED BY <2>3, <2>4, <2>5 DEF plan
<1> QED BY <1>5, <1>6

\* A plan of the engine is rebuilt from the exchange format as it was, or not at
\* all: a node that keeps its children is rebuilt once they are, one that loses
\* them is not, and neither is what stands above it.
THEOREM RoundTrip ==
  ASSUME NEW v, IsVisit(v)
  PROVE  FromSuccinct(ToSuccinct(v))
           = IF \E i \in DOMAIN v : Loses(v[i]) THEN Unbuildable ELSE TreeOf(v)
<1>1. FromSuccinct(ToSuccinct(v)) = BuildTree(ToSuccinct(v))
  BY SuccinctAcyclic, SuccinctRoot DEF FromSuccinct
<1>2. PICK b : /\ BuildTree(ToSuccinct(v)) = b[RootId(ToSuccinct(v))]
               /\ \A i \in DOMAIN v :
                    b[i - 1] =
                      IF IsScan(v[i].label) THEN <<v[i].label>>
                      ELSE LET refs == RefsOf(v[i])
                               kids == [k \in 1 .. Len(refs) |-> b[refs[k]]]
                           IN  IF /\ Accepts(v[i].label.keys, Len(refs))
                                  /\ Unbuildable \notin Range(kids)
                               THEN <<v[i].label>> \o kids ELSE Unbuildable
  BY BuildTreeIs
<1>3. PICK t : /\ TreeOf(v) = t[1]
               /\ \A i \in DOMAIN v : t[i] = NodeTree(v[i], t) /\ t[i] # << >>
  BY TreeOfIs
<1> DEFINE L == Len(v)
<1>4. L \in Nat \ {0} /\ DOMAIN v = 1 .. L
  BY DEF IsVisit
<1>5. FromSuccinct(ToSuccinct(v)) = b[1 - 1]
  BY <1>1, <1>2, SuccinctRoot
<1>6. ASSUME NEW i \in DOMAIN v, ~Loses(v[i]), ~IsScan(v[i].label)
      PROVE  /\ Accepts(v[i].label.keys, Len(v[i].kids))
             /\ b[i - 1] = LET kids == [k \in 1 .. Len(v[i].kids) |-> b[v[i].kids[k] - 1]]
                           IN  IF Unbuildable \notin Range(kids)
                               THEN <<v[i].label>> \o kids ELSE Unbuildable
  <2> DEFINE n == Len(v[i].kids)
             refs == RefsOf(v[i])
             keys == v[i].label.keys
  <2>1. n \in Nat /\ HasKids(keys, n)
    BY VisitIs
  <2>2. keys # "scan" /\ ~ (keys = "inputs" /\ n = 2)
    BY <1>6 DEF Loses, IsScan
  <2>3. Accepts(keys, n)
    <3> HIDE DEF keys, n
    <3>1. CASE keys = "inputs"
      <4>1. n >= 3
        BY <2>1, <2>2, <3>1 DEF HasKids
      <4> QED BY <3>1, <4>1 DEF Accepts
    <3>2. CASE keys = "none" /\ n = 0
      BY <3>2 DEF Accepts
    <3>3. CASE keys = "input" /\ n = 1
      BY <3>3 DEF Accepts
    <3>4. CASE keys = "sides" /\ n = 2
      BY <3>4 DEF Accepts
    <3> QED BY <2>1, <2>2, <3>1, <3>2, <3>3, <3>4 DEF HasKids
  <2>4. Len(refs) = n /\ \A k \in 1 .. n : refs[k] = v[i].kids[k] - 1
    BY <1>6, RefsAfter
  <2>5. b[i - 1] = LET kids == [k \in 1 .. Len(refs) |-> b[refs[k]]]
                   IN  IF Accepts(keys, Len(refs)) /\ Unbuildable \notin Range(kids)
                       THEN <<v[i].label>> \o kids ELSE Unbuildable
    BY <1>2, <1>6
  <2> HIDE DEF refs
  <2>6. [k \in 1 .. Len(refs) |-> b[refs[k]]] = [k \in 1 .. n |-> b[v[i].kids[k] - 1]]
    BY <2>4
  <2> QED BY <2>3, <2>4, <2>5, <2>6
<1>7. CASE \A i \in DOMAIN v : ~Loses(v[i])
  <2> DEFINE S == {n \in Nat : \A i \in DOMAIN v : i + n >= L => b[i - 1] = t[i]}
  <2>1. ASSUME NEW i \in DOMAIN v, \A k \in 1 .. Len(v[i].kids) : b[v[i].kids[k] - 1] = t[v[i].kids[k]]
        PROVE  b[i - 1] = t[i]
    <3> DEFINE kids == v[i].kids
               rest == [k \in 1 .. Len(kids) |-> b[kids[k] - 1]]
    <3>1. /\ Len(kids) \in Nat /\ DOMAIN kids = 1 .. Len(kids)
          /\ \A k \in 1 .. Len(kids) : kids[k] \in DOMAIN v
          /\ IsScan(v[i].label) => Len(kids) = 0
      BY VisitIs
    <3>2. rest = [k \in DOMAIN kids |-> t[kids[k]]]
      BY <2>1, <3>1
    <3>3. t[i] = <<v[i].label>> \o rest
      <4> HIDE DEF rest
      <4> QED BY <1>3, <3>2 DEF NodeTree
    <3>4. CASE IsScan(v[i].label)
      <4>1. 1 .. 0 = {}
        OBVIOUS
      <4>2. rest = << >>
        <5>1. rest = [k \in 1 .. 0 |-> rest[k]]
          BY <3>1, <3>4
        <5> HIDE DEF rest
        <5>2. rest \in Seq(Range(rest)) /\ Len(rest) = 0
          BY <5>1, TupleIsList
        <5> QED BY <5>2, EmptySeq
      <4>3. <<v[i].label>> \o << >> = <<v[i].label>>
        <5>1. <<v[i].label>> \in Seq({v[i].label})
          OBVIOUS
        <5> QED BY <5>1, ConcatEmptySeq
      <4>4. b[i - 1] = <<v[i].label>>
        BY <1>2, <3>4
      <4> HIDE DEF rest
      <4> QED BY <3>3, <4>2, <4>3, <4>4
    <3>5. CASE ~IsScan(v[i].label)
      <4>1. Unbuildable \notin Range(rest)
        <5>1. \A k \in 1 .. Len(kids) : rest[k] # << >>
          BY <1>3, <2>1, <3>1
        <5>2. DOMAIN rest = 1 .. Len(kids)
          OBVIOUS
        <5> HIDE DEF rest
        <5> QED BY <5>1, <5>2 DEF Range, Unbuildable
      <4>2. b[i - 1] = IF Unbuildable \notin Range(rest)
                       THEN <<v[i].label>> \o rest ELSE Unbuildable
        BY <1>6, <1>7, <3>5
      <4> HIDE DEF rest
      <4> QED BY <3>3, <4>1, <4>2
    <3> QED BY <3>4, <3>5
  <2>2. ASSUME NEW i \in DOMAIN v, NEW k \in 1 .. Len(v[i].kids)
        PROVE  v[i].kids[k] \in DOMAIN v /\ v[i].kids[k] > i
    <3>1. v[i].kids[k] \in i + 1 .. L /\ v[i].kids[k] \in DOMAIN v /\ i \in Nat
      BY VisitIs
    <3> QED BY <1>4, <3>1
  <2> HIDE DEF L
  <2>3. 0 \in S
    <3> SUFFICES ASSUME NEW i \in DOMAIN v, i + 0 >= L PROVE b[i - 1] = t[i]
      OBVIOUS
    <3>1. \A k \in 1 .. Len(v[i].kids) : FALSE
      BY <1>4, <2>2
    <3> QED BY <2>1, <3>1
  <2>4. ASSUME NEW n \in Nat, n \in S PROVE n + 1 \in S
    <3> SUFFICES ASSUME NEW i \in DOMAIN v, i + (n + 1) >= L PROVE b[i - 1] = t[i]
      OBVIOUS
    <3>1. \A k \in 1 .. Len(v[i].kids) : b[v[i].kids[k] - 1] = t[v[i].kids[k]]
      <4> SUFFICES ASSUME NEW k \in 1 .. Len(v[i].kids)
                   PROVE  b[v[i].kids[k] - 1] = t[v[i].kids[k]]
        OBVIOUS
      <4> DEFINE j == v[i].kids[k]
      <4>1. j \in DOMAIN v /\ j > i
        BY <2>2
      <4> HIDE DEF j
      <4>2. j + n >= L
        BY <1>4, <4>1
      <4>3. b[j - 1] = t[j]
        BY <2>4, <4>1, <4>2
      <4> QED BY <4>3 DEF j
    <3> QED BY <2>1, <3>1
  <2>5. L \in S
    <3> HIDE DEF S
    <3> QED BY <1>4, <2>3, <2>4, SetInduction
  <2>6. b[1 - 1] = t[1]
    BY <1>4, <2>5
  <2> QED BY <1>3, <1>5, <1>7, <2>6
<1>8. CASE ~ (\A i \in DOMAIN v : ~Loses(v[i]))
  <2> DEFINE S == {i \in DOMAIN v : b[i - 1] = Unbuildable}
  <2>1. ASSUME NEW i \in DOMAIN v, Loses(v[i]) PROVE i \in S
    <3>1. v[i].label.keys = "inputs" /\ ~IsScan(v[i].label) /\ Len(RefsOf(v[i])) = 0
      BY <2>1, RefsAfter DEF Loses, IsScan
    <3>2. ~Accepts("inputs", 0)
      BY DEF Accepts
    <3> QED BY <1>2, <3>1, <3>2
  <2>2. S # {} /\ S \subseteq Nat
    BY <1>4, <1>8, <2>1
  <2> DEFINE m == Min(S)
  <2>3. m \in S /\ \A i \in S : m <= i
    <3> HIDE DEF S
    <3> QED BY <2>2, MinIsElement
  <2> HIDE DEF m
  <2>4. m = 1
    <3> SUFFICES ASSUME m # 1 PROVE FALSE
      OBVIOUS
    <3>1. m \in 1 .. L /\ m \in DOMAIN v /\ m > 1 /\ b[m - 1] = Unbuildable
      BY <1>4, <2>3
    <3>2. PICK p \in 1 .. m - 1 : m \in Range(v[p].kids)
      BY <3>1 DEF IsVisit
    <3>3. p \in DOMAIN v /\ p < m
      BY <1>4, <3>1, <3>2
    <3>4. PICK k \in DOMAIN v[p].kids : v[p].kids[k] = m
      BY <3>2 DEF Range
    <3>5. k \in 1 .. Len(v[p].kids) /\ (IsScan(v[p].label) => Len(v[p].kids) = 0)
          /\ Len(v[p].kids) \in Nat
      BY <3>3, <3>4, VisitIs
    <3>6. ~IsScan(v[p].label)
      BY <3>5
    <3>7. ~Loses(v[p]) => b[p - 1] = Unbuildable
      <4> SUFFICES ASSUME ~Loses(v[p]) PROVE b[p - 1] = Unbuildable
        OBVIOUS
      <4> DEFINE kids == [x \in 1 .. Len(v[p].kids) |-> b[v[p].kids[x] - 1]]
      <4>1. kids[k] = Unbuildable /\ DOMAIN kids = 1 .. Len(v[p].kids)
        BY <3>1, <3>4, <3>5
      <4>2. b[p - 1] = IF Unbuildable \notin Range(kids)
                       THEN <<v[p].label>> \o kids ELSE Unbuildable
        BY <1>6, <3>3, <3>6
      <4> HIDE DEF kids
      <4>3. Unbuildable \in Range(kids)
        BY <3>5, <4>1 DEF Range
      <4> QED BY <4>2, <4>3
    <3>8. p \in S
      BY <2>1, <3>3, <3>7
    <3>9. m <= p /\ p \in Nat /\ m \in Nat
      BY <2>3, <3>1, <3>2, <3>8
    <3> QED BY <3>3, <3>9
  <2>5. b[1 - 1] = Unbuildable
    BY <2>3, <2>4
  <2> QED BY <1>5, <1>8, <2>5
<1> QED BY <1>7, <1>8

-----------------------------------------------------------------------------
(* Folds of sequences. *)

\* it goes through the positions of seq, the last of a set of them last.
Folds(it, h, base, seq) ==
  it = [s \in SUBSET DOMAIN seq |->
          IF s = {} THEN base ELSE LET x == Max(s) IN h[it[s \ {x}]][seq[x]]]

LEMMA SubsetSize ==
  ASSUME NEW n \in Nat, NEW s \in SUBSET (1 .. n)
  PROVE  Cardinality(s) \in Nat /\ Cardinality(s) <= n /\ (Cardinality(s) = 0 <=> s = {})
<1>1. IsFiniteSet(1 .. n) /\ Cardinality(1 .. n) = n
  BY FS_Interval
<1>2. IsFiniteSet(s) /\ Cardinality(s) \in Nat /\ Cardinality(s) <= n
  BY <1>1, FS_Subset, FS_CardinalityType
<1> QED BY <1>2, FS_EmptySet

LEMMA MaxLeavesFewer ==
  ASSUME NEW n \in Nat, NEW s \in SUBSET (1 .. n), s # {}
  PROVE  /\ Max(s) \in s /\ s \ {Max(s)} \in SUBSET (1 .. n)
         /\ Cardinality(s \ {Max(s)}) = Cardinality(s) - 1
<1>1. IsFiniteSet(s)
  <2>1. IsFiniteSet(1 .. n)
    BY FS_Interval
  <2> QED BY <2>1, FS_Subset
<1>2. Max(s) \in s
  <2>1. s \subseteq 0 .. n
    OBVIOUS
  <2> QED BY <2>1, MaxOfBounded
<1>3. Cardinality(s \ {Max(s)}) = Cardinality(s) - 1
  BY <1>1, <1>2, FS_RemoveElement
<1> QED BY <1>2, <1>3

LEMMA FoldExists ==
  ASSUME NEW h, NEW base, NEW seq, NEW n \in Nat, DOMAIN seq = 1 .. n
  PROVE  \E it : Folds(it, h, base, seq)
<1> DEFINE S == 1 .. n
           E(k) == {s \in SUBSET S : Cardinality(s) <= k}
           Turn(t, s) == IF s = {} THEN base ELSE h[t[s \ {Max(s)}]][seq[Max(s)]]
           Upto(k, t) == t = [s \in E(k) |-> Turn(t, s)]
           P == {k \in Nat : \E t : Upto(k, t)}
<1>1. \A s \in SUBSET S : s # {} => /\ s \ {Max(s)} \in SUBSET S
                                    /\ Cardinality(s \ {Max(s)}) = Cardinality(s) - 1
  BY MaxLeavesFewer
<1>2. \A s \in SUBSET S : /\ Cardinality(s) \in Nat /\ Cardinality(s) <= n
                          /\ Cardinality(s) = 0 <=> s = {}
  BY SubsetSize
<1>3. 0 \in P
  <2> DEFINE t == [s \in E(0) |-> base]
  <2>1. \A s \in E(0) : s = {}
    <3> SUFFICES ASSUME NEW s \in SUBSET S, Cardinality(s) <= 0 PROVE s = {}
      OBVIOUS
    <3> HIDE DEF S
    <3> QED BY <1>2
  <2>2. Upto(0, t)
    BY <2>1
  <2> HIDE DEF t, Upto
  <2> QED BY <2>2
<1>4. ASSUME NEW k \in Nat, k \in P PROVE k + 1 \in P
  <2>1. PICK t : Upto(k, t)
    BY <1>4
  <2> DEFINE u == [s \in E(k + 1) |-> Turn(t, s)]
  <2>2. \A s \in E(k) : s \in E(k + 1) /\ u[s] = t[s]
    <3> SUFFICES ASSUME NEW s \in E(k) PROVE s \in E(k + 1) /\ u[s] = t[s]
      OBVIOUS
    <3>1. s \in E(k + 1)
      BY <1>2
    <3>2. t[s] = Turn(t, s)
      BY <2>1
    <3>3. u[s] = Turn(t, s)
      BY <3>1
    <3> HIDE DEF u, Turn
    <3> QED BY <3>1, <3>2, <3>3
  <2>3. \A s \in E(k + 1) : s # {} => s \ {Max(s)} \in E(k)
    <3> SUFFICES ASSUME NEW s \in SUBSET S, Cardinality(s) <= k + 1, s # {}
                 PROVE  s \ {Max(s)} \in SUBSET S /\ Cardinality(s \ {Max(s)}) <= k
      OBVIOUS
    <3> HIDE DEF S
    <3> QED BY <1>1, <1>2
  <2>4. \A s \in E(k + 1) : Turn(t, s) = Turn(u, s)
    <3> HIDE DEF u, E
    <3> QED BY <2>2, <2>3
  <2>5. Upto(k + 1, u)
    <3> HIDE DEF Turn
    <3> QED BY <2>4
  <2> HIDE DEF u, Upto
  <2> QED BY <2>5
<1>5. n \in P
  <2> HIDE DEF P
  <2> QED BY <1>3, <1>4, SetInduction
<1>6. PICK it : Upto(n, it)
  BY <1>5
<1>7. E(n) = SUBSET S
  BY <1>2
<1>8. it = [s \in SUBSET S |-> Turn(it, s)]
  <2> HIDE DEF E, Turn
  <2> QED BY <1>6, <1>7
<1> QED BY <1>8 DEF Folds

\* A fold goes through a sequence step by step.
LEMMA FoldSteps ==
  ASSUME NEW it, NEW h, NEW base, NEW seq, NEW n \in Nat, DOMAIN seq = 1 .. n,
         Folds(it, h, base, seq)
  PROVE  /\ it[1 .. 0] = base
         /\ \A m \in 0 .. n - 1 : it[1 .. m + 1] = h[it[1 .. m]][seq[m + 1]]
<1>1. it[1 .. 0] = base
  <2>1. 1 .. 0 = {}
    OBVIOUS
  <2> QED BY <2>1 DEF Folds
<1>2. ASSUME NEW m \in 0 .. n - 1
      PROVE  it[1 .. m + 1] = h[it[1 .. m]][seq[m + 1]]
  <2> DEFINE s == 1 .. m + 1
  <2>1. Max(s) = m + 1
    <3>1. m + 1 \in s /\ s \subseteq Int /\ \A y \in s : m + 1 >= y
      OBVIOUS
    <3> HIDE DEF s
    <3> QED BY <3>1, MaxIs
  <2>2. s \ {m + 1} = 1 .. m /\ s \in SUBSET DOMAIN seq /\ s # {}
    <3>1. m + 1 \in s
      OBVIOUS
    <3> QED BY <3>1
  <2>3. it[s] = h[it[s \ {Max(s)}]][seq[Max(s)]]
    <3> HIDE DEF s
    <3> QED BY <2>2 DEF Folds
  <2> QED BY <2>1, <2>2, <2>3
<1> QED BY <1>1, <1>2

\* Its values stay in a set that the step stays in.
LEMMA FoldType ==
  ASSUME NEW it, NEW h, NEW base, NEW seq, NEW n \in Nat, DOMAIN seq = 1 .. n,
         Folds(it, h, base, seq), NEW D, base \in D,
         \A a \in D : \A i \in 1 .. n : h[a][seq[i]] \in D
  PROVE  \A s \in SUBSET (1 .. n) : it[s] \in D
<1> DEFINE S == 1 .. n
           P == {k \in Nat : \A s \in SUBSET S : Cardinality(s) = k => it[s] \in D}
<1>1. it[{}] = base
  BY DEF Folds
<1>2. \A s \in SUBSET S : Cardinality(s) \in Nat /\ (Cardinality(s) = 0 <=> s = {})
  BY SubsetSize
<1>3. 0 \in P
  BY <1>1, <1>2
<1>4. ASSUME NEW k \in Nat, \A s \in SUBSET S : Cardinality(s) = k => it[s] \in D,
             NEW s \in SUBSET S, Cardinality(s) = k + 1
      PROVE  it[s] \in D
  <2>1. s # {}
    <3> HIDE DEF S
    <3> QED BY <1>2, <1>4
  <2>2. Max(s) \in S /\ s \ {Max(s)} \in SUBSET S /\ Cardinality(s \ {Max(s)}) = k
    <3>1. /\ Max(s) \in s /\ s \ {Max(s)} \in SUBSET S
          /\ Cardinality(s \ {Max(s)}) = Cardinality(s) - 1
      BY <2>1, MaxLeavesFewer
    <3> HIDE DEF S
    <3> QED BY <1>4, <3>1
  <2>3. it[s \ {Max(s)}] \in D
    BY <1>4, <2>2
  <2>4. it[s] = h[it[s \ {Max(s)}]][seq[Max(s)]]
    BY <2>1 DEF Folds
  <2> QED BY <2>2, <2>3, <2>4
<1>5. Nat \subseteq P
  <2>1. \A k \in Nat : k \in P => k + 1 \in P
    BY <1>4
  <2> HIDE DEF P
  <2> QED BY <1>3, <2>1, SetInduction
<1> QED BY <1>2, <1>5

\* A fold whose step is a function's.
FoldOf(h, base, seq) == FoldLeft(LAMBDA a, c : h[a][c], base, seq)

LEMMA FoldOfFunction ==
  ASSUME NEW h, NEW base, NEW seq, NEW n \in Nat, DOMAIN seq = 1 .. n
  PROVE  \E w : /\ w[0] = base
                /\ \A m \in 0 .. n - 1 : w[m + 1] = h[w[m]][seq[m + 1]]
                /\ FoldOf(h, base, seq) = w[n]
<1> DEFINE it == CHOOSE it : Folds(it, h, base, seq)
           w == [m \in 0 .. n |-> it[1 .. m]]
<1>1. Folds(it, h, base, seq)
  BY FoldExists
<1>2. FoldOf(h, base, seq) = it[DOMAIN seq]
  BY DEF FoldOf, FoldLeft, MapThenFoldSet, Folds
<1> HIDE DEF it
<1>3. it[1 .. 0] = base /\ \A m \in 0 .. n - 1 : it[1 .. m + 1] = h[it[1 .. m]][seq[m + 1]]
  BY <1>1, FoldSteps
<1>4. w[0] = base /\ w[n] = it[DOMAIN seq]
  BY <1>3
<1>5. \A m \in 0 .. n - 1 : w[m + 1] = h[w[m]][seq[m + 1]]
  BY <1>3
<1> HIDE DEF w
<1> QED BY <1>2, <1>4, <1>5

-----------------------------------------------------------------------------
(* The order of the renumbering. *)

States(nodes) == [visited : SUBSET DOMAIN nodes, order : Seq(DOMAIN nodes)]

Enter(acc, id) == [acc EXCEPT !.visited = @ \cup {id}]

\* dfs at a node, from what it does at the others.
Explore(nodes, h, acc, id) ==
  IF id \notin DOMAIN nodes \ acc.visited THEN acc
  ELSE [FoldOf(h, Enter(acc, id), nodes[id].refs) EXCEPT !.order = Append(@, id)]

IsDfs(h, nodes) ==
  h = [acc \in States(nodes) |-> [id \in Nat |-> Explore(nodes, h, acc, id)]]

\* What only ever adds to the nodes that were visited.
Moves(nodes) ==
  {h \in [States(nodes) -> [Nat -> States(nodes)]] :
     \A acc \in States(nodes) : \A id \in Nat : acc.visited \subseteq h[acc][id].visited}

\* The children of a node are gone through one by one.
Through(w, h, acc, refs) ==
  w[0] = acc /\ \A m \in 0 .. Len(refs) - 1 : w[m + 1] = h[w[m]][refs[m + 1]]

LEMMA ExploreIs ==
  ASSUME NEW nodes, IsStructure(nodes), NEW h, NEW acc, NEW id \in DOMAIN nodes \ acc.visited
  PROVE  \E w : /\ Through(w, h, Enter(acc, id), nodes[id].refs)
                /\ Explore(nodes, h, acc, id)
                     = [w[Len(nodes[id].refs)] EXCEPT !.order = Append(@, id)]
<1> DEFINE refs == nodes[id].refs
           n == Len(refs)
           left == FoldOf(h, Enter(acc, id), refs)
<1>1. n \in Nat /\ DOMAIN refs = 1 .. n
  <2>1. refs \in Seq(Nat)
    BY DEF IsStructure
  <2> QED BY <2>1, LenProperties
<1>2. Explore(nodes, h, acc, id) = [left EXCEPT !.order = Append(@, id)]
  BY DEF Explore
<1>3. PICK w : /\ w[0] = Enter(acc, id)
               /\ \A m \in 0 .. n - 1 : w[m + 1] = h[w[m]][refs[m + 1]]
               /\ left = w[n]
  <2> HIDE DEF refs, n
  <2> QED BY <1>1, FoldOfFunction
<1> HIDE DEF left
<1> QED BY <1>2, <1>3 DEF Through

LEMMA ThroughGrows ==
  ASSUME NEW nodes, NEW h \in Moves(nodes), NEW acc \in States(nodes),
         NEW refs \in Seq(Nat), NEW w, Through(w, h, acc, refs)
  PROVE  \A m \in 0 .. Len(refs) : w[m] \in States(nodes) /\ acc.visited \subseteq w[m].visited
<1> DEFINE n == Len(refs)
           St == States(nodes)
           P == {m \in Nat : m <= n => w[m] \in St /\ acc.visited \subseteq w[m].visited}
<1>1. n \in Nat /\ \A m \in 0 .. n - 1 : refs[m + 1] \in Nat
  <2>1. n \in Nat /\ refs \in [1 .. n -> Nat]
    BY LenProperties
  <2> QED BY <2>1
<1>2. 0 \in P
  BY DEF Through
<1>3. ASSUME NEW m \in Nat, m \in P PROVE m + 1 \in P
  <2> SUFFICES ASSUME m + 1 <= n PROVE m + 1 \in P
    OBVIOUS
  <2>1. w[m] \in St /\ acc.visited \subseteq w[m].visited /\ m \in 0 .. n - 1
    BY <1>1, <1>3
  <2>2. w[m + 1] = h[w[m]][refs[m + 1]] /\ refs[m + 1] \in Nat
    BY <1>1, <2>1 DEF Through
  <2>3. w[m + 1] \in St /\ w[m].visited \subseteq w[m + 1].visited
    <3> HIDE DEF St
    <3> QED BY <2>1, <2>2 DEF Moves, St
  <2> HIDE DEF St
  <2> QED BY <2>1, <2>3
<1>4. Nat \subseteq P
  <2> HIDE DEF P
  <2> QED BY <1>2, <1>3, SetInduction
<1> HIDE DEF St
<1> QED BY <1>1, <1>4 DEF St

LEMMA EnterIs ==
  ASSUME NEW nodes, NEW acc \in States(nodes), NEW id \in DOMAIN nodes
  PROVE  /\ Enter(acc, id) \in States(nodes) /\ Enter(acc, id).order = acc.order
         /\ Enter(acc, id).visited = acc.visited \cup {id}
BY DEF Enter, States

\* What is made of a state after the children of a node.
LEMMA LeaveIs ==
  ASSUME NEW nodes, NEW acc \in States(nodes), NEW id \in DOMAIN nodes
  PROVE  LET left == [acc EXCEPT !.order = Append(@, id)]
         IN  /\ left \in States(nodes) /\ left.visited = acc.visited
             /\ left.order = Append(acc.order, id)
<1>1. acc.order \in Seq(DOMAIN nodes) /\ acc.visited \in SUBSET DOMAIN nodes
      /\ acc = [visited |-> acc.visited, order |-> acc.order]
  BY DEF States
<1>2. Append(acc.order, id) \in Seq(DOMAIN nodes)
  BY <1>1, AppendProperties
<1> QED BY <1>1, <1>2 DEF States

LEMMA ExploreMoves ==
  ASSUME NEW nodes, IsStructure(nodes), NEW h \in Moves(nodes),
         NEW acc \in States(nodes), NEW id \in Nat
  PROVE  /\ Explore(nodes, h, acc, id) \in States(nodes)
         /\ acc.visited \subseteq Explore(nodes, h, acc, id).visited
         /\ id \in DOMAIN nodes => id \in Explore(nodes, h, acc, id).visited
<1>1. CASE id \notin DOMAIN nodes \ acc.visited
  BY <1>1 DEF Explore
<1>2. CASE id \in DOMAIN nodes \ acc.visited
  <2> DEFINE refs == nodes[id].refs
             n == Len(refs)
  <2>1. PICK w : /\ Through(w, h, Enter(acc, id), refs)
                 /\ Explore(nodes, h, acc, id) = [w[n] EXCEPT !.order = Append(@, id)]
    BY <1>2, ExploreIs
  <2>2. refs \in Seq(Nat) /\ n \in 0 .. n
    <3>1. refs \in Seq(Nat)
      BY <1>2 DEF IsStructure
    <3> QED BY <3>1, LenProperties
  <2>3. Enter(acc, id) \in States(nodes) /\ Enter(acc, id).visited = acc.visited \cup {id}
    BY <1>2, EnterIs
  <2> HIDE DEF refs
  <2>4. w[n] \in States(nodes) /\ acc.visited \cup {id} \subseteq w[n].visited
    BY <2>1, <2>2, <2>3, ThroughGrows
  <2> HIDE DEF n
  <2>5. LET left == [w[n] EXCEPT !.order = Append(@, id)]
        IN  left \in States(nodes) /\ left.visited = w[n].visited
    BY <1>2, <2>4, LeaveIs
  <2> QED BY <2>1, <2>4, <2>5
<1> QED BY <1>1, <1>2

Left(nodes, acc) == Cardinality(DOMAIN nodes \ acc.visited)

LEMMA LeftShrinks ==
  ASSUME NEW nodes, IsStructure(nodes), NEW a \in States(nodes), NEW b \in States(nodes),
         a.visited \subseteq b.visited
  PROVE  /\ Left(nodes, a) \in Nat /\ Left(nodes, b) \in Nat
         /\ Left(nodes, b) <= Left(nodes, a)
         /\ (\E id \in b.visited : id \notin a.visited) => Left(nodes, b) < Left(nodes, a)
<1> DEFINE A == DOMAIN nodes \ a.visited
           B == DOMAIN nodes \ b.visited
<1>1. IsFiniteSet(DOMAIN nodes) /\ A \in SUBSET DOMAIN nodes /\ B \in SUBSET A
  BY DEF IsStructure
<1>2. b.visited \subseteq DOMAIN nodes
  BY DEF States
<1>3. (\E id \in b.visited : id \notin a.visited) => A # B
  BY <1>2
<1> HIDE DEF A, B
<1>4. IsFiniteSet(A) /\ Cardinality(A) \in Nat
  BY <1>1, FS_Subset, FS_CardinalityType
<1>5. /\ Cardinality(B) \in Nat /\ Cardinality(B) <= Cardinality(A)
      /\ A # B => Cardinality(B) < Cardinality(A)
  <2>1. IsFiniteSet(B) /\ Cardinality(B) <= Cardinality(A)
    BY <1>1, <1>4, FS_Subset
  <2>2. Cardinality(B) \in Nat
    BY <2>1, FS_CardinalityType
  <2>3. Cardinality(B) = Cardinality(A) => A = B
    BY <1>1, <1>4, FS_Subset
  <2> QED BY <1>4, <2>1, <2>2, <2>3
<1> QED BY <1>3, <1>4, <1>5 DEF Left, A, B

\* What dfs does at a node depends on what it does where less is left to visit.
LEMMA ExploreAgrees ==
  ASSUME NEW nodes, IsStructure(nodes), NEW g \in Moves(nodes), NEW h, NEW k \in Nat,
         \A a \in States(nodes) : Left(nodes, a) < k => \A c \in Nat : h[a][c] = g[a][c],
         NEW acc \in States(nodes), Left(nodes, acc) <= k, NEW id \in Nat
  PROVE  Explore(nodes, h, acc, id) = Explore(nodes, g, acc, id)
<1>1. CASE id \notin DOMAIN nodes \ acc.visited
  BY <1>1 DEF Explore
<1>2. CASE id \in DOMAIN nodes \ acc.visited
  <2> DEFINE refs == nodes[id].refs
             n == Len(refs)
             in == Enter(acc, id)
  <2>1. PICK w : /\ Through(w, g, in, refs)
                 /\ Explore(nodes, g, acc, id) = [w[n] EXCEPT !.order = Append(@, id)]
    BY <1>2, ExploreIs
  <2>2. PICK v : /\ Through(v, h, in, refs)
                 /\ Explore(nodes, h, acc, id) = [v[n] EXCEPT !.order = Append(@, id)]
    BY <1>2, ExploreIs
  <2>3. /\ refs \in Seq(Nat) /\ n \in Nat
        /\ \A m \in 0 .. n - 1 : refs[m + 1] \in Nat
    <3>1. refs \in Seq(Nat)
      BY <1>2 DEF IsStructure
    <3> HIDE DEF refs
    <3>2. n \in Nat /\ refs \in [1 .. n -> Nat]
      BY <3>1, LenProperties
    <3> QED BY <3>1, <3>2
  <2>4. in \in States(nodes) /\ in.visited = acc.visited \cup {id}
    BY <1>2, EnterIs
  <2>5. Left(nodes, in) < k
    <3>1. /\ Left(nodes, in) < Left(nodes, acc)
          /\ Left(nodes, in) \in Nat /\ Left(nodes, acc) \in Nat
      <4>1. acc.visited \subseteq in.visited /\ id \in in.visited /\ id \notin acc.visited
        BY <1>2, <2>4
      <4> HIDE DEF in
      <4> QED BY <2>4, <4>1, LeftShrinks
    <3> HIDE DEF in
    <3> QED BY <3>1
  <2> HIDE DEF in, refs
  <2>6. ASSUME NEW m \in 0 .. n
        PROVE  w[m] \in States(nodes) /\ Left(nodes, w[m]) < k
    <3>1. w[m] \in States(nodes) /\ in.visited \subseteq w[m].visited
      BY <2>1, <2>3, <2>4, ThroughGrows
    <3>2. /\ Left(nodes, w[m]) \in Nat /\ Left(nodes, in) \in Nat
          /\ Left(nodes, w[m]) <= Left(nodes, in)
      BY <2>4, <3>1, LeftShrinks
    <3> QED BY <2>5, <3>1, <3>2
  <2> DEFINE P == {m \in Nat : m <= n => v[m] = w[m]}
  <2>7. 0 \in P
    BY <2>1, <2>2 DEF Through
  <2>8. ASSUME NEW m \in Nat, m \in P PROVE m + 1 \in P
    <3> SUFFICES ASSUME m + 1 <= n PROVE v[m + 1] = w[m + 1]
      OBVIOUS
    <3>1. m \in 0 .. n /\ m \in 0 .. n - 1 /\ v[m] = w[m]
      BY <2>3, <2>8
    <3>2. v[m + 1] = h[v[m]][refs[m + 1]] /\ w[m + 1] = g[w[m]][refs[m + 1]]
      BY <2>1, <2>2, <3>1 DEF Through
    <3>3. h[w[m]][refs[m + 1]] = g[w[m]][refs[m + 1]]
      BY <2>3, <2>6, <3>1
    <3> QED BY <3>1, <3>2, <3>3
  <2>9. Nat \subseteq P
    <3> HIDE DEF P
    <3> QED BY <2>7, <2>8, SetInduction
  <2>10. v[n] = w[n]
    BY <2>3, <2>9
  <2> QED BY <2>1, <2>2, <2>10
<1> QED BY <1>1, <1>2

\* One round of dfs at every node.
Round(nodes, h) == [acc \in States(nodes) |-> [id \in Nat |-> Explore(nodes, h, acc, id)]]

LEMMA RoundMoves ==
  ASSUME NEW nodes, IsStructure(nodes), NEW h \in Moves(nodes)
  PROVE  Round(nodes, h) \in Moves(nodes)
<1> DEFINE St == States(nodes)
           r == Round(nodes, h)
<1>1. \A acc \in St : \A id \in Nat :
        Explore(nodes, h, acc, id) \in St /\ acc.visited \subseteq Explore(nodes, h, acc, id).visited
  BY ExploreMoves
<1>2. r \in [St -> [Nat -> St]]
  <2> HIDE DEF St
  <2> QED BY <1>1 DEF Round, St
<1>3. \A acc \in St : \A id \in Nat : r[acc][id] = Explore(nodes, h, acc, id)
  BY DEF Round
<1> HIDE DEF r, St
<1> QED BY <1>1, <1>2, <1>3 DEF Moves, r, St

\* Every node that is visited leaves one less: as many rounds as there are nodes
\* make dfs.
LEMMA DfsExists ==
  ASSUME NEW nodes, IsStructure(nodes)
  PROVE  \E h \in Moves(nodes) : IsDfs(h, nodes)
<1> DEFINE St == States(nodes)
           M == Moves(nodes)
           idle == [acc \in St |-> [id \in Nat |-> acc]]
           f == [p \in Nat \X M |-> Round(nodes, p[2])]
           N == Cardinality(DOMAIN nodes) + 1
<1>1. idle \in M
  BY DEF Moves
<1>2. f \in [Nat \X M -> M]
  <2>1. \A p \in Nat \X M : Round(nodes, p[2]) \in M
    BY RoundMoves
  <2> HIDE DEF M
  <2> QED BY <2>1
<1>3. PICK g : Iterates(g, M, idle, f)
  <2> HIDE DEF M, idle, f
  <2> QED BY <1>1, <1>2, IterationExists
<1>4. \A n \in Nat : g[n] \in M /\ g[n + 1] = Round(nodes, g[n])
  <2> SUFFICES ASSUME NEW n \in Nat PROVE g[n] \in M /\ g[n + 1] = Round(nodes, g[n])
    OBVIOUS
  <2>1. g[n] \in M /\ g[n + 1] = f[<<n, g[n]>>]
    <3> HIDE DEF M, idle, f
    <3> QED BY <1>3 DEF Iterates
  <2> HIDE DEF M
  <2> QED BY <2>1
<1>5. \A acc \in St : Left(nodes, acc) \in Nat /\ Left(nodes, acc) < N
  <2> SUFFICES ASSUME NEW acc \in St PROVE Left(nodes, acc) \in Nat /\ Left(nodes, acc) < N
    OBVIOUS
  <2> DEFINE A == DOMAIN nodes \ acc.visited
  <2>1. IsFiniteSet(DOMAIN nodes) /\ A \in SUBSET DOMAIN nodes
    BY DEF IsStructure
  <2> HIDE DEF A
  <2>2. IsFiniteSet(A) /\ Cardinality(A) <= Cardinality(DOMAIN nodes)
    BY <2>1, FS_Subset
  <2>3. Cardinality(A) \in Nat /\ Cardinality(DOMAIN nodes) \in Nat
    BY <2>1, <2>2, FS_CardinalityType
  <2> QED BY <2>2, <2>3 DEF Left, A
<1>6. N \in Nat
  BY FS_CardinalityType DEF IsStructure
<1> DEFINE P == {n \in Nat : \A a \in St : Left(nodes, a) < n =>
                               \A c \in Nat : g[n + 1][a][c] = g[n][a][c]}
<1>7. 0 \in P
  <2> HIDE DEF St
  <2> QED BY <1>5
<1>8. ASSUME NEW n \in Nat, n \in P PROVE n + 1 \in P
  <2> SUFFICES ASSUME NEW a \in St, Left(nodes, a) < n + 1, NEW c \in Nat
               PROVE  g[(n + 1) + 1][a][c] = g[n + 1][a][c]
    BY <1>6
  <2>1. \A b \in St : Left(nodes, b) < n => \A d \in Nat : g[n + 1][b][d] = g[n][b][d]
    BY <1>8
  <2>2. Left(nodes, a) <= n
    <3> HIDE DEF St
    <3> QED BY <1>5
  <2>3. g[n] \in M /\ g[n + 1] = Round(nodes, g[n]) /\ g[(n + 1) + 1] = Round(nodes, g[n + 1])
    BY <1>4
  <2>4. Explore(nodes, g[n + 1], a, c) = Explore(nodes, g[n], a, c)
    <3>1. g[n] \in Moves(nodes) /\ a \in States(nodes)
      BY <2>3
    <3> HIDE DEF M, St
    <3> QED BY <2>1, <2>2, <3>1, ExploreAgrees DEF St
  <2>5. \A h : Round(nodes, h)[a][c] = Explore(nodes, h, a, c)
    BY DEF Round
  <2> HIDE DEF M, St, N
  <2> QED BY <2>3, <2>4, <2>5
<1>9. N \in P
  <2> HIDE DEF P, N
  <2>1. Nat \subseteq P
    BY <1>7, <1>8, SetInduction
  <2> QED BY <1>6, <2>1
<1>10. g[N] \in M /\ g[N + 1] \in M /\ g[N + 1] = Round(nodes, g[N])
  <2> HIDE DEF M, N
  <2> QED BY <1>4, <1>6
<1>11. \A a \in St : \A c \in Nat : g[N + 1][a][c] = g[N][a][c]
  <2> HIDE DEF N, St, M
  <2> QED BY <1>5, <1>9
<1>12. g[N] = g[N + 1]
  <2>1. g[N] \in [St -> [Nat -> St]] /\ g[N + 1] \in [St -> [Nat -> St]]
    BY <1>10 DEF Moves
  <2> HIDE DEF N, St, M
  <2> QED BY <1>11, <2>1
<1>13. IsDfs(g[N], nodes)
  <2> HIDE DEF N, M
  <2> QED BY <1>10, <1>12 DEF IsDfs, Round
<1> QED BY <1>10, <1>13

LEMMA DfsMoves ==
  ASSUME NEW nodes, IsStructure(nodes), NEW h, IsDfs(h, nodes)
  PROVE  h \in Moves(nodes)
<1> DEFINE St == States(nodes)
<1>1. PICK g \in Moves(nodes) : IsDfs(g, nodes)
  BY DfsExists
<1>2. \A e : IsDfs(e, nodes) => \A a \in St : \A c \in Nat : e[a][c] = Explore(nodes, e, a, c)
  <2>1. \A e : \A a \in St : \A c \in Nat : Round(nodes, e)[a][c] = Explore(nodes, e, a, c)
    BY DEF Round
  <2>2. \A e : IsDfs(e, nodes) => e = Round(nodes, e)
    BY DEF IsDfs, Round
  <2> QED BY <2>1, <2>2
<1> DEFINE P == {n \in Nat : \A a \in St : Left(nodes, a) < n => \A c \in Nat : h[a][c] = g[a][c]}
<1>3. \A a \in St : Left(nodes, a) \in Nat
  BY LeftShrinks
<1>4. 0 \in P
  <2> HIDE DEF St
  <2> QED BY <1>3
<1>5. ASSUME NEW n \in Nat, n \in P PROVE n + 1 \in P
  <2> SUFFICES ASSUME NEW a \in St, Left(nodes, a) < n + 1, NEW c \in Nat
               PROVE  h[a][c] = g[a][c]
    OBVIOUS
  <2>1. Left(nodes, a) <= n
    <3> HIDE DEF St
    <3> QED BY <1>3
  <2>2. \A b \in St : Left(nodes, b) < n => \A d \in Nat : h[b][d] = g[b][d]
    BY <1>5
  <2>3. Explore(nodes, h, a, c) = Explore(nodes, g, a, c)
    <3> HIDE DEF St
    <3> QED BY <2>1, <2>2, ExploreAgrees DEF St
  <2>4. h[a][c] = Explore(nodes, h, a, c) /\ g[a][c] = Explore(nodes, g, a, c)
    BY <1>1, <1>2
  <2> QED BY <2>3, <2>4
<1>6. Nat \subseteq P
  <2> HIDE DEF P
  <2> QED BY <1>4, <1>5, SetInduction
<1>7. \A a \in St : \A c \in Nat : h[a][c] = g[a][c]
  <2> SUFFICES ASSUME NEW a \in St, NEW c \in Nat PROVE h[a][c] = g[a][c]
    OBVIOUS
  <2>1. Left(nodes, a) \in Nat
    BY <1>3
  <2>2. Left(nodes, a) + 1 \in P /\ Left(nodes, a) < Left(nodes, a) + 1
    <3> HIDE DEF P, St
    <3> QED BY <1>6, <2>1
  <2> QED BY <2>2
<1>8. h = Round(nodes, h) /\ g = Round(nodes, g)
  BY <1>1 DEF IsDfs, Round
<1>9. \A a \in St : \A c \in Nat : Explore(nodes, h, a, c) = Explore(nodes, g, a, c)
  BY <1>1, <1>2, <1>7
<1>10. Round(nodes, h) = Round(nodes, g)
  BY <1>9 DEF Round
<1> QED BY <1>1, <1>8, <1>10

\* Each of them is in the list once.
Lists(order, set) ==
  Range(order) = set /\ \A i, j \in DOMAIN order : order[i] = order[j] => i = j

LEMMA AppendLists ==
  ASSUME NEW S, NEW order \in Seq(S), NEW set, Lists(order, set), NEW x \in S \ set
  PROVE  Lists(Append(order, x), set \cup {x})
<1> DEFINE n == Len(order)
           new == Append(order, x)
<1>1. n \in Nat /\ DOMAIN order = 1 .. n
  BY LenProperties
<1>2. /\ new \in Seq(S) /\ Len(new) = n + 1
      /\ \A i \in 1 .. n : new[i] = order[i]
      /\ new[n + 1] = x
  BY AppendProperties
<1>3. DOMAIN new = 1 .. n + 1
  <2> HIDE DEF new, n
  <2> QED BY <1>2, LenProperties
<1>4. \A i \in 1 .. n : order[i] \in set
  BY <1>1 DEF Lists, Range
<1> HIDE DEF new, n
<1>5. Range(new) = set \cup {x}
  <2>1. \A i \in 1 .. n + 1 : new[i] \in set \cup {x}
    BY <1>1, <1>2, <1>4
  <2>2. \A y \in set : \E i \in 1 .. n : order[i] = y
    BY <1>1 DEF Lists, Range
  <2>3. \A y \in set \cup {x} : \E i \in 1 .. n + 1 : new[i] = y
    BY <1>1, <1>2, <2>2
  <2> QED BY <1>3, <2>1, <2>3 DEF Range
<1>6. ASSUME NEW i \in 1 .. n + 1, NEW j \in 1 .. n + 1, new[i] = new[j]
      PROVE  i = j
  <2>1. (i \in 1 .. n \/ i = n + 1) /\ (j \in 1 .. n \/ j = n + 1)
    BY <1>1
  <2>2. \A k, l \in 1 .. n : order[k] = order[l] => k = l
    BY <1>1 DEF Lists
  <2> QED BY <1>2, <1>4, <1>6, <2>1, <2>2
<1> QED BY <1>3, <1>5, <1>6 DEF Lists, new

LEMMA ThroughLeft ==
  ASSUME NEW nodes, IsStructure(nodes), NEW h \in Moves(nodes), NEW acc \in States(nodes),
         NEW id \in DOMAIN nodes \ acc.visited, NEW w,
         Through(w, h, Enter(acc, id), nodes[id].refs)
  PROVE  /\ Len(nodes[id].refs) \in Nat
         /\ \A m \in 0 .. Len(nodes[id].refs) - 1 : nodes[id].refs[m + 1] \in Nat
         /\ \A m \in 0 .. Len(nodes[id].refs) :
              /\ w[m] \in States(nodes) /\ acc.visited \cup {id} \subseteq w[m].visited
              /\ Left(nodes, w[m]) < Left(nodes, acc)
<1> DEFINE refs == nodes[id].refs
           n == Len(refs)
           in == Enter(acc, id)
<1>1. refs \in Seq(Nat) /\ n \in Nat /\ \A m \in 0 .. n - 1 : refs[m + 1] \in Nat
  <2>1. refs \in Seq(Nat)
    BY DEF IsStructure
  <2> HIDE DEF refs
  <2>2. n \in Nat /\ refs \in [1 .. n -> Nat]
    BY <2>1, LenProperties
  <2> QED BY <2>1, <2>2
<1>2. in \in States(nodes) /\ in.visited = acc.visited \cup {id}
  BY EnterIs
<1> HIDE DEF refs, in
<1>3. ASSUME NEW m \in 0 .. n
      PROVE  /\ w[m] \in States(nodes) /\ acc.visited \cup {id} \subseteq w[m].visited
             /\ Left(nodes, w[m]) < Left(nodes, acc)
  <2>1. w[m] \in States(nodes) /\ acc.visited \cup {id} \subseteq w[m].visited
    BY <1>1, <1>2, ThroughGrows DEF refs, in
  <2>2. \E x \in w[m].visited : x \notin acc.visited
    BY <2>1
  <2> QED BY <2>1, <2>2, LeftShrinks
<1> QED BY <1>1, <1>3 DEF refs

\* Whatever is not visited yet is listed when it has been, but for the nodes that
\* dfs is still in.
LEMMA DfsLists ==
  ASSUME NEW nodes, IsStructure(nodes), NEW h, IsDfs(h, nodes),
         NEW acc \in States(nodes), NEW id \in Nat, NEW open \in SUBSET acc.visited,
         Lists(acc.order, acc.visited \ open)
  PROVE  Lists(h[acc][id].order, h[acc][id].visited \ open)
<1> DEFINE St == States(nodes)
           Goal(a, c, o) == Lists(h[a][c].order, h[a][c].visited \ o)
           Upto(n) == \A a \in St : Left(nodes, a) < n =>
                        \A c \in Nat : \A o \in SUBSET a.visited :
                           Lists(a.order, a.visited \ o) => Goal(a, c, o)
           P == {n \in Nat : Upto(n)}
<1>1. h \in Moves(nodes)
  BY DfsMoves
<1>2. \A a \in St : Left(nodes, a) \in Nat
  BY LeftShrinks
<1>3. \A a \in St : \A c \in Nat : h[a][c] = Explore(nodes, h, a, c)
  <2>1. h = Round(nodes, h)
    BY DEF IsDfs, Round
  <2>2. \A a \in St : \A c \in Nat : Round(nodes, h)[a][c] = Explore(nodes, h, a, c)
    BY DEF Round
  <2> QED BY <2>1, <2>2
<1>4. 0 \in P
  <2> HIDE DEF St, Goal
  <2> QED BY <1>2
<1>5. ASSUME NEW k \in Nat, Upto(k),
             NEW a \in St, Left(nodes, a) < k + 1, NEW c \in Nat,
             NEW o \in SUBSET a.visited, Lists(a.order, a.visited \ o)
      PROVE  Goal(a, c, o)
  <2>1. CASE c \notin DOMAIN nodes \ a.visited
    <3>1. h[a][c] = a
      BY <1>3, <2>1 DEF Explore
    <3> QED BY <1>5, <3>1
  <2>2. CASE c \in DOMAIN nodes \ a.visited
    <3> DEFINE refs == nodes[c].refs
               n == Len(refs)
               in == Enter(a, c)
               u == o \cup {c}
    <3>1. PICK w : /\ Through(w, h, in, refs)
                   /\ Explore(nodes, h, a, c) = [w[n] EXCEPT !.order = Append(@, c)]
      <4> HIDE DEF P, Goal, St
      <4> QED BY <2>2, ExploreIs
    <3>2. /\ n \in Nat /\ \A m \in 0 .. n - 1 : refs[m + 1] \in Nat
          /\ \A m \in 0 .. n : /\ w[m] \in St /\ a.visited \cup {c} \subseteq w[m].visited
                               /\ Left(nodes, w[m]) < Left(nodes, a)
      BY <1>1, <2>2, <3>1, ThroughLeft
    <3>3. /\ Lists(in.order, in.visited \ u) /\ u \subseteq a.visited \cup {c}
      <4>1. in.order = a.order /\ in.visited = a.visited \cup {c}
        BY <2>2, EnterIs
      <4>2. (a.visited \cup {c}) \ u = a.visited \ o
        BY <2>2
      <4> HIDE DEF in
      <4> QED BY <1>5, <4>1, <4>2
    <3> HIDE DEF in, refs, n, u, St
    <3> DEFINE Q == {m \in Nat : m <= n => Lists(w[m].order, w[m].visited \ u)}
    <3>4. 0 \in Q
      BY <3>1, <3>3 DEF Through
    <3>5. ASSUME NEW m \in Nat, m \in Q PROVE m + 1 \in Q
      <4> SUFFICES ASSUME m + 1 <= n PROVE Lists(w[m + 1].order, w[m + 1].visited \ u)
        OBVIOUS
      <4>1. m \in 0 .. n /\ m \in 0 .. n - 1 /\ Lists(w[m].order, w[m].visited \ u)
        BY <3>2, <3>5
      <4>2. w[m + 1] = h[w[m]][refs[m + 1]] /\ refs[m + 1] \in Nat
        BY <3>1, <3>2, <4>1 DEF Through, n
      <4>3. w[m] \in St /\ u \in SUBSET w[m].visited
        BY <3>2, <3>3, <4>1
      <4>4. Left(nodes, w[m]) < k
        <5>1. Left(nodes, w[m]) < Left(nodes, a)
          BY <3>2, <4>1
        <5> QED BY <1>2, <1>5, <4>3, <5>1
      <4>5. Goal(w[m], refs[m + 1], u)
        <5> HIDE DEF Goal
        <5> QED BY <1>5, <4>1, <4>2, <4>3, <4>4
      <4> QED BY <4>2, <4>5
    <3>6. Lists(w[n].order, w[n].visited \ u)
      <4>1. n \in Q
        <5> HIDE DEF Q
        <5> QED BY <3>2, <3>4, <3>5, SetInduction
      <4>2. n <= n
        BY <3>2
      <4> QED BY <4>1, <4>2
    <3>7. w[n] \in St /\ c \in w[n].visited /\ c \notin o
      BY <2>2, <3>2
    <3>8. w[n].order \in Seq(DOMAIN nodes)
      BY <3>7 DEF St, States
    <3>9. Lists(Append(w[n].order, c), (w[n].visited \ u) \cup {c})
      <4>1. c \in DOMAIN nodes \ (w[n].visited \ u)
        BY <2>2 DEF u
      <4> QED BY <3>6, <3>8, <4>1, AppendLists
    <3>10. (w[n].visited \ u) \cup {c} = w[n].visited \ o
      BY <3>7 DEF u
    <3>11. h[a][c].visited = w[n].visited /\ h[a][c].order = Append(w[n].order, c)
      <4>1. h[a][c] = [w[n] EXCEPT !.order = Append(@, c)]
        BY <1>3, <3>1
      <4>2. LET left == [w[n] EXCEPT !.order = Append(@, c)]
            IN  left.visited = w[n].visited /\ left.order = Append(w[n].order, c)
        <5>1. w[n] \in States(nodes) /\ c \in DOMAIN nodes
          BY <2>2, <3>7 DEF St
        <5> QED BY <5>1, LeaveIs
      <4> QED BY <4>1, <4>2
    <3> QED BY <3>9, <3>10, <3>11
  <2> QED BY <2>1, <2>2
<1>6. ASSUME NEW k \in Nat, Upto(k) PROVE Upto(k + 1)
  <2> HIDE DEF Goal, St, P
  <2> SUFFICES ASSUME NEW a \in St, Left(nodes, a) < k + 1, NEW c \in Nat,
                      NEW o \in SUBSET a.visited, Lists(a.order, a.visited \ o)
               PROVE  Goal(a, c, o)
    OBVIOUS
  <2> HIDE DEF Upto
  <2> QED BY <1>5, <1>6
<1>7. Nat \subseteq P
  <2> HIDE DEF Upto
  <2>1. \A k \in Nat : k \in P => k + 1 \in P
    BY <1>6
  <2> HIDE DEF P
  <2> QED BY <1>4, <2>1, SetInduction
<1>8. Left(nodes, acc) \in Nat /\ Left(nodes, acc) + 1 \in P /\ Left(nodes, acc) < Left(nodes, acc) + 1
  <2>1. Left(nodes, acc) \in Nat
    BY <1>2
  <2> HIDE DEF P
  <2> QED BY <1>7, <2>1
<1>9. Goal(acc, id, open)
  <2> HIDE DEF Goal
  <2> QED BY <1>8
<1> QED BY <1>9

LEMMA AscendingIs ==
  ASSUME NEW S \in SUBSET Nat, IsFiniteSet(S)
  PROVE  /\ Cardinality(S) \in Nat /\ DOMAIN Ascending(S) = 1 .. Cardinality(S)
         /\ Ascending(S) \in Seq(S) /\ Len(Ascending(S)) = Cardinality(S)
         /\ Lists(Ascending(S), S)
<1> DEFINE n == Cardinality(S)
           s == Ascending(S)
<1>1. n \in Nat
  BY FS_CardinalityType
<1>2. s = [k \in 1 .. n |-> s[k]] /\ DOMAIN s = 1 .. n
  BY DEF Ascending
<1>3. \A k \in 1 .. n : s[k] \in S /\ RankIn(S, s[k]) = k - 1
  <2> SUFFICES ASSUME NEW k \in 1 .. n PROVE s[k] \in S /\ RankIn(S, s[k]) = k - 1
    OBVIOUS
  <2>1. k - 1 \in Nat /\ k - 1 < n
    BY <1>1
  <2>2. \E x \in S : RankIn(S, x) = k - 1
    BY <2>1, RankIsOnto
  <2> QED BY <2>2, AscendingPicks
<1>4. \A x \in S : \E k \in 1 .. n : s[k] = x
  BY AscendingAtRank
<1> HIDE DEF n, s
<1>5. Range(s) = S
  BY <1>2, <1>3, <1>4 DEF Range
<1>6. s \in Seq(S) /\ Len(s) = n
  BY <1>1, <1>2, <1>5, TupleIsList
<1>7. \A i, j \in 1 .. n : s[i] = s[j] => i = j
  BY <1>1, <1>3
<1> QED BY <1>1, <1>2, <1>5, <1>6, <1>7 DEF Lists, n, s

\* The nodes that dfs is started at: every node is among them.
LEMMA StartsAre ==
  ASSUME NEW nodes, IsStructure(nodes)
  PROVE  LET starts == FindRoots(nodes) \o Ascending(DOMAIN nodes)
         IN  /\ starts \in Seq(Nat) /\ Len(starts) \in Nat /\ DOMAIN starts = 1 .. Len(starts)
             /\ DOMAIN nodes \subseteq Range(starts)
<1> DEFINE D == DOMAIN nodes
           all == Ascending(D)
           first == FindRoots(nodes)
           roots == D \ References(nodes)
           starts == first \o all
<1>1. D \in SUBSET Nat /\ IsFiniteSet(D)
  BY DEF IsStructure
<1>2. all \in Seq(Nat) /\ Lists(all, D)
  <2> HIDE DEF D
  <2>1. all \in Seq(D) /\ Lists(all, D)
    BY <1>1, AscendingIs
  <2> QED BY <1>1, <2>1, SeqMonotonic
<1>3. first \in Seq(Nat)
  <2>1. CASE roots # {} \/ nodes = << >>
    <3>1. roots \in SUBSET Nat /\ IsFiniteSet(roots)
      BY <1>1, FS_Subset
    <3>2. first = Ascending(roots)
      BY <2>1 DEF FindRoots
    <3> HIDE DEF roots, first
    <3>3. Ascending(roots) \in Seq(roots)
      BY <3>1, AscendingIs
    <3> QED BY <3>1, <3>2, <3>3, SeqMonotonic
  <2>2. CASE roots = {} /\ nodes # << >>
    <3>1. D # {}
      <4> SUFFICES ASSUME D = {} PROVE FALSE
        OBVIOUS
      <4>1. nodes = [id \in 1 .. 0 |-> nodes[id]]
        <5>1. 1 .. 0 = {}
          OBVIOUS
        <5> QED BY <5>1 DEF IsStructure
      <4>2. nodes \in Seq(Range(nodes)) /\ Len(nodes) = 0
        BY <4>1, TupleIsList
      <4> QED BY <2>2, <4>2, EmptySeq
    <3>2. Min(D) \in Nat
      <4> HIDE DEF D
      <4> QED BY <1>1, <3>1, MinIsElement
    <3>3. first = <<Min(D)>>
      BY <2>2 DEF FindRoots
    <3> QED BY <3>2, <3>3
  <2> QED BY <2>1, <2>2
<1> HIDE DEF first, all, D
<1>4. /\ starts \in Seq(Nat) /\ Len(starts) = Len(first) + Len(all)
      /\ \A i \in 1 .. Len(first) + Len(all) :
           starts[i] = IF i <= Len(first) THEN first[i] ELSE all[i - Len(first)]
  BY <1>2, <1>3, ConcatProperties
<1>5. Len(first) \in Nat /\ Len(all) \in Nat /\ DOMAIN all = 1 .. Len(all)
  BY <1>2, <1>3, LenProperties
<1> HIDE DEF starts
<1>6. DOMAIN starts = 1 .. Len(starts) /\ Len(starts) \in Nat
  BY <1>4, LenProperties
<1>7. ASSUME NEW x \in D PROVE x \in Range(starts)
  <2>1. PICK k \in 1 .. Len(all) : all[k] = x
    BY <1>2, <1>5 DEF Lists, Range
  <2> DEFINE i == Len(first) + k
  <2>2. i \in 1 .. Len(starts) /\ ~ (i <= Len(first)) /\ i - Len(first) = k
    BY <1>4, <1>5
  <2>3. starts[i] = x
    <3> HIDE DEF i
    <3> QED BY <1>4, <2>1, <2>2
  <2> QED BY <1>6, <2>2, <2>3 DEF Range
<1> QED BY <1>4, <1>6, <1>7 DEF D, starts, first, all

\* The traversal lists every node once, and nothing else.
LEMMA TopoOrderLists ==
  ASSUME NEW nodes, IsStructure(nodes)
  PROVE  TopoOrder(nodes) \in Seq(DOMAIN nodes) /\ Lists(TopoOrder(nodes), DOMAIN nodes)
<1> DEFINE D == DOMAIN nodes
           St == States(nodes)
           h == CHOOSE h : IsDfs(h, nodes)
           starts == FindRoots(nodes) \o Ascending(D)
           n == Len(starts)
           empty == [visited |-> {}, order |-> << >>]
<1>1. IsDfs(h, nodes) /\ h \in Moves(nodes)
  <2>1. IsDfs(h, nodes)
    BY DfsExists
  <2> HIDE DEF h
  <2> QED BY <2>1, DfsMoves
<1>2. TopoOrder(nodes) = FoldOf(h, empty, starts).order
  BY DEF TopoOrder, FoldOf, IsDfs, Explore, Enter, States
<1> HIDE DEF h
<1>3. /\ n \in Nat /\ DOMAIN starts = 1 .. n /\ D \subseteq Range(starts)
      /\ \A m \in 0 .. n - 1 : starts[m + 1] \in Nat
  <2>1. /\ starts \in Seq(Nat) /\ n \in Nat /\ DOMAIN starts = 1 .. n /\ D \subseteq Range(starts)
    BY StartsAre
  <2> HIDE DEF starts
  <2>2. starts \in [1 .. n -> Nat]
    BY <2>1, LenProperties
  <2> QED BY <2>1, <2>2
<1> HIDE DEF starts, n
<1>4. PICK w : /\ w[0] = empty
               /\ \A m \in 0 .. n - 1 : w[m + 1] = h[w[m]][starts[m + 1]]
               /\ FoldOf(h, empty, starts) = w[n]
  <2> HIDE DEF empty
  <2>1. n \in Nat /\ DOMAIN starts = 1 .. n
    BY <1>3
  <2> QED BY <2>1, FoldOfFunction
<1>5. empty \in St /\ Lists(empty.order, empty.visited \ {})
  BY DEF States, Lists, Range
<1> HIDE DEF empty, St
<1> DEFINE Seen(m) == \A k \in 1 .. m : starts[k] \in D => starts[k] \in w[m].visited
           P == {m \in Nat : m <= n => /\ w[m] \in St
                                       /\ Lists(w[m].order, w[m].visited \ {})
                                       /\ Seen(m)}
<1>6. 0 \in P
  BY <1>4, <1>5
<1>7. ASSUME NEW m \in Nat, m \in P, m + 1 <= n
      PROVE  /\ w[m + 1] \in St /\ Lists(w[m + 1].order, w[m + 1].visited \ {})
             /\ Seen(m + 1)
  <2> DEFINE c == starts[m + 1]
  <2>1. m \in 0 .. n - 1 /\ w[m] \in St /\ Lists(w[m].order, w[m].visited \ {}) /\ Seen(m)
    BY <1>3, <1>7
  <2>2. w[m + 1] = h[w[m]][c] /\ c \in Nat
    BY <1>3, <1>4, <2>1
  <2> HIDE DEF c, Seen
  <2>3. w[m + 1] \in St /\ w[m].visited \subseteq w[m + 1].visited
    BY <1>1, <2>1, <2>2 DEF Moves, St
  <2>4. c \in D => c \in w[m + 1].visited
    <3>1. h[w[m]][c] = Explore(nodes, h, w[m], c)
      <4>1. h = Round(nodes, h)
        BY <1>1 DEF IsDfs, Round
      <4>2. Round(nodes, h)[w[m]][c] = Explore(nodes, h, w[m], c)
        BY <2>1, <2>2 DEF Round, St
      <4> QED BY <4>1, <4>2
    <3> QED BY <1>1, <2>1, <2>2, <3>1, ExploreMoves DEF St
  <2>5. Lists(w[m + 1].order, w[m + 1].visited \ {})
    <3>1. {} \in SUBSET w[m].visited
      OBVIOUS
    <3> QED BY <1>1, <2>1, <2>2, <3>1, DfsLists DEF St
  <2>6. Seen(m + 1)
    <3> SUFFICES ASSUME NEW k \in 1 .. m + 1, starts[k] \in D PROVE starts[k] \in w[m + 1].visited
      BY DEF Seen
    <3>1. CASE k = m + 1
      BY <2>4, <3>1 DEF c
    <3>2. CASE k # m + 1
      <4>1. k \in 1 .. m
        BY <3>2
      <4> QED BY <2>1, <2>3, <4>1 DEF Seen
    <3> QED BY <3>1, <3>2
  <2> QED BY <2>3, <2>5, <2>6
<1>8. \A m \in Nat : m \in P => m + 1 \in P
  <2> HIDE DEF Seen
  <2> SUFFICES ASSUME NEW m \in Nat, m \in P PROVE m + 1 \in P
    OBVIOUS
  <2>1. m + 1 <= n => /\ w[m + 1] \in St /\ Lists(w[m + 1].order, w[m + 1].visited \ {})
                      /\ Seen(m + 1)
    <3> HIDE DEF P
    <3> QED BY <1>7
  <2> QED BY <2>1
<1>9. n \in P
  <2> HIDE DEF P
  <2> QED BY <1>3, <1>6, <1>8, SetInduction
<1>10. w[n] \in St /\ Lists(w[n].order, w[n].visited) /\ Seen(n)
  <2>1. n <= n /\ w[n].visited \ {} = w[n].visited
    BY <1>3
  <2> HIDE DEF Seen
  <2> QED BY <1>9, <2>1
<1>11. w[n].visited = D
  <2>1. w[n].visited \subseteq D
    BY <1>10 DEF St, States
  <2>2. D \subseteq w[n].visited
    BY <1>3, <1>10 DEF Range
  <2> QED BY <2>1, <2>2
<1>12. w[n].order \in Seq(D)
  BY <1>10 DEF St, States
<1> QED BY <1>2, <1>4, <1>10, <1>11, <1>12

\* One turn of _assign_new_node_ids.
NumberNext(map, id, reserved) ==
  With(map, id, NewId(id, reserved \cup Range(map), reserved))

\* The partial functions from A to B.
Partial(A, B) == UNION {[T -> B] : T \in SUBSET A}

LEMMA PartialIs ==
  ASSUME NEW A, NEW B, NEW f
  PROVE  f \in Partial(A, B) <=> /\ f = [x \in DOMAIN f |-> f[x]] /\ DOMAIN f \subseteq A
                                 /\ \A x \in DOMAIN f : f[x] \in B
<1>1. ASSUME f \in Partial(A, B)
      PROVE  /\ f = [x \in DOMAIN f |-> f[x]] /\ DOMAIN f \subseteq A
             /\ \A x \in DOMAIN f : f[x] \in B
  <2>1. PICK T \in SUBSET A : f \in [T -> B]
    BY <1>1 DEF Partial
  <2> QED BY <2>1
<1>2. ASSUME f = [x \in DOMAIN f |-> f[x]], DOMAIN f \subseteq A, \A x \in DOMAIN f : f[x] \in B
      PROVE  f \in Partial(A, B)
  <2>1. f \in [DOMAIN f -> B]
    BY <1>2
  <2> QED BY <1>2, <2>1 DEF Partial
<1> QED BY <1>1, <1>2

LEMMA EmptyIsPartial ==
  ASSUME NEW A, NEW B
  PROVE  << >> \in Partial(A, B) /\ DOMAIN << >> = {} /\ Range(<< >>) = {}
<1>1. << >> \in Seq(B) /\ Len(<< >>) = 0
  BY EmptySeq
<1>2. << >> \in [1 .. 0 -> B] /\ 1 .. 0 = {}
  BY <1>1, LenProperties
<1>3. << >> \in [{} -> B] /\ {} \in SUBSET A
  BY <1>2
<1> QED BY <1>3 DEF Partial, Range

LEMMA RangeIsFinite ==
  ASSUME NEW f, IsFiniteSet(DOMAIN f)
  PROVE  IsFiniteSet(Range(f))
<1> DEFINE m == [k \in DOMAIN f |-> f[k]]
<1>1. m \in Surjection(DOMAIN f, Range(f))
  <2>1. m \in [DOMAIN f -> Range(f)]
    BY DEF Range
  <2>2. \A y \in Range(f) : \E x \in DOMAIN f : m[x] = y
    BY DEF Range
  <2> HIDE DEF m
  <2> QED BY <2>1, <2>2 DEF Surjection
<1> HIDE DEF m
<1> QED BY <1>1, FS_Surjection

LEMMA WithPartial ==
  ASSUME NEW A, NEW B, NEW f \in Partial(A, B), NEW k \in A, NEW e \in B
  PROVE  With(f, k, e) \in Partial(A, B)
<1> DEFINE g == With(f, k, e)
<1>1. /\ DOMAIN g = DOMAIN f \cup {k} /\ g[k] = e
      /\ \A x \in DOMAIN f : x # k => g[x] = f[x]
  BY DEF With
<1>2. g = [x \in DOMAIN g |-> g[x]]
  BY DEF With
<1>3. DOMAIN f \subseteq A /\ \A x \in DOMAIN f : f[x] \in B
  BY PartialIs
<1> HIDE DEF g
<1>4. DOMAIN g \subseteq A /\ \A x \in DOMAIN g : g[x] \in B
  BY <1>1, <1>3
<1>5. g \in Partial(A, B)
  BY <1>2, <1>4, PartialIs
<1> QED BY <1>5 DEF g

\* The nodes are numbered one after another, in the order of the traversal.
LEMMA NumberingSteps ==
  ASSUME NEW nodes, NEW reserved \in SUBSET Nat, IsFiniteSet(reserved), IsStructure(nodes)
  PROVE  LET order == TopoOrder(nodes)
         IN  \E w : /\ w[0] = << >>
                    /\ \A m \in 0 .. Len(order) - 1 :
                         w[m + 1] = NumberNext(w[m], order[m + 1], reserved)
                    /\ AssignNewNodeIds(nodes, reserved) = w[Len(order)]
<1> DEFINE D == DOMAIN nodes
           order == TopoOrder(nodes)
           n == Len(order)
           M == Partial(D, Nat)
           h == [a \in M |-> [c \in D |-> NumberNext(a, c, reserved)]]
           Turn(it, s) == IF s = {} THEN << >>
                          ELSE LET x == Max(s) IN NumberNext(it[s \ {x}], order[x], reserved)
           IsIt(it) == it = [s \in SUBSET DOMAIN order |-> Turn(it, s)]
<1>1. n \in Nat /\ DOMAIN order = 1 .. n /\ \A i \in 1 .. n : order[i] \in D
  <2>1. order \in Seq(D)
    BY TopoOrderLists
  <2> HIDE DEF order, D
  <2>2. n \in Nat /\ DOMAIN order = 1 .. n /\ order \in [1 .. n -> D]
    BY <2>1, LenProperties
  <2> QED BY <2>2
<1>2. ASSUME NEW a \in M, NEW c \in D
      PROVE  NumberNext(a, c, reserved) \in M
  <2> DEFINE used == reserved \cup Range(a)
             new == NewId(c, used, reserved)
  <2>1. DOMAIN a \subseteq D /\ \A x \in DOMAIN a : a[x] \in Nat
    <3> HIDE DEF D
    <3> QED BY PartialIs
  <2>2. IsFiniteSet(Range(a)) /\ Range(a) \subseteq Nat
    <3>1. IsFiniteSet(DOMAIN a)
      BY <2>1, FS_Subset DEF IsStructure
    <3> QED BY <2>1, <3>1, RangeIsFinite DEF Range
  <2>3. used \in SUBSET Nat /\ IsFiniteSet(used)
    BY <2>2, FS_Union
  <2> HIDE DEF used
  <2>4. new \in Nat
    <3>1. c \in Nat
      BY DEF IsStructure
    <3> QED BY <2>3, <3>1, NewIdIsFree
  <2> HIDE DEF new
  <2>5. With(a, c, new) \in M
    <3> HIDE DEF D
    <3> QED BY <2>4, WithPartial
  <2> QED BY <2>5 DEF NumberNext, new, used
<1>3. << >> \in M
  <2> HIDE DEF D
  <2> QED BY EmptyIsPartial
<1>4. \E it : IsIt(it)
  <2>1. PICK it : Folds(it, h, << >>, order)
    <3> HIDE DEF h, order, n
    <3> QED BY <1>1, FoldExists
  <2>2. \A s \in SUBSET (1 .. n) : it[s] \in M
    <3>1. \A a \in M : \A i \in 1 .. n : h[a][order[i]] \in M
      <4> HIDE DEF M, D, order, n
      <4> QED BY <1>1, <1>2
    <3> HIDE DEF h, order, n, M
    <3> QED BY <1>1, <1>3, <2>1, <3>1, FoldType
  <2>3. \A s \in SUBSET (1 .. n) : s # {} => Max(s) \in 1 .. n /\ s \ {Max(s)} \in SUBSET (1 .. n)
    <3> HIDE DEF n
    <3> QED BY <1>1, MaxLeavesFewer
  <2>4. \A s \in SUBSET DOMAIN order :
          it[s] = IF s = {} THEN << >> ELSE h[it[s \ {Max(s)}]][order[Max(s)]]
    BY <2>1 DEF Folds
  <2>5. \A a \in M : \A c \in D : h[a][c] = NumberNext(a, c, reserved)
    BY DEF M
  <2>6. ASSUME NEW s \in SUBSET DOMAIN order PROVE it[s] = Turn(it, s)
    <3> HIDE DEF h, M, order, n, D
    <3>1. CASE s = {}
      BY <2>4, <3>1
    <3>2. CASE s # {}
      <4>1. Max(s) \in 1 .. n /\ it[s \ {Max(s)}] \in M /\ order[Max(s)] \in D
        BY <1>1, <2>2, <2>3, <3>2
      <4>2. it[s] = h[it[s \ {Max(s)}]][order[Max(s)]]
        BY <2>4, <3>2
      <4> QED BY <2>5, <3>2, <4>1, <4>2
    <3> QED BY <3>1, <3>2
  <2>7. it = [s \in SUBSET DOMAIN order |-> it[s]]
    BY <2>1 DEF Folds
  <2>8. IsIt(it)
    <3> HIDE DEF Turn, order
    <3> QED BY <2>6, <2>7
  <2> QED BY <2>8
<1> DEFINE it == CHOOSE it : IsIt(it)
<1>5. IsIt(it)
  <2> HIDE DEF IsIt
  <2> QED BY <1>4
<1>6. AssignNewNodeIds(nodes, reserved) = it[DOMAIN order]
  BY DEF AssignNewNodeIds, FoldLeft, MapThenFoldSet, NumberNext
<1> HIDE DEF it
<1>7. it[1 .. 0] = << >>
  <2>1. it[{}] = Turn(it, {})
    <3> HIDE DEF Turn, order
    <3> QED BY <1>5
  <2>2. 1 .. 0 = {}
    OBVIOUS
  <2> QED BY <2>1, <2>2
<1>8. ASSUME NEW m \in 0 .. n - 1
      PROVE  it[1 .. m + 1] = NumberNext(it[1 .. m], order[m + 1], reserved)
  <2> HIDE DEF order, n
  <2> DEFINE s == 1 .. m + 1
  <2>1. Max(s) = m + 1
    <3>1. m + 1 \in s /\ s \subseteq Int /\ \A y \in s : m + 1 >= y
      BY <1>1
    <3> HIDE DEF s
    <3> QED BY <3>1, MaxIs
  <2>2. s \ {m + 1} = 1 .. m /\ s \in SUBSET DOMAIN order /\ s # {}
    <3>1. m + 1 \in s /\ m \in Nat /\ m + 1 <= n
      BY <1>1
    <3>2. s \ {m + 1} = 1 .. m
      BY <3>1
    <3>3. s \subseteq 1 .. n
      BY <1>1, <3>1
    <3> QED BY <1>1, <3>1, <3>2, <3>3
  <2>3. it[s] = Turn(it, s)
    <3> HIDE DEF Turn, s
    <3> QED BY <1>5, <2>2
  <2>4. Turn(it, s) = NumberNext(it[s \ {Max(s)}], order[Max(s)], reserved)
    <3> HIDE DEF s
    <3> QED BY <2>2
  <2> QED BY <2>1, <2>2, <2>3, <2>4
<1> DEFINE w == [m \in 0 .. n |-> it[1 .. m]]
<1>9. w[0] = << >> /\ w[n] = it[DOMAIN order]
  <2> HIDE DEF order, n
  <2> QED BY <1>1, <1>7
<1>10. \A m \in 0 .. n - 1 : w[m + 1] = NumberNext(w[m], order[m + 1], reserved)
  <2> HIDE DEF order, n
  <2>1. \A m \in 0 .. n - 1 : m \in 0 .. n /\ m + 1 \in 0 .. n
    BY <1>1
  <2> QED BY <1>8, <2>1
<1> HIDE DEF w, order, n
<1> QED BY <1>6, <1>9, <1>10 DEF order, n

\* Every node is numbered, no two alike, and none like a scan.
THEOREM EveryNodeNumbered ==
  ASSUME NEW nodes, IsStructure(nodes), NEW reserved \in SUBSET Nat, IsFiniteSet(reserved)
  PROVE  /\ IsNumbering(AssignNewNodeIds(nodes, reserved), reserved)
         /\ DOMAIN AssignNewNodeIds(nodes, reserved) = DOMAIN nodes
<1> DEFINE D == DOMAIN nodes
           order == TopoOrder(nodes)
           n == Len(order)
<1>1. PICK w : /\ w[0] = << >>
               /\ \A m \in 0 .. n - 1 : w[m + 1] = NumberNext(w[m], order[m + 1], reserved)
               /\ AssignNewNodeIds(nodes, reserved) = w[n]
  BY NumberingSteps
<1>2. /\ n \in Nat /\ DOMAIN order = 1 .. n /\ \A i \in 1 .. n : order[i] \in D
      /\ Lists(order, D)
  <2>1. order \in Seq(D) /\ Lists(order, D)
    BY TopoOrderLists
  <2> HIDE DEF order, D
  <2>2. n \in Nat /\ DOMAIN order = 1 .. n /\ order \in [1 .. n -> D]
    BY <2>1, LenProperties
  <2> QED BY <2>1, <2>2
<1>3. D \subseteq Nat
  BY DEF IsStructure
<1> HIDE DEF order, n, D
<1> DEFINE Done(m) == IsNumbering(w[m], reserved) /\ DOMAIN w[m] = {order[i] : i \in 1 .. m}
           P == {m \in Nat : m <= n => Done(m)}
<1>4. 0 \in P
  <2>1. DOMAIN w[0] = {}
    BY <1>1, EmptyIsPartial
  <2>2. IsNumbering(w[0], reserved)
    BY <2>1, FS_EmptySet DEF IsNumbering
  <2>3. {order[i] : i \in 1 .. 0} = {}
    OBVIOUS
  <2> QED BY <2>1, <2>2, <2>3
<1>5. ASSUME NEW m \in Nat, Done(m), m + 1 <= n PROVE Done(m + 1)
  <2> DEFINE id == order[m + 1]
  <2>1. m \in 0 .. n - 1 /\ m + 1 \in 1 .. n
    BY <1>2, <1>5
  <2>2. id \in Nat \ DOMAIN w[m]
    <3>1. \A i \in 1 .. m : order[i] # id
      <4> SUFFICES ASSUME NEW i \in 1 .. m, order[i] = id PROVE FALSE
        OBVIOUS
      <4>1. i \in 1 .. n /\ i # m + 1
        BY <1>2, <1>5
      <4> QED BY <1>2, <2>1, <4>1 DEF Lists
    <3>2. id \in Nat
      BY <1>2, <1>3, <2>1
    <3> HIDE DEF id
    <3> QED BY <1>5, <3>1, <3>2
  <2>3. w[m + 1] = NumberNext(w[m], id, reserved)
    BY <1>1, <2>1
  <2> HIDE DEF id
  <2>4. IsNumbering(w[m + 1], reserved)
    BY <1>5, <2>2, <2>3, NumberingKept DEF NumberNext
  <2>5. DOMAIN w[m + 1] = DOMAIN w[m] \cup {id}
    BY <2>3 DEF NumberNext, With
  <2>6. {order[i] : i \in 1 .. m + 1} = {order[i] : i \in 1 .. m} \cup {id}
    <3>1. \A i : i \in 1 .. m + 1 <=> i \in 1 .. m \/ i = m + 1
      OBVIOUS
    <3> QED BY <3>1 DEF id
  <2> QED BY <1>5, <2>4, <2>5, <2>6
<1>6. \A m \in Nat : m \in P => m + 1 \in P
  <2> HIDE DEF Done
  <2> SUFFICES ASSUME NEW m \in Nat, m \in P PROVE m + 1 \in P
    OBVIOUS
  <2>1. m + 1 <= n => Done(m)
    BY <1>2
  <2> QED BY <1>5, <2>1
<1>7. n \in P
  <2> HIDE DEF P
  <2> QED BY <1>2, <1>4, <1>6, SetInduction
<1>8. Done(n)
  <2> HIDE DEF Done
  <2> QED BY <1>2, <1>7
<1>9. {order[i] : i \in 1 .. n} = D
  BY <1>2 DEF Lists, Range
<1> QED BY <1>1, <1>8, <1>9 DEF D

\* What comes out of the renumbering is numbered nodes again, as many of them.
LEMMA RewrittenIs ==
  ASSUME NEW nodes, IsStructure(nodes), NEW reserved \in SUBSET Nat, IsFiniteSet(reserved),
         NEW scanMap
  PROVE  LET new == RewriteReferences(nodes, AssignNewNodeIds(nodes, reserved), scanMap)
         IN  /\ DOMAIN new \subseteq Nat \ reserved /\ IsFiniteSet(DOMAIN new)
             /\ Cardinality(DOMAIN new) = Cardinality(DOMAIN nodes)
             /\ new = [id \in DOMAIN new |-> new[id]]
<1> DEFINE map == AssignNewNodeIds(nodes, reserved)
           new == RewriteReferences(nodes, map, scanMap)
           D == DOMAIN nodes
           R == Range(map)
           b == [x \in D |-> map[x]]
<1>1. IsNumbering(map, reserved) /\ DOMAIN map = D
  BY EveryNodeNumbered
<1>2. DOMAIN new = R /\ new = [id \in R |-> new[id]]
  BY DEF RewriteReferences
<1> HIDE DEF map, new, D
<1>3. R \subseteq Nat \ reserved
  BY <1>1 DEF IsNumbering, Range
<1>4. b \in Bijection(D, R)
  <2>1. b \in [D -> R]
    BY <1>1 DEF Range
  <2>2. \A x, y \in D : b[x] = b[y] => x = y
    BY <1>1 DEF IsNumbering
  <2>3. \A y \in R : \E x \in D : b[x] = y
    BY <1>1 DEF Range
  <2> HIDE DEF b, R
  <2>4. b \in Injection(D, R)
    BY <2>1, <2>2 DEF Injection, IsInjective
  <2>5. b \in Surjection(D, R)
    BY <2>1, <2>3 DEF Surjection
  <2> QED BY <2>4, <2>5 DEF Bijection
<1>5. IsFiniteSet(D)
  BY DEF IsStructure, D
<1>6. IsFiniteSet(R) /\ Cardinality(R) = Cardinality(D)
  <2>1. ExistsBijection(D, R)
    BY <1>4 DEF ExistsBijection
  <2> HIDE DEF R
  <2> QED BY <1>5, <2>1, FS_Bijection
<1> HIDE DEF R
<1> QED BY <1>2, <1>3, <1>6 DEF new, map, D

-----------------------------------------------------------------------------
(* Patches. *)

\* One operation of a patch, unless an earlier one has raised.
Applied(r, o) == IF r.ok THEN ApplyOperation(r.val, o) ELSE r

Results(A, N) == [ok : BOOLEAN, val : Partial(A, N)]

\* The nodes of a patch's operations have numbers in A and are among N.
OpsWithin(ops, n, A, N) ==
  DOMAIN ops = 1 .. n /\ \A k \in 1 .. n : ops[k].id \in A /\ ops[k].node \in N

LEMMA OperationIs ==
  ASSUME NEW nodes, NEW o
  PROVE  LET r == ApplyOperation(nodes, o)
         IN  \/ r = Raised \/ r = Ok(nodes) \/ r = Ok(With(nodes, o.id, o.node))
             \/ r = Ok(Without(nodes, o.id))
             \/ /\ o.from \in DOMAIN nodes
                /\ \/ r = Ok(With(nodes, o.id, nodes[o.from]))
                   \/ r = Ok(With(Without(nodes, o.from), o.id, nodes[o.from]))
<1> DEFINE a == Ok(With(nodes, o.id, o.node))
           b == Ok(Without(nodes, o.id))
           c == Ok(With(nodes, o.id, nodes[o.from]))
           d == Ok(With(Without(nodes, o.from), o.id, nodes[o.from]))
           e == Ok(nodes)
           x == Raised
<1>1. ApplyOperation(nodes, o) =
        CASE o.op = "add" -> a
          [] o.op = "replace" /\ o.id \in DOMAIN nodes -> a
          [] o.op = "remove" /\ o.id \in DOMAIN nodes -> b
          [] o.op = "copy" /\ o.from \in DOMAIN nodes -> c
          [] o.op = "move" /\ o.from \in DOMAIN nodes -> d
          [] o.op = "test" /\ o.id \in DOMAIN nodes /\ nodes[o.id] = o.node -> e
          [] OTHER -> x
  BY DEF ApplyOperation
<1> HIDE DEF a, b, c, d, e, x
<1>2. \/ ApplyOperation(nodes, o) \in {x, e, a, b}
      \/ o.from \in DOMAIN nodes /\ ApplyOperation(nodes, o) \in {c, d}
  BY <1>1
<1> QED BY <1>2 DEF a, b, c, d, e, x

LEMMA WithoutPartial ==
  ASSUME NEW A, NEW B, NEW f \in Partial(A, B), NEW k
  PROVE  Without(f, k) \in Partial(A, B) /\ DOMAIN Without(f, k) = DOMAIN f \ {k}
<1> DEFINE g == Without(f, k)
<1>1. DOMAIN f \subseteq A /\ \A x \in DOMAIN f : f[x] \in B
  BY PartialIs
<1>2. DOMAIN g = DOMAIN f \ {k} /\ g = [x \in DOMAIN g |-> g[x]]
      /\ \A x \in DOMAIN g : g[x] = f[x]
  BY DEF Without
<1> HIDE DEF g
<1>3. DOMAIN g \subseteq A /\ \A x \in DOMAIN g : g[x] \in B
  BY <1>1, <1>2
<1>4. g \in Partial(A, B)
  BY <1>2, <1>3, PartialIs
<1> QED BY <1>2, <1>4 DEF g

LEMMA OperationKeeps ==
  ASSUME NEW A, NEW N, NEW nodes \in Partial(A, N), NEW o, o.id \in A, o.node \in N
  PROVE  /\ ApplyOperation(nodes, o) \in Results(A, N)
         /\ IsFiniteSet(DOMAIN nodes) => IsFiniteSet(DOMAIN ApplyOperation(nodes, o).val)
<1> DEFINE r == ApplyOperation(nodes, o)
           Fine(v) == v \in Partial(A, N) /\ (IsFiniteSet(DOMAIN nodes) => IsFiniteSet(DOMAIN v))
<1>1. ASSUME NEW f \in Partial(A, N), NEW x \in N,
             IsFiniteSet(DOMAIN nodes) => IsFiniteSet(DOMAIN f)
      PROVE  Fine(With(f, o.id, x))
  <2>1. With(f, o.id, x) \in Partial(A, N)
    BY <1>1, WithPartial
  <2>2. DOMAIN With(f, o.id, x) = DOMAIN f \cup {o.id}
    BY DEF With
  <2> QED BY <1>1, <2>1, <2>2, FS_AddElement
<1>2. \A k : Fine(Without(nodes, k))
  <2> TAKE k
  <2> DEFINE g == Without(nodes, k)
  <2> HIDE DEF g
  <2>1. g \in Partial(A, N) /\ DOMAIN g = DOMAIN nodes \ {k}
    BY WithoutPartial DEF g
  <2>2. Fine(g)
    BY <2>1, FS_Subset
  <2> QED BY <2>2 DEF g
<1>3. \A k \in DOMAIN nodes : nodes[k] \in N
  BY PartialIs
<1>4. Fine(nodes) /\ Fine(<< >>)
  BY EmptyIsPartial, FS_EmptySet
<1>5. Fine(With(nodes, o.id, o.node)) /\ Fine(Without(nodes, o.id))
  BY <1>1, <1>2
<1>6. o.from \in DOMAIN nodes =>
        /\ Fine(With(nodes, o.id, nodes[o.from]))
        /\ Fine(With(Without(nodes, o.from), o.id, nodes[o.from]))
  BY <1>1, <1>2, <1>3
<1> HIDE DEF Fine
<1>7. \A v : Ok(v).ok = TRUE /\ Ok(v).val = v /\ Ok(v) = [ok |-> TRUE, val |-> v]
  BY DEF Ok
<1>8. Raised = [ok |-> FALSE, val |-> << >>] /\ Raised.val = << >>
  BY DEF Raised
<1> DEFINE Shaped(x) == \E b \in BOOLEAN : \E v : Fine(v) /\ x = [ok |-> b, val |-> v]
<1>9. /\ \A v : Fine(v) => Shaped(Ok(v))
      /\ Shaped(Raised)
  BY <1>4, <1>7, <1>8
<1> HIDE DEF Shaped
<1>10. Shaped(r)
  <2>1. CASE r = Raised
    BY <1>9, <2>1
  <2>2. CASE r = Ok(nodes)
    BY <1>4, <1>9, <2>2
  <2>3. CASE r = Ok(With(nodes, o.id, o.node))
    BY <1>5, <1>9, <2>3
  <2>4. CASE r = Ok(Without(nodes, o.id))
    BY <1>5, <1>9, <2>4
  <2>5. CASE o.from \in DOMAIN nodes /\ r = Ok(With(nodes, o.id, nodes[o.from]))
    BY <1>6, <1>9, <2>5
  <2>6. CASE /\ o.from \in DOMAIN nodes
             /\ r = Ok(With(Without(nodes, o.from), o.id, nodes[o.from]))
    BY <1>6, <1>9, <2>6
  <2> HIDE DEF r
  <2>7. \/ r = Raised \/ r = Ok(nodes) \/ r = Ok(With(nodes, o.id, o.node))
        \/ r = Ok(Without(nodes, o.id))
        \/ /\ o.from \in DOMAIN nodes
           /\ \/ r = Ok(With(nodes, o.id, nodes[o.from]))
              \/ r = Ok(With(Without(nodes, o.from), o.id, nodes[o.from]))
    BY OperationIs DEF r
  <2> QED BY <2>1, <2>2, <2>3, <2>4, <2>5, <2>6, <2>7
<1> HIDE DEF r
<1>11. PICK b \in BOOLEAN : \E v : Fine(v) /\ r = [ok |-> b, val |-> v]
  BY <1>10 DEF Shaped
<1>12. PICK v : Fine(v) /\ r = [ok |-> b, val |-> v]
  BY <1>11
<1>13. r \in Results(A, N) /\ r.val = v
  BY <1>12 DEF Results, Fine
<1> QED BY <1>12, <1>13 DEF r, Fine

\* A patch is applied operation by operation.
LEMMA PatchSteps ==
  ASSUME NEW A, NEW N, NEW nodes \in Partial(A, N), NEW n \in Nat, NEW ops,
         OpsWithin(ops, n, A, N)
  PROVE  \E w : /\ w[0] = Ok(nodes)
                /\ \A m \in 0 .. n - 1 : w[m + 1] = Applied(w[m], ops[m + 1])
                /\ \A m \in 0 .. n : w[m] \in Results(A, N)
                /\ ApplyPatch(nodes, ops) = w[n]
<1> DEFINE R == Results(A, N)
           C == Range(ops)
           h == [r \in R |-> [o \in C |-> Applied(r, o)]]
           Turn(it, s) == IF s = {} THEN Ok(nodes)
                          ELSE LET x == Max(s) IN Applied(it[s \ {x}], ops[x])
           IsIt(it) == it = [s \in SUBSET DOMAIN ops |-> Turn(it, s)]
<1>1. DOMAIN ops = 1 .. n /\ \A i \in 1 .. n : ops[i] \in C /\ ops[i].id \in A /\ ops[i].node \in N
  BY DEF OpsWithin, Range
<1>2. ASSUME NEW r \in R, NEW o \in C
      PROVE  Applied(r, o) \in R
  <2>1. o.id \in A /\ o.node \in N /\ r.val \in Partial(A, N)
    BY <1>1 DEF Range, Results
  <2>2. ApplyOperation(r.val, o) \in R
    BY <2>1, OperationKeeps
  <2> QED BY <2>2 DEF Applied
<1>3. Ok(nodes) \in R
  BY DEF Ok, Results
<1>4. \E it : IsIt(it)
  <2>1. PICK it : Folds(it, h, Ok(nodes), ops)
    <3> HIDE DEF h
    <3> QED BY <1>1, FoldExists
  <2>2. \A s \in SUBSET (1 .. n) : it[s] \in R
    <3>1. \A r \in R : \A i \in 1 .. n : h[r][ops[i]] \in R
      <4> HIDE DEF R, C
      <4> QED BY <1>1, <1>2
    <3> HIDE DEF h, R
    <3> QED BY <1>1, <1>3, <2>1, <3>1, FoldType
  <2>3. \A s \in SUBSET (1 .. n) : s # {} => Max(s) \in 1 .. n /\ s \ {Max(s)} \in SUBSET (1 .. n)
    BY MaxLeavesFewer
  <2>4. \A s \in SUBSET DOMAIN ops :
          it[s] = IF s = {} THEN Ok(nodes) ELSE h[it[s \ {Max(s)}]][ops[Max(s)]]
    BY <2>1 DEF Folds
  <2>5. \A r \in R : \A o \in C : h[r][o] = Applied(r, o)
    BY DEF R
  <2>6. ASSUME NEW s \in SUBSET DOMAIN ops PROVE it[s] = Turn(it, s)
    <3> HIDE DEF h, R, C
    <3>1. CASE s = {}
      BY <2>4, <3>1
    <3>2. CASE s # {}
      <4>1. Max(s) \in 1 .. n /\ it[s \ {Max(s)}] \in R /\ ops[Max(s)] \in C
        BY <1>1, <2>2, <2>3, <3>2
      <4>2. it[s] = h[it[s \ {Max(s)}]][ops[Max(s)]]
        BY <2>4, <3>2
      <4> QED BY <2>5, <3>2, <4>1, <4>2
    <3> QED BY <3>1, <3>2
  <2>7. it = [s \in SUBSET DOMAIN ops |-> it[s]]
    BY <2>1 DEF Folds
  <2>8. IsIt(it)
    <3> HIDE DEF Turn
    <3> QED BY <2>6, <2>7
  <2> QED BY <2>8
<1> DEFINE it == CHOOSE it : IsIt(it)
<1>5. IsIt(it)
  <2> HIDE DEF IsIt
  <2> QED BY <1>4
<1>6. ApplyPatch(nodes, ops) = it[DOMAIN ops]
  BY DEF ApplyPatch, FoldLeft, MapThenFoldSet, Applied
<1> HIDE DEF it
<1>7. it[1 .. 0] = Ok(nodes)
  <2>1. it[{}] = Turn(it, {})
    <3> HIDE DEF Turn
    <3> QED BY <1>5
  <2>2. 1 .. 0 = {}
    OBVIOUS
  <2> QED BY <2>1, <2>2
<1>8. ASSUME NEW m \in 0 .. n - 1
      PROVE  it[1 .. m + 1] = Applied(it[1 .. m], ops[m + 1])
  <2> DEFINE s == 1 .. m + 1
  <2>1. Max(s) = m + 1
    <3>1. m + 1 \in s /\ s \subseteq Int /\ \A y \in s : m + 1 >= y
      OBVIOUS
    <3> HIDE DEF s
    <3> QED BY <3>1, MaxIs
  <2>2. s \ {m + 1} = 1 .. m /\ s \in SUBSET DOMAIN ops /\ s # {}
    <3>1. m + 1 \in s /\ m \in Nat /\ m + 1 <= n
      OBVIOUS
    <3>2. s \ {m + 1} = 1 .. m
      BY <3>1
    <3>3. s \subseteq 1 .. n
      BY <3>1
    <3> QED BY <1>1, <3>1, <3>2, <3>3
  <2>3. it[s] = Turn(it, s)
    <3> HIDE DEF Turn, s
    <3> QED BY <1>5, <2>2
  <2>4. Turn(it, s) = Applied(it[s \ {Max(s)}], ops[Max(s)])
    <3> HIDE DEF s
    <3> QED BY <2>2
  <2> QED BY <2>1, <2>2, <2>3, <2>4
<1> DEFINE w == [m \in 0 .. n |-> it[1 .. m]]
<1>9. w[0] = Ok(nodes) /\ w[n] = it[DOMAIN ops]
  BY <1>1, <1>7
<1>10. \A m \in 0 .. n - 1 : w[m + 1] = Applied(w[m], ops[m + 1])
  <2>1. \A m \in 0 .. n - 1 : m \in 0 .. n /\ m + 1 \in 0 .. n
    OBVIOUS
  <2> QED BY <1>8, <2>1
<1> HIDE DEF w
<1>11. \A m \in 0 .. n : w[m] \in R
  <2> DEFINE U == {m \in Nat : m <= n => w[m] \in R}
  <2>1. Nat \subseteq U
    <3>1. 0 \in U
      BY <1>3, <1>9
    <3>2. ASSUME NEW m \in Nat, m \in U PROVE m + 1 \in U
      <4> SUFFICES ASSUME m + 1 <= n PROVE w[m + 1] \in R
        OBVIOUS
      <4>1. m \in 0 .. n - 1 /\ m + 1 \in 1 .. n /\ w[m] \in R
        BY <3>2
      <4> HIDE DEF R, C
      <4> QED BY <1>1, <1>2, <1>10, <4>1
    <3> HIDE DEF U
    <3> QED BY <3>1, <3>2, SetInduction
  <2> HIDE DEF R
  <2> QED BY <2>1
<1> QED BY <1>6, <1>9, <1>10, <1>11

\* Nothing is put into a structure but what was there and what the patch holds.
LEMMA PatchWithin ==
  ASSUME NEW A, NEW N, NEW nodes \in Partial(A, N), NEW n \in Nat, NEW ops,
         OpsWithin(ops, n, A, N)
  PROVE  ApplyPatch(nodes, ops).val \in Partial(A, N)
<1>1. PICK w : /\ w[0] = Ok(nodes)
               /\ \A m \in 0 .. n - 1 : w[m + 1] = Applied(w[m], ops[m + 1])
               /\ \A m \in 0 .. n : w[m] \in Results(A, N)
               /\ ApplyPatch(nodes, ops) = w[n]
  BY PatchSteps
<1>2. ApplyPatch(nodes, ops) \in Results(A, N)
  BY <1>1
<1> QED BY <1>2 DEF Results

\* A patch leaves a structure a structure.
LEMMA PatchKeeps ==
  ASSUME NEW nodes, IsStructure(nodes), NEW ops, IsPatch(ops)
  PROVE  IsStructure(ApplyPatch(nodes, ops).val)
<1> DEFINE n == Len(ops)
           N == {nodes[id] : id \in DOMAIN nodes} \cup {ops[k].node : k \in 1 .. n}
           R == Results(Nat, N)
<1>1. n \in Nat /\ OpsWithin(ops, n, Nat, N)
  BY DEF IsPatch, OpsWithin
<1>2. nodes \in Partial(Nat, N)
  BY PartialIs DEF IsStructure
<1>3. \A x \in N : x = [label |-> x.label, refs |-> x.refs] /\ x.refs \in Seq(Nat)
  BY DEF IsPatch, IsStructure
<1> HIDE DEF n, N
<1>4. PICK w : /\ w[0] = Ok(nodes)
               /\ \A m \in 0 .. n - 1 : w[m + 1] = Applied(w[m], ops[m + 1])
               /\ \A m \in 0 .. n : w[m] \in R
               /\ ApplyPatch(nodes, ops) = w[n]
  BY <1>1, <1>2, PatchSteps
<1> DEFINE F == {m \in Nat : m <= n => IsFiniteSet(DOMAIN w[m].val)}
<1>5. 0 \in F
  <2>1. w[0].val = nodes /\ IsFiniteSet(DOMAIN nodes)
    BY <1>4 DEF Ok, IsStructure
  <2> QED BY <2>1
<1>6. ASSUME NEW m \in Nat, m \in F PROVE m + 1 \in F
  <2> SUFFICES ASSUME m + 1 <= n PROVE IsFiniteSet(DOMAIN w[m + 1].val)
    OBVIOUS
  <2>1. m \in 0 .. n - 1 /\ m \in 0 .. n /\ m + 1 \in 1 .. n /\ IsFiniteSet(DOMAIN w[m].val)
    BY <1>1, <1>6
  <2>2. w[m].val \in Partial(Nat, N)
    BY <1>4, <2>1 DEF Results
  <2>3. ops[m + 1].id \in Nat /\ ops[m + 1].node \in N
    BY <1>1, <2>1 DEF OpsWithin
  <2>4. IsFiniteSet(DOMAIN ApplyOperation(w[m].val, ops[m + 1]).val)
    BY <2>1, <2>2, <2>3, OperationKeeps
  <2>5. w[m + 1] = Applied(w[m], ops[m + 1])
    BY <1>4, <2>1
  <2>6. CASE w[m].ok
    BY <2>4, <2>5, <2>6 DEF Applied
  <2>7. CASE ~w[m].ok
    BY <2>1, <2>5, <2>7 DEF Applied
  <2> QED BY <2>6, <2>7
<1>7. n \in F
  <2> HIDE DEF F
  <2>1. Nat \subseteq F
    BY <1>5, <1>6, SetInduction
  <2> QED BY <1>1, <2>1
<1> DEFINE v == ApplyPatch(nodes, ops).val
<1>8. IsFiniteSet(DOMAIN v)
  BY <1>1, <1>4, <1>7
<1>9. v \in Partial(Nat, N)
  BY <1>1, <1>4 DEF Results
<1> HIDE DEF v
<1>10. v = [x \in DOMAIN v |-> v[x]] /\ DOMAIN v \subseteq Nat /\ \A x \in DOMAIN v : v[x] \in N
  BY <1>9, PartialIs
<1>11. IsStructure(v)
  BY <1>3, <1>8, <1>10 DEF IsStructure
<1> QED BY <1>11 DEF v

LEMMA RebindKeeps ==
  ASSUME NEW nodes, IsStructure(nodes), NEW tables
  PROVE  IsStructure(RebindScans(nodes, tables)) /\ DOMAIN RebindScans(nodes, tables) = DOMAIN nodes
<1> DEFINE pairs == PairScans(EmbeddedScans(nodes), tables)
           node(id) == IF id \in DOMAIN EmbeddedScans(nodes)
                       THEN [nodes[id] EXCEPT !.label = tables[pairs[id]]] ELSE nodes[id]
           g == [id \in DOMAIN nodes |-> node(id)]
<1>1. RebindScans(nodes, tables) = g
  BY DEF RebindScans
<1>2. ASSUME NEW id \in DOMAIN nodes
      PROVE  node(id) = [label |-> node(id).label, refs |-> nodes[id].refs]
             /\ nodes[id].refs \in Seq(Nat)
  <2> HIDE DEF pairs
  <2>1. nodes[id] = [label |-> nodes[id].label, refs |-> nodes[id].refs]
        /\ nodes[id].refs \in Seq(Nat)
    BY DEF IsStructure
  <2> QED BY <2>1
<1> HIDE DEF node
<1>3. \A id \in DOMAIN g : g[id] = [label |-> g[id].label, refs |-> g[id].refs]
                           /\ g[id].refs \in Seq(Nat)
  <2> SUFFICES ASSUME NEW id \in DOMAIN nodes
               PROVE  node(id) = [label |-> node(id).label, refs |-> node(id).refs]
                      /\ node(id).refs \in Seq(Nat)
    OBVIOUS
  <2>1. node(id) = [label |-> node(id).label, refs |-> nodes[id].refs]
        /\ nodes[id].refs \in Seq(Nat)
    BY <1>2
  <2>2. node(id).refs = nodes[id].refs
    BY <2>1
  <2> QED BY <2>1, <2>2
<1>4. DOMAIN g = DOMAIN nodes /\ g = [id \in DOMAIN g |-> g[id]]
  OBVIOUS
<1> HIDE DEF g
<1>5. IsStructure(g)
  BY <1>3, <1>4 DEF IsStructure
<1> QED BY <1>1, <1>4, <1>5

\* What is transferred has as many nodes as the patched plan, none of them at the
\* number of a scan of the target.
LEMMA TransferredApart ==
  ASSUME NEW from, IsStructure(from.structure), NEW to, NEW ops, IsPatch(ops),
         DOMAIN to.tables \subseteq Nat, IsFiniteSet(DOMAIN to.tables),
         TransferPlan(from, to, ops).ok
  PROVE  LET new == TransferPlan(from, to, ops).val
         IN  /\ DOMAIN new \subseteq Nat \ DOMAIN to.tables /\ IsFiniteSet(DOMAIN new)
             /\ Cardinality(DOMAIN new) = Cardinality(DOMAIN ApplyPatch(from.structure, ops).val)
             /\ new = [id \in DOMAIN new |-> new[id]]
<1> DEFINE patched == ApplyPatch(from.structure, ops)
           targets == Compacted(to.tables)
           rebound == RebindScans(patched.val, targets)
           scanMap == PairScans(Compacted(from.tables), targets)
           new == RewriteReferences(rebound, AssignNewNodeIds(rebound, DOMAIN targets), scanMap)
<1>0. DOMAIN targets = DOMAIN to.tables
  BY DEF Compacted
<1>1. IsStructure(rebound) /\ DOMAIN rebound = DOMAIN patched.val
  <2>1. IsStructure(patched.val)
    BY PatchKeeps
  <2> HIDE DEF patched, targets
  <2> QED BY <2>1, RebindKeeps
<1>2. TransferPlan(from, to, ops).val = new
  <2>1. TransferPlan(from, to, ops) \in {Raised, Ok(new)}
    BY DEF TransferPlan
  <2> QED BY <2>1 DEF Raised, Ok
<1>3. /\ DOMAIN new \subseteq Nat \ DOMAIN to.tables /\ IsFiniteSet(DOMAIN new)
      /\ Cardinality(DOMAIN new) = Cardinality(DOMAIN rebound)
      /\ new = [id \in DOMAIN new |-> new[id]]
  <2> HIDE DEF rebound, scanMap, targets
  <2> QED BY <1>0, <1>1, RewrittenIs
<1> QED BY <1>1, <1>2, <1>3

-----------------------------------------------------------------------------
(* One plan as another with other numbers, among more scans. *)

\* m takes the nodes of a plan to those of another, and its scans to scans.
Renumbers(m, plan, into) ==
  /\ \A id \in DOMAIN plan.structure :
       LET node == plan.structure[id]
           other == into.structure[m[id]]
       IN  /\ m[id] \in DOMAIN into.structure
           /\ other.refs = [k \in DOMAIN node.refs |-> m[node.refs[k]]]
           /\ \A k \in DOMAIN node.refs : node.refs[k] \in Ids(plan)
  /\ \A id \in DOMAIN plan.tables : m[id] \in DOMAIN into.tables
  /\ \A a, b \in DOMAIN plan.structure : m[a] = m[b] => a = b
  /\ \A new \in DOMAIN into.structure : \E id \in DOMAIN plan.structure : m[id] = new
  /\ DOMAIN plan.structure \cap DOMAIN plan.tables = {}
  /\ DOMAIN into.structure \cap DOMAIN into.tables = {}

\* The engine builds the same of two labels: they are equal, or of scans in the form
\* it does not read.
BuildAlike(label, other) ==
  other = label \/ (label.keys = "compacted" /\ other.keys = "compacted")

SameLabels(m, plan, into) ==
  /\ \A id \in DOMAIN plan.structure :
       BuildAlike(plan.structure[id].label, into.structure[m[id]].label)
  /\ \A id \in DOMAIN plan.tables : into.tables[m[id]] = plan.tables[id]

Embeds(m, plan, into) == Renumbers(m, plan, into) /\ SameLabels(m, plan, into)

\* The children of a node go where it goes.
LEMMA EmbeddedChildren ==
  ASSUME NEW m, NEW plan, NEW into, Renumbers(m, plan, into)
  PROVE  /\ \A id \in Ids(plan) :
              /\ m[id] \in Ids(into)
              /\ Range(ChildIds(plan, id)) \subseteq Ids(plan)
              /\ Range(ChildIds(into, m[id])) = {m[c] : c \in Range(ChildIds(plan, id))}
         /\ \A id \in DOMAIN into.tables : Range(ChildIds(into, id)) = {}
<1>1. Range(<< >>) = {}
  BY EmptyIsPartial
<1>2. ASSUME NEW id \in DOMAIN plan.tables
      PROVE  /\ m[id] \in Ids(into)
             /\ Range(ChildIds(plan, id)) \subseteq Ids(plan)
             /\ Range(ChildIds(into, m[id])) = {m[c] : c \in Range(ChildIds(plan, id))}
  <2>1. m[id] \in DOMAIN into.tables
    BY DEF Renumbers
  <2>2. ChildIds(plan, id) = << >> /\ ChildIds(into, m[id]) = << >>
    BY <2>1 DEF ChildIds
  <2> QED BY <1>1, <2>1, <2>2 DEF Ids
<1>3. ASSUME NEW id \in DOMAIN plan.structure
      PROVE  /\ m[id] \in Ids(into)
             /\ Range(ChildIds(plan, id)) \subseteq Ids(plan)
             /\ Range(ChildIds(into, m[id])) = {m[c] : c \in Range(ChildIds(plan, id))}
  <2> DEFINE refs == plan.structure[id].refs
             others == into.structure[m[id]].refs
  <2>1. /\ m[id] \in DOMAIN into.structure
        /\ others = [k \in DOMAIN refs |-> m[refs[k]]]
        /\ \A k \in DOMAIN refs : refs[k] \in Ids(plan)
    BY DEF Renumbers
  <2>2. id \notin DOMAIN plan.tables /\ m[id] \notin DOMAIN into.tables
    BY <2>1 DEF Renumbers
  <2>3. ChildIds(plan, id) = refs /\ ChildIds(into, m[id]) = others
    BY <2>2 DEF ChildIds
  <2> HIDE DEF refs, others
  <2>4. Range(others) = {m[c] : c \in Range(refs)}
    BY <2>1 DEF Range
  <2> QED BY <2>1, <2>3, <2>4 DEF Ids, Range
<1>4. \A id \in DOMAIN into.tables : Range(ChildIds(into, id)) = {}
  BY <1>1 DEF ChildIds
<1> QED BY <1>2, <1>3, <1>4 DEF Ids

LEMMA EmbeddedLevels ==
  ASSUME NEW m, NEW plan, NEW into, Renumbers(m, plan, into),
         NEW g, IsLevels(plan, g), NEW h, IsLevels(into, h)
  PROVE  \A n \in Nat :
           /\ \A id \in Ids(plan) : id \in g[n] <=> m[id] \in h[n]
           /\ n > 0 => DOMAIN into.tables \subseteq h[n]
<1> DEFINE P == {n \in Nat : \A id \in Ids(plan) : id \in g[n] <=> m[id] \in h[n]}
<1>1. 0 \in P
  BY DEF IsLevels
<1>2. ASSUME NEW n \in P PROVE n + 1 \in P
  <2>1. n \in Nat /\ g[n + 1] = Above(plan, g[n]) /\ h[n + 1] = Above(into, h[n])
    BY DEF IsLevels
  <2> SUFFICES ASSUME NEW id \in Ids(plan) PROVE id \in g[n + 1] <=> m[id] \in h[n + 1]
    BY <2>1
  <2>2. \A c \in Range(ChildIds(plan, id)) :
          c \in Ids(plan) /\ m[c] \in Ids(into) /\ (c \in g[n] <=> m[c] \in h[n])
    BY <2>1, EmbeddedChildren
  <2>3. m[id] \in Ids(into) /\ Range(ChildIds(into, m[id])) = {m[c] : c \in Range(ChildIds(plan, id))}
    BY EmbeddedChildren
  <2> QED BY <2>1, <2>2, <2>3 DEF Above
<1>3. Nat \subseteq P
  <2> HIDE DEF P
  <2> QED BY <1>1, <1>2, SetInduction
<1>4. ASSUME NEW n \in Nat, n > 0 PROVE DOMAIN into.tables \subseteq h[n]
  <2>1. n - 1 \in Nat /\ (n - 1) + 1 = n
    BY <1>4
  <2>2. h[n] = Above(into, h[n - 1])
    BY <2>1 DEF IsLevels
  <2> QED BY <2>2, EmbeddedChildren DEF Above, Ids
<1> QED BY <1>3, <1>4

LEMMA EmbeddedAcyclic ==
  ASSUME NEW m, NEW plan, NEW into, Renumbers(m, plan, into),
         IsFiniteSet(Ids(plan)), IsFiniteSet(Ids(into))
  PROVE  IsAcyclic(plan) <=> IsAcyclic(into)
<1>1. PICK g : IsLevels(plan, g) /\ (IsAcyclic(plan) <=> \E n \in Nat : g[n] = Ids(plan))
  BY AcyclicIs
<1>2. PICK h : IsLevels(into, h) /\ (IsAcyclic(into) <=> \E n \in Nat : h[n] = Ids(into))
  BY AcyclicIs
<1>3. \A n \in Nat : /\ \A id \in Ids(plan) : id \in g[n] <=> m[id] \in h[n]
                     /\ n > 0 => DOMAIN into.tables \subseteq h[n]
  BY <1>1, <1>2, EmbeddedLevels
<1>4. \A n \in Nat : n + 1 \in Nat /\ n + 1 > 0
  OBVIOUS
<1>5. \A n \in Nat : /\ g[n] \subseteq g[n + 1] /\ g[n + 1] \subseteq Ids(plan)
                     /\ h[n] \subseteq Ids(into) /\ h[n + 1] \subseteq Ids(into)
  BY <1>1, <1>2, <1>4, LevelsGrow
<1>6. ASSUME NEW n \in Nat, g[n] = Ids(plan) PROVE h[n + 1] = Ids(into)
  <2>1. \A id \in Ids(plan) : m[id] \in h[n + 1]
    BY <1>3, <1>4, <1>5, <1>6
  <2>2. DOMAIN into.structure \subseteq h[n + 1]
    BY <2>1 DEF Renumbers, Ids
  <2>3. DOMAIN into.tables \subseteq h[n + 1]
    BY <1>3, <1>4
  <2> QED BY <1>5, <2>2, <2>3 DEF Ids
<1>7. ASSUME NEW n \in Nat, h[n] = Ids(into) PROVE g[n] = Ids(plan)
  <2>1. \A id \in Ids(plan) : m[id] \in h[n]
    BY <1>7, EmbeddedChildren
  <2>2. g[n] \subseteq Ids(plan)
    BY <1>1, LevelsGrow
  <2> QED BY <1>3, <2>1, <2>2
<1> QED BY <1>1, <1>2, <1>4, <1>6, <1>7

LEMMA EmbeddedRoots ==
  ASSUME NEW m, NEW plan, NEW into, Renumbers(m, plan, into)
  PROVE  \A id \in DOMAIN plan.structure : id \in Roots(plan) <=> m[id] \in Roots(into)
<1> SUFFICES ASSUME NEW id \in DOMAIN plan.structure
             PROVE  id \in Roots(plan) <=> m[id] \in Roots(into)
  OBVIOUS
<1> DEFINE Child(p, c) == \E x \in Ids(p) : c \in Range(ChildIds(p, x))
<1>1. id \in Ids(plan) /\ m[id] \in Ids(into) /\ m[id] \in DOMAIN into.structure
  BY DEF Renumbers, Ids
<1>2. /\ id \in Roots(plan) <=> ~Child(plan, id)
      /\ m[id] \in Roots(into) <=> ~Child(into, m[id])
  BY <1>1 DEF Roots
<1>3. ASSUME Child(plan, id) PROVE Child(into, m[id])
  BY <1>3, EmbeddedChildren
<1>4. ASSUME Child(into, m[id]) PROVE Child(plan, id)
  <2>1. PICK x \in Ids(into) : m[id] \in Range(ChildIds(into, x))
    BY <1>4
  <2>2. x \in DOMAIN into.structure
    BY <2>1, EmbeddedChildren DEF Ids
  <2>3. PICK y \in DOMAIN plan.structure : m[y] = x
    BY <2>2 DEF Renumbers
  <2>4. y \in Ids(plan)
    BY DEF Ids
  <2>5. PICK c \in Range(ChildIds(plan, y)) : m[c] = m[id]
    BY <2>1, <2>3, <2>4, EmbeddedChildren
  <2>6. c \in Ids(plan)
    BY <2>4, EmbeddedChildren
  <2>7. c \in DOMAIN plan.structure
    BY <1>1, <2>5, <2>6 DEF Renumbers, Ids
  <2>8. c = id
    BY <2>5, <2>7 DEF Renumbers
  <2> QED BY <2>4, <2>8
<1> QED BY <1>2, <1>3, <1>4

\* A plan with one node that nothing refers to is rebuilt from that node.
LEMMA RootIs ==
  ASSUME NEW plan, NEW r \in Nat, Roots(plan) \cap DOMAIN plan.structure = {r}
  PROVE  RootId(plan) = r /\ Roots(plan) # {}
<1> DEFINE inner == Roots(plan) \cap DOMAIN plan.structure
           first == CHOOSE x \in inner : \A o \in inner : StringRank(x) <= StringRank(o)
<1>1. StringRank(r) \in Int
  BY DEF StringRank
<1>2. r \in inner /\ \A o \in inner : o = r
  OBVIOUS
<1>3. RootId(plan) = first
  BY DEF RootId
<1> HIDE DEF inner
<1>4. \A o \in inner : StringRank(r) <= StringRank(o)
  BY <1>1, <1>2
<1>5. first \in inner
  BY <1>2, <1>4
<1> HIDE DEF first
<1> QED BY <1>2, <1>3, <1>5 DEF inner

\* What is built of a node is what is built of the node it goes to.
LEMMA EmbeddedBuild ==
  ASSUME NEW m, NEW plan, NEW into, Embeds(m, plan, into),
         Ids(plan) \subseteq Nat, Ids(into) \subseteq Nat,
         NEW g, IsLevels(plan, g), NEW b, IsBuild(plan, b), NEW c, IsBuild(into, c)
  PROVE  \A n \in Nat : \A id \in g[n] : b[id] = c[m[id]]
<1> DEFINE P == {n \in Nat : \A id \in g[n] : b[id] = c[m[id]]}
<1>1. 0 \in P
  BY DEF IsLevels
<1>2. ASSUME NEW n \in P PROVE n + 1 \in P
  <2>1. n \in Nat /\ g[n + 1] = Above(plan, g[n])
    BY DEF IsLevels
  <2> SUFFICES ASSUME NEW id \in Above(plan, g[n]) PROVE b[id] = c[m[id]]
    BY <2>1
  <2>2. /\ id \in Ids(plan) /\ m[id] \in Ids(into)
        /\ Range(ChildIds(plan, id)) \subseteq g[n]
    BY EmbeddedChildren DEF Above, Embeds
  <2>3. b[id] = BuiltNode(plan, id, b) /\ c[m[id]] = BuiltNode(into, m[id], c)
    BY <2>2 DEF IsBuild
  <2>4. CASE id \in DOMAIN plan.tables
    <3>1. m[id] \in DOMAIN into.tables /\ into.tables[m[id]] = plan.tables[id]
      BY <2>4 DEF Embeds, Renumbers, SameLabels
    <3> QED BY <2>3, <2>4, <3>1 DEF BuiltNode
  <2>5. CASE id \notin DOMAIN plan.tables
    <3> DEFINE node == plan.structure[id]
               other == into.structure[m[id]]
               kids == [k \in DOMAIN node.refs |-> b[node.refs[k]]]
               others == [k \in DOMAIN other.refs |-> c[other.refs[k]]]
    <3>1. id \in DOMAIN plan.structure
      BY <2>2, <2>5 DEF Ids
    <3>2. /\ m[id] \in DOMAIN into.structure /\ m[id] \notin DOMAIN into.tables
          /\ BuildAlike(node.label, other.label)
          /\ other.refs = [k \in DOMAIN node.refs |-> m[node.refs[k]]]
      BY <3>1 DEF Embeds, Renumbers, SameLabels
    <3>3. \A k \in DOMAIN node.refs : node.refs[k] \in g[n]
      BY <2>2, <2>5 DEF ChildIds, Range
    <3>4. \A k \in DOMAIN node.refs : b[node.refs[k]] = c[m[node.refs[k]]]
      BY <2>1, <3>3
    <3>5. b[id] = IF Accepts(node.label.keys, Len(kids)) /\ Unbuildable \notin Range(kids)
                  THEN <<node.label>> \o kids ELSE Unbuildable
      BY <2>3, <2>5, <3>1 DEF BuiltNode
    <3>6. c[m[id]] = IF Accepts(other.label.keys, Len(others)) /\ Unbuildable \notin Range(others)
                     THEN <<other.label>> \o others ELSE Unbuildable
      BY <2>3, <3>2 DEF BuiltNode
    <3> HIDE DEF node, other
    <3>7. others = kids
      BY <3>2, <3>4
    <3> HIDE DEF kids, others
    <3>8. CASE other.label = node.label
      BY <3>5, <3>6, <3>7, <3>8
    <3>9. CASE node.label.keys = "compacted" /\ other.label.keys = "compacted"
      <4>1. \A k : ~Accepts("compacted", k)
        BY DEF Accepts
      <4> QED BY <3>5, <3>6, <3>9, <4>1
    <3> QED BY <3>2, <3>8, <3>9 DEF BuildAlike
  <2> QED BY <2>4, <2>5
<1>3. Nat \subseteq P
  <2> HIDE DEF P
  <2> QED BY <1>1, <1>2, SetInduction
<1> QED BY <1>3

\* A plan with one root gives what it gives with other numbers, among more scans.
LEMMA EmbeddedPlan ==
  ASSUME NEW m, NEW plan, NEW into, Embeds(m, plan, into), IsNumbered(plan), IsNumbered(into),
         NEW r, Roots(plan) \ DOMAIN plan.tables = {r}
  PROVE  FromSuccinct(plan) = FromSuccinct(into)
<1>1. r \in DOMAIN plan.structure /\ r \in Roots(plan) /\ r \in Nat
      /\ Roots(plan) \cap DOMAIN plan.structure = {r}
  BY DEF Roots, Ids, Embeds, Renumbers, IsNumbered
<1>2. RootId(plan) = r /\ Roots(plan) # {}
  BY <1>1, RootIs
<1>3. m[r] \in DOMAIN into.structure /\ m[r] \in Nat
      /\ Roots(into) \cap DOMAIN into.structure = {m[r]}
  <2>1. m[r] \in DOMAIN into.structure /\ m[r] \in Roots(into)
    BY <1>1, EmbeddedRoots DEF Embeds, Renumbers
  <2>2. ASSUME NEW x \in Roots(into), x \in DOMAIN into.structure PROVE x = m[r]
    <3>1. PICK y \in DOMAIN plan.structure : m[y] = x
      BY <2>2 DEF Embeds, Renumbers
    <3>2. y \in Roots(plan)
      BY <2>2, <3>1, EmbeddedRoots DEF Embeds
    <3> QED BY <1>1, <3>1, <3>2
  <2> QED BY <2>1, <2>2 DEF IsNumbered, Ids
<1>4. RootId(into) = m[r] /\ Roots(into) # {}
  BY <1>3, RootIs
<1>5. IsAcyclic(plan) <=> IsAcyclic(into)
  BY EmbeddedAcyclic DEF IsNumbered, Embeds
<1>6. ASSUME IsAcyclic(plan) PROVE BuildTree(plan) = BuildTree(into)
  <2>1. PICK b : IsBuild(plan, b) /\ BuildTree(plan) = b[RootId(plan)]
    BY <1>6, BuiltIs
  <2>2. PICK c : IsBuild(into, c) /\ BuildTree(into) = c[RootId(into)]
    BY <1>5, <1>6, BuiltIs
  <2>3. PICK g : IsLevels(plan, g) /\ \E n \in Nat : g[n] = Ids(plan)
    BY <1>6, AcyclicIs DEF IsNumbered
  <2>4. \A n \in Nat : \A id \in g[n] : b[id] = c[m[id]]
    BY <2>1, <2>2, <2>3, EmbeddedBuild DEF IsNumbered
  <2>5. r \in Ids(plan)
    BY <1>1 DEF Ids
  <2>6. b[r] = c[m[r]]
    BY <2>3, <2>4, <2>5
  <2> QED BY <1>2, <1>4, <2>1, <2>2, <2>6
<1> QED BY <1>2, <1>4, <1>5, <1>6 DEF FromSuccinct
=============================================================================
