--------------------------- MODULE SampleTreeProofs ---------------------------
(* What the tree operators of SampleTree preserve, for trees of any size. *)
EXTENDS SampleTree, TLAPS, FiniteSetTheorems, SequenceTheorems, FunctionTheorems,
        CountingProofs

\* A sequence, of whatever elements.
IsList(s) == s \in Seq({s[i] : i \in DOMAIN s})

\* The tree of one query: the root first, and ids that are positions.
TreeOK(tree) ==
  /\ IsList(tree) /\ tree # << >>
  /\ \A i \in DOMAIN tree : "id" \in DOMAIN tree[i] /\ tree[i].id = i - 1

-----------------------------------------------------------------------------
(* Lists. *)

LEMMA ListShape ==
  ASSUME NEW s, IsList(s)
  PROVE  /\ Len(s) \in Nat /\ DOMAIN s = 1 .. Len(s)
         /\ s = [i \in DOMAIN s |-> s[i]]
  BY LenProperties DEF IsList

LEMMA ListOfFunction ==
  ASSUME NEW n \in Nat, NEW f, f = [i \in 1 .. n |-> f[i]]
  PROVE  IsList(f) /\ Len(f) = n
<1>1. f \in [1 .. n -> {f[i] : i \in DOMAIN f}]
  OBVIOUS
<1>2. f \in Seq({f[i] : i \in DOMAIN f})
  BY <1>1, SeqDef
<1> QED BY <1>1, <1>2 DEF IsList

LEMMA ListConcat ==
  ASSUME NEW s, NEW t, IsList(s), IsList(t)
  PROVE  /\ IsList(s \o t) /\ Len(s \o t) = Len(s) + Len(t)
         /\ \A i \in 1 .. Len(s) + Len(t) :
              (s \o t)[i] = IF i <= Len(s) THEN s[i] ELSE t[i - Len(s)]
<1> DEFINE S == {s[i] : i \in DOMAIN s} \cup {t[i] : i \in DOMAIN t}
<1>1. s \in Seq(S) /\ t \in Seq(S)
  BY SeqMonotonic DEF IsList
<1>2. /\ s \o t \in Seq(S) /\ Len(s \o t) = Len(s) + Len(t)
      /\ \A i \in 1 .. Len(s) + Len(t) :
           (s \o t)[i] = IF i <= Len(s) THEN s[i] ELSE t[i - Len(s)]
  BY <1>1, ConcatProperties
<1>3. Len(s \o t) \in Nat /\ s \o t = [i \in 1 .. Len(s \o t) |-> (s \o t)[i]]
  BY <1>2, LenProperties
<1>4. IsList(s \o t)
  BY <1>3, ListOfFunction
<1> QED BY <1>2, <1>4

-----------------------------------------------------------------------------
(* Growing a tree. *)

LEMMA IdsOfTree ==
  ASSUME NEW tree, TreeOK(tree)
  PROVE  NewSampleId(tree) = Len(tree)
<1>1. Len(tree) \in Nat \ {0} /\ DOMAIN tree = 1 .. Len(tree)
  BY ListShape, EmptySeq DEF TreeOK, IsList
<1>2. \A i \in 1 .. Len(tree) : tree[i].id = i - 1
  BY <1>1 DEF TreeOK
<1>3. Ids(tree) \subseteq Int /\ \A y \in Ids(tree) : Len(tree) - 1 >= y
  BY <1>1, <1>2 DEF Ids
<1>4. Len(tree) - 1 \in Ids(tree)
  BY <1>1, <1>2 DEF Ids
<1>5. Max(Ids(tree)) = Len(tree) - 1
  BY <1>3, <1>4, MaxIs
<1> QED BY <1>1, <1>5 DEF NewSampleId

\* accumulate_samples appends, and goes on numbering where the tree ends.
LEMMA AccumulateKeepsTree ==
  ASSUME NEW tree, TreeOK(tree), NEW samples, IsList(samples)
  PROVE  TreeOK(AccumulateSamples(tree, samples))
<1> DEFINE old == [i \in 1 .. Len(tree) |-> Aged(tree[i], samples)]
           new == [i \in 1 .. Len(samples) |->
                     NodeOf(samples[i], NewSampleId(tree) + i - 1)]
<1>1. /\ Len(tree) \in Nat \ {0} /\ DOMAIN tree = 1 .. Len(tree)
      /\ Len(samples) \in Nat
  BY ListShape, EmptySeq DEF TreeOK, IsList
<1>2. IsList(old) /\ Len(old) = Len(tree)
  BY <1>1, ListOfFunction
<1>3. IsList(new) /\ Len(new) = Len(samples)
  BY <1>1, ListOfFunction
<1>4. \A i \in 1 .. Len(tree) : "id" \in DOMAIN old[i] /\ old[i].id = i - 1
  BY <1>1 DEF TreeOK, Aged
<1>5. \A i \in 1 .. Len(samples) :
        "id" \in DOMAIN new[i] /\ new[i].id = Len(tree) + i - 1
  BY <1>1, IdsOfTree DEF NodeOf
<1> HIDE DEF old, new
<1>6. /\ IsList(old \o new) /\ Len(old \o new) = Len(tree) + Len(samples)
      /\ \A i \in 1 .. Len(tree) + Len(samples) :
           (old \o new)[i] = IF i <= Len(tree) THEN old[i] ELSE new[i - Len(tree)]
  BY <1>2, <1>3, ListConcat
<1>7. DOMAIN (old \o new) = 1 .. Len(tree) + Len(samples)
  BY <1>1, <1>6, ListShape
<1>8. ASSUME NEW i \in 1 .. Len(tree) + Len(samples)
      PROVE  "id" \in DOMAIN (old \o new)[i] /\ (old \o new)[i].id = i - 1
  <2>1. CASE i <= Len(tree)
    BY <1>1, <1>4, <1>6, <2>1
  <2>2. CASE ~ (i <= Len(tree))
    BY <1>1, <1>5, <1>6, <2>2
  <2> QED BY <2>1, <2>2
<1>9. old \o new # << >>
  BY <1>1, <1>6
<1>10. TreeOK(old \o new)
  BY <1>6, <1>7, <1>8, <1>9 DEF TreeOK
<1> QED BY <1>10 DEF AccumulateSamples, old, new

-----------------------------------------------------------------------------
(* The base plans of a round. *)

LEMMA NodesCounted ==
  ASSUME NEW tree, IsList(tree), NEW S, S \subseteq DOMAIN tree
  PROVE  Cardinality(S) \in Nat
<1>1. Len(tree) \in Int /\ DOMAIN tree = 1 .. Len(tree)
  BY ListShape
<1>2. IsFiniteSet(1 .. Len(tree))
  BY <1>1, FS_Interval
<1> QED BY <1>1, <1>2, FS_Subset, FS_CardinalityType

\* get_base_plans_for_sampling returns a list for every strategy in use.
LEMMA BasePlansIsList ==
  ASSUME NEW tree, IsList(tree), NEW name, NEW step, NEW m
  PROVE  Len(BasePlans(tree, SelectStrategy(name, step, m).by)) \in Nat
<1> DEFINE by == SelectStrategy(name, step, m).by
           S  == Candidates(tree, by)
           n  == Cardinality(S)
<1>1. n \in Nat
  BY NodesCounted DEF Candidates
<1>2. by.best \in {0, 1}
  BY DEF SelectStrategy, ORIGINAL_STRATEGY
<1> HIDE DEF by, S, n
<1>3. CASE by.start = "original"
  <2>1. BasePlans(tree, by) = <<IndexOf(tree, 0)>>
    BY <1>3 DEF BasePlans
  <2> QED BY <2>1
<1>4. CASE by.start # "original" /\ by.best = 0
  <2>1. BasePlans(tree, by) = FileOrder(S)
    BY <1>4 DEF BasePlans, S
  <2> QED BY <1>1, <2>1 DEF FileOrder, InOrder, n
<1>5. CASE by.start # "original" /\ by.best = 1
  <2> DEFINE ranked == Ranked(tree, S)
  <2>1. IsList(ranked) /\ Len(ranked) = n
    BY <1>1, ListOfFunction DEF Ranked, InOrder, n
  <2> HIDE DEF ranked
  <2>2. BasePlans(tree, by) = SubSeq(ranked, 1, Min({1, n}))
    <3>1. BasePlans(tree, by) = Take(Ranked(tree, Candidates(tree, by)), by.best)
      BY <1>5 DEF BasePlans
    <3>2. BasePlans(tree, by) = Take(ranked, 1)
      BY <1>5, <3>1 DEF S, ranked
    <3> QED BY <2>1, <3>2 DEF Take
  <2>3. Min({1, n}) \in 0 .. 1 /\ Min({1, n}) <= n
    BY <1>1, MinOfPair
  <2> QED BY <1>1, <2>1, <2>2, <2>3, SubSeqProperties DEF IsList
<1> QED BY <1>2, <1>3, <1>4, <1>5 DEF by

-----------------------------------------------------------------------------
(* Flattened lists, as the tree operators define them. *)

\* g[i] is the concatenation of the first i of the n sequences ss.
Concatenates(g, n, ss, T) ==
  /\ g \in [1 .. n -> Seq(T)] /\ g[1] = ss[1] /\ g[n] = FlattenSeq(ss)
  /\ \A i \in 1 .. n - 1 : g[i + 1] = g[i] \o ss[i + 1]

LEMMA FlattenFolds ==
  ASSUME NEW T, NEW n \in Nat \ {0}, NEW ss \in [1 .. n -> Seq(T)]
  PROVE  \E g : Concatenates(g, n, ss, T)
<1> DEFINE f == [p \in Nat \X Seq(T) |-> IF p[1] + 2 \in 1 .. n THEN p[2] \o ss[p[1] + 2] ELSE p[2]]
           Is(g) == g = [i \in 1 .. n |-> IF i = 1 THEN ss[i] ELSE g[i - 1] \o ss[i]]
<1>1. ss[1] \in Seq(T) /\ f \in [Nat \X Seq(T) -> Seq(T)]
  OBVIOUS
<1>2. PICK h \in [Nat -> Seq(T)] :
        h[0] = ss[1] /\ \A m \in Nat : h[m + 1] = f[<<m, h[m]>>]
  <2> DEFINE D == Seq(T)
             x == ss[1]
  <2>1. x \in D /\ f \in [Nat \X D -> D]
    BY <1>1
  <2> HIDE DEF f, D, x
  <2>2. \E h : Iterates(h, D, x, f)
    BY <2>1, IterationExists
  <2> QED BY <2>2 DEF D, x, Iterates
<1>3. \E g : Is(g)
  <2> DEFINE g == [i \in 1 .. n |-> h[i - 1]]
  <2>1. ASSUME NEW i \in 1 .. n, i # 1 PROVE g[i] = g[i - 1] \o ss[i]
    <3>1. i - 2 \in Nat /\ i - 1 \in 1 .. n /\ (i - 2) + 1 = i - 1 /\ (i - 2) + 2 = i
      BY <2>1
    <3>2. h[i - 1] = f[<<i - 2, h[i - 2]>>]
      BY <1>2, <3>1
    <3>3. h[i - 2] \in Seq(T) /\ g[i - 1] = h[i - 2] /\ g[i] = h[i - 1]
      BY <3>1
    <3> QED BY <3>1, <3>2, <3>3
  <2>2. g[1] = ss[1]
    BY <1>2
  <2>3. \A i \in 1 .. n : g[i] = IF i = 1 THEN ss[i] ELSE g[i - 1] \o ss[i]
    BY <2>1, <2>2
  <2>4. g = [i \in 1 .. n |-> g[i]]
    OBVIOUS
  <2> HIDE DEF g
  <2>5. Is(g)
    BY <2>3, <2>4
  <2> QED BY <2>5
<1> DEFINE g == CHOOSE g : Is(g)
<1>4. Is(g)
  BY <1>3
<1>5. Len(ss) = n
  <2>1. ss \in Seq(Seq(T))
    BY SeqDef
  <2> QED BY <2>1, LenProperties
<1>6. FlattenSeq(ss) = g[n]
  BY <1>5 DEF FlattenSeq
<1> HIDE DEF g
<1>7. \A i \in 1 .. n : g[i] = IF i = 1 THEN ss[i] ELSE g[i - 1] \o ss[i]
  BY <1>4
<1>8. \A i \in 1 .. n : g[i] \in Seq(T)
  <2> DEFINE U == {m \in Nat : m + 1 \in 1 .. n => g[m + 1] \in Seq(T)}
  <2>1. 0 \in U
    BY <1>7
  <2>2. ASSUME NEW m \in Nat, m \in U PROVE m + 1 \in U
    <3> SUFFICES ASSUME (m + 1) + 1 \in 1 .. n PROVE g[(m + 1) + 1] \in Seq(T)
      OBVIOUS
    <3>1. m + 1 \in 1 .. n /\ (m + 1) + 1 # 1 /\ ((m + 1) + 1) - 1 = m + 1
      OBVIOUS
    <3>2. g[(m + 1) + 1] = g[m + 1] \o ss[(m + 1) + 1]
      BY <1>7, <3>1
    <3>3. g[m + 1] \in Seq(T) /\ ss[(m + 1) + 1] \in Seq(T)
      BY <2>2, <3>1
    <3> QED BY <3>2, <3>3
  <2>3. Nat \subseteq U
    <3> HIDE DEF U
    <3> QED BY <2>1, <2>2, SetInduction
  <2> TAKE i \in 1 .. n
  <2>4. i - 1 \in Nat /\ (i - 1) + 1 = i
    OBVIOUS
  <2> QED BY <2>3, <2>4
<1>9. g \in [1 .. n -> Seq(T)]
  BY <1>4, <1>8
<1>10. \A i \in 1 .. n - 1 : g[i + 1] = g[i] \o ss[i + 1]
  <2> TAKE i \in 1 .. n - 1
  <2>1. i + 1 \in 1 .. n /\ i + 1 # 1 /\ (i + 1) - 1 = i
    OBVIOUS
  <2> QED BY <1>7, <2>1
<1>11. g[1] = ss[1]
  BY <1>7
<1>12. Concatenates(g, n, ss, T)
  BY <1>6, <1>9, <1>10, <1>11 DEF Concatenates
<1> QED BY <1>12

-----------------------------------------------------------------------------
(* The parent walk of a tree whose nodes follow their parents. *)

\* A tree of typed nodes: the root first, every other node after its parent.
Rooted(tree) ==
  /\ tree \in Seq(Node) /\ tree # << >>
  /\ \A i \in DOMAIN tree : tree[i].id = i - 1
  /\ tree[1].valid /\ tree[1].patch = << >>
  /\ \A i \in DOMAIN tree : i > 1 => tree[i].parent < i - 1

LEMMA RootedShape ==
  ASSUME NEW tree, Rooted(tree)
  PROVE  /\ Len(tree) \in Nat \ {0} /\ DOMAIN tree = 1 .. Len(tree)
         /\ 1 \in DOMAIN tree /\ Len(tree) \in DOMAIN tree
         /\ \A i \in DOMAIN tree :
              /\ tree[i] \in Node /\ tree[i].id = i - 1
              /\ i > 1 => tree[i].parent \in 0 .. i - 2
<1>1. tree \in Seq(Node) /\ tree # << >>
  BY DEF Rooted
<1>2. Len(tree) \in Nat \ {0} /\ DOMAIN tree = 1 .. Len(tree)
  BY <1>1, LenProperties, EmptySeq
<1>3. \A i \in DOMAIN tree : tree[i] \in Node
  BY <1>1, <1>2, ElementOfSeq
<1>4. ASSUME NEW i \in DOMAIN tree, i > 1 PROVE tree[i].parent \in 0 .. i - 2
  <2>1. tree[i].parent \in Nat /\ i \in Nat
    BY <1>2, <1>3 DEF Node
  <2>2. tree[i].parent < i - 1
    BY <1>4 DEF Rooted
  <2> QED BY <2>1, <2>2
<1> QED BY <1>2, <1>3, <1>4 DEF Rooted

\* Where the parent walk goes: to the parent, and from the root nowhere.
UpFrom(tree, i) == IF i = 1 THEN 1 ELSE tree[i].parent + 1

LEMMA UpIs ==
  ASSUME NEW tree, Rooted(tree)
  PROVE  /\ Up(tree) \in [DOMAIN tree -> DOMAIN tree]
         /\ \A i \in DOMAIN tree : Up(tree)[i] = UpFrom(tree, i)
         /\ \A i \in DOMAIN tree : i > 1 => UpFrom(tree, i) \in 1 .. i - 1
<1>1. /\ Len(tree) \in Nat \ {0} /\ DOMAIN tree = 1 .. Len(tree)
      /\ \A i \in DOMAIN tree :
           tree[i].id = i - 1 /\ (i > 1 => tree[i].parent \in 0 .. i - 2)
  BY RootedShape
<1>2. ASSUME NEW id \in 0 .. Len(tree) - 1 PROVE id \in Ids(tree) /\ IndexOf(tree, id) = id + 1
  <2> DEFINE S == {i \in DOMAIN tree : tree[i].id = id}
  <2>1. id + 1 \in DOMAIN tree /\ tree[id + 1].id = id
    BY <1>1
  <2>2. \A i \in S : i = id + 1
    BY <1>1
  <2>3. S \subseteq Int /\ id + 1 \in S /\ \A y \in S : id + 1 >= y
    BY <1>1, <2>1, <2>2
  <2> HIDE DEF S
  <2>4. Max(S) = id + 1
    BY <2>3, MaxIs
  <2> QED BY <2>1, <2>4 DEF IndexOf, Ids, S
<1>3. ASSUME NEW i \in DOMAIN tree
      PROVE  /\ Up(tree)[i] = UpFrom(tree, i) /\ Up(tree)[i] \in DOMAIN tree
             /\ i > 1 => UpFrom(tree, i) \in 1 .. i - 1
  <2>1. CASE i = 1
    BY <1>1, <2>1 DEF Up, UpFrom
  <2>2. CASE i > 1
    <3>1. tree[i].parent \in 0 .. Len(tree) - 1 /\ tree[i].id # 0
      BY <1>1, <2>2
    <3>2. tree[i].parent \in Ids(tree) /\ IndexOf(tree, tree[i].parent) = tree[i].parent + 1
      BY <1>2, <3>1
    <3>3. tree[i].parent + 1 \in 1 .. i - 1 /\ 1 .. i - 1 \subseteq DOMAIN tree
      BY <1>1, <2>2
    <3> QED BY <2>2, <3>1, <3>2, <3>3 DEF Up, UpFrom
  <2> QED BY <1>1, <2>1, <2>2
<1>4. Up(tree) = [i \in DOMAIN tree |-> Up(tree)[i]]
  BY DEF Up
<1> QED BY <1>3, <1>4

LEMMA WalkSteps ==
  ASSUME NEW tree, Rooted(tree), NEW start \in DOMAIN tree
  PROVE  /\ Walk(tree, start) \in [1 .. Len(tree) -> DOMAIN tree]
         /\ Walk(tree, start)[1] = start
         /\ \A n \in 1 .. Len(tree) - 1 :
              Walk(tree, start)[n + 1] = UpFrom(tree, Walk(tree, start)[n])
<1> DEFINE D == DOMAIN tree
           f == [p \in Nat \X D |-> Up(tree)[p[2]]]
           Is(at) == at = [n \in Nat |-> IF n = 0 THEN start ELSE Up(tree)[at[n - 1]]]
<1>1. Len(tree) \in Nat \ {0} /\ D = 1 .. Len(tree)
  BY RootedShape
<1>2. Up(tree) \in [D -> D] /\ \A i \in D : Up(tree)[i] = UpFrom(tree, i)
  BY UpIs
<1>3. start \in D /\ f \in [Nat \X D -> D]
  BY <1>2
<1>4. \E at : Is(at)
  <2>1. PICK h : Iterates(h, D, start, f)
    <3> HIDE DEF D, f
    <3> QED BY <1>3, IterationExists
  <2>2. /\ h \in [Nat -> D] /\ h[0] = start
        /\ \A n \in Nat : h[n + 1] = Up(tree)[h[n]]
    BY <2>1 DEF Iterates
  <2>3. ASSUME NEW n \in Nat PROVE h[n] = IF n = 0 THEN start ELSE Up(tree)[h[n - 1]]
    <3>1. CASE n # 0
      <4>1. n - 1 \in Nat /\ (n - 1) + 1 = n
        BY <3>1
      <4> QED BY <2>2, <3>1, <4>1
    <3> QED BY <2>2, <3>1
  <2>4. Is(h)
    BY <2>2, <2>3
  <2> QED BY <2>4
<1> DEFINE at == CHOOSE at : Is(at)
<1>5. Is(at)
  BY <1>4
<1>6. Walk(tree, start) = [n \in 1 .. Len(tree) |-> at[n - 1]]
  BY DEF Walk
<1> HIDE DEF at
<1>7. /\ at[0] = start
      /\ \A n \in Nat \ {0} : at[n] = Up(tree)[at[n - 1]]
  BY <1>5
<1>8. \A n \in Nat : at[n] \in D
  <2> DEFINE U == {n \in Nat : at[n] \in D}
  <2>1. 0 \in U
    BY <1>7
  <2>2. ASSUME NEW n \in Nat, n \in U PROVE n + 1 \in U
    <3>1. at[n + 1] = Up(tree)[at[n]]
      BY <1>7
    <3> QED BY <1>2, <2>2, <3>1
  <2>3. Nat \subseteq U
    <3> HIDE DEF U
    <3> QED BY <2>1, <2>2, SetInduction
  <2> QED BY <2>3
<1>9. Walk(tree, start) \in [1 .. Len(tree) -> D] /\ Walk(tree, start)[1] = start
  BY <1>1, <1>6, <1>7, <1>8
<1>10. ASSUME NEW n \in 1 .. Len(tree) - 1
       PROVE  Walk(tree, start)[n + 1] = UpFrom(tree, Walk(tree, start)[n])
  <2>1. n \in 1 .. Len(tree) /\ n + 1 \in 1 .. Len(tree) /\ n - 1 \in Nat
    BY <1>1
  <2>2. at[n] = Up(tree)[at[n - 1]]
    BY <1>7, <2>1
  <2>3. Walk(tree, start)[n + 1] = at[n] /\ Walk(tree, start)[n] = at[n - 1]
    BY <1>6, <2>1
  <2> QED BY <1>2, <1>8, <2>1, <2>2, <2>3
<1> QED BY <1>9, <1>10

\* The walk goes to lower positions until it is at the root.
LEMMA WalkEnds ==
  ASSUME NEW tree, Rooted(tree), NEW start \in DOMAIN tree
  PROVE  Walk(tree, start)[Len(tree)] = 1 /\ WalkReachesRoot(tree, start)
<1> DEFINE w == Walk(tree, start)
           U == {n \in Nat : n + 1 <= Len(tree) => w[n + 1] = 1 \/ w[n + 1] + n <= start}
<1>1. Len(tree) \in Nat \ {0} /\ DOMAIN tree = 1 .. Len(tree) /\ tree[1].id = 0
  BY RootedShape
<1>2. /\ w \in [1 .. Len(tree) -> 1 .. Len(tree)] /\ w[1] = start
      /\ \A n \in 1 .. Len(tree) - 1 : w[n + 1] = UpFrom(tree, w[n])
  BY <1>1, WalkSteps
<1>3. \A i \in 1 .. Len(tree) : i > 1 => UpFrom(tree, i) \in 1 .. i - 1
  BY <1>1, UpIs
<1> HIDE DEF w
<1>4. 0 \in U
  BY <1>1, <1>2
<1>5. ASSUME NEW n \in Nat, n \in U PROVE n + 1 \in U
  <2> SUFFICES ASSUME (n + 1) + 1 <= Len(tree)
               PROVE  w[(n + 1) + 1] = 1 \/ w[(n + 1) + 1] + (n + 1) <= start
    OBVIOUS
  <2>1. n + 1 \in 1 .. Len(tree) - 1 /\ n + 1 \in 1 .. Len(tree)
    BY <1>1
  <2>2. w[(n + 1) + 1] = UpFrom(tree, w[n + 1]) /\ w[n + 1] \in 1 .. Len(tree)
    BY <1>2, <2>1
  <2>3. w[n + 1] = 1 \/ w[n + 1] + n <= start
    BY <1>5, <2>1
  <2>4. CASE w[n + 1] = 1
    BY <2>2, <2>4 DEF UpFrom
  <2>5. CASE w[n + 1] > 1
    <3> DEFINE v == w[n + 1]
               u == UpFrom(tree, v)
    <3>1. v \in Int /\ u \in 1 .. v - 1 /\ v + n <= start
      BY <1>1, <1>3, <2>2, <2>3, <2>5
    <3> HIDE DEF u, v
    <3>2. u + (n + 1) <= start
      BY <1>1, <3>1
    <3> QED BY <2>2, <3>2 DEF u, v
  <2> QED BY <2>2, <2>4, <2>5
<1>6. Nat \subseteq U
  <2> HIDE DEF U
  <2> QED BY <1>4, <1>5, SetInduction
<1>7. w[Len(tree)] = 1
  <2>1. Len(tree) - 1 \in Nat /\ (Len(tree) - 1) + 1 = Len(tree)
    BY <1>1
  <2>2. w[Len(tree)] = 1 \/ w[Len(tree)] + (Len(tree) - 1) <= start
    BY <1>1, <1>6, <2>1
  <2>3. w[Len(tree)] \in 1 .. Len(tree)
    BY <1>1, <1>2
  <2> QED BY <1>1, <2>2, <2>3
<1>8. Len(w) = Len(tree)
  <2>1. w \in Seq(1 .. Len(tree))
    BY <1>1, <1>2, SeqDef
  <2> QED BY <1>1, <1>2, <2>1, LenProperties
<1> QED BY <1>1, <1>7, <1>8 DEF WalkReachesRoot, Last, w

\* The walk from a node is the node, then the walk from its parent.
LEMMA WalkOfParent ==
  ASSUME NEW tree, Rooted(tree), NEW i \in DOMAIN tree
  PROVE  /\ UpFrom(tree, i) \in DOMAIN tree
         /\ \A n \in 1 .. Len(tree) - 1 :
              Walk(tree, UpFrom(tree, i))[n] = Walk(tree, i)[n + 1]
<1> DEFINE j == UpFrom(tree, i)
           w == Walk(tree, i)
           v == Walk(tree, j)
           U == {n \in Nat : n + 1 \in 1 .. Len(tree) - 1 => v[n + 1] = w[(n + 1) + 1]}
<1>1. Len(tree) \in Nat \ {0} /\ j \in DOMAIN tree
  BY RootedShape, UpIs
<1>2. /\ w[1] = i /\ v[1] = j
      /\ \A n \in 1 .. Len(tree) - 1 :
           w[n + 1] = UpFrom(tree, w[n]) /\ v[n + 1] = UpFrom(tree, v[n])
  BY <1>1, WalkSteps
<1> HIDE DEF w, v
<1>3. 0 \in U
  <2>1. 1 \in 1 .. Len(tree) - 1 => w[1 + 1] = j
    BY <1>2
  <2> QED BY <1>2, <2>1
<1>4. ASSUME NEW n \in Nat, n \in U PROVE n + 1 \in U
  <2> SUFFICES ASSUME (n + 1) + 1 \in 1 .. Len(tree) - 1
               PROVE  v[(n + 1) + 1] = w[((n + 1) + 1) + 1]
    OBVIOUS
  <2>1. n + 1 \in 1 .. Len(tree) - 1
    BY <1>1
  <2>2. v[n + 1] = w[(n + 1) + 1]
    BY <1>4, <2>1
  <2> QED BY <1>2, <2>1, <2>2
<1>5. Nat \subseteq U
  <2> HIDE DEF U
  <2> QED BY <1>3, <1>4, SetInduction
<1>6. ASSUME NEW n \in 1 .. Len(tree) - 1 PROVE v[n] = w[n + 1]
  <2>1. n - 1 \in Nat /\ (n - 1) + 1 = n
    BY <1>1
  <2> QED BY <1>5, <2>1
<1> QED BY <1>1, <1>6 DEF w, v

-----------------------------------------------------------------------------
(* What the walk gathers: the patches and stats a sample is drawn with. *)

\* g[k] is what the last k nodes of the walk from i give.
Gathers(g, tree, i) ==
  /\ g \in [1 .. Len(tree) -> Plan]
  /\ g[1] = << >> /\ g[Len(tree)] = UpstreamPatches(tree, i)
  /\ \A k \in 1 .. Len(tree) - 1 :
       g[k + 1] = g[k] \o OwnPatch(tree[Walk(tree, i)[Len(tree) - k]])

LEMMA UpstreamGathers ==
  ASSUME NEW tree, Rooted(tree), NEW i \in DOMAIN tree
  PROVE  \E g : Gathers(g, tree, i)
<1> DEFINE L == Len(tree)
           w == Walk(tree, i)
           own == [n \in 1 .. L |-> OwnPatch(tree[w[n]])]
           ss == Reverse(own)
<1>1. /\ L \in Nat \ {0} /\ w \in [1 .. L -> DOMAIN tree] /\ w[L] = 1
      /\ \A j \in DOMAIN tree : OwnPatch(tree[j]) \in Plan
      /\ OwnPatch(tree[1]) = << >>
  <2>1. \A j \in DOMAIN tree : tree[j].patch \in Plan /\ << >> \in Plan
    BY RootedShape DEF Node, Plan
  <2>2. OwnPatch(tree[1]) = << >>
    BY DEF OwnPatch, Rooted
  <2> QED BY <2>1, <2>2, RootedShape, WalkSteps, WalkEnds DEF OwnPatch
<1>2. own \in [1 .. L -> Plan] /\ Len(own) = L
  <2>1. own \in [1 .. L -> Plan]
    BY <1>1
  <2>2. own \in Seq(Plan) /\ DOMAIN own = 1 .. L
    BY <1>1, <2>1, SeqDef
  <2> HIDE DEF own
  <2> QED BY <1>1, <2>1, <2>2, LenProperties
<1>3. ss \in [1 .. L -> Plan] /\ \A k \in 1 .. L : ss[k] = OwnPatch(tree[w[(L - k) + 1]])
  <2>1. \A k \in 1 .. L : (L - k) + 1 \in 1 .. L
    BY <1>1
  <2>2. ss = [k \in 1 .. L |-> own[(L - k) + 1]]
    BY <1>2 DEF Reverse
  <2>3. \A k \in 1 .. L : own[(L - k) + 1] = OwnPatch(tree[w[(L - k) + 1]])
    BY <2>1
  <2> HIDE DEF own, ss
  <2> QED BY <1>2, <2>1, <2>2, <2>3
<1>4. UpstreamPatches(tree, i) = FlattenSeq(ss)
  BY DEF UpstreamPatches
<1> HIDE DEF L, w, ss
<1>5. PICK g : Concatenates(g, L, ss, Token)
  <2>1. ss \in [1 .. L -> Seq(Token)]
    BY <1>3 DEF Plan
  <2> QED BY <1>1, <2>1, FlattenFolds
<1>5a. /\ g \in [1 .. L -> Plan] /\ g[1] = ss[1] /\ g[L] = FlattenSeq(ss)
       /\ \A k \in 1 .. L - 1 : g[k + 1] = g[k] \o ss[k + 1]
  BY <1>5 DEF Concatenates, Plan
<1>6. g[1] = << >>
  <2>1. 1 \in 1 .. L /\ (L - 1) + 1 = L
    BY <1>1
  <2> QED BY <1>1, <1>3, <1>5a, <2>1
<1>7. ASSUME NEW k \in 1 .. L - 1
      PROVE  g[k + 1] = g[k] \o OwnPatch(tree[w[L - k]])
  <2>1. k + 1 \in 1 .. L /\ (L - (k + 1)) + 1 = L - k
    BY <1>1
  <2> QED BY <1>3, <1>5a, <2>1
<1>8. Gathers(g, tree, i)
  BY <1>4, <1>5a, <1>6, <1>7 DEF Gathers, L, w
<1> QED BY <1>8

\* get_upstream_patches: what the parent's chain gives, and the node's own patch.
LEMMA UpstreamIs ==
  ASSUME NEW tree, Rooted(tree)
  PROVE  /\ UpstreamPatches(tree, 1) = << >>
         /\ \A i \in DOMAIN tree :
              /\ UpstreamPatches(tree, i) \in Plan
              /\ i > 1 => UpstreamPatches(tree, i)
                            = UpstreamPatches(tree, UpFrom(tree, i)) \o OwnPatch(tree[i])
<1> DEFINE L == Len(tree)
<1>1. /\ L \in Nat \ {0} /\ DOMAIN tree = 1 .. L /\ 1 \in DOMAIN tree
      /\ << >> \in Plan /\ OwnPatch(tree[1]) = << >>
  BY RootedShape DEF Rooted, OwnPatch, Plan
<1>2. UpstreamPatches(tree, 1) = << >>
  <2> DEFINE w == Walk(tree, 1)
             V == {n \in Nat : n + 1 \in 1 .. L => w[n + 1] = 1}
  <2>1. Nat \subseteq V
    <3>1. w[1] = 1 /\ \A n \in 1 .. L - 1 : w[n + 1] = UpFrom(tree, w[n])
      BY <1>1, WalkSteps
    <3> HIDE DEF w
    <3>2. 0 \in V
      BY <3>1
    <3>3. ASSUME NEW n \in Nat, n \in V PROVE n + 1 \in V
      <4>1. (n + 1) + 1 \in 1 .. L => n + 1 \in 1 .. L - 1 /\ n + 1 \in 1 .. L
        BY <1>1
      <4> QED BY <3>1, <3>3, <4>1 DEF UpFrom
    <3> HIDE DEF V
    <3> QED BY <3>2, <3>3, SetInduction
  <2>2. \A n \in 1 .. L : w[n] = 1
    <3> TAKE n \in 1 .. L
    <3>1. n - 1 \in Nat /\ (n - 1) + 1 = n
      OBVIOUS
    <3> HIDE DEF w
    <3> QED BY <2>1, <3>1
  <2>3. PICK g : Gathers(g, tree, 1)
    BY <1>1, UpstreamGathers
  <2>3a. /\ g \in [1 .. L -> Plan] /\ g[1] = << >> /\ g[L] = UpstreamPatches(tree, 1)
         /\ \A k \in 1 .. L - 1 : g[k + 1] = g[k] \o OwnPatch(tree[w[L - k]])
    BY <2>3 DEF Gathers
  <2> HIDE DEF w
  <2> DEFINE U == {n \in Nat : n + 1 \in 1 .. L => g[n + 1] = << >>}
  <2>4. 0 \in U
    BY <2>3a
  <2>5. ASSUME NEW n \in Nat, n \in U PROVE n + 1 \in U
    <3> SUFFICES ASSUME (n + 1) + 1 \in 1 .. L PROVE g[(n + 1) + 1] = << >>
      OBVIOUS
    <3>1. n + 1 \in 1 .. L - 1 /\ n + 1 \in 1 .. L /\ L - (n + 1) \in 1 .. L
      BY <1>1
    <3>2. g[n + 1] = << >> /\ w[L - (n + 1)] = 1
      BY <2>2, <2>5, <3>1
    <3>3. g[(n + 1) + 1] = g[n + 1] \o OwnPatch(tree[w[L - (n + 1)]])
      BY <2>3a, <3>1
    <3>4. g[(n + 1) + 1] = << >> \o << >>
      BY <1>1, <3>2, <3>3
    <3> QED BY <3>4
  <2>6. Nat \subseteq U
    <3> HIDE DEF U
    <3> QED BY <2>4, <2>5, SetInduction
  <2>7. L - 1 \in Nat /\ (L - 1) + 1 = L /\ L \in 1 .. L
    BY <1>1
  <2> QED BY <2>3a, <2>6, <2>7
<1>3. ASSUME NEW i \in DOMAIN tree PROVE UpstreamPatches(tree, i) \in Plan
  <2>1. PICK g : Gathers(g, tree, i)
    BY UpstreamGathers
  <2> QED BY <1>1, <2>1 DEF Gathers
<1>4. ASSUME NEW i \in DOMAIN tree, i > 1
      PROVE  UpstreamPatches(tree, i)
               = UpstreamPatches(tree, UpFrom(tree, i)) \o OwnPatch(tree[i])
  <2> DEFINE j == UpFrom(tree, i)
             w == Walk(tree, i)
             v == Walk(tree, j)
  <2>1. j \in DOMAIN tree /\ \A n \in 1 .. L - 1 : v[n] = w[n + 1]
    BY WalkOfParent
  <2>2. w[1] = i /\ w[L] = 1
    BY WalkSteps, WalkEnds
  <2>3. PICK g : Gathers(g, tree, i)
    BY UpstreamGathers
  <2>3a. /\ g \in [1 .. L -> Plan] /\ g[1] = << >> /\ g[L] = UpstreamPatches(tree, i)
         /\ \A k \in 1 .. L - 1 : g[k + 1] = g[k] \o OwnPatch(tree[w[L - k]])
    BY <2>3 DEF Gathers
  <2>4. PICK h : Gathers(h, tree, j)
    BY <2>1, UpstreamGathers
  <2>4a. /\ h \in [1 .. L -> Plan] /\ h[1] = << >> /\ h[L] = UpstreamPatches(tree, j)
         /\ \A k \in 1 .. L - 1 : h[k + 1] = h[k] \o OwnPatch(tree[v[L - k]])
    BY <2>4 DEF Gathers
  <2> HIDE DEF w, v, j
  <2>5. L - 1 \in 1 .. L - 1 /\ L - (L - 1) = 1 /\ (L - 1) + 1 = L
    BY <1>1, <1>4
  <2> DEFINE U == {n \in Nat : n + 1 \in 1 .. L - 1 => h[(n + 1) + 1] = g[n + 1]}
  <2>6. 0 \in U
    <3> SUFFICES ASSUME 1 \in 1 .. L - 1 PROVE h[1 + 1] = g[1]
      OBVIOUS
    <3>1. v[L - 1] = 1
      BY <2>1, <2>2, <2>5
    <3>2. h[1 + 1] = << >> \o << >>
      BY <1>1, <2>4a, <3>1
    <3> QED BY <2>3a, <3>2
  <2>7. ASSUME NEW n \in Nat, n \in U PROVE n + 1 \in U
    <3> SUFFICES ASSUME (n + 1) + 1 \in 1 .. L - 1
                 PROVE  h[((n + 1) + 1) + 1] = g[(n + 1) + 1]
      OBVIOUS
    <3>1. /\ n + 1 \in 1 .. L - 1 /\ L - ((n + 1) + 1) \in 1 .. L - 1
          /\ (L - ((n + 1) + 1)) + 1 = L - (n + 1)
      BY <1>1
    <3>2. h[((n + 1) + 1) + 1] = h[(n + 1) + 1] \o OwnPatch(tree[v[L - ((n + 1) + 1)]])
      BY <2>4a
    <3>3. g[(n + 1) + 1] = g[n + 1] \o OwnPatch(tree[w[L - (n + 1)]])
      BY <2>3a, <3>1
    <3>4. v[L - ((n + 1) + 1)] = w[L - (n + 1)]
      BY <2>1, <3>1
    <3>5. h[(n + 1) + 1] = g[n + 1]
      BY <2>7, <3>1
    <3> QED BY <3>2, <3>3, <3>4, <3>5
  <2>8. Nat \subseteq U
    <3> HIDE DEF U
    <3> QED BY <2>6, <2>7, SetInduction
  <2>9. h[L] = g[L - 1]
    <3>1. L - 2 \in Nat /\ (L - 2) + 1 = L - 1 /\ ((L - 2) + 1) + 1 = L
      BY <1>1, <1>4
    <3> QED BY <2>5, <2>8, <3>1
  <2>10. g[L] = g[L - 1] \o OwnPatch(tree[i])
    BY <2>2, <2>3a, <2>5
  <2> QED BY <2>3a, <2>4a, <2>9, <2>10 DEF j
<1> QED BY <1>2, <1>3, <1>4

\* A tree that has grown keeps the chains of its nodes.
LEMMA UpstreamKept ==
  ASSUME NEW tree, Rooted(tree), NEW big, Rooted(big), Len(tree) <= Len(big),
         \A i \in DOMAIN tree : /\ big[i].parent = tree[i].parent
                                /\ OwnPatch(big[i]) = OwnPatch(tree[i])
  PROVE  \A i \in DOMAIN tree : UpstreamPatches(big, i) = UpstreamPatches(tree, i)
<1> DEFINE Same(i) == UpstreamPatches(big, i) = UpstreamPatches(tree, i)
           U == {n \in Nat : \A i \in DOMAIN tree : i <= n => Same(i)}
<1>1. /\ Len(tree) \in Nat /\ DOMAIN tree = 1 .. Len(tree)
      /\ Len(big) \in Nat /\ DOMAIN big = 1 .. Len(big)
      /\ DOMAIN tree \subseteq DOMAIN big
  BY RootedShape
<1>2. 0 \in U
  BY <1>1
<1>3. ASSUME NEW n \in Nat, n \in U PROVE n + 1 \in U
  <2> SUFFICES ASSUME NEW i \in DOMAIN tree, i = n + 1 PROVE Same(i)
    BY <1>1, <1>3
  <2>1. CASE i = 1
    BY <2>1, UpstreamIs
  <2>2. CASE i > 1
    <3> DEFINE j == UpFrom(tree, i)
    <3>1. j \in 1 .. i - 1 /\ UpFrom(big, i) = j
      BY <2>2, UpIs DEF UpFrom
    <3>2. j \in DOMAIN tree /\ j <= n
      BY <1>1, <3>1
    <3>3. Same(j)
      BY <1>3, <3>2
    <3>4. UpstreamPatches(tree, i) = UpstreamPatches(tree, j) \o OwnPatch(tree[i])
      BY <2>2, UpstreamIs
    <3>5. UpstreamPatches(big, i) = UpstreamPatches(big, j) \o OwnPatch(big[i])
      BY <1>1, <2>2, <3>1, UpstreamIs
    <3> QED BY <3>3, <3>4, <3>5
  <2> QED BY <1>1, <2>1, <2>2
<1>4. Nat \subseteq U
  <2> HIDE DEF U
  <2> QED BY <1>2, <1>3, SetInduction
<1> QED BY <1>1, <1>4

\* The nearest valid ancestor exists: the root is valid.
LEMMA UpstreamMetricIs ==
  ASSUME NEW tree, Rooted(tree), NEW i \in DOMAIN tree
  PROVE  UpstreamMetric(tree, i) \in Nat
<1> DEFINE w == Walk(tree, i)
           S == {n \in 1 .. Len(tree) : tree[w[n]].valid}
<1>1. Len(tree) \in Nat \ {0} /\ w \in [1 .. Len(tree) -> DOMAIN tree] /\ w[Len(tree)] = 1
  BY RootedShape, WalkSteps, WalkEnds
<1>2. \A j \in DOMAIN tree : tree[j].metric \in Nat
  BY RootedShape DEF Node
<1> HIDE DEF w
<1>3. Len(tree) \in S /\ S \subseteq Nat
  BY <1>1 DEF Rooted
<1>4. Min(S) \in 1 .. Len(tree)
  <2>1. Min(S) \in S
    <3> HIDE DEF S
    <3> QED BY <1>3, MinIsElement
  <2> QED BY <2>1
<1> HIDE DEF S
<1>5. UpstreamMetric(tree, i) = tree[w[Min(S)]].metric
  BY DEF UpstreamMetric, w, S
<1> QED BY <1>1, <1>2, <1>4, <1>5

-----------------------------------------------------------------------------
(* The orders in which nodes are listed. *)

LEMMA FileOrderIn ==
  ASSUME NEW S, S \subseteq Nat, IsFiniteSet(S)
  PROVE  /\ Len(FileOrder(S)) = Cardinality(S) /\ IsList(FileOrder(S))
         /\ \A n \in 1 .. Cardinality(S) : FileOrder(S)[n] \in S
<1> DEFINE R == {p \in S \X S : p[1] < p[2]}
<1>1. Cardinality(S) \in Nat
  BY FS_CardinalityType
<1>2. Orders(R, S)
  BY DEF Orders
<1>3. \A i \in S : {j \in S : <<j, i>> \in R} = {j \in S : j < i}
  OBVIOUS
<1> HIDE DEF R
<1>4. ASSUME NEW n \in 1 .. Cardinality(S) PROVE FileOrder(S)[n] \in S
  <2>1. n - 1 \in Nat /\ n - 1 < Cardinality(S)
    BY <1>1
  <2>2. \E i \in S : Place(R, S, i) = n - 1
    BY <1>2, <2>1, PlacesTaken
  <2>3. \E i \in S : Cardinality({j \in S : j < i}) = n - 1
    BY <1>3, <2>2 DEF Place
  <2>4. FileOrder(S)[n] = CHOOSE i \in S : Cardinality({j \in S : j < i}) = n - 1
    BY DEF FileOrder, InOrder
  <2> QED BY <2>3, <2>4
<1>5. IsList(FileOrder(S)) /\ Len(FileOrder(S)) = Cardinality(S)
  BY <1>1, ListOfFunction DEF FileOrder, InOrder
<1> QED BY <1>4, <1>5

\* How sorted() by metric lists S.
RankOrder(tree, S) == {p \in S \X S : RanksBefore(tree, p[1], p[2])}

LEMMA RankOrders ==
  ASSUME NEW tree, NEW S, S \subseteq Nat, \A i \in S : tree[i].metric \in Nat
  PROVE  Orders(RankOrder(tree, S), S)
<1>1. \A x \in S : <<x, x>> \notin RankOrder(tree, S)
  BY DEF RankOrder, RanksBefore, Better
<1>2. ASSUME NEW x \in S, NEW y \in S, NEW z \in S,
             RanksBefore(tree, x, y), RanksBefore(tree, y, z)
      PROVE  RanksBefore(tree, x, z)
  <2>1. /\ x \in Nat /\ y \in Nat /\ z \in Nat
        /\ tree[x].metric \in Nat /\ tree[y].metric \in Nat /\ tree[z].metric \in Nat
    OBVIOUS
  <2> QED BY <1>2, <2>1 DEF RanksBefore, Better
<1>3. ASSUME NEW x \in S, NEW y \in S
      PROVE  x = y \/ RanksBefore(tree, x, y) \/ RanksBefore(tree, y, x)
  <2>1. /\ x \in Nat /\ y \in Nat
        /\ tree[x].metric \in Nat /\ tree[y].metric \in Nat
    OBVIOUS
  <2> QED BY <2>1 DEF RanksBefore, Better
<1> QED BY <1>1, <1>2, <1>3 DEF Orders, RankOrder

LEMMA RankedPlaces ==
  ASSUME NEW tree, NEW S, S \subseteq Nat, IsFiniteSet(S),
         \A i \in S : tree[i].metric \in Nat, NEW n \in 1 .. Cardinality(S)
  PROVE  /\ Ranked(tree, S)[n] \in S
         /\ Place(RankOrder(tree, S), S, Ranked(tree, S)[n]) = n - 1
<1> DEFINE R == RankOrder(tree, S)
<1>1. \A i \in S : {j \in S : <<j, i>> \in R} = {j \in S : RanksBefore(tree, j, i)}
  BY DEF RankOrder
<1>2. Orders(R, S)
  BY RankOrders
<1> HIDE DEF R
<1>3. \E i \in S : Place(R, S, i) = n - 1
  BY <1>2, PlacesFilled
<1>4. \A i \in S : Place(R, S, i) = Cardinality({j \in S : RanksBefore(tree, j, i)})
  BY <1>1 DEF Place
<1>5. Ranked(tree, S)[n]
        = CHOOSE i \in S : Cardinality({j \in S : RanksBefore(tree, j, i)}) = n - 1
  BY DEF Ranked, InOrder
<1> QED BY <1>3, <1>4, <1>5 DEF R

\* Nothing beats the first of the list.
LEMMA RankedBest ==
  ASSUME NEW tree, NEW S, S \subseteq Nat, IsFiniteSet(S), S # {},
         \A i \in S : tree[i].metric \in Nat
  PROVE  /\ 1 \in 1 .. Cardinality(S)
         /\ \A x \in S : ~Better(tree[x].metric, tree[Ranked(tree, S)[1]].metric)
<1> DEFINE R == RankOrder(tree, S)
<1>1. Orders(R, S)
  BY RankOrders
<1>2. Cardinality(S) \in Nat \ {0}
  BY FS_CardinalityType, FS_EmptySet
<1>3. 1 \in 1 .. Cardinality(S)
  BY <1>2
<1>4. Ranked(tree, S)[1] \in S /\ Place(R, S, Ranked(tree, S)[1]) = 0
  <2>1. \A n \in 1 .. Cardinality(S) :
          /\ Ranked(tree, S)[n] \in S
          /\ Place(RankOrder(tree, S), S, Ranked(tree, S)[n]) = n - 1
    BY RankedPlaces
  <2>2. Ranked(tree, S)[1] \in S /\ Place(R, S, Ranked(tree, S)[1]) = 1 - 1
    BY <1>3, <2>1
  <2> HIDE DEF R
  <2> QED BY <2>2
<1>5. ASSUME NEW x \in S
      PROVE  ~Better(tree[x].metric, tree[Ranked(tree, S)[1]].metric)
  <2> DEFINE best == Ranked(tree, S)[1]
             B == {y \in S : <<y, best>> \in R}
  <2>1. best \in S /\ Cardinality(B) = 0
    BY <1>4 DEF Place
  <2>2. IsFiniteSet(B)
    BY FS_Subset
  <2>3. B = {}
    <3> HIDE DEF B
    <3> QED BY <2>1, <2>2, FS_EmptySet
  <2>4. <<x, best>> \notin R
    BY <2>3
  <2> HIDE DEF best, B
  <2>5. ~RanksBefore(tree, x, best)
    BY <2>1, <2>4 DEF RankOrder
  <2> QED BY <2>5 DEF RanksBefore, best
<1> QED BY <1>3, <1>5

LEMMA RankedIn ==
  ASSUME NEW tree, NEW S, S \subseteq Nat, IsFiniteSet(S),
         \A i \in S : tree[i].metric \in Nat
  PROVE  /\ Len(Ranked(tree, S)) = Cardinality(S) /\ IsList(Ranked(tree, S))
         /\ \A n \in 1 .. Cardinality(S) : Ranked(tree, S)[n] \in S
<1>1. Cardinality(S) \in Nat
  BY FS_CardinalityType
<1>2. IsList(Ranked(tree, S)) /\ Len(Ranked(tree, S)) = Cardinality(S)
  BY <1>1, ListOfFunction DEF Ranked, InOrder
<1> QED BY <1>2, RankedPlaces

\* The list holds the elements, each of them.
LEMMA RankedRange ==
  ASSUME NEW tree, NEW S, S \subseteq Nat, IsFiniteSet(S),
         \A i \in S : tree[i].metric \in Nat
  PROVE  Range(Ranked(tree, S)) = S
<1> DEFINE R == RankOrder(tree, S)
           ranked == Ranked(tree, S)
<1>1. Orders(R, S) /\ Cardinality(S) \in Nat
  BY RankOrders, FS_CardinalityType
<1>2. /\ DOMAIN ranked = 1 .. Cardinality(S)
      /\ \A n \in 1 .. Cardinality(S) : ranked[n] \in S
  BY RankedIn, ListShape
<1>3. \A n \in 1 .. Cardinality(S) : Place(R, S, ranked[n]) = n - 1
  BY RankedPlaces
<1> HIDE DEF R, ranked
<1>4. ASSUME NEW x \in S PROVE x \in Range(ranked)
  <2> DEFINE n == Place(R, S, x) + 1
  <2>1. Place(R, S, x) \in Nat /\ Place(R, S, x) < Cardinality(S)
    BY <1>1, PlaceBelow
  <2>2. n \in 1 .. Cardinality(S) /\ n - 1 = Place(R, S, x)
    BY <1>1, <2>1
  <2> HIDE DEF n
  <2>3. ranked[n] = x
    BY <1>1, <1>2, <1>3, <2>2, PlacesDiffer
  <2> QED BY <1>2, <2>2, <2>3 DEF Range
<1>5. Range(ranked) \subseteq S
  BY <1>2 DEF Range
<1> QED BY <1>4, <1>5 DEF ranked

-----------------------------------------------------------------------------
(* What accumulate_samples preserves, node by node. *)

LEMMA FlattenedIn ==
  ASSUME NEW T, NEW n \in Nat \ {0}, NEW ss \in [1 .. n -> Seq(T)]
  PROVE  FlattenSeq(ss) \in Seq(T)
<1>1. PICK g : Concatenates(g, n, ss, T)
  BY FlattenFolds
<1> QED BY <1>1 DEF Concatenates

\* The ids of a rooted tree are its positions.
LEMMA IndexOfRoot ==
  ASSUME NEW tree, Rooted(tree)
  PROVE  IndexOf(tree, 0) = 1
<1> DEFINE S == {i \in DOMAIN tree : tree[i].id = 0}
<1>1. /\ 1 \in S /\ S \subseteq Int /\ \A y \in S : 1 >= y
  BY RootedShape
<1> HIDE DEF S
<1>2. Max(S) = 1
  BY <1>1, MaxIs
<1> QED BY <1>2 DEF IndexOf, S

\* The base plans of a round are nodes of the tree, and those of best_of the root.
LEMMA BasePlansIn ==
  ASSUME NEW tree, Rooted(tree), NEW name, NEW step, NEW m
  PROVE  LET plans == BasePlans(tree, SelectStrategy(name, step, m).by)
         IN  /\ plans \in Seq(DOMAIN tree)
             /\ name = "best_of" => \A n \in 1 .. Len(plans) : plans[n] = 1
<1> DEFINE by == SelectStrategy(name, step, m).by
           plans == BasePlans(tree, by)
           S == Candidates(tree, by)
<1>1. /\ S \subseteq DOMAIN tree /\ S \subseteq Nat /\ IsFiniteSet(S)
      /\ 1 \in DOMAIN tree /\ \A i \in S : tree[i].metric \in Nat
  <2>1. /\ Len(tree) \in Nat /\ DOMAIN tree = 1 .. Len(tree) /\ 1 \in DOMAIN tree
        /\ \A i \in DOMAIN tree : tree[i].metric \in Nat
    BY RootedShape DEF Node
  <2>2. S \in SUBSET DOMAIN tree
    BY DEF Candidates
  <2>3. IsFiniteSet(DOMAIN tree)
    BY <2>1, FS_Interval
  <2> HIDE DEF S
  <2> QED BY <2>1, <2>2, <2>3, FS_Subset
<1>2. by.best \in {0, 1} /\ (name = "best_of" => by.start = "original")
  BY DEF SelectStrategy, ORIGINAL_STRATEGY
<1> HIDE DEF by, S
<1>3. CASE by.start = "original"
  <2>1. plans = <<1>>
    BY <1>3, IndexOfRoot DEF BasePlans
  <2>2. <<1>> \in Seq(DOMAIN tree) /\ Len(<<1>>) = 1 /\ <<1>>[1] = 1
    BY <1>1
  <2> QED BY <2>1, <2>2 DEF by
<1>4. CASE by.start # "original" /\ by.best = 0
  <2>1. plans = FileOrder(S)
    BY <1>4 DEF BasePlans, S
  <2> HIDE DEF plans
  <2>2. /\ Len(plans) = Cardinality(S) /\ IsList(plans)
        /\ \A n \in 1 .. Cardinality(S) : plans[n] \in S
    BY <1>1, <2>1, FileOrderIn
  <2>3. /\ Len(plans) \in Nat /\ DOMAIN plans = 1 .. Len(plans)
        /\ plans = [n \in DOMAIN plans |-> plans[n]]
    BY <2>2, ListShape
  <2>4. plans \in [1 .. Len(plans) -> DOMAIN tree]
    BY <1>1, <2>2, <2>3
  <2>5. plans \in Seq(DOMAIN tree)
    BY <2>3, <2>4, SeqDef
  <2>6. name # "best_of"
    BY <1>2, <1>4
  <2> QED BY <2>5, <2>6 DEF plans, by
<1>5. CASE by.start # "original" /\ by.best = 1
  <2> DEFINE ranked == Ranked(tree, S)
             k == Min({1, Cardinality(S)})
  <2>1. /\ Len(ranked) = Cardinality(S) /\ IsList(ranked)
        /\ \A n \in 1 .. Cardinality(S) : ranked[n] \in S
    BY <1>1, RankedIn
  <2> HIDE DEF ranked
  <2>2. plans = SubSeq(ranked, 1, k)
    <3>1. plans = Take(Ranked(tree, Candidates(tree, by)), by.best)
      BY <1>5 DEF BasePlans
    <3>2. plans = Take(ranked, 1)
      BY <1>5, <3>1 DEF S, ranked
    <3> QED BY <2>1, <3>2 DEF Take
  <2>3. Cardinality(S) \in Nat
    BY <1>1, FS_CardinalityType
  <2>4. k \in 0 .. 1 /\ k <= Cardinality(S)
    BY <2>3, MinOfPair
  <2> HIDE DEF k, plans
  <2>5. ranked \in Seq(S)
    <3>1. \A n \in DOMAIN ranked : ranked[n] \in S
      BY <2>1, ListShape
    <3>2. {ranked[n] : n \in DOMAIN ranked} \subseteq S
      BY <3>1
    <3> QED BY <2>1, <3>2, SeqMonotonic DEF IsList
  <2>6. plans \in Seq(S)
    BY <2>1, <2>2, <2>3, <2>4, <2>5, SubSeqProperties
  <2>7. plans \in Seq(DOMAIN tree)
    BY <1>1, <2>6, SeqMonotonic
  <2>8. name # "best_of"
    BY <1>2, <1>5
  <2> QED BY <2>7, <2>8 DEF plans, by
<1> QED BY <1>2, <1>3, <1>4, <1>5

\* The chain the tree gives for a valid node is the plan that was timed for it.
Faithful(tree) ==
  \A i \in DOMAIN tree : tree[i].valid => UpstreamPatches(tree, i) = tree[i].built

\* The leaf flag marks the nodes without a child.
LeavesMarked(tree) ==
  \A i \in DOMAIN tree :
    tree[i].isLeaf <=> \A j \in 2 .. Len(tree) : tree[j].parent # tree[i].id

\* A tree the code may leave in final_sampling.json.
Sound(tree) == Rooted(tree) /\ Faithful(tree) /\ LeavesMarked(tree)

\* The sample was drawn from a node the tree has, and from that node's chain.
Fits(tree, sample) ==
  /\ sample.parent < Len(tree)
  /\ sample.upstream = UpstreamPatches(tree, sample.parent + 1)

LEMMA RootIsSound ==
  ASSUME NEW metric \in Nat
  PROVE  Sound(<<Root(metric)>>)
<1> DEFINE root == Root(metric)
           tree == <<root>>
<1>1. root \in Node /\ root.id = 0 /\ root.valid /\ root.patch = << >> /\ root.isLeaf
      /\ root.built = << >>
  BY DEF Root, Node, Plan, Token
<1> HIDE DEF root
<1>2. tree \in Seq(Node) /\ tree # << >> /\ Len(tree) = 1 /\ DOMAIN tree = {1} /\ tree[1] = root
  BY <1>1
<1> HIDE DEF tree
<1>3. Rooted(tree)
  BY <1>1, <1>2 DEF Rooted
<1>4. Faithful(tree)
  BY <1>1, <1>2, <1>3, UpstreamIs DEF Faithful
<1>5. LeavesMarked(tree)
  BY <1>1, <1>2 DEF LeavesMarked
<1> QED BY <1>3, <1>4, <1>5 DEF Sound, tree, root

\* accumulate_samples: the tree stays sound, and the chains stay what they were.
LEMMA AccumulateKeepsSound ==
  ASSUME NEW tree, Sound(tree), NEW samples \in Seq(Sample),
         \A i \in 1 .. Len(samples) : Fits(tree, samples[i])
  PROVE  LET big == AccumulateSamples(tree, samples)
         IN  /\ Sound(big) /\ Len(big) = Len(tree) + Len(samples)
             /\ \A i \in DOMAIN tree : UpstreamPatches(big, i) = UpstreamPatches(tree, i)
<1> DEFINE L == Len(tree)
           K == Len(samples)
           old == [i \in 1 .. L |-> Aged(tree[i], samples)]
           new == [i \in 1 .. K |-> NodeOf(samples[i], NewSampleId(tree) + i - 1)]
           big == AccumulateSamples(tree, samples)
<1>1. /\ Rooted(tree) /\ L \in Nat \ {0} /\ DOMAIN tree = 1 .. L /\ tree \in Seq(Node)
      /\ \A i \in 1 .. L : tree[i] \in Node /\ tree[i].id = i - 1
  BY RootedShape DEF Sound, Rooted
<1>2. /\ K \in Nat /\ DOMAIN samples = 1 .. K
      /\ \A i \in 1 .. K : samples[i] \in Sample
  BY LenProperties, ElementOfSeq
<1>3. NewSampleId(tree) = L
  <2>1. IsList(tree)
    BY <1>1, ListOfFunction
  <2>2. \A i \in DOMAIN tree : "id" \in DOMAIN tree[i] /\ tree[i].id = i - 1
    BY <1>1 DEF Node
  <2>3. TreeOK(tree)
    BY <1>1, <2>1, <2>2 DEF TreeOK, Rooted
  <2> QED BY <2>3, IdsOfTree
<1>4. old \in Seq(Node) /\ Len(old) = L
  <2>1. old \in [1 .. L -> Node]
    BY <1>1 DEF Aged, Node
  <2> QED BY <1>1, <2>1, SeqDef, LenProperties
<1>5. new \in Seq(Node) /\ Len(new) = K
  <2>1. ASSUME NEW i \in 1 .. K PROVE NodeOf(samples[i], L + i - 1) \in Node
    <3>1. samples[i] \in Sample /\ L + i - 1 \in Nat
      BY <1>1, <1>2
    <3>2. PatchOf(samples[i]) \in Seq(Token) /\ samples[i].upstream \in Seq(Token)
      <4>1. samples[i].src \in Token /\ samples[i].upstream \in Seq(Token)
        BY <3>1 DEF Sample, Plan
      <4>2. <<samples[i].src>> \in Seq(Token) /\ << >> \in Seq(Token)
        BY <4>1
      <4> QED BY <4>1, <4>2 DEF PatchOf
    <3>3. BuiltPlan(samples[i]) \in Seq(Token)
      BY <3>2 DEF BuiltPlan
    <3> QED BY <3>1, <3>2, <3>3 DEF NodeOf, Node, Sample, Plan
  <2>2. new \in [1 .. K -> Node]
    BY <1>3, <2>1
  <2> QED BY <1>2, <2>2, SeqDef, LenProperties
<1>6. /\ big \in Seq(Node) /\ Len(big) = L + K /\ DOMAIN big = 1 .. L + K
      /\ \A i \in 1 .. L : big[i] = Aged(tree[i], samples)
      /\ \A i \in 1 .. K : big[L + i] = NodeOf(samples[i], L + i - 1)
  <2> HIDE DEF old, new
  <2>1. big = old \o new
    BY DEF AccumulateSamples, old, new
  <2>2. /\ old \o new \in Seq(Node) /\ Len(old \o new) = Len(old) + Len(new)
        /\ \A i \in 1 .. Len(old) + Len(new) :
             (old \o new)[i] = IF i <= Len(old) THEN old[i] ELSE new[i - Len(old)]
    BY <1>4, <1>5, ConcatProperties
  <2>2a. /\ big \in Seq(Node) /\ Len(big) = L + K
         /\ \A i \in 1 .. L + K : big[i] = IF i <= L THEN old[i] ELSE new[i - L]
    BY <1>4, <1>5, <2>1, <2>2
  <2>3. DOMAIN big = 1 .. L + K
    BY <2>2a, LenProperties
  <2>4. \A i \in 1 .. L : big[i] = old[i]
    BY <1>1, <1>2, <2>2a
  <2>5. ASSUME NEW i \in 1 .. K PROVE big[L + i] = new[i]
    <3>1. L + i \in 1 .. L + K /\ ~ (L + i <= L) /\ (L + i) - L = i
      BY <1>1, <1>2
    <3> QED BY <2>2a, <3>1
  <2> QED BY <1>3, <2>2a, <2>3, <2>4, <2>5 DEF old, new
<1> HIDE DEF big, old, new, L, K
<1>7. ASSUME NEW i \in 1 .. L + K, i > L
      PROVE  i - L \in 1 .. K /\ L + (i - L) = i
  BY <1>1, <1>2, <1>7
<1>8. \A i \in 1 .. L : /\ big[i].parent = tree[i].parent /\ big[i].id = i - 1
                        /\ big[i].patch = tree[i].patch /\ big[i].valid = tree[i].valid
                        /\ big[i].built = tree[i].built
                        /\ big[i].isLeaf <=> tree[i].isLeaf /\ i - 1 \notin Parents(samples)
  <2> SUFFICES ASSUME NEW i \in 1 .. L
               PROVE  LET node == Aged(tree[i], samples)
                      IN  /\ node.parent = tree[i].parent /\ node.id = i - 1
                          /\ node.patch = tree[i].patch /\ node.valid = tree[i].valid
                          /\ node.built = tree[i].built
                          /\ node.isLeaf <=> tree[i].isLeaf /\ i - 1 \notin Parents(samples)
    BY <1>6
  <2>1. tree[i] \in Node /\ tree[i].id = i - 1
    BY <1>1
  <2> QED BY <2>1 DEF Aged, Node
<1>8a. \A i \in 1 .. K : /\ big[L + i].parent = samples[i].parent
                         /\ big[L + i].id = L + i - 1 /\ big[L + i].isLeaf
                         /\ big[L + i].patch = PatchOf(samples[i])
                         /\ big[L + i].valid = samples[i].valid
                         /\ big[L + i].built = samples[i].upstream \o PatchOf(samples[i])
                         /\ samples[i].parent \in 0 .. L - 1
  <2> TAKE i \in 1 .. K
  <2>1. Fits(tree, samples[i]) /\ samples[i].parent \in Nat
    BY <1>2 DEF K, Sample
  <2>2. samples[i].parent \in 0 .. L - 1
    BY <1>1, <2>1 DEF Fits, L
  <2>3. big[L + i] = NodeOf(samples[i], L + i - 1)
    BY <1>6
  <2>4. /\ big[L + i].parent = samples[i].parent /\ big[L + i].id = L + i - 1
        /\ big[L + i].patch = PatchOf(samples[i])
    BY <2>3 DEF NodeOf
  <2>5. big[L + i].built = samples[i].upstream \o PatchOf(samples[i])
    <3>1. BuiltPlan(samples[i]) = samples[i].upstream \o PatchOf(samples[i])
      BY DEF BuiltPlan
    <3>2. big[L + i].built = BuiltPlan(samples[i])
      BY <2>3 DEF NodeOf
    <3> QED BY <3>1, <3>2
  <2>6. big[L + i].isLeaf /\ big[L + i].valid = samples[i].valid
    BY <2>3 DEF NodeOf
  <2> QED BY <2>2, <2>4, <2>5, <2>6
<1>9. Rooted(big)
  <2>1. ASSUME NEW i \in 1 .. L + K PROVE big[i].id = i - 1
    <3>1. CASE i <= L
      BY <1>1, <1>2, <1>8, <3>1
    <3>2. CASE i > L
      <4>1. i - L \in 1 .. K /\ L + (i - L) = i
        BY <1>7, <3>2
      <4>2. big[L + (i - L)].id = L + (i - L) - 1
        BY <1>8a, <4>1
      <4> QED BY <1>1, <4>1, <4>2
    <3> QED BY <1>1, <3>1, <3>2
  <2>2. \A i \in 1 .. L + K : i > 1 => big[i].parent < i - 1
    <3> SUFFICES ASSUME NEW i \in 1 .. L + K, i > 1 PROVE big[i].parent < i - 1
      OBVIOUS
    <3>1. CASE i <= L
      <4>1. i \in DOMAIN tree /\ i \in 1 .. L
        BY <1>1, <3>1
      <4> QED BY <1>1, <1>8, <4>1 DEF Rooted
    <3>2. CASE i > L
      <4>1. big[i].parent \in 0 .. L - 1
        <5>1. i - L \in 1 .. K /\ L + (i - L) = i
          BY <1>7, <3>2
        <5> QED BY <1>8a, <5>1
      <4> QED BY <1>1, <3>2, <4>1
    <3> QED BY <1>1, <3>1, <3>2
  <2>3. big # << >> /\ big[1].valid /\ big[1].patch = << >>
    <3>1. 1 \in 1 .. L
      BY <1>1
    <3> QED BY <1>1, <1>2, <1>6, <1>8, <3>1 DEF Rooted
  <2> QED BY <1>6, <2>1, <2>2, <2>3 DEF Rooted
<1>10. \A i \in DOMAIN tree : UpstreamPatches(big, i) = UpstreamPatches(tree, i)
  <2>1. \A i \in DOMAIN tree : OwnPatch(big[i]) = OwnPatch(tree[i])
    BY <1>1, <1>8 DEF OwnPatch
  <2>2. Len(tree) <= Len(big)
    BY <1>1, <1>2, <1>6 DEF L
  <2>3. \A i \in DOMAIN tree : big[i].parent = tree[i].parent
    BY <1>1, <1>8
  <2> QED BY <1>1, <1>9, <2>1, <2>2, <2>3, UpstreamKept
<1>11. Faithful(big)
  <2> SUFFICES ASSUME NEW i \in 1 .. L + K, big[i].valid
               PROVE  UpstreamPatches(big, i) = big[i].built
    BY <1>6 DEF Faithful
  <2>1. CASE i <= L
    <3>1. i \in DOMAIN tree /\ i \in 1 .. L
      BY <1>1, <2>1
    <3>2. tree[i].valid => UpstreamPatches(tree, i) = tree[i].built
      BY <3>1 DEF Sound, Faithful
    <3>3. tree[i].valid /\ big[i].built = tree[i].built
      BY <1>8, <3>1
    <3> QED BY <1>10, <3>1, <3>2, <3>3
  <2>2. CASE i > L
    <3> DEFINE k == i - L
    <3>1. k \in 1 .. K /\ i = L + k
      BY <1>7, <2>2
    <3> HIDE DEF k
    <3>2. /\ samples[k].parent + 1 \in DOMAIN tree
          /\ samples[k].upstream = UpstreamPatches(tree, samples[k].parent + 1)
      BY <1>1, <1>2, <1>8a, <3>1 DEF Fits, K
    <3>3. UpFrom(big, i) = samples[k].parent + 1 /\ i > 1 /\ i \in DOMAIN big
      BY <1>1, <1>2, <1>6, <1>8a, <3>1 DEF UpFrom
    <3>4. UpstreamPatches(big, i)
            = UpstreamPatches(big, samples[k].parent + 1) \o OwnPatch(big[i])
      BY <1>9, <3>3, UpstreamIs
    <3>5. OwnPatch(big[i]) = PatchOf(samples[k])
            /\ big[i].built = samples[k].upstream \o PatchOf(samples[k])
      BY <1>8a, <3>1 DEF OwnPatch
    <3> QED BY <1>10, <3>2, <3>4, <3>5
  <2> QED BY <1>1, <1>2, <2>1, <2>2
<1>12. LeavesMarked(big)
  <2> SUFFICES ASSUME NEW i \in 1 .. L + K
               PROVE  big[i].isLeaf <=> \A j \in 2 .. L + K : big[j].parent # i - 1
    BY <1>6, <1>9, RootedShape DEF LeavesMarked
  <2>1. CASE i <= L
    <3>1. i \in 1 .. L /\ (big[i].isLeaf <=> tree[i].isLeaf /\ i - 1 \notin Parents(samples))
      BY <1>1, <1>8, <2>1
    <3>2. tree[i].isLeaf <=> \A j \in 2 .. L : tree[j].parent # i - 1
      BY <1>1, <3>1 DEF Sound, LeavesMarked, L
    <3>3. (\A j \in 2 .. L : tree[j].parent # i - 1)
            <=> \A j \in 2 .. L : big[j].parent # i - 1
      BY <1>8
    <3>4. i - 1 \notin Parents(samples) <=> \A k \in 1 .. K : big[L + k].parent # i - 1
      BY <1>2, <1>8a DEF Parents
    <3>5. (\A k \in 1 .. K : big[L + k].parent # i - 1)
            <=> \A j \in L + 1 .. L + K : big[j].parent # i - 1
      <4>1. \A k \in 1 .. K : L + k \in L + 1 .. L + K
        BY <1>1, <1>2
      <4>2. \A j \in L + 1 .. L + K : j - L \in 1 .. K /\ L + (j - L) = j
        BY <1>1, <1>2
      <4> QED BY <4>1, <4>2
    <3>6. 2 .. L + K = (2 .. L) \cup (L + 1 .. L + K)
      BY <1>1, <1>2
    <3> QED BY <3>1, <3>2, <3>3, <3>4, <3>5, <3>6
  <2>2. CASE i > L
    <3>1. big[i].isLeaf
      <4>1. i - L \in 1 .. K /\ L + (i - L) = i
        BY <1>7, <2>2
      <4> QED BY <1>8a, <4>1
    <3>2. ASSUME NEW j \in 2 .. L + K PROVE big[j].parent # i - 1
      <4>1. CASE j <= L
        <5>1. j \in DOMAIN big /\ j > 1 /\ j \in Int
          BY <1>1, <1>2, <1>6
        <5>2. big[j].parent \in 0 .. j - 2
          BY <1>9, <5>1, RootedShape
        <5> QED BY <1>1, <2>2, <4>1, <5>1, <5>2
      <4>2. CASE j > L
        <5>1. big[j].parent \in 0 .. L - 1
          <6>1. j \in 1 .. L + K
            BY <1>1, <1>2
          <6>2. j - L \in 1 .. K /\ L + (j - L) = j
            BY <1>7, <4>2, <6>1
          <6> QED BY <1>8a, <6>2
        <5> QED BY <1>1, <2>2, <5>1
      <4> QED BY <1>1, <4>1, <4>2
    <3> QED BY <3>1, <3>2
  <2> QED BY <1>1, <1>2, <2>1, <2>2
<1> QED BY <1>6, <1>9, <1>10, <1>11, <1>12 DEF Sound, big, L, K

-----------------------------------------------------------------------------
(* Trees of one shape: the queries of a step. *)

\* The nodes accumulate_samples leaves: the old ones, aged, and the new ones.
LEMMA AccumulatedNodes ==
  ASSUME NEW tree, TreeOK(tree), NEW samples, IsList(samples)
  PROVE  LET big == AccumulateSamples(tree, samples)
         IN  /\ Len(tree) \in Nat \ {0} /\ DOMAIN tree = 1 .. Len(tree)
             /\ Len(samples) \in Nat /\ DOMAIN samples = 1 .. Len(samples)
             /\ Len(big) = Len(tree) + Len(samples) /\ DOMAIN big = 1 .. Len(big)
             /\ \A i \in 1 .. Len(tree) : big[i] = Aged(tree[i], samples)
             /\ \A i \in 1 .. Len(samples) :
                  big[Len(tree) + i] = NodeOf(samples[i], Len(tree) + i - 1)
<1> DEFINE L == Len(tree)
           K == Len(samples)
           old == [i \in 1 .. L |-> Aged(tree[i], samples)]
           new == [i \in 1 .. K |-> NodeOf(samples[i], NewSampleId(tree) + i - 1)]
           big == AccumulateSamples(tree, samples)
<1>1. /\ L \in Nat \ {0} /\ DOMAIN tree = 1 .. L
      /\ K \in Nat /\ DOMAIN samples = 1 .. K
  BY ListShape, EmptySeq DEF TreeOK, IsList
<1>2. IsList(old) /\ Len(old) = L /\ IsList(new) /\ Len(new) = K
  BY <1>1, ListOfFunction
<1>3. /\ \A i \in 1 .. L : old[i] = Aged(tree[i], samples)
      /\ \A i \in 1 .. K : new[i] = NodeOf(samples[i], L + i - 1)
  BY IdsOfTree
<1>4. big = old \o new
  BY DEF AccumulateSamples
<1> HIDE DEF old, new, big, L, K
<1>5. /\ IsList(big) /\ Len(big) = L + K
      /\ \A i \in 1 .. L + K : big[i] = IF i <= L THEN old[i] ELSE new[i - L]
  BY <1>2, <1>4, ListConcat
<1>6. DOMAIN big = 1 .. Len(big)
  BY <1>5, ListShape
<1>7. \A i \in 1 .. L : big[i] = old[i]
  BY <1>1, <1>5
<1>8. ASSUME NEW i \in 1 .. K PROVE big[L + i] = new[i]
  <2>1. L + i \in 1 .. L + K /\ ~ (L + i <= L) /\ (L + i) - L = i
    BY <1>1
  <2> QED BY <1>5, <2>1
<1>9. \A i \in 1 .. K : big[L + i] = NodeOf(samples[i], L + i - 1)
  BY <1>3, <1>8
<1>10. \A i \in 1 .. L : big[i] = Aged(tree[i], samples)
  BY <1>3, <1>7
<1> QED BY <1>1, <1>5, <1>6, <1>9, <1>10 DEF big, L, K

\* The two trees have as many nodes, and the same ones are the latest.
SameShape(tree, other) ==
  /\ Len(tree) = Len(other)
  /\ \A i \in 1 .. Len(tree) :
       /\ "isLast" \in DOMAIN tree[i] /\ "isLast" \in DOMAIN other[i]
       /\ tree[i].isLast <=> other[i].isLast

LEMMA ShapesGrow ==
  ASSUME NEW tree, NEW other, NEW samples, NEW more,
         TreeOK(tree), TreeOK(other), SameShape(tree, other),
         IsList(samples), IsList(more), Len(samples) = Len(more)
  PROVE  SameShape(AccumulateSamples(tree, samples), AccumulateSamples(other, more))
<1> DEFINE big == AccumulateSamples(tree, samples)
           wide == AccumulateSamples(other, more)
           L == Len(tree)
           K == Len(samples)
<1>1. /\ L \in Nat \ {0} /\ K \in Nat /\ Len(big) = L + K
      /\ \A i \in 1 .. L : big[i] = Aged(tree[i], samples)
      /\ \A i \in 1 .. K : big[L + i] = NodeOf(samples[i], L + i - 1)
  BY AccumulatedNodes
<1>2. /\ Len(wide) = L + K
      /\ \A i \in 1 .. L : wide[i] = Aged(other[i], more)
      /\ \A i \in 1 .. K : wide[L + i] = NodeOf(more[i], L + i - 1)
  <2>1. Len(other) = L /\ Len(more) = K
    BY DEF SameShape
  <2>2. /\ Len(wide) = Len(other) + Len(more)
        /\ \A i \in 1 .. Len(other) : wide[i] = Aged(other[i], more)
        /\ \A i \in 1 .. Len(more) :
             wide[Len(other) + i] = NodeOf(more[i], Len(other) + i - 1)
    BY AccumulatedNodes
  <2> HIDE DEF wide, L, K
  <2> QED BY <2>1, <2>2
<1>3. samples = << >> <=> more = << >>
  <2>1. \A s : IsList(s) => (s = << >> <=> Len(s) = 0)
    BY EmptySeq DEF IsList
  <2> QED BY <2>1
<1>4. \A i \in 1 .. L : /\ "isLast" \in DOMAIN tree[i] /\ "isLast" \in DOMAIN other[i]
                        /\ tree[i].isLast <=> other[i].isLast
  BY DEF SameShape
<1> HIDE DEF big, wide, L, K
<1>5. ASSUME NEW i \in 1 .. L + K
      PROVE  /\ "isLast" \in DOMAIN big[i] /\ "isLast" \in DOMAIN wide[i]
             /\ big[i].isLast <=> wide[i].isLast
  <2>1. CASE i <= L
    <3>1. i \in 1 .. L
      BY <1>1, <2>1
    <3> DEFINE a == tree[i]
               b == other[i]
    <3>2. big[i] = Aged(a, samples) /\ wide[i] = Aged(b, more)
      BY <1>1, <1>2, <3>1
    <3>3. /\ "isLast" \in DOMAIN a /\ "isLast" \in DOMAIN b
          /\ a.isLast <=> b.isLast
      BY <1>4, <3>1
    <3> HIDE DEF a, b
    <3> QED BY <1>3, <3>2, <3>3 DEF Aged
  <2>2. CASE ~ (i <= L)
    <3> DEFINE k == i - L
    <3>1. k \in 1 .. K /\ L + k = i
      BY <1>1, <2>2
    <3> HIDE DEF k
    <3>2. /\ big[i] = NodeOf(samples[k], L + k - 1)
          /\ wide[i] = NodeOf(more[k], L + k - 1)
      BY <1>1, <1>2, <3>1
    <3> QED BY <3>2 DEF NodeOf
  <2> QED BY <1>1, <2>1, <2>2
<1> QED BY <1>1, <1>2, <1>5 DEF SameShape, big, wide, L, K

\* Trees of one shape are sampled from as many nodes.
LEMMA SeedsEven ==
  ASSUME NEW tree, NEW other, TreeOK(tree), TreeOK(other), SameShape(tree, other),
         NEW name, NEW step, NEW m
  PROVE  Len(BasePlans(tree, SelectStrategy(name, step, m).by))
           = Len(BasePlans(other, SelectStrategy(name, step, m).by))
<1> DEFINE by == SelectStrategy(name, step, m).by
           S == Candidates(tree, by)
<1>1. by.best \in {0, 1} /\ ~by.validOnly /\ by.start # "of_leafs"
  BY DEF SelectStrategy, ORIGINAL_STRATEGY
<1>2. S = Candidates(other, by)
  <2>1. DOMAIN tree = 1 .. Len(tree) /\ DOMAIN other = 1 .. Len(tree)
    BY ListShape DEF TreeOK, SameShape
  <2>2. \A i \in 1 .. Len(tree) : tree[i].isLast <=> other[i].isLast
    BY DEF SameShape
  <2> HIDE DEF by
  <2> QED BY <1>1, <2>1, <2>2 DEF Candidates
<1>3. Cardinality(S) \in Nat
  BY NodesCounted DEF TreeOK, Candidates
<1>4. Candidates(tree, by) = S /\ Candidates(other, by) = S
  BY <1>2
<1> HIDE DEF by, S
<1>5. ASSUME NEW t, NEW u, Candidates(t, by) = S, Candidates(u, by) = S
      PROVE  Len(BasePlans(t, by)) = Len(BasePlans(u, by))
  <2>1. CASE by.start = "original"
    <3>1. BasePlans(t, by) = <<IndexOf(t, 0)>>
      BY <2>1 DEF BasePlans
    <3>2. BasePlans(u, by) = <<IndexOf(u, 0)>>
      BY <2>1 DEF BasePlans
    <3>3. \A x : Len(<<x>>) = 1
      OBVIOUS
    <3> QED BY <3>1, <3>2, <3>3
  <2>2. CASE by.start # "original" /\ by.best = 0
    <3>1. BasePlans(t, by) = FileOrder(S)
      BY <1>5, <2>2 DEF BasePlans
    <3>2. BasePlans(u, by) = FileOrder(S)
      BY <1>5, <2>2 DEF BasePlans
    <3> QED BY <3>1, <3>2
  <2>3. CASE by.start # "original" /\ by.best = 1
    <3> DEFINE k == Min({1, Cardinality(S)})
    <3>1. ASSUME NEW v, Candidates(v, by) = S
          PROVE  Len(BasePlans(v, by)) = k
      <4> DEFINE ranked == Ranked(v, S)
      <4>1. IsList(ranked) /\ Len(ranked) = Cardinality(S)
        BY <1>3, ListOfFunction DEF Ranked, InOrder
      <4>2. BasePlans(v, by) = Take(ranked, 1)
        BY <2>3, <3>1 DEF BasePlans
      <4> HIDE DEF ranked
      <4>3. BasePlans(v, by) = SubSeq(ranked, 1, k)
        BY <4>1, <4>2 DEF Take
      <4>4. k \in 0 .. 1 /\ k <= Cardinality(S)
        BY <1>3, MinOfPair
      <4> HIDE DEF k
      <4>5. Len(SubSeq(ranked, 1, k)) = k
        BY <1>3, <4>1, <4>4, SubSeqProperties DEF IsList
      <4> QED BY <4>3, <4>5
    <3> HIDE DEF k
    <3>2. Len(BasePlans(t, by)) = k
      BY <1>5, <3>1
    <3>3. Len(BasePlans(u, by)) = k
      BY <1>5, <3>1
    <3> QED BY <3>2, <3>3
  <2> QED BY <1>1, <2>1, <2>2, <2>3
<1>6. Len(BasePlans(tree, by)) = Len(BasePlans(other, by))
  BY <1>4, <1>5
<1> QED BY <1>6 DEF by

-----------------------------------------------------------------------------
(* Where the nodes of a tree come from. *)

\* The samples of a step file are named by the step and by their place in it.
Named(samples, k) ==
  \A i \in 1 .. Len(samples) :
    "src" \in DOMAIN samples[i] /\ samples[i].src = <<k, i>>

\* The nodes come from different samples of the steps up to "top", and the last
\* ones are those of the latest step.
FromSteps(tree, top) ==
  /\ \A i \in 1 .. Len(tree) :
       /\ {"src", "isLast"} \subseteq DOMAIN tree[i]
       /\ tree[i].src \in Token /\ tree[i].src[1] <= top
       /\ tree[i].isLast <=> \A j \in 1 .. Len(tree) : tree[j].src[1] <= tree[i].src[1]
  /\ \A i, j \in 1 .. Len(tree) : tree[i].src = tree[j].src => i = j

\* accumulate_samples on a step past those in the tree.
LEMMA AccumulateFromSteps ==
  ASSUME NEW tree, TreeOK(tree), NEW samples, IsList(samples),
         NEW k \in Nat, NEW top \in Nat, top < k,
         FromSteps(tree, top), Named(samples, k)
  PROVE  FromSteps(AccumulateSamples(tree, samples), k)
<1> DEFINE big == AccumulateSamples(tree, samples)
           L == Len(tree)
           K == Len(samples)
<1>1. /\ L \in Nat \ {0} /\ K \in Nat /\ Len(big) = L + K
      /\ \A i \in 1 .. L : big[i] = Aged(tree[i], samples)
      /\ \A i \in 1 .. K : big[L + i] = NodeOf(samples[i], L + i - 1)
  BY AccumulatedNodes
<1>2. samples = << >> <=> K = 0
  BY EmptySeq DEF IsList
<1>3. \A i \in 1 .. L :
        /\ {"src", "isLast"} \subseteq DOMAIN tree[i]
        /\ tree[i].src \in Token /\ tree[i].src[1] <= top
        /\ tree[i].isLast <=> \A j \in 1 .. L : tree[j].src[1] <= tree[i].src[1]
  BY DEF FromSteps
<1>4. \A i, j \in 1 .. L : tree[i].src = tree[j].src => i = j
  BY DEF FromSteps
<1>5. \A i \in 1 .. K : "src" \in DOMAIN samples[i] /\ samples[i].src = <<k, i>>
  BY DEF Named
<1> HIDE DEF big, L, K
<1>6. ASSUME NEW i \in 1 .. L
      PROVE  /\ {"src", "isLast"} \subseteq DOMAIN big[i] /\ big[i].src = tree[i].src
             /\ big[i].src \in Token /\ big[i].src[1] \in Nat /\ big[i].src[1] < k
             /\ big[i].isLast <=> tree[i].isLast /\ K = 0
  <2> DEFINE a == tree[i]
  <2>1. big[i] = Aged(a, samples) /\ {"src", "isLast"} \subseteq DOMAIN a
    BY <1>1, <1>3
  <2>2. a.src \in Nat \X Nat /\ a.src[1] <= top
    BY <1>3 DEF Token
  <2>3. a.src[1] \in Nat /\ a.src[1] < k
    BY <2>2
  <2> HIDE DEF a
  <2>4. /\ {"src", "isLast"} \subseteq DOMAIN big[i] /\ big[i].src = a.src
        /\ big[i].isLast <=> a.isLast /\ samples = << >>
    BY <2>1 DEF Aged
  <2> QED BY <1>2, <2>2, <2>3, <2>4 DEF a, Token
<1>7. ASSUME NEW i \in 1 .. K
      PROVE  /\ {"src", "isLast"} \subseteq DOMAIN big[L + i]
             /\ big[L + i].src = <<k, i>> /\ big[L + i].isLast
  <2> DEFINE s == samples[i]
             id == L + i - 1
  <2>1. big[L + i] = NodeOf(s, id) /\ s.src = <<k, i>>
    BY <1>1, <1>5
  <2> HIDE DEF s, id
  <2> QED BY <2>1 DEF NodeOf
<1>8. ASSUME NEW i \in 1 .. L + K
      PROVE  i \in 1 .. L \/ \E n \in 1 .. K : i = L + n
  <2>1. ~ (i \in 1 .. L) => i - L \in 1 .. K /\ i = L + (i - L)
    BY <1>1
  <2> QED BY <2>1
<1>9. ASSUME NEW i \in 1 .. L + K
      PROVE  /\ {"src", "isLast"} \subseteq DOMAIN big[i] /\ big[i].src \in Token
             /\ big[i].src[1] \in Nat /\ big[i].src[1] <= k
  <2>1. CASE i \in 1 .. L
    BY <1>6, <2>1
  <2>2. ASSUME NEW n \in 1 .. K, i = L + n
        PROVE  /\ {"src", "isLast"} \subseteq DOMAIN big[i] /\ big[i].src \in Token
               /\ big[i].src[1] \in Nat /\ big[i].src[1] <= k
    <3>1. {"src", "isLast"} \subseteq DOMAIN big[i] /\ big[i].src = <<k, n>>
      BY <1>7, <2>2
    <3> QED BY <1>1, <3>1 DEF Token
  <2> QED BY <1>8, <2>1, <2>2
<1>10. ASSUME NEW i \in 1 .. L + K
       PROVE  big[i].isLast <=> \A j \in 1 .. L + K : big[j].src[1] <= big[i].src[1]
  <2>1. CASE K = 0
    <3>1. i \in 1 .. L /\ 1 .. L + K = 1 .. L
      BY <1>1, <2>1
    <3>2. big[i].isLast <=> tree[i].isLast
      BY <1>6, <2>1, <3>1
    <3>3. \A j \in 1 .. L : big[j].src[1] = tree[j].src[1]
      BY <1>6
    <3> QED BY <1>3, <3>1, <3>2, <3>3
  <2>2. CASE K # 0 /\ i \in 1 .. L
    <3>1. ~big[i].isLast /\ big[i].src[1] \in Nat /\ big[i].src[1] < k
      BY <1>6, <2>2
    <3>2. 1 \in 1 .. K /\ L + 1 \in 1 .. L + K
      BY <1>1, <2>2
    <3>3. big[L + 1].src[1] = k
      BY <1>7, <3>2
    <3> QED BY <3>1, <3>2, <3>3
  <2>3. ASSUME NEW n \in 1 .. K, i = L + n
        PROVE  big[i].isLast <=> \A j \in 1 .. L + K : big[j].src[1] <= big[i].src[1]
    <3>1. big[i].isLast /\ big[i].src[1] = k
      BY <1>7, <2>3
    <3> QED BY <1>9, <3>1
  <2> QED BY <1>8, <2>1, <2>2, <2>3
<1>11. ASSUME NEW i \in 1 .. L + K, NEW j \in 1 .. L + K, big[i].src = big[j].src
       PROVE  i = j
  <2>1. CASE i \in 1 .. L /\ j \in 1 .. L
    BY <1>4, <1>6, <1>11, <2>1
  <2>2. CASE i \in 1 .. L /\ ~ (j \in 1 .. L)
    <3>1. PICK n \in 1 .. K : j = L + n
      BY <1>8, <2>2
    <3>2. big[j].src[1] = k /\ big[i].src[1] < k
      BY <1>6, <1>7, <2>2, <3>1
    <3> QED BY <1>11, <3>2
  <2>3. CASE ~ (i \in 1 .. L) /\ j \in 1 .. L
    <3>1. PICK n \in 1 .. K : i = L + n
      BY <1>8, <2>3
    <3>2. big[i].src[1] = k /\ big[j].src[1] < k
      BY <1>6, <1>7, <2>3, <3>1
    <3> QED BY <1>11, <3>2
  <2>4. CASE ~ (i \in 1 .. L) /\ ~ (j \in 1 .. L)
    <3>1. PICK n \in 1 .. K : i = L + n
      BY <1>8, <2>4
    <3>2. PICK m \in 1 .. K : j = L + m
      BY <1>8, <2>4
    <3>3. <<k, n>> = <<k, m>>
      BY <1>7, <1>11, <3>1, <3>2
    <3>4. n = m
      BY <3>3
    <3> QED BY <3>1, <3>2, <3>4
  <2> QED BY <2>1, <2>2, <2>3, <2>4
<1>12. \A i \in 1 .. L + K : big[i].src[1] <= k
  BY <1>9
<1>13. FromSteps(big, k)
  BY <1>1, <1>9, <1>10, <1>11, <1>12 DEF FromSteps
<1> QED BY <1>13 DEF big

LEMMA FromFewerSteps ==
  ASSUME NEW tree, NEW k \in Nat, NEW n \in Nat, k <= n, FromSteps(tree, k)
  PROVE  FromSteps(tree, n)
<1>1. ASSUME NEW i \in 1 .. Len(tree) PROVE tree[i].src[1] <= n
  <2>1. tree[i].src[1] \in Nat /\ tree[i].src[1] <= k
    BY DEF FromSteps, Token
  <2> QED BY <2>1
<1> QED BY <1>1 DEF FromSteps

\* Some node of a tree is marked last.
LEMMA SomeLast ==
  ASSUME NEW tree, TreeOK(tree), NEW top \in Nat, FromSteps(tree, top)
  PROVE  \E i \in DOMAIN tree : tree[i].isLast
<1> DEFINE S == {tree[i].src[1] : i \in 1 .. Len(tree)}
<1>1. Len(tree) \in Nat \ {0} /\ DOMAIN tree = 1 .. Len(tree)
  <2>1. Len(tree) \in Nat /\ DOMAIN tree = 1 .. Len(tree)
    BY ListShape DEF TreeOK
  <2>2. Len(tree) # 0
    BY EmptySeq DEF TreeOK, IsList
  <2> QED BY <2>1, <2>2
<1>2. \A i \in 1 .. Len(tree) : tree[i].src[1] \in 0 .. top
  <2>1. \A i \in 1 .. Len(tree) : tree[i].src[1] \in Nat /\ tree[i].src[1] <= top
    BY DEF FromSteps, Token
  <2> QED BY <2>1
<1>3. S \subseteq 0 .. top /\ S # {}
  <2>1. 1 \in 1 .. Len(tree)
    BY <1>1
  <2> QED BY <1>2, <2>1
<1>4. Max(S) \in S /\ \A y \in S : Max(S) >= y
  <2> HIDE DEF S
  <2> QED BY <1>3, MaxOfBounded
<1>5. PICK i \in 1 .. Len(tree) : tree[i].src[1] = Max(S)
  BY <1>4
<1>6. \A j \in 1 .. Len(tree) : tree[j].src[1] <= tree[i].src[1]
  <2>1. ASSUME NEW j \in 1 .. Len(tree) PROVE tree[j].src[1] <= tree[i].src[1]
    <3>1. Max(S) >= tree[j].src[1]
      BY <1>4
    <3> QED BY <1>2, <1>5, <3>1
  <2> QED BY <2>1
<1>7. tree[i].isLast
  BY <1>6 DEF FromSteps
<1> QED BY <1>1, <1>7

\* get_base_plans_for_sampling finds a plan whenever some node is last.
LEMMA BasePlansSome ==
  ASSUME NEW tree, TreeOK(tree), \E i \in DOMAIN tree : tree[i].isLast,
         NEW name, NEW step, NEW m
  PROVE  Len(BasePlans(tree, SelectStrategy(name, step, m).by)) \in Nat \ {0}
<1> DEFINE by == SelectStrategy(name, step, m).by
           S == Candidates(tree, by)
           n == Cardinality(S)
<1>1. by.best \in {0, 1} /\ ~by.validOnly /\ by.start \in {"original", "of_last"}
  BY DEF SelectStrategy, ORIGINAL_STRATEGY
<1>2. by.start = "original" \/ S # {}
  <2> HIDE DEF by
  <2> QED BY <1>1 DEF Candidates
<1>3. IsFiniteSet(S) /\ n \in Nat
  <2>1. S \in SUBSET DOMAIN tree
    BY DEF Candidates
  <2>2. Len(tree) \in Int /\ DOMAIN tree = 1 .. Len(tree)
    BY ListShape DEF TreeOK
  <2>3. IsFiniteSet(DOMAIN tree)
    BY <2>2, FS_Interval
  <2> HIDE DEF S
  <2> QED BY <2>1, <2>3, FS_Subset, FS_CardinalityType
<1>4. by.start = "original" \/ n # 0
  <2> HIDE DEF S
  <2> QED BY <1>2, <1>3, FS_EmptySet
<1>5. S = Candidates(tree, by)
  OBVIOUS
<1> HIDE DEF by, S, n
<1>6. CASE by.start = "original"
  <2>1. BasePlans(tree, by) = <<IndexOf(tree, 0)>>
    BY <1>6 DEF BasePlans
  <2>2. \A x : Len(<<x>>) = 1
    OBVIOUS
  <2> QED BY <2>1, <2>2 DEF by
<1>7. CASE by.start # "original" /\ by.best = 0
  <2>1. BasePlans(tree, by) = FileOrder(S)
    BY <1>5, <1>7 DEF BasePlans
  <2>2. Len(FileOrder(S)) = n
    BY <1>3, ListOfFunction DEF FileOrder, InOrder, n
  <2> QED BY <1>3, <1>4, <1>7, <2>1, <2>2 DEF by
<1>8. CASE by.start # "original" /\ by.best = 1
  <2> DEFINE ranked == Ranked(tree, S)
             k == Min({1, n})
  <2>1. IsList(ranked) /\ Len(ranked) = n
    BY <1>3, ListOfFunction DEF Ranked, InOrder, n
  <2>2. BasePlans(tree, by) = Take(ranked, 1)
    BY <1>5, <1>8 DEF BasePlans
  <2> HIDE DEF ranked
  <2>3. BasePlans(tree, by) = SubSeq(ranked, 1, k)
    BY <2>1, <2>2 DEF Take
  <2>4. k \in 0 .. 1 /\ k <= n /\ k = 1
    BY <1>3, <1>4, <1>8, MinOfPair
  <2> HIDE DEF k
  <2>5. Len(SubSeq(ranked, 1, k)) = k
    BY <1>3, <2>1, <2>4, SubSeqProperties DEF IsList
  <2> QED BY <2>3, <2>4, <2>5 DEF by
<1> QED BY <1>1, <1>6, <1>7, <1>8
=============================================================================
