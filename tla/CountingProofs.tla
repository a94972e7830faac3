---------------------------- MODULE CountingProofs ----------------------------
(*****************************************************************************)
(* Numbers and finite sets, for the proofs of several components: induction, *)
(* maxima and minima, the places of an order, sums.                        *)
(*****************************************************************************)
EXTENDS Naturals, FiniteSetsExt, Functions, FiniteSetTheorems, FunctionTheorems,
        WellFoundedInduction, TLAPS

-----------------------------------------------------------------------------
(* Induction, and what it defines. *)

LEMMA SetInduction ==
  ASSUME NEW S, 0 \in S, \A n \in Nat : n \in S => n + 1 \in S
  PROVE  Nat \subseteq S
<1> DEFINE T == Nat \ S
<1>1. SUFFICES ASSUME T # {} PROVE FALSE
  OBVIOUS
<1>2. PICK x \in T : \A y \in T : ~ (<<y, x>> \in OpToRel(<, Nat))
  <2>1. T \subseteq Nat
    OBVIOUS
  <2> HIDE DEF T
  <2> QED BY <1>1, <2>1, WFMin, NatLessThanWellFounded
<1>3. x - 1 \in Nat /\ <<x - 1, x>> \in OpToRel(<, Nat)
  BY <1>2 DEF OpToRel
<1>4. x - 1 \in S
  BY <1>2, <1>3
<1>5. (x - 1) + 1 = x /\ x \notin S
  <2>1. x \in Nat /\ x \notin S
    BY <1>2
  <2> QED BY <2>1
<1> QED BY <1>3, <1>4, <1>5

\* g starts at x and goes on with f.
Iterates(g, D, x, f) ==
  /\ g \in [Nat -> D] /\ g[0] = x
  /\ \A n \in Nat : g[n + 1] = f[<<n, g[n]>>]

LEMMA IterationExists ==
  ASSUME NEW D, NEW x, NEW f, x \in D, f \in [Nat \X D -> D]
  PROVE  \E g : Iterates(g, D, x, f)
<1> DEFINE Upto(n, w) == /\ w \in [0 .. n -> D] /\ w[0] = x
                         /\ \A m \in 0 .. n - 1 : w[m + 1] = f[<<m, w[m]>>]
           S == {n \in Nat : \E w : Upto(n, w)}
<1>1. 0 \in S
  <2>1. Upto(0, [m \in 0 .. 0 |-> x])
    OBVIOUS
  <2> QED BY <2>1
<1>2. ASSUME NEW n \in Nat, n \in S PROVE n + 1 \in S
  <2>1. PICK w : Upto(n, w)
    BY <1>2
  <2> DEFINE v == [m \in 0 .. n + 1 |-> IF m = n + 1 THEN f[<<n, w[n]>>] ELSE w[m]]
  <2>2. v \in [0 .. n + 1 -> D]
    BY <2>1
  <2>3. v[0] = x
    BY <2>1
  <2>4. ASSUME NEW m \in 0 .. n PROVE v[m + 1] = f[<<m, v[m]>>]
    <3>1. CASE m = n
      <4>1. n \in 0 .. n + 1 /\ n + 1 \in 0 .. n + 1 /\ n # n + 1
        OBVIOUS
      <4>2. v[n + 1] = f[<<n, w[n]>>] /\ v[n] = w[n]
        BY <4>1
      <4> HIDE DEF v, Upto
      <4> QED BY <3>1, <4>2
    <3>2. CASE m # n
      <4>1. m \in 0 .. n - 1 /\ m + 1 \in 0 .. n + 1 /\ m + 1 # n + 1 /\ m # n + 1
        BY <3>2
      <4>2. v[m + 1] = w[m + 1] /\ v[m] = w[m]
        BY <4>1
      <4> QED BY <2>1, <4>1, <4>2
    <3> QED BY <3>1, <3>2
  <2>5. 0 .. (n + 1) - 1 = 0 .. n
    OBVIOUS
  <2> HIDE DEF v
  <2>6. Upto(n + 1, v)
    BY <2>2, <2>3, <2>4, <2>5
  <2> HIDE DEF Upto
  <2> QED BY <2>6
<1>3. \A n \in Nat : \E w : Upto(n, w)
  <2> HIDE DEF Upto
  <2>1. Nat \subseteq S
    <3> HIDE DEF S
    <3> QED BY <1>1, <1>2, SetInduction
  <2> QED BY <2>1
<1>4. ASSUME NEW n \in Nat, NEW w, NEW v, Upto(n, w), Upto(n + 1, v)
      PROVE  w[n] = v[n]
  <2> DEFINE U == {m \in Nat : m <= n => w[m] = v[m]}
  <2>1. 0 \in U
    BY <1>4
  <2>2. ASSUME NEW m \in Nat, m \in U PROVE m + 1 \in U
    <3>1. CASE m + 1 <= n
      <4>1. m \in 0 .. n - 1 /\ m \in 0 .. (n + 1) - 1
        BY <3>1
      <4>2. w[m + 1] = f[<<m, w[m]>>] /\ v[m + 1] = f[<<m, v[m]>>]
        BY <1>4, <4>1
      <4> QED BY <2>2, <4>1, <4>2
    <3>2. CASE ~ (m + 1 <= n)
      BY <3>2
    <3> QED BY <3>1, <3>2
  <2>3. Nat \subseteq U
    <3> HIDE DEF U
    <3> QED BY <2>1, <2>2, SetInduction
  <2> QED BY <2>3
<1> DEFINE W(n) == CHOOSE w : Upto(n, w)
           g == [n \in Nat |-> W(n)[n]]
<1>5. \A n \in Nat : Upto(n, W(n))
  <2> HIDE DEF Upto
  <2> QED BY <1>3
<1>6. g \in [Nat -> D] /\ g[0] = x
  <2> HIDE DEF W
  <2> QED BY <1>5
<1>7. ASSUME NEW n \in Nat PROVE g[n + 1] = f[<<n, g[n]>>]
  <2>1. W(n)[n] = W(n + 1)[n]
    <3> HIDE DEF Upto, W
    <3> QED BY <1>4, <1>5
  <2> HIDE DEF W
  <2>2. W(n + 1)[n + 1] = f[<<n, W(n + 1)[n]>>]
    BY <1>5
  <2> QED BY <2>1, <2>2
<1> HIDE DEF g
<1>8. Iterates(g, D, x, f)
  BY <1>6, <1>7 DEF Iterates
<1> QED BY <1>8

\* A set of subsets of S that holds the empty one, and with each of its members
\* the same with one element more, holds S.
LEMMA SubsetInduction ==
  ASSUME NEW S, IsFiniteSet(S), NEW P, {} \in P,
         \A T \in SUBSET S : \A x \in S \ T : T \in P => T \cup {x} \in P
  PROVE  S \in P
<1> DEFINE N == {n \in Nat : \A T \in SUBSET S : Cardinality(T) = n => T \in P}
<1>1. 0 \in N
  <2> SUFFICES ASSUME NEW T \in SUBSET S, Cardinality(T) = 0 PROVE T \in P
    OBVIOUS
  <2>1. IsFiniteSet(T)
    BY FS_Subset
  <2> QED BY <2>1, FS_EmptySet
<1>2. ASSUME NEW n \in Nat, n \in N PROVE n + 1 \in N
  <2> SUFFICES ASSUME NEW T \in SUBSET S, Cardinality(T) = n + 1 PROVE T \in P
    OBVIOUS
  <2>1. IsFiniteSet(T)
    BY FS_Subset
  <2>2. PICK x : x \in T
    BY <2>1, FS_EmptySet
  <2> DEFINE U == T \ {x}
  <2>3. U \in SUBSET S /\ x \in S \ U /\ U \cup {x} = T
    BY <2>2
  <2>4. Cardinality(U) = n
    <3>1. Cardinality(U) = Cardinality(T) - 1
      BY <2>1, <2>2, FS_RemoveElement
    <3> QED BY <3>1
  <2> HIDE DEF U
  <2>5. U \in P
    BY <1>2, <2>3, <2>4
  <2> QED BY <2>3, <2>5
<1>3. Nat \subseteq N
  <2> HIDE DEF N
  <2> QED BY <1>1, <1>2, SetInduction
<1>4. Cardinality(S) \in Nat
  BY FS_CardinalityType
<1> QED BY <1>3, <1>4

-----------------------------------------------------------------------------
(* Largest and smallest elements. *)

\* A bounded set of numbers has a largest element.
LEMMA MaxOfBounded ==
  ASSUME NEW n \in Nat, NEW S, S \subseteq 0 .. n, S # {}
  PROVE  Max(S) \in S /\ \A y \in S : Max(S) >= y
<1> DEFINE T == {n - x : x \in S}
<1>1. T \subseteq Nat /\ T # {}
  <2>1. \A x \in S : n - x \in Nat
    OBVIOUS
  <2> QED BY <2>1
<1>2. PICK x \in T : \A y \in T : ~ (<<y, x>> \in OpToRel(<, Nat))
  <2> HIDE DEF T
  <2> QED BY <1>1, WFMin, NatLessThanWellFounded
<1>3. \A y \in T : x <= y
  <2> HIDE DEF T
  <2> TAKE y \in T
  <2>1. x \in Nat /\ y \in Nat
    BY <1>1
  <2>2. y < x => <<y, x>> \in OpToRel(<, Nat)
    BY <2>1 DEF OpToRel
  <2>3. ~ (y < x)
    BY <1>2, <2>2
  <2> QED BY <2>1, <2>3
<1>4. n - x \in S /\ \A y \in S : n - x >= y
  BY <1>3
<1> QED BY <1>4 DEF Max

LEMMA MaxIs ==
  ASSUME NEW S, NEW x \in S, S \subseteq Int, \A y \in S : x >= y
  PROVE  Max(S) = x
<1>1. \A z \in S : (\A y \in S : z >= y) => z = x
  OBVIOUS
<1>2. Max(S) \in S /\ \A y \in S : Max(S) >= y
  BY DEF Max
<1> QED BY <1>1, <1>2

LEMMA MinOfPair ==
  ASSUME NEW a \in Int, NEW b \in Int
  PROVE  Min({a, b}) = IF a <= b THEN a ELSE b
  BY DEF Min

LEMMA MinIsElement ==
  ASSUME NEW S, S \subseteq Nat, S # {}
  PROVE  Min(S) \in S /\ \A y \in S : Min(S) <= y
<1>1. PICK x \in S : \A y \in S : ~ (<<y, x>> \in OpToRel(<, Nat))
  BY WFMin, NatLessThanWellFounded
<1>2. \A y \in S : x <= y
  <2> TAKE y \in S
  <2>1. x \in Nat /\ y \in Nat
    OBVIOUS
  <2>2. y < x => <<y, x>> \in OpToRel(<, Nat)
    BY <2>1 DEF OpToRel
  <2>3. ~ (y < x)
    BY <1>1, <2>2
  <2> QED BY <2>1, <2>3
<1> QED BY <1>2 DEF Min

-----------------------------------------------------------------------------
(* The places of an order. *)

\* R orders S strictly and totally.
Orders(R, S) ==
  /\ \A x \in S : <<x, x>> \notin R
  /\ \A x, y, z \in S : <<x, y>> \in R /\ <<y, z>> \in R => <<x, z>> \in R
  /\ \A x, y \in S : x = y \/ <<x, y>> \in R \/ <<y, x>> \in R

\* How many elements of S come before x.
Place(R, S, x) == Cardinality({y \in S : <<y, x>> \in R})

LEMMA PlacesDiffer ==
  ASSUME NEW S, IsFiniteSet(S), NEW R, Orders(R, S), NEW x \in S, NEW y \in S,
         Place(R, S, x) = Place(R, S, y)
  PROVE  x = y
<1>1. ASSUME NEW a \in S, NEW b \in S, <<a, b>> \in R
      PROVE  Place(R, S, a) # Place(R, S, b)
  <2> DEFINE A == {z \in S : <<z, a>> \in R}
             B == {z \in S : <<z, b>> \in R}
  <2>1. B \in SUBSET S /\ A \in SUBSET B /\ a \in B /\ a \notin A
    BY <1>1 DEF Orders
  <2> HIDE DEF A, B
  <2>2. Cardinality(A) # Cardinality(B)
    BY <2>1, FS_Subset
  <2> QED BY <2>2 DEF Place, A, B
<1> QED BY <1>1 DEF Orders

\* Every place below the number of elements is taken.
LEMMA PlacesTaken ==
  ASSUME NEW S, IsFiniteSet(S), NEW R, Orders(R, S),
         NEW k \in Nat, k < Cardinality(S)
  PROVE  \E x \in S : Place(R, S, x) = k
<1> DEFINE n == Cardinality(S)
           place == [x \in S |-> Place(R, S, x)]
           P == Range(place)
<1>1. n \in Nat
  BY FS_CardinalityType
<1>2. ASSUME NEW x \in S PROVE Place(R, S, x) \in 0 .. n - 1
  <2> DEFINE B == {y \in S : <<y, x>> \in R}
  <2>1. B \in SUBSET S /\ x \notin B
    BY DEF Orders
  <2> HIDE DEF B
  <2>2. IsFiniteSet(B) /\ Cardinality(B) <= n /\ Cardinality(B) # n
    BY <2>1, FS_Subset
  <2>3. Cardinality(B) \in Nat
    BY <2>2, FS_CardinalityType
  <2>4. Cardinality(B) \in 0 .. n - 1
    <3> HIDE DEF n
    <3> QED BY <1>1, <2>2, <2>3
  <2> QED BY <2>4 DEF Place, B
<1>3. place \in Surjection(S, P) /\ place \in Injection(S, P)
  <2>1. place \in [S -> P] /\ \A y \in P : \E x \in S : place[x] = y
    BY DEF Range
  <2>2. \A x, y \in S : place[x] = place[y] => x = y
    BY PlacesDiffer
  <2> HIDE DEF place, P
  <2> QED BY <2>1, <2>2 DEF Surjection, Injection, IsInjective
<1>4. IsFiniteSet(P) /\ Cardinality(P) = n
  <2> HIDE DEF place, P
  <2> QED BY <1>3, FS_Surjection
<1>5. P \in SUBSET (0 .. n - 1)
  BY <1>2 DEF Range
<1>6. IsFiniteSet(0 .. n - 1) /\ Cardinality(0 .. n - 1) = n
  <2> HIDE DEF n
  <2>1. n - 1 \in Int /\ 0 \in Int
    BY <1>1
  <2>2. IsFiniteSet(0 .. n - 1)
          /\ Cardinality(0 .. n - 1) = IF 0 > n - 1 THEN 0 ELSE (n - 1) - 0 + 1
    BY <2>1, FS_Interval
  <2> QED BY <1>1, <2>2
<1>7. P = 0 .. n - 1
  <2> HIDE DEF n, P
  <2> QED BY <1>4, <1>5, <1>6, FS_Subset
<1>8. k \in P
  <2> HIDE DEF P
  <2> QED BY <1>1, <1>7
<1> QED BY <1>8 DEF Range

LEMMA PlacesFilled ==
  ASSUME NEW S, IsFiniteSet(S), NEW R, Orders(R, S)
  PROVE  \A n \in 1 .. Cardinality(S) : \E i \in S : Place(R, S, i) = n - 1
<1> TAKE n \in 1 .. Cardinality(S)
<1> DEFINE k == n - 1
<1>1. Cardinality(S) \in Nat
  BY FS_CardinalityType
<1>2. k \in Nat /\ k < Cardinality(S)
  BY <1>1
<1> HIDE DEF k
<1>3. \E i \in S : Place(R, S, i) = k
  BY <1>2, PlacesTaken
<1> QED BY <1>3 DEF k

LEMMA PlaceBelow ==
  ASSUME NEW S, IsFiniteSet(S), NEW R, Orders(R, S), NEW x \in S
  PROVE  Place(R, S, x) \in Nat /\ Place(R, S, x) < Cardinality(S)
<1> DEFINE B == {y \in S : <<y, x>> \in R}
<1>1. B \in SUBSET S /\ x \notin B
  BY DEF Orders
<1> HIDE DEF B
<1>2. IsFiniteSet(B) /\ Cardinality(B) <= Cardinality(S) /\ Cardinality(B) # Cardinality(S)
  BY <1>1, FS_Subset
<1>3. Cardinality(B) \in Nat /\ Cardinality(S) \in Nat
  BY <1>2, FS_CardinalityType
<1> QED BY <1>2, <1>3 DEF Place, B

\* Of an order of n elements, k are in the first k places.
LEMMA FirstPlaces ==
  ASSUME NEW S, IsFiniteSet(S), NEW R, Orders(R, S), NEW k \in Nat, k <= Cardinality(S)
  PROVE  Cardinality({x \in S : Place(R, S, x) < k}) = k
<1> DEFINE A == {x \in S : Place(R, S, x) < k}
           f == [x \in A |-> Place(R, S, x)]
           B == 0 .. k - 1
<1>1. IsFiniteSet(A)
  BY FS_Subset
<1>2. \A x \in S : Place(R, S, x) \in Nat
  BY PlaceBelow
<1>3. f \in [A -> B]
  BY <1>2
<1>4. \A x, y \in A : f[x] = f[y] => x = y
  BY PlacesDiffer
<1>5. ASSUME NEW b \in B PROVE \E x \in A : f[x] = b
  <2>1. b \in Nat /\ b < k /\ b < Cardinality(S)
    <3>1. Cardinality(S) \in Nat
      BY FS_CardinalityType
    <3> QED BY <3>1
  <2>2. \E x \in S : Place(R, S, x) = b
    BY <2>1, PlacesTaken
  <2> QED BY <2>1, <2>2
<1>6. f \in Surjection(A, B) /\ f \in Injection(A, B)
  <2> HIDE DEF f, A, B
  <2> QED BY <1>3, <1>4, <1>5 DEF Surjection, Injection, IsInjective
<1>7. Cardinality(B) = Cardinality(A)
  <2> HIDE DEF f, A, B
  <2> QED BY <1>1, <1>6, FS_Surjection
<1>8. Cardinality(B) = k
  <2>1. 0 \in Int /\ k - 1 \in Int
    OBVIOUS
  <2>2. Cardinality(0 .. k - 1) = IF 0 > k - 1 THEN 0 ELSE (k - 1) - 0 + 1
    BY <2>1, FS_Interval
  <2> QED BY <2>2
<1> QED BY <1>7, <1>8

-----------------------------------------------------------------------------
(* Sums over finite sets. *)

\* The element that a fold takes first.
AnyOf(s) == CHOOSE x \in s : TRUE

\* g adds up f over every subset of S.
AddsUp(g, f, S) ==
  g = [s \in SUBSET S |-> IF s = {} THEN 0
                          ELSE LET x == CHOOSE x \in s : TRUE IN f[x] + g[s \ {x}]]

LEMMA AddingUpExists ==
  ASSUME NEW S, IsFiniteSet(S), NEW f, \A x \in S : f[x] \in Nat
  PROVE  \E g : AddsUp(g, f, S) /\ g \in [SUBSET S -> Nat]
<1> DEFINE D == [SUBSET S -> Nat]
           zero == [s \in SUBSET S |-> 0]
           F == [p \in Nat \X D |->
                   [s \in SUBSET S |-> IF s = {} THEN 0
                                       ELSE f[AnyOf(s)] + p[2][s \ {AnyOf(s)}]]]
<1>1. \A s \in SUBSET S : s # {} => AnyOf(s) \in s /\ s \ {AnyOf(s)} \in SUBSET S
  BY DEF AnyOf
<1>2. zero \in D
  OBVIOUS
<1>3. F \in [Nat \X D -> D]
  <2> SUFFICES ASSUME NEW p \in Nat \X D, NEW s \in SUBSET S
               PROVE  (IF s = {} THEN 0 ELSE f[AnyOf(s)] + p[2][s \ {AnyOf(s)}]) \in Nat
    OBVIOUS
  <2>1. p[2] \in D
    OBVIOUS
  <2> QED BY <1>1, <2>1
<1>4. PICK h : Iterates(h, D, zero, F)
  <2> HIDE DEF D, F, zero
  <2> QED BY <1>2, <1>3, IterationExists
<1>5. \A n \in Nat : h[n] \in D
  <2> HIDE DEF D, F, zero
  <2> QED BY <1>4 DEF Iterates
<1>6. ASSUME NEW n \in Nat, NEW s \in SUBSET S, s # {}
      PROVE  h[n + 1][s] = f[AnyOf(s)] + h[n][s \ {AnyOf(s)}]
  <2>1. h[n + 1] = F[<<n, h[n]>>]
    <3> HIDE DEF D, F, zero
    <3> QED BY <1>4 DEF Iterates
  <2>2. <<n, h[n]>> \in Nat \X D
    BY <1>5
  <2> HIDE DEF D
  <2>3. F[<<n, h[n]>>][s] = f[AnyOf(s)] + h[n][s \ {AnyOf(s)}]
    BY <1>6, <2>2
  <2> QED BY <2>1, <2>3
<1> DEFINE g == [s \in SUBSET S |-> IF s = {} THEN 0 ELSE h[Cardinality(s)][s]]
<1>7. \A s \in SUBSET S : IsFiniteSet(s) /\ Cardinality(s) \in Nat
  BY FS_Subset, FS_CardinalityType
<1>8. g \in [SUBSET S -> Nat]
  BY <1>5, <1>7
<1>9. ASSUME NEW s \in SUBSET S, s # {}
      PROVE  g[s] = f[AnyOf(s)] + g[s \ {AnyOf(s)}]
  <2> DEFINE t == s \ {AnyOf(s)}
             n == Cardinality(t)
  <2>1. AnyOf(s) \in s /\ t \in SUBSET S
    BY <1>1, <1>9
  <2>2. n \in Nat /\ Cardinality(s) = n + 1
    <3>1. Cardinality(t) = Cardinality(s) - 1
      BY <1>7, <2>1, FS_RemoveElement
    <3>2. Cardinality(s) \in Nat /\ n \in Nat
      BY <1>7, <2>1
    <3> HIDE DEF t
    <3> QED BY <3>1, <3>2
  <2>3. h[n + 1][s] = f[AnyOf(s)] + h[n][t]
    <3> HIDE DEF n
    <3> QED BY <1>6, <1>9, <2>2
  <2>4. g[t] = h[n][t]
    <3>1. CASE t = {}
      <4>1. n = 0
        BY <3>1, FS_EmptySet
      <4>2. h[0] = zero
        <5> HIDE DEF D, F, zero
        <5> QED BY <1>4 DEF Iterates
      <4>3. zero[t] = 0
        BY <2>1
      <4>4. g[t] = 0
        BY <2>1, <3>1
      <4> HIDE DEF zero, t, n, g
      <4> QED BY <4>1, <4>2, <4>3, <4>4
    <3>2. CASE t # {}
      BY <2>1, <3>2
    <3> QED BY <3>1, <3>2
  <2>5. g[s] = h[n + 1][s]
    <3> HIDE DEF n
    <3> QED BY <1>9, <2>2
  <2> HIDE DEF g, n, t
  <2> QED BY <2>3, <2>4, <2>5 DEF t
<1>10. g = [s \in SUBSET S |-> IF s = {} THEN 0
                               ELSE LET x == CHOOSE x \in s : TRUE IN f[x] + g[s \ {x}]]
  <2>1. \A s \in SUBSET S : g[s] = IF s = {} THEN 0 ELSE f[AnyOf(s)] + g[s \ {AnyOf(s)}]
    <3>1. {} \in SUBSET S /\ g[{}] = 0
      OBVIOUS
    <3> HIDE DEF g
    <3> QED BY <1>9, <3>1
  <2>2. g = [s \in SUBSET S |-> g[s]]
    OBVIOUS
  <2> HIDE DEF g
  <2>3. g = [s \in SUBSET S |-> IF s = {} THEN 0 ELSE f[AnyOf(s)] + g[s \ {AnyOf(s)}]]
    BY <2>1, <2>2
  <2> QED BY <2>3 DEF AnyOf
<1> HIDE DEF g
<1> QED BY <1>8, <1>10 DEF AddsUp

LEMMA AddsUpOnce ==
  ASSUME NEW S, IsFiniteSet(S), NEW T \in SUBSET S, NEW f, NEW g, NEW h,
         AddsUp(g, f, S), AddsUp(h, f, T)
  PROVE  \A s \in SUBSET T : g[s] = h[s]
<1> DEFINE N == {n \in Nat : \A s \in SUBSET T : Cardinality(s) = n => g[s] = h[s]}
<1>1. \A s \in SUBSET T :
        /\ s \in SUBSET S /\ IsFiniteSet(s) /\ Cardinality(s) \in Nat
        /\ s # {} => AnyOf(s) \in s /\ s \ {AnyOf(s)} \in SUBSET T
  <2>1. \A s \in SUBSET T : s \in SUBSET S
    OBVIOUS
  <2>2. \A s \in SUBSET T : s # {} => AnyOf(s) \in s
    BY DEF AnyOf
  <2> QED BY <2>1, <2>2, FS_Subset, FS_CardinalityType
<1>2. \A s \in SUBSET S :
        g[s] = IF s = {} THEN 0 ELSE f[AnyOf(s)] + g[s \ {AnyOf(s)}]
  BY DEF AddsUp, AnyOf
<1>3. \A s \in SUBSET T :
        h[s] = IF s = {} THEN 0 ELSE f[AnyOf(s)] + h[s \ {AnyOf(s)}]
  BY DEF AddsUp, AnyOf
<1>4. 0 \in N
  <2> SUFFICES ASSUME NEW s \in SUBSET T, Cardinality(s) = 0 PROVE g[s] = h[s]
    OBVIOUS
  <2>1. s = {}
    BY <1>1, FS_EmptySet
  <2> QED BY <1>1, <1>2, <1>3, <2>1
<1>5. ASSUME NEW n \in Nat, n \in N PROVE n + 1 \in N
  <2> SUFFICES ASSUME NEW s \in SUBSET T, Cardinality(s) = n + 1 PROVE g[s] = h[s]
    OBVIOUS
  <2>1. s # {}
    BY FS_EmptySet
  <2> DEFINE t == s \ {AnyOf(s)}
  <2>2. t \in SUBSET T /\ AnyOf(s) \in s
    BY <1>1, <2>1
  <2>3. Cardinality(t) = Cardinality(s) - 1
    BY <1>1, <2>2, FS_RemoveElement
  <2> HIDE DEF t
  <2>4. Cardinality(t) = n
    BY <2>3
  <2>5. g[t] = h[t]
    BY <1>5, <2>2, <2>4
  <2>6. g[s] = f[AnyOf(s)] + g[t] /\ h[s] = f[AnyOf(s)] + h[t]
    BY <1>1, <1>2, <1>3, <2>1 DEF t
  <2> QED BY <2>5, <2>6
<1>6. Nat \subseteq N
  <2> HIDE DEF N
  <2> QED BY <1>4, <1>5, SetInduction
<1> QED BY <1>1, <1>6

\* The sum over every subset of a set.
SumsOf(f, S) == [T \in SUBSET S |-> SumFunctionOnSet(f, T)]

LEMMA SumsAddUp ==
  ASSUME NEW S, IsFiniteSet(S), NEW f, \A x \in S : f[x] \in Nat
  PROVE  AddsUp(SumsOf(f, S), f, S) /\ SumsOf(f, S) \in [SUBSET S -> Nat]
<1>1. PICK g : AddsUp(g, f, S) /\ g \in [SUBSET S -> Nat]
  BY AddingUpExists
<1>2. ASSUME NEW T \in SUBSET S
      PROVE  SumFunctionOnSet(f, T) = g[T]
  <2> DEFINE h == CHOOSE h : AddsUp(h, f, T)
  <2>1. IsFiniteSet(T) /\ \A x \in T : f[x] \in Nat
    BY FS_Subset
  <2>2. AddsUp(h, f, T)
    BY <2>1, AddingUpExists
  <2>3. SumFunctionOnSet(f, T) = h[T]
    BY DEF SumFunctionOnSet, FoldFunctionOnSet, MapThenFoldSet, AddsUp
  <2>4. T \in SUBSET T
    OBVIOUS
  <2> HIDE DEF h
  <2>5. g[T] = h[T]
    BY <1>1, <2>2, <2>4, AddsUpOnce
  <2> QED BY <2>3, <2>5
<1>3. SumsOf(f, S) = g
  BY <1>1, <1>2 DEF SumsOf
<1> QED BY <1>1, <1>3

LEMMA SumType ==
  ASSUME NEW S, IsFiniteSet(S), NEW f, \A x \in S : f[x] \in Nat
  PROVE  SumFunctionOnSet(f, S) \in Nat
<1>1. SumsOf(f, S) \in [SUBSET S -> Nat] /\ S \in SUBSET S
  BY SumsAddUp
<1> QED BY <1>1 DEF SumsOf

\* Any element may be added last.
LEMMA SumRemove ==
  ASSUME NEW S, IsFiniteSet(S), NEW f, \A x \in S : f[x] \in Nat, NEW x \in S
  PROVE  /\ SumFunctionOnSet(f, S) = f[x] + SumFunctionOnSet(f, S \ {x})
         /\ SumFunctionOnSet(f, S \ {x}) \in Nat
<1> DEFINE g == SumsOf(f, S)
<1>1. AddsUp(g, f, S) /\ g \in [SUBSET S -> Nat]
  BY SumsAddUp
<1> HIDE DEF g
<1> DEFINE N == {n \in Nat : \A T \in SUBSET S : Cardinality(T) = n =>
                   \A y \in T : g[T] = f[y] + g[T \ {y}]}
<1>2. \A s \in SUBSET S :
        g[s] = IF s = {} THEN 0 ELSE f[AnyOf(s)] + g[s \ {AnyOf(s)}]
  BY <1>1 DEF AddsUp, AnyOf
<1>3. \A s \in SUBSET S :
        /\ IsFiniteSet(s) /\ Cardinality(s) \in Nat /\ g[s] \in Nat
        /\ s # {} => AnyOf(s) \in s
        /\ \A y : s \ {y} \in SUBSET S
  <2>1. \A s \in SUBSET S : IsFiniteSet(s) /\ Cardinality(s) \in Nat
    BY FS_Subset, FS_CardinalityType
  <2>2. \A s \in SUBSET S : s # {} => AnyOf(s) \in s
    BY DEF AnyOf
  <2>3. \A s \in SUBSET S : \A y : s \ {y} \in SUBSET S
    OBVIOUS
  <2> QED BY <1>1, <2>1, <2>2, <2>3
<1>4. 0 \in N
  <2> SUFFICES ASSUME NEW T \in SUBSET S, Cardinality(T) = 0, NEW y \in T PROVE FALSE
    OBVIOUS
  <2> QED BY <1>3, FS_EmptySet
<1>5. ASSUME NEW n \in Nat, n \in N PROVE n + 1 \in N
  <2> SUFFICES ASSUME NEW T \in SUBSET S, Cardinality(T) = n + 1, NEW y \in T
               PROVE  g[T] = f[y] + g[T \ {y}]
    OBVIOUS
  <2> DEFINE a == AnyOf(T)
  <2>1. g[T] = f[a] + g[T \ {a}] /\ a \in T
    BY <1>2, <1>3
  <2> HIDE DEF a
  <2>2. CASE y = a
    BY <2>1, <2>2
  <2>3. CASE y # a
    <3> DEFINE U == T \ {a}
               V == T \ {y}
               W == U \ {y}
    <3>1. /\ U \in SUBSET S /\ V \in SUBSET S /\ y \in U /\ a \in V /\ W = V \ {a}
          /\ W \in SUBSET S
      BY <2>1, <2>3
    <3>2. Cardinality(U) = Cardinality(T) - 1 /\ Cardinality(V) = Cardinality(T) - 1
      BY <1>3, <2>1, FS_RemoveElement
    <3>3. f[a] \in Nat /\ f[y] \in Nat /\ g[W] \in Nat
      BY <2>1, <3>1, <1>3
    <3> HIDE DEF U, V, W
    <3>4. Cardinality(U) = n /\ Cardinality(V) = n
      BY <3>2
    <3>5. g[U] = f[y] + g[U \ {y}] /\ g[V] = f[a] + g[V \ {a}]
      BY <1>5, <3>1, <3>4
    <3>6. g[U] = f[y] + g[W] /\ g[V] = f[a] + g[W]
      BY <3>1, <3>5 DEF W
    <3>7. g[T] = f[a] + g[U]
      BY <2>1 DEF U
    <3>8. g[T] = f[y] + g[V]
      BY <3>3, <3>6, <3>7
    <3> QED BY <3>8 DEF V
  <2> QED BY <2>2, <2>3
<1>6. Nat \subseteq N
  <2> HIDE DEF N
  <2> QED BY <1>4, <1>5, SetInduction
<1>7. S \in SUBSET S /\ S \ {x} \in SUBSET S
  OBVIOUS
<1>8. Cardinality(S) \in Nat
  BY FS_CardinalityType
<1>9. g[S] = f[x] + g[S \ {x}] /\ g[S \ {x}] \in Nat
  BY <1>1, <1>6, <1>7, <1>8
<1> QED BY <1>7, <1>9 DEF g, SumsOf

LEMMA SumEmpty ==
  ASSUME NEW f
  PROVE  SumFunctionOnSet(f, {}) = 0
<1> DEFINE S == {}
<1>1. IsFiniteSet(S) /\ S = {} /\ \A x \in S : f[x] \in Nat
  BY FS_EmptySet
<1> HIDE DEF S
<1>2. AddsUp(SumsOf(f, S), f, S) /\ S \in SUBSET S
  BY <1>1, SumsAddUp
<1> DEFINE g == SumsOf(f, S)
<1>3. g[S] = SumFunctionOnSet(f, S)
  BY <1>2 DEF SumsOf
<1> HIDE DEF g
<1>4. g[S] = 0
  BY <1>1, <1>2 DEF AddsUp, g
<1> QED BY <1>1, <1>3, <1>4

\* A set that grows by an element, within S.
LEMMA SumOneMore ==
  ASSUME NEW S, IsFiniteSet(S), NEW f, \A y \in S : f[y] \in Nat,
         NEW T \in SUBSET S, NEW x \in S \ T
  PROVE  /\ SumFunctionOnSet(f, T \cup {x}) = SumFunctionOnSet(f, T) + f[x]
         /\ SumFunctionOnSet(f, T) \in Nat /\ f[x] \in Nat
<1> DEFINE U == T \cup {x}
<1>1. U \in SUBSET S /\ x \in U /\ U \ {x} = T /\ \A y \in U : f[y] \in Nat
  OBVIOUS
<1> HIDE DEF U
<1>2. IsFiniteSet(U)
  BY <1>1, FS_Subset
<1>3. SumFunctionOnSet(f, U) = f[x] + SumFunctionOnSet(f, T) /\ SumFunctionOnSet(f, T) \in Nat
  BY <1>1, <1>2, SumRemove
<1>4. f[x] \in Nat
  OBVIOUS
<1> QED BY <1>3, <1>4 DEF U

\* Larger summands, larger sum.
LEMMA SumMonotone ==
  ASSUME NEW S, IsFiniteSet(S), NEW f, NEW g,
         \A x \in S : f[x] \in Nat /\ g[x] \in Nat /\ f[x] <= g[x]
  PROVE  SumFunctionOnSet(f, S) <= SumFunctionOnSet(g, S)
<1> DEFINE P == {T \in SUBSET S : SumFunctionOnSet(f, T) <= SumFunctionOnSet(g, T)}
<1>1. {} \in P
  BY SumEmpty
<1>2. ASSUME NEW T \in SUBSET S, NEW x \in S \ T, T \in P
      PROVE  T \cup {x} \in P
  <2>1. /\ SumFunctionOnSet(f, T \cup {x}) = SumFunctionOnSet(f, T) + f[x]
        /\ SumFunctionOnSet(f, T) \in Nat /\ f[x] \in Nat
    BY SumOneMore
  <2>2. /\ SumFunctionOnSet(g, T \cup {x}) = SumFunctionOnSet(g, T) + g[x]
        /\ SumFunctionOnSet(g, T) \in Nat /\ g[x] \in Nat
    BY SumOneMore
  <2> QED BY <1>2, <2>1, <2>2
<1>3. S \in P
  <2> HIDE DEF P
  <2> QED BY <1>1, <1>2, SubsetInduction
<1> QED BY <1>3

\* The sum of sums.
LEMMA SumOfSums ==
  ASSUME NEW S, IsFiniteSet(S), NEW f, NEW g, NEW h,
         \A x \in S : f[x] \in Nat, \A x \in S : g[x] \in Nat,
         \A x \in S : h[x] = f[x] + g[x]
  PROVE  SumFunctionOnSet(h, S) = SumFunctionOnSet(f, S) + SumFunctionOnSet(g, S)
<1> DEFINE P == {T \in SUBSET S :
                   SumFunctionOnSet(h, T) = SumFunctionOnSet(f, T) + SumFunctionOnSet(g, T)}
<1>1. {} \in P
  BY SumEmpty
<1>2. \A x \in S : h[x] \in Nat
  OBVIOUS
<1>3. ASSUME NEW T \in SUBSET S, NEW x \in S \ T, T \in P
      PROVE  T \cup {x} \in P
  <2> HIDE DEF P
  <2>1. SumFunctionOnSet(f, T \cup {x}) = SumFunctionOnSet(f, T) + f[x]
    BY SumOneMore
  <2>2. SumFunctionOnSet(g, T \cup {x}) = SumFunctionOnSet(g, T) + g[x]
    BY SumOneMore
  <2>3. SumFunctionOnSet(h, T \cup {x}) = SumFunctionOnSet(h, T) + h[x]
    BY <1>2, SumOneMore
  <2>4. SumFunctionOnSet(f, T) \in Nat /\ f[x] \in Nat
    BY SumOneMore
  <2>5. SumFunctionOnSet(g, T) \in Nat /\ g[x] \in Nat
    BY SumOneMore
  <2>6. h[x] = f[x] + g[x] /\ T \cup {x} \in SUBSET S
    OBVIOUS
  <2> QED BY <1>3, <2>1, <2>2, <2>3, <2>4, <2>5, <2>6 DEF P
<1>4. S \in P
  <2> HIDE DEF P
  <2> QED BY <1>1, <1>3, SubsetInduction
<1> QED BY <1>4

\* A constant factor.
LEMMA SumScaled ==
  ASSUME NEW S, IsFiniteSet(S), NEW f, NEW g, NEW a \in Nat,
         \A x \in S : f[x] \in Nat, \A x \in S : g[x] = a * f[x]
  PROVE  SumFunctionOnSet(g, S) = a * SumFunctionOnSet(f, S)
<1> DEFINE P == {T \in SUBSET S : SumFunctionOnSet(g, T) = a * SumFunctionOnSet(f, T)}
<1>1. {} \in P
  <2>1. a * 0 = 0
    OBVIOUS
  <2> QED BY <2>1, SumEmpty
<1>2. ASSUME NEW T \in SUBSET S, NEW x \in S \ T, T \in P
      PROVE  T \cup {x} \in P
  <2> DEFINE s == SumFunctionOnSet(f, T)
             b == f[x]
  <2> HIDE DEF P
  <2>1. \A y \in S : g[y] \in Nat
    OBVIOUS
  <2>2. SumFunctionOnSet(f, T \cup {x}) = s + b /\ s \in Nat /\ b \in Nat
    BY SumOneMore
  <2>3. SumFunctionOnSet(g, T \cup {x}) = SumFunctionOnSet(g, T) + g[x]
    BY <2>1, SumOneMore
  <2>4. SumFunctionOnSet(g, T) = a * s /\ g[x] = a * b
    BY <1>2 DEF P
  <2> HIDE DEF s, b
  <2>5. a * (s + b) = a * s + a * b
    BY <2>2
  <2> QED BY <2>2, <2>3, <2>4, <2>5 DEF P, s, b
<1>3. S \in P
  <2> HIDE DEF P
  <2> QED BY <1>1, <1>2, SubsetInduction
<1> QED BY <1>3

LEMMA SumSame ==
  ASSUME NEW S, IsFiniteSet(S), NEW f, NEW g, \A x \in S : f[x] \in Nat,
         \A x \in S : g[x] = f[x]
  PROVE  SumFunctionOnSet(g, S) = SumFunctionOnSet(f, S)
<1>1. \A x \in S : f[x] \in Nat /\ g[x] \in Nat /\ f[x] <= g[x]
  OBVIOUS
<1>2. \A x \in S : g[x] \in Nat /\ f[x] \in Nat /\ g[x] <= f[x]
  OBVIOUS
<1>3. SumFunctionOnSet(f, S) <= SumFunctionOnSet(g, S)
  BY <1>1, SumMonotone
<1>4. SumFunctionOnSet(g, S) <= SumFunctionOnSet(f, S)
  BY <1>2, SumMonotone
<1>5. SumFunctionOnSet(f, S) \in Nat
  BY <1>1, SumType
<1>6. SumFunctionOnSet(g, S) \in Nat
  BY <1>2, SumType
<1> QED BY <1>3, <1>4, <1>5, <1>6

\* Summands of zero do not count.
LEMMA SumOfZeros ==
  ASSUME NEW S, IsFiniteSet(S), NEW f, \A x \in S : f[x] \in Nat,
         NEW T \in SUBSET S, \A x \in S \ T : f[x] = 0
  PROVE  SumFunctionOnSet(f, S) = SumFunctionOnSet(f, T)
<1> DEFINE R == S \ T
           P == {U \in SUBSET R : SumFunctionOnSet(f, T \cup U) = SumFunctionOnSet(f, T)}
<1>1. IsFiniteSet(R)
  BY FS_Subset
<1>2. {} \in P
  <2>1. T \cup {} = T
    OBVIOUS
  <2> QED BY <2>1
<1>3. ASSUME NEW U \in SUBSET R, NEW x \in R \ U, U \in P
      PROVE  U \cup {x} \in P
  <2> DEFINE V == T \cup U
  <2>1. V \cup {x} = T \cup (U \cup {x}) /\ f[x] = 0
    OBVIOUS
  <2>0. V \in SUBSET S /\ x \in S \ V
    OBVIOUS
  <2>2. SumFunctionOnSet(f, V) = SumFunctionOnSet(f, T)
    BY <1>3
  <2>3. U \cup {x} \in SUBSET R
    OBVIOUS
  <2> HIDE DEF V, R, P
  <2>4. /\ SumFunctionOnSet(f, V \cup {x}) = SumFunctionOnSet(f, V) + f[x]
        /\ SumFunctionOnSet(f, V) \in Nat
    BY <2>0, SumOneMore
  <2>5. SumFunctionOnSet(f, T \cup (U \cup {x})) = SumFunctionOnSet(f, V \cup {x})
    BY <2>1
  <2>6. SumFunctionOnSet(f, V \cup {x}) = SumFunctionOnSet(f, T)
    BY <2>1, <2>2, <2>4
  <2> QED BY <2>3, <2>5, <2>6 DEF P
<1>4. R \in P
  <2> HIDE DEF P, R
  <2> QED BY <1>1, <1>2, <1>3, SubsetInduction
<1>5. T \cup R = S
  OBVIOUS
<1> QED BY <1>4, <1>5

\* Summands none of which is larger, with the same sum, are the same.
LEMMA SumTight ==
  ASSUME NEW S, IsFiniteSet(S), NEW f, NEW g,
         \A x \in S : f[x] \in Nat, \A x \in S : g[x] \in Nat, \A x \in S : f[x] <= g[x],
         SumFunctionOnSet(g, S) <= SumFunctionOnSet(f, S), NEW x \in S
  PROVE  f[x] = g[x]
<1> DEFINE T == S \ {x}
<1>1. IsFiniteSet(T) /\ \A y \in T : f[y] \in Nat /\ g[y] \in Nat /\ f[y] <= g[y]
  BY FS_Subset
<1>2. SumFunctionOnSet(f, S) = f[x] + SumFunctionOnSet(f, T) /\ SumFunctionOnSet(f, T) \in Nat
  BY SumRemove
<1>3. SumFunctionOnSet(g, S) = g[x] + SumFunctionOnSet(g, T) /\ SumFunctionOnSet(g, T) \in Nat
  BY SumRemove
<1> HIDE DEF T
<1>4. SumFunctionOnSet(f, T) <= SumFunctionOnSet(g, T)
  BY <1>1, SumMonotone
<1>5. f[x] \in Nat /\ g[x] \in Nat /\ f[x] <= g[x]
  OBVIOUS
<1> QED BY <1>2, <1>3, <1>4, <1>5

\* The elements of I counted by what m says of each.
CountsOf(m, I, S) == [c \in S |-> Cardinality({i \in I : m[i] = c})]

LEMMA SumOfCounts ==
  ASSUME NEW S, IsFiniteSet(S), NEW I, IsFiniteSet(I), NEW m, \A i \in I : m[i] \in S
  PROVE  SumFunctionOnSet(CountsOf(m, I, S), S) = Cardinality(I)
<1> DEFINE f == CountsOf(m, I, S)
<1>0. \A c \in S : f[c] = Cardinality({i \in I : m[i] = c})
  BY DEF CountsOf
<1> HIDE DEF f
<1> DEFINE P == {T \in SUBSET S :
                   SumFunctionOnSet(f, T) = Cardinality({i \in I : m[i] \in T})}
<1>1. {} \in P
  <2>1. {i \in I : m[i] \in {}} = {}
    OBVIOUS
  <2> QED BY <2>1, SumEmpty, FS_EmptySet
<1>2. \A J \in SUBSET I : IsFiniteSet(J) /\ Cardinality(J) \in Nat
  BY FS_Subset, FS_CardinalityType
<1>3. \A c \in S : f[c] \in Nat
  BY <1>0, <1>2
<1>4. ASSUME NEW T \in SUBSET S, NEW x \in S \ T, T \in P
      PROVE  T \cup {x} \in P
  <2> DEFINE A == {i \in I : m[i] \in T}
             B == {i \in I : m[i] = x}
             C == {i \in I : m[i] \in T \cup {x}}
  <2>1. A \in SUBSET I /\ B \in SUBSET I /\ C = A \cup B /\ A \cap B = {}
    OBVIOUS
  <2>2. SumFunctionOnSet(f, T) = Cardinality(A) /\ f[x] = Cardinality(B)
    BY <1>0, <1>4
  <2>3. SumFunctionOnSet(f, T \cup {x}) = SumFunctionOnSet(f, T) + f[x]
    <3> HIDE DEF P
    <3> QED BY <1>3, SumOneMore
  <2> HIDE DEF A, B
  <2>4. Cardinality(A \cup B) = Cardinality(A) + Cardinality(B)
    <3>1. IsFiniteSet(A) /\ IsFiniteSet(B)
      BY <1>2, <2>1
    <3>2. Cardinality(A \cup B) = Cardinality(A) + Cardinality(B) - Cardinality(A \cap B)
      BY <3>1, FS_Union
    <3>3. Cardinality(A \cap B) = 0
      BY <2>1, FS_EmptySet
    <3>4. Cardinality(A) \in Nat /\ Cardinality(B) \in Nat
      BY <1>2, <2>1
    <3> QED BY <3>2, <3>3, <3>4
  <2>5. T \cup {x} \in SUBSET S
    OBVIOUS
  <2> QED BY <2>1, <2>2, <2>3, <2>4, <2>5
<1>5. S \in P
  <2> HIDE DEF P
  <2> QED BY <1>1, <1>4, SubsetInduction
<1>6. {i \in I : m[i] \in S} = I
  OBVIOUS
<1> QED BY <1>5, <1>6 DEF f
=============================================================================
