---------------------------- MODULE ReadApiProofs ----------------------------
(***************************************************************************)
(* Safety of ReadApi for whatever the crawlers capture, whatever Gemini    *)
(* reads off the slides and whatever a reader asks for.                    *)
(*                                                                         *)
(* The inductive invariant says what a snapshot is of: the first upTo      *)
(* observations of the lake and analyses of slides among them (MadeOf).    *)
(* A rebuild under way is a forest of parents whose roots are the classes  *)
(* connected by the links merged so far (Resolving), in whatever order the *)
(* projector goes through them, so that the persons it ends with are       *)
(* determined by the lake.  A reader in the middle of a list that was not  *)
(* rebuilt meanwhile has seen a beginning of it (Begins).                  *)
(*                                                                         *)
(* The definitions ReadApi is built from are recursive functions and folds *)
(* with no induction principle at hand: each is reasoned about by the      *)
(* least place where the claim would fail.                                 *)
(***************************************************************************)
EXTENDS ReadApi, FunctionTheorems, FiniteSetTheorems, SequenceTheorems, WellFoundedInduction, TLAPS

-----------------------------------------------------------------------------
(* Least and greatest of a set of naturals. *)
LEMMA MinIs ==
  ASSUME NEW S, S \subseteq Nat, S # {}
  PROVE  Min(S) \in S /\ \A t \in S : Min(S) <= t
<1> DEFINE R == OpToRel(<, Nat)
<1>1. IsWellFoundedOn(R, Nat)
  BY NatLessThanWellFounded
<1>2. \A x, y \in Nat : x < y => <<x, y>> \in R
  BY DEF OpToRel
<1> HIDE DEF R
<1>3. PICK x \in S : \A y \in S : ~ (<<y, x>> \in R)
  BY <1>1, WFMin
<1>4. \A y \in S : x \in Nat /\ y \in Nat /\ ~ (y < x)
  BY <1>2, <1>3
<1>5. \A y \in S : x <= y
  BY <1>4
<1> QED
  BY <1>3, <1>5 DEF Min

LEMMA MaxIs ==
  ASSUME NEW S, S \subseteq Nat, S # {}, NEW b \in Nat, \A t \in S : t <= b
  PROVE  Max(S) \in S /\ \A t \in S : t <= Max(S)
<1> DEFINE Bounds == {n \in Nat : \A t \in S : t <= n}
<1>1. Bounds \subseteq Nat /\ Bounds # {}
  OBVIOUS
<1>2. Min(Bounds) \in Bounds /\ \A n \in Bounds : Min(Bounds) <= n
  BY <1>1, MinIs
<1> DEFINE m == Min(Bounds)
<1>3. m \in Nat /\ \A t \in S : t <= m
  BY <1>2
<1>4. m \in S
  <2> SUFFICES ASSUME m \notin S PROVE FALSE
    OBVIOUS
  <2>1. PICK t \in S : TRUE
    OBVIOUS
  <2>2. m # 0 /\ m - 1 \in Nat
    <3> HIDE DEF m
    <3> QED
      BY <1>3, <2>1
  <2>3. \A u \in S : u <= m - 1
    <3> HIDE DEF m
    <3> QED
      BY <1>3, <2>2
  <2>4. m - 1 \in Bounds
    BY <2>2, <2>3
  <2> QED
    BY <1>2, <1>3, <2>4
<1> HIDE DEF m
<1>5. \A t \in S : m >= t
  BY <1>3
<1> QED
  BY <1>3, <1>4, <1>5 DEF Max

LEMMA FewerIs ==
  ASSUME NEW A, NEW B, IsFiniteSet(B), A \subseteq B
  PROVE  /\ Cardinality(A) \in Nat /\ Cardinality(B) \in Nat
         /\ Cardinality(A) <= Cardinality(B)
         /\ A # B => Cardinality(A) < Cardinality(B)
<1>1. IsFiniteSet(A) /\ Cardinality(A) <= Cardinality(B) /\ (Cardinality(A) = Cardinality(B) => A = B)
  BY FS_Subset
<1>2. Cardinality(A) \in Nat /\ Cardinality(B) \in Nat
  BY <1>1, FS_CardinalityType
<1> QED
  BY <1>1, <1>2

-----------------------------------------------------------------------------
(* What is sorted by a strict total order has every element once, in order. *)
LEMMA SortedIs ==
  ASSUME NEW S, IsFiniteSet(S), NEW R,
         \A x \in S : <<x, x>> \notin R,
         \A x, y \in S : x # y => <<x, y>> \in R \/ <<y, x>> \in R,
         \A x, y, z \in S : <<x, y>> \in R /\ <<y, z>> \in R => <<x, z>> \in R
  PROVE  /\ Cardinality(S) \in Nat
         /\ Sorted(S, R) \in [1..Cardinality(S) -> S]
         /\ \A x \in S : \E i \in 1..Cardinality(S) : Sorted(S, R)[i] = x
         /\ \A i, j \in 1..Cardinality(S) :
              i < j <=> <<Sorted(S, R)[i], Sorted(S, R)[j]>> \in R
         /\ \A i, j \in 1..Cardinality(S) : Sorted(S, R)[i] = Sorted(S, R)[j] => i = j
<1> DEFINE n == Cardinality(S)
           Before(x) == {y \in S : <<y, x>> \in R}
           rank == [x \in S |-> Cardinality(Before(x)) + 1]
<1>1. n \in Nat
  BY FS_CardinalityType
<1>2. ASSUME NEW x \in S
      PROVE  Cardinality(Before(x)) \in 0..(n - 1) /\ rank[x] = Cardinality(Before(x)) + 1
  <2>1. Before(x) \subseteq S /\ Before(x) # S
    OBVIOUS
  <2> HIDE DEF Before
  <2>2. Cardinality(Before(x)) \in Nat /\ Cardinality(Before(x)) < n
    BY <2>1, FewerIs
  <2>3. Cardinality(Before(x)) \in 0..(n - 1)
    BY <1>1, <2>2
  <2> QED
    BY <2>3
<1>3. rank \in [S -> 1..n]
  <2> HIDE DEF Before, n
  <2>1. ASSUME NEW x \in S PROVE Cardinality(Before(x)) + 1 \in 1..n
    BY <1>1, <1>2
  <2> QED
    BY <2>1
<1>4. ASSUME NEW x \in S, NEW y \in S, <<x, y>> \in R
      PROVE  rank[x] < rank[y]
  <2>1. Before(x) \subseteq Before(y) /\ Before(x) # Before(y) /\ Before(y) \subseteq S
    BY <1>4
  <2>2. IsFiniteSet(Before(y))
    BY <2>1, FS_Subset
  <2> HIDE DEF Before
  <2>3. Cardinality(Before(x)) \in Nat /\ Cardinality(Before(y)) \in Nat
          /\ Cardinality(Before(x)) < Cardinality(Before(y))
    BY <2>1, <2>2, FewerIs
  <2> QED
    BY <2>3
<1> HIDE DEF rank
<1>5. ASSUME NEW x \in S, NEW y \in S, x # y
      PROVE  rank[x] # rank[y]
  <2>1. rank[x] \in Nat /\ rank[y] \in Nat
    BY <1>3
  <2>2. rank[x] < rank[y] \/ rank[y] < rank[x]
    BY <1>4, <1>5
  <2> QED
    BY <2>1, <2>2
<1>6. rank \in Surjection(S, 1..n)
  <2>1. rank \in Injection(S, 1..n)
    BY <1>3, <1>5, Fun_IsInj
  <2>2. IsFiniteSet(1..n) /\ Cardinality(1..n) = n
    BY <1>1, FS_Interval
  <2> QED
    BY <2>1, <2>2, FS_Injection
<1>7. \A i \in 1..n : \E x \in S : rank[x] = i
  BY <1>6, Fun_SurjectionProperties
<1> DEFINE s == Sorted(S, R)
<1>8. ASSUME NEW i \in 1..n
      PROVE  s[i] \in S /\ rank[s[i]] = i
  <2> DEFINE Is(x) == Cardinality(Before(x)) = i - 1
  <2>1. PICK x \in S : rank[x] = i
    BY <1>7
  <2>2. Is(x)
    BY <1>1, <1>2, <2>1
  <2>3. s[i] = CHOOSE y \in S : Is(y)
    BY DEF Sorted
  <2> HIDE DEF Is
  <2>4. s[i] \in S /\ Is(s[i])
    BY <2>2, <2>3
  <2>5. Cardinality(Before(s[i])) = i - 1
    BY <2>4 DEF Is
  <2> HIDE DEF Before, s
  <2> QED
    BY <1>1, <1>2, <2>4, <2>5
<1>9. s \in [1..n -> S]
  <2> DEFINE at(i) == CHOOSE x \in S : Cardinality(Before(x)) = i - 1
  <2>1. s = [i \in 1..n |-> at(i)]
    BY DEF Sorted
  <2> HIDE DEF s, at
  <2> QED
    BY <1>8, <2>1
<1> HIDE DEF s
<1>10. \A x \in S : s[rank[x]] = x /\ rank[x] \in 1..n
  BY <1>3, <1>5, <1>8
<1>11. ASSUME NEW i \in 1..n, NEW j \in 1..n
       PROVE  i < j <=> <<s[i], s[j]>> \in R
  <2>1. s[i] \in S /\ s[j] \in S /\ rank[s[i]] = i /\ rank[s[j]] = j
    BY <1>8
  <2>2. <<s[i], s[j]>> \in R => i < j
    BY <1>4, <2>1
  <2>3. <<s[j], s[i]>> \in R => j < i
    BY <1>4, <2>1
  <2>4. i < j => s[i] # s[j] /\ ~ (j < i)
    BY <1>1, <2>1
  <2> QED
    BY <2>1, <2>2, <2>3, <2>4
<1>12. \A i, j \in 1..n : s[i] = s[j] => i = j
  BY <1>8
<1> HIDE DEF n
<1> QED
  BY <1>1, <1>9, <1>10, <1>11, <1>12 DEF s, n

LEMMA AscendingIs ==
  ASSUME NEW S, IsFiniteSet(S), S \subseteq Nat
  PROVE  /\ Cardinality(S) \in Nat
         /\ Ascending(S) \in [1..Cardinality(S) -> S]
         /\ \A x \in S : \E i \in 1..Cardinality(S) : Ascending(S)[i] = x
         /\ \A i, j \in 1..Cardinality(S) : i < j => Ascending(S)[i] < Ascending(S)[j]
<1> DEFINE R == {p \in S \X S : p[1] < p[2]}
<1>1. \A x, y \in S : <<x, y>> \in R <=> x < y
  OBVIOUS
<1>2. Ascending(S) = Sorted(S, R)
  BY DEF Ascending
<1> HIDE DEF R
<1>3. /\ \A x \in S : <<x, x>> \notin R
      /\ \A x, y \in S : x # y => <<x, y>> \in R \/ <<y, x>> \in R
      /\ \A x, y, z \in S : <<x, y>> \in R /\ <<y, z>> \in R => <<x, z>> \in R
  BY <1>1
<1> DEFINE s == Sorted(S, R)
<1>4. /\ Cardinality(S) \in Nat
      /\ s \in [1..Cardinality(S) -> S]
      /\ \A x \in S : \E i \in 1..Cardinality(S) : s[i] = x
      /\ \A i, j \in 1..Cardinality(S) : i < j <=> <<s[i], s[j]>> \in R
  BY <1>3, SortedIs
<1> HIDE DEF s
<1> QED
  BY <1>1, <1>2, <1>4 DEF s

LEMMA UptoIsFinite ==
  ASSUME NEW n \in Nat, NEW S \in SUBSET (1..n)
  PROVE  IsFiniteSet(S) /\ S \subseteq Nat
<1>1. IsFiniteSet(1..n) /\ 1..n \subseteq Nat
  BY FS_Interval
<1>2. IsFiniteSet(S)
  BY <1>1, FS_Subset
<1> QED
  BY <1>1, <1>2

-----------------------------------------------------------------------------
(* FlattenSeq has what its sequences have, and nothing else. *)
Flattens(ss, n, f) ==
  f = [i \in 1..n |-> IF i = 1 THEN ss[i] ELSE f[i - 1] \o ss[i]]

LEMMA FlatteningExists ==
  ASSUME NEW ss, NEW n \in Nat
  PROVE  \E f : Flattens(ss, n, f)
<1> DEFINE Missing == {k \in Nat : ~ \E f : Flattens(ss, k, f)}
<1> SUFFICES ASSUME Missing # {} PROVE FALSE
  OBVIOUS
<1> DEFINE m == Min(Missing)
<1>1. m \in Missing /\ \A k \in Missing : m <= k
  BY MinIs
<1>2. m # 0
  <2>1. Flattens(ss, 0, [i \in 1..0 |-> 0])
    BY DEF Flattens
  <2> QED
    BY <1>1, <2>1
<1> HIDE DEF m
<1>3. m - 1 \in Nat /\ m \in Nat /\ m - 1 \notin Missing
  BY <1>1, <1>2
<1>4. PICK f : Flattens(ss, m - 1, f)
  BY <1>3
<1> DEFINE last == IF m = 1 THEN ss[m] ELSE f[m - 1] \o ss[m]
           g == [i \in 1..m |-> IF i = m THEN last ELSE f[i]]
<1>5. ASSUME NEW i \in 1..m
      PROVE  g[i] = IF i = 1 THEN ss[i] ELSE g[i - 1] \o ss[i]
  <2>1. CASE i = m
    BY <1>3, <2>1
  <2>2. CASE i # m
    <3>1. i \in 1..(m - 1) /\ (i # 1 => i - 1 \in 1..m /\ i - 1 # m)
      BY <1>3, <2>2
    <3>2. f[i] = IF i = 1 THEN ss[i] ELSE f[i - 1] \o ss[i]
      BY <1>4, <3>1 DEF Flattens
    <3> QED
      BY <2>2, <3>1, <3>2
  <2> QED
    BY <2>1, <2>2
<1>6. DOMAIN g = 1..m /\ g = [i \in 1..m |-> g[i]]
  OBVIOUS
<1> HIDE DEF g
<1>7. g = [i \in 1..m |-> IF i = 1 THEN ss[i] ELSE g[i - 1] \o ss[i]]
  BY <1>5, <1>6
<1> QED
  BY <1>1, <1>7 DEF Flattens

LEMMA ConcatHas ==
  ASSUME NEW S, NEW a \in Seq(S), NEW b \in Seq(S)
  PROVE  /\ a \o b \in Seq(S)
         /\ \A i \in DOMAIN a : i \in DOMAIN (a \o b) /\ (a \o b)[i] = a[i]
         /\ \A i \in DOMAIN b : \E k \in DOMAIN (a \o b) : (a \o b)[k] = b[i]
<1> DEFINE c == a \o b
<1>1. /\ Len(a) \in Nat /\ DOMAIN a = 1..Len(a)
      /\ Len(b) \in Nat /\ DOMAIN b = 1..Len(b)
  BY LenProperties
<1>2. /\ c \in Seq(S) /\ Len(c) = Len(a) + Len(b)
      /\ \A i \in 1..Len(a) + Len(b) : c[i] = IF i <= Len(a) THEN a[i] ELSE b[i - Len(a)]
  BY ConcatProperties
<1>3. DOMAIN c = 1..Len(c)
  BY <1>2, LenProperties
<1> HIDE DEF c
<1>4. \A i \in DOMAIN a : i \in DOMAIN c /\ c[i] = a[i]
  BY <1>1, <1>2, <1>3
<1>5. ASSUME NEW i \in DOMAIN b
      PROVE  Len(a) + i \in DOMAIN c /\ c[Len(a) + i] = b[i]
  BY <1>1, <1>2, <1>3
<1> QED
  BY <1>2, <1>4, <1>5 DEF c

LEMMA FlattenIs ==
  ASSUME NEW S, NEW ss \in Seq(Seq(S))
  PROVE  /\ FlattenSeq(ss) \in Seq(S)
         /\ \A i \in DOMAIN ss : \A j \in DOMAIN ss[i] :
              \E k \in DOMAIN FlattenSeq(ss) : FlattenSeq(ss)[k] = ss[i][j]
         /\ Len(ss) = 1 => FlattenSeq(ss) = ss[1]
<1> DEFINE n == Len(ss)
<1>1. n \in Nat /\ DOMAIN ss = 1..n /\ \A i \in 1..n : ss[i] \in Seq(S)
  BY LenProperties
<1>2. CASE n = 0
  <2>1. FlattenSeq(ss) = ss /\ ss = <<>>
    BY <1>2, EmptySeq DEF FlattenSeq
  <2> QED
    BY <1>1, <1>2, <2>1
<1>3. CASE n # 0
  <2> DEFINE f == CHOOSE f : Flattens(ss, n, f)
  <2>1. Flattens(ss, n, f)
    BY <1>1, FlatteningExists
  <2>2. FlattenSeq(ss) = f[n]
    BY <1>3, Zenon DEF FlattenSeq, Flattens
  <2> HIDE DEF f
  <2>3. \A i \in 1..n : f[i] = IF i = 1 THEN ss[i] ELSE f[i - 1] \o ss[i]
    BY <2>1 DEF Flattens
  <2> DEFINE Has(i) ==
        /\ f[i] \in Seq(S)
        /\ \A a \in 1..i : \A j \in DOMAIN ss[a] : \E k \in DOMAIN f[i] : f[i][k] = ss[a][j]
             Wrong == {i \in 1..n : ~ Has(i)}
  <2> HIDE DEF n
  <2>4. Wrong = {}
    <3> SUFFICES ASSUME Wrong # {} PROVE FALSE
      OBVIOUS
    <3> DEFINE m == Min(Wrong)
    <3>1. m \in Wrong /\ \A k \in Wrong : m <= k
      <4>1. Wrong \subseteq Nat
        BY <1>1
      <4> HIDE DEF Wrong
      <4> QED
        BY <4>1, MinIs
    <3> HIDE DEF m, Has
    <3>2. m \in 1..n /\ ~ Has(m)
      BY <3>1
    <3>3. CASE m = 1
      <4>1. f[m] = ss[1]
        BY <2>3, <3>2, <3>3
      <4>2. Has(m)
        BY <1>1, <3>2, <3>3, <4>1 DEF Has
      <4> QED
        BY <3>2, <4>2
    <3>4. CASE m # 1
      <4>1. m - 1 \in 1..n /\ m - 1 \notin Wrong
        BY <1>1, <3>1, <3>2, <3>4
      <4>2. Has(m - 1)
        BY <4>1
      <4>3. f[m] = f[m - 1] \o ss[m] /\ f[m - 1] \in Seq(S) /\ ss[m] \in Seq(S)
        BY <1>1, <2>3, <3>2, <3>4, <4>2 DEF Has
      <4>4. /\ f[m] \in Seq(S)
            /\ \A i \in DOMAIN f[m - 1] : i \in DOMAIN f[m] /\ f[m][i] = f[m - 1][i]
            /\ \A i \in DOMAIN ss[m] : \E k \in DOMAIN f[m] : f[m][k] = ss[m][i]
        <5> DEFINE before == f[m - 1]
                   last == ss[m]
        <5>1. before \in Seq(S) /\ last \in Seq(S) /\ f[m] = before \o last
          BY <4>3
        <5> HIDE DEF before, last
        <5>2. /\ f[m] \in Seq(S)
              /\ \A i \in DOMAIN before : i \in DOMAIN f[m] /\ f[m][i] = before[i]
              /\ \A i \in DOMAIN last : \E k \in DOMAIN f[m] : f[m][k] = last[i]
          BY <5>1, ConcatHas
        <5> QED
          BY <5>2 DEF before, last
      <4>5. ASSUME NEW a \in 1..m, NEW j \in DOMAIN ss[a]
            PROVE  \E k \in DOMAIN f[m] : f[m][k] = ss[a][j]
        <5>1. CASE a = m
          BY <4>4, <5>1
        <5>2. CASE a # m
          <6>1. a \in 1..(m - 1)
            BY <3>2, <5>2
          <6> QED
            BY <4>2, <4>4, <6>1 DEF Has
        <5> QED
          BY <5>1, <5>2
      <4>6. Has(m)
        BY <4>4, <4>5 DEF Has
      <4> QED
        BY <3>2, <4>6
    <3> QED
      BY <3>3, <3>4
  <2>5. n \in 1..n /\ Has(n)
    <3>1. n \in 1..n
      BY <1>1, <1>3
    <3> HIDE DEF Has
    <3> QED
      BY <2>4, <3>1
  <2>6. n = 1 => f[n] = ss[1]
    BY <2>3, <2>5
  <2> QED
    BY <1>1, <2>2, <2>5, <2>6 DEF n
<1> QED
  BY <1>2, <1>3

-----------------------------------------------------------------------------
(* A parent array is a forest: root says where every walk ends, depth that it does. *)
Forest(n, parent, root, depth) ==
  /\ parent \in [1..n -> 1..n] /\ root \in [1..n -> 1..n] /\ depth \in [1..n -> Nat]
  /\ \A x \in 1..n : parent[root[x]] = root[x]
  /\ \A x \in 1..n : parent[x] = x => root[x] = x
  /\ \A x \in 1..n : parent[x] # x => root[x] = root[parent[x]] /\ depth[parent[x]] < depth[x]

Places(n) == [parent : [1..n -> 1..n], root : 1..n]

Walks(n, walk) ==
  walk = [at \in Places(n) |-> IF at.parent[at.root] = at.root THEN at ELSE walk[Halved(at)]]

LEMMA ArrayIs ==
  ASSUME NEW n \in Nat, NEW p \in [1..n -> 1..n]
  PROVE  p \in Seq(1..n) /\ Len(p) = n
<1>1. p \in Seq(1..n)
  BY SeqDef
<1>2. Len(p) \in Nat /\ DOMAIN p = 1..Len(p)
  BY <1>1, LenProperties
<1>3. DOMAIN p = 1..n
  OBVIOUS
<1> QED
  BY <1>1, <1>2, <1>3

LEMMA HalvedIs ==
  ASSUME NEW n \in Nat, NEW at \in Places(n)
  PROVE  Halved(at) \in Places(n)
BY DEF Halved, Places

(* Halving the path moves nobody to another root, and comes nearer to it. *)
LEMMA HalvedKeepsRoots ==
  ASSUME NEW n \in Nat, NEW at \in Places(n), NEW root, NEW depth,
         Forest(n, at.parent, root, depth), at.parent[at.root] # at.root
  PROVE  /\ Halved(at) \in Places(n)
         /\ Forest(n, Halved(at).parent, root, depth)
         /\ root[Halved(at).root] = root[at.root]
         /\ depth[Halved(at).root] < depth[at.root]
<1> DEFINE p == at.parent
           y == at.root
           q == Halved(at).parent
           g == p[p[y]]
<1>1. p \in [1..n -> 1..n] /\ y \in 1..n
  BY DEF Places
<1>2. Halved(at) \in Places(n) /\ q = [p EXCEPT ![y] = g] /\ Halved(at).root = g
  BY HalvedIs DEF Halved
<1>3. /\ root \in [1..n -> 1..n] /\ depth \in [1..n -> Nat]
      /\ \A x \in 1..n : p[root[x]] = root[x]
      /\ \A x \in 1..n : p[x] = x => root[x] = x
      /\ \A x \in 1..n : p[x] # x => root[x] = root[p[x]] /\ depth[p[x]] < depth[x]
      /\ p[y] # y
  BY DEF Forest
<1> HIDE DEF p, y, q
<1>4. g \in 1..n /\ p[y] \in 1..n
  BY <1>1
<1>5. root[p[y]] = root[y] /\ depth[p[y]] < depth[y]
  BY <1>1, <1>3
<1>6. root[g] = root[y] /\ depth[g] < depth[y]
  <2>1. CASE p[p[y]] = p[y]
    BY <1>5, <2>1
  <2>2. CASE p[p[y]] # p[y]
    <3>1. root[p[y]] = root[g] /\ depth[g] < depth[p[y]]
      BY <1>3, <1>4, <2>2
    <3>2. depth[g] \in Nat /\ depth[p[y]] \in Nat /\ depth[y] \in Nat
      BY <1>1, <1>3, <1>4
    <3> HIDE DEF g
    <3> QED
      BY <1>5, <3>1, <3>2
  <2> QED
    BY <2>1, <2>2
<1> HIDE DEF g
<1>7. q \in [1..n -> 1..n] /\ q[y] = g /\ \A x \in 1..n : x # y => q[x] = p[x]
  BY <1>1, <1>2, <1>4
<1>8. g # y
  <2>1. depth[y] \in Nat
    BY <1>1, <1>3
  <2> QED
    BY <1>6, <2>1
<1>9. ASSUME NEW x \in 1..n
      PROVE  /\ q[root[x]] = root[x]
             /\ q[x] = x => root[x] = x
             /\ q[x] # x => root[x] = root[q[x]] /\ depth[q[x]] < depth[x]
  <2>1. root[x] \in 1..n /\ p[root[x]] = root[x] /\ root[x] # y
    BY <1>3
  <2>2. CASE x = y
    BY <1>6, <1>7, <1>8, <2>1, <2>2
  <2>3. CASE x # y
    <3>1. q[x] = p[x]
      BY <1>7, <2>3
    <3> QED
      BY <1>3, <1>7, <2>1, <3>1
  <2> QED
    BY <2>2, <2>3
<1>10. Forest(n, q, root, depth)
  BY <1>3, <1>7, <1>9 DEF Forest
<1> QED
  BY <1>2, <1>6, <1>10 DEF q, y

(* A path of k steps from at to the root it ends in. *)
PathTo(n, at, k, s) ==
  /\ s \in [1..k -> Places(n)] /\ s[1] = at
  /\ \A i \in 1..(k - 1) : s[i].parent[s[i].root] # s[i].root /\ s[i + 1] = Halved(s[i])
  /\ s[k].parent[s[k].root] = s[k].root

Ends(n, at) == {e \in Places(n) : \E k \in Nat \ {0} : \E s : PathTo(n, at, k, s) /\ s[k] = e}

LEMMA EndsAreUnchanged ==
  ASSUME NEW n \in Nat, NEW at \in Places(n), at.parent[at.root] # at.root
  PROVE  Ends(n, at) = Ends(n, Halved(at))
<1>1. Halved(at) \in Places(n)
  BY HalvedIs
<1>2. ASSUME NEW k \in Nat \ {0}, NEW s, PathTo(n, at, k, s)
      PROVE  s[k] \in Ends(n, Halved(at))
  <2> DEFINE t == [i \in 1..(k - 1) |-> s[i + 1]]
  <2>1. k # 1
    BY <1>2 DEF PathTo
  <2>2. k - 1 \in Nat \ {0}
    BY <2>1
  <2>3. t \in [1..(k - 1) -> Places(n)] /\ \A i \in 1..(k - 1) : t[i] = s[i + 1]
    <3>1. \A i \in 1..(k - 1) : i + 1 \in 1..k
      OBVIOUS
    <3> QED
      BY <1>2, <3>1 DEF PathTo
  <2> HIDE DEF t
  <2>4. t[1] = Halved(at)
    BY <1>2, <2>2, <2>3 DEF PathTo
  <2>5. ASSUME NEW i \in 1..(k - 2)
        PROVE  t[i].parent[t[i].root] # t[i].root /\ t[i + 1] = Halved(t[i])
    <3>1. i + 1 \in 1..(k - 1) /\ i \in 1..(k - 1)
      BY <2>2
    <3>2. t[i] = s[i + 1] /\ t[i + 1] = s[(i + 1) + 1]
      BY <2>3, <3>1
    <3> QED
      BY <1>2, <3>1, <3>2 DEF PathTo
  <2>6. t[k - 1] = s[k]
    BY <2>2, <2>3
  <2>7. PathTo(n, Halved(at), k - 1, t) /\ s[k] \in Places(n)
    <3>1. (k - 1) - 1 = k - 2 /\ k \in 1..k
      OBVIOUS
    <3> QED
      BY <1>2, <2>3, <2>4, <2>5, <2>6, <3>1 DEF PathTo
  <2> QED
    BY <2>2, <2>6, <2>7 DEF Ends
<1>3. ASSUME NEW k \in Nat \ {0}, NEW s, PathTo(n, Halved(at), k, s)
      PROVE  s[k] \in Ends(n, at)
  <2> DEFINE t == [i \in 1..(k + 1) |-> IF i = 1 THEN at ELSE s[i - 1]]
  <2>1. \A i \in 1..(k + 1) : i # 1 => i - 1 \in 1..k
    OBVIOUS
  <2>2. t \in [1..(k + 1) -> Places(n)]
    BY <1>3, <2>1 DEF PathTo
  <2>3. t[1] = at /\ \A i \in 2..(k + 1) : t[i] = s[i - 1]
    OBVIOUS
  <2> HIDE DEF t
  <2>4. t[k + 1] = s[k] /\ t[2] = s[1]
    BY <2>3
  <2>5. ASSUME NEW i \in 1..k
        PROVE  t[i].parent[t[i].root] # t[i].root /\ t[i + 1] = Halved(t[i])
    <3>1. CASE i = 1
      BY <1>3, <2>3, <2>4, <3>1 DEF PathTo
    <3>2. CASE i # 1
      <4>1. i - 1 \in 1..(k - 1) /\ i \in 2..(k + 1) /\ i + 1 \in 2..(k + 1)
        BY <3>2
      <4>2. t[i] = s[i - 1] /\ t[i + 1] = s[(i - 1) + 1]
        BY <2>3, <4>1
      <4> QED
        BY <1>3, <4>1, <4>2 DEF PathTo
    <3> QED
      BY <3>1, <3>2
  <2>6. PathTo(n, at, k + 1, t) /\ s[k] \in Places(n)
    <3>1. (k + 1) - 1 = k /\ k \in 1..k
      OBVIOUS
    <3> QED
      BY <1>3, <2>2, <2>3, <2>4, <2>5, <3>1 DEF PathTo
  <2>7. k + 1 \in Nat \ {0}
    OBVIOUS
  <2> QED
    BY <2>4, <2>6, <2>7 DEF Ends
<1>4. ASSUME NEW e \in Ends(n, at) PROVE e \in Ends(n, Halved(at))
  BY <1>2 DEF Ends
<1>5. ASSUME NEW e \in Ends(n, Halved(at)) PROVE e \in Ends(n, at)
  BY <1>3 DEF Ends
<1> QED
  BY <1>4, <1>5

LEMMA RootEndsItself ==
  ASSUME NEW n \in Nat, NEW at \in Places(n), at.parent[at.root] = at.root
  PROVE  Ends(n, at) = {at}
<1>1. PathTo(n, at, 1, [i \in 1..1 |-> at])
  BY DEF PathTo
<1>2. at \in Ends(n, at)
  BY <1>1 DEF Ends
<1>3. ASSUME NEW k \in Nat \ {0}, NEW s, PathTo(n, at, k, s)
      PROVE  s[k] = at
  <2>1. ~ (1 \in 1..(k - 1))
    BY <1>3 DEF PathTo
  <2>2. k = 1
    BY <2>1
  <2> QED
    BY <1>3, <2>2 DEF PathTo
<1> QED
  BY <1>2, <1>3 DEF Ends

(* The recursive function of Find is there, also on arrays that are no forests. *)
LEMMA WalkExists ==
  ASSUME NEW n \in Nat
  PROVE  \E walk : Walks(n, walk)
<1> DEFINE end(at) == CHOOSE e : Ends(n, at) = {} \/ e \in Ends(n, at)
           walk == [at \in Places(n) |-> end(at)]
<1>1. ASSUME NEW at \in Places(n)
      PROVE  walk[at] = IF at.parent[at.root] = at.root THEN at ELSE walk[Halved(at)]
  <2>1. CASE at.parent[at.root] = at.root
    BY <2>1, RootEndsItself
  <2>2. CASE at.parent[at.root] # at.root
    BY <2>2, HalvedIs, EndsAreUnchanged
  <2> QED
    BY <2>1, <2>2
<1>2. walk = [at \in Places(n) |-> walk[at]]
  OBVIOUS
<1> HIDE DEF walk
<1>3. walk = [at \in Places(n) |-> IF at.parent[at.root] = at.root THEN at ELSE walk[Halved(at)]]
  BY <1>1, <1>2
<1> QED
  BY <1>3 DEF Walks

(* Find answers the root, and leaves a forest with the same roots. *)
LEMMA FindIs ==
  ASSUME NEW n \in Nat, NEW p, NEW root, NEW depth, Forest(n, p, root, depth), NEW x \in 1..n
  PROVE  /\ Find(p, x) \in Places(n) /\ Find(p, x).root = root[x]
         /\ Forest(n, Find(p, x).parent, root, depth)
<1> DEFINE walk == CHOOSE walk : Walks(n, walk)
           start == [parent |-> p, root |-> x]
           Found(at) == /\ walk[at] \in Places(n) /\ walk[at].root = root[at.root]
                        /\ Forest(n, walk[at].parent, root, depth)
           Near(d) == {at \in Places(n) : Forest(n, at.parent, root, depth) /\ depth[at.root] = d}
           Wrong == {d \in Nat : \E at \in Near(d) : ~ Found(at)}
<1>1. p \in [1..n -> 1..n] /\ Len(p) = n
  BY ArrayIs DEF Forest
<1>2. Walks(n, walk)
  BY WalkExists
<1>3. Find(p, x) = walk[start]
  BY <1>1, Zenon DEF Find, Walks, Places
<1> HIDE DEF walk
<1>4. \A at \in Places(n) :
        walk[at] = IF at.parent[at.root] = at.root THEN at ELSE walk[Halved(at)]
  BY <1>2 DEF Walks
<1>5. Wrong = {}
  <2> SUFFICES ASSUME Wrong # {} PROVE FALSE
    OBVIOUS
  <2> DEFINE m == Min(Wrong)
  <2>1. m \in Wrong /\ \A k \in Wrong : m <= k
    <3>1. Wrong \subseteq Nat
      OBVIOUS
    <3> HIDE DEF Wrong
    <3> QED
      BY <3>1, MinIs
  <2> HIDE DEF m, Found
  <2>2. PICK at \in Near(m) : ~ Found(at)
    BY <2>1
  <2>3. at \in Places(n) /\ Forest(n, at.parent, root, depth) /\ depth[at.root] = m /\ m \in Nat
    BY <2>1, <2>2
  <2>4. CASE at.parent[at.root] = at.root
    <3>1. walk[at] = at /\ root[at.root] = at.root
      BY <1>4, <2>3, <2>4 DEF Forest, Places
    <3> QED
      BY <2>2, <2>3, <3>1 DEF Found
  <2>5. CASE at.parent[at.root] # at.root
    <3> DEFINE next == Halved(at)
    <3>1. walk[at] = walk[next]
      BY <1>4, <2>3, <2>5
    <3>2. /\ next \in Places(n) /\ Forest(n, next.parent, root, depth)
          /\ root[next.root] = root[at.root] /\ depth[next.root] < m
      BY <2>3, <2>5, HalvedKeepsRoots
    <3> HIDE DEF next
    <3>3. depth[next.root] \in Nat
      BY <3>2 DEF Forest, Places
    <3>4. ~ (m <= depth[next.root])
      BY <2>3, <3>2, <3>3
    <3>5. depth[next.root] \notin Wrong
      BY <2>1, <3>4
    <3>6. Found(next)
      BY <3>2, <3>3, <3>5
    <3> QED
      BY <2>2, <3>1, <3>2, <3>6 DEF Found
  <2> QED
    BY <2>4, <2>5
<1>6. start \in Places(n) /\ start.parent = p /\ start.root = x
  BY <1>1 DEF Places
<1> HIDE DEF start
<1>7. depth[x] \in Nat /\ start \in Near(depth[x])
  BY <1>6 DEF Forest
<1>8. Found(start)
  <2> HIDE DEF Found, Near
  <2> QED
    BY <1>5, <1>7
<1> QED
  BY <1>3, <1>6, <1>8

(* Merging gives the members of b's class the root of a, and moves nobody else. *)
Joined(n, root, a, b) == [x \in 1..n |-> IF root[x] = root[b] THEN root[a] ELSE root[x]]

LEMMA MergedIs ==
  ASSUME NEW n \in Nat, NEW p, NEW root, NEW depth, Forest(n, p, root, depth),
         NEW a \in 1..n, NEW b \in 1..n
  PROVE  \E deeper : Forest(n, Merged(p, a, b), Joined(n, root, a, b), deeper)
<1> DEFINE left == Find(p, a)
           right == Find(left.parent, b)
           joined == Joined(n, root, a, b)
<1>1. left.root = root[a] /\ Forest(n, left.parent, root, depth)
  BY FindIs
<1>2. right.root = root[b] /\ Forest(n, right.parent, root, depth)
  BY <1>1, FindIs
<1>3. Merged(p, a, b) = IF left.root = right.root THEN right.parent
                        ELSE [right.parent EXCEPT ![right.root] = left.root]
  BY DEF Merged
<1> HIDE DEF left, right
<1> DEFINE q == right.parent
           ra == root[a]
           rb == root[b]
<1>4. /\ q \in [1..n -> 1..n] /\ root \in [1..n -> 1..n] /\ depth \in [1..n -> Nat]
      /\ \A x \in 1..n : q[root[x]] = root[x]
      /\ \A x \in 1..n : q[x] = x => root[x] = x
      /\ \A x \in 1..n : q[x] # x => root[x] = root[q[x]] /\ depth[q[x]] < depth[x]
      /\ ra \in 1..n /\ rb \in 1..n
  BY <1>2 DEF Forest
<1>5. CASE ra = rb
  <2>1. Merged(p, a, b) = q
    BY <1>1, <1>2, <1>3, <1>5
  <2>2. joined = root
    BY <1>4, <1>5 DEF Joined
  <2>3. Forest(n, Merged(p, a, b), joined, depth)
    BY <1>2, <2>1, <2>2
  <2> QED
    BY <2>3
<1>6. CASE ra # rb
  <2> DEFINE t == [q EXCEPT ![rb] = ra]
             deeper == [x \in 1..n |-> IF root[x] = rb THEN depth[x] + depth[ra] + 1 ELSE depth[x]]
  <2>1. Merged(p, a, b) = t
    BY <1>1, <1>2, <1>3, <1>6
  <2>2. /\ q[ra] = ra /\ q[rb] = rb
        /\ root[ra] = ra /\ root[rb] = rb
    BY <1>4
  <2>3. /\ joined \in [1..n -> 1..n]
        /\ \A x \in 1..n : joined[x] = IF root[x] = rb THEN ra ELSE root[x]
    BY <1>4 DEF Joined
  <2>4. /\ t \in [1..n -> 1..n] /\ t[rb] = ra
        /\ \A x \in 1..n : x # rb => t[x] = q[x]
    BY <1>4
  <2>5. /\ deeper \in [1..n -> Nat]
        /\ \A x \in 1..n : deeper[x] = IF root[x] = rb THEN depth[x] + depth[ra] + 1 ELSE depth[x]
    <3> HIDE DEF q, ra, rb, joined, t
    <3>1. \A x \in 1..n : depth[x] \in Nat /\ depth[x] + depth[ra] + 1 \in Nat
      BY <1>4
    <3> QED
      BY <3>1
  <2> HIDE DEF q, ra, rb, joined, t, deeper
  <2>6. ASSUME NEW x \in 1..n
        PROVE  /\ t[joined[x]] = joined[x]
               /\ t[x] = x => joined[x] = x
               /\ t[x] # x => joined[x] = joined[t[x]] /\ deeper[t[x]] < deeper[x]
    <3>1. t[joined[x]] = joined[x]
      <4>1. CASE root[x] = rb
        BY <1>4, <1>6, <2>2, <2>3, <2>4, <4>1
      <4>2. CASE root[x] # rb
        <5>1. root[x] \in 1..n /\ q[root[x]] = root[x]
          BY <1>4
        <5> QED
          BY <2>3, <2>4, <4>2, <5>1
      <4> QED
        BY <4>1, <4>2
    <3>2. CASE x = rb
      <4>1. t[x] = ra /\ joined[x] = ra /\ joined[ra] = ra
        BY <1>4, <1>6, <2>2, <2>3, <2>4, <3>2
      <4>2. deeper[ra] = depth[ra] /\ deeper[x] = depth[x] + depth[ra] + 1
        BY <1>4, <1>6, <2>2, <2>5, <3>2
      <4>3. depth[ra] \in Nat /\ depth[x] \in Nat
        BY <1>4
      <4>4. deeper[ra] < deeper[x]
        BY <4>2, <4>3
      <4> QED
        BY <1>6, <3>1, <3>2, <4>1, <4>4
    <3>3. CASE x # rb
      <4>1. t[x] = q[x] /\ q[x] \in 1..n
        BY <1>4, <2>4, <3>3
      <4>2. CASE q[x] = x
        <5>1. root[x] = x
          BY <1>4, <4>2
        <5>2. joined[x] = x
          BY <2>3, <3>3, <5>1
        <5> QED
          BY <3>1, <4>1, <4>2, <5>2
      <4>3. CASE q[x] # x
        <5>1. root[x] = root[q[x]] /\ depth[q[x]] < depth[x]
          BY <1>4, <4>3
        <5>2. joined[x] = joined[q[x]]
          BY <2>3, <4>1, <5>1
        <5>3. depth[q[x]] \in Nat /\ depth[x] \in Nat /\ depth[ra] \in Nat
          BY <1>4, <4>1
        <5>4. deeper[q[x]] < deeper[x]
          <6>1. CASE root[x] = rb
            <7>1. deeper[x] = depth[x] + depth[ra] + 1 /\ deeper[q[x]] = depth[q[x]] + depth[ra] + 1
              BY <2>5, <4>1, <5>1, <6>1
            <7> QED
              BY <5>1, <5>3, <7>1
          <6>2. CASE root[x] # rb
            BY <2>5, <4>1, <5>1, <6>2
          <6> QED
            BY <6>1, <6>2
        <5> QED
          BY <3>1, <4>1, <4>3, <5>2, <5>4
      <4> QED
        BY <4>2, <4>3
    <3> QED
      BY <3>2, <3>3
  <2>7. Forest(n, t, joined, deeper)
    BY <2>3, <2>4, <2>5, <2>6 DEF Forest
  <2> QED
    BY <2>1, <2>7 DEF joined
<1> QED
  BY <1>5, <1>6

(* Everyone his own root. *)
LEMMA IndicesIs ==
  ASSUME NEW n \in Nat
  PROVE  Forest(n, Indices(n), Indices(n), [x \in 1..n |-> 0])
BY DEF Forest, Indices

Class(n, root, i) == {j \in 1..n : root[j] = root[i]}

LEMMA MembersAre ==
  ASSUME NEW n \in Nat, NEW p, NEW root, NEW depth, Forest(n, p, root, depth), NEW i \in 1..n
  PROVE  MembersOf(p, i) = Class(n, root, i)
<1>1. DOMAIN p = 1..n
  BY DEF Forest
<1>2. \A j \in 1..n : Find(p, j).root = root[j]
  BY FindIs
<1> QED
  BY <1>1, <1>2, Zenon DEF MembersOf, Class

(* Persons that are the classes, each once, by their first members. *)
AreClasses(n, root, cands, persons) ==
  /\ Len(persons) \in Nat /\ DOMAIN persons = 1..Len(persons)
  /\ \A k \in DOMAIN persons :
       /\ persons[k].id = k
       /\ \E i \in 1..n : persons[k].members = Class(n, root, i)
       /\ \A i \in persons[k].members : cands[i].identifiers \subseteq persons[k].identifiers
  /\ \A i \in 1..n : \E k \in DOMAIN persons : persons[k].members = Class(n, root, i)
  /\ \A k, l \in DOMAIN persons :
       k < l => Min(persons[k].members) < Min(persons[l].members)

LEMMA PersonsAre ==
  ASSUME NEW n \in Nat, NEW p, NEW root, NEW depth, Forest(n, p, root, depth), NEW cands,
         NEW persons, persons = ResolvedPersons(cands, p)
  PROVE  AreClasses(n, root, cands, persons)
<1> DEFINE first == {i \in 1..n : i = Min(Class(n, root, i))}
           firsts == Ascending(first)
           m == Cardinality(first)
<1>1. DOMAIN p = 1..n
  BY DEF Forest
<1>2. {i \in DOMAIN p : i = Min(MembersOf(p, i))} = first
  BY <1>1, MembersAre
<1>3. IsFiniteSet(first) /\ first \subseteq Nat /\ first \subseteq 1..n
  <2>1. first \in SUBSET (1..n)
    OBVIOUS
  <2> HIDE DEF first
  <2> QED
    BY <2>1, UptoIsFinite
<1>4. /\ m \in Nat /\ firsts \in [1..m -> first]
      /\ \A x \in first : \E i \in 1..m : firsts[i] = x
      /\ \A i, j \in 1..m : i < j => firsts[i] < firsts[j]
  <2> HIDE DEF first
  <2> QED
    BY <1>3, AscendingIs
<1>5. persons = [id \in DOMAIN firsts |-> ResolvedPerson(cands, id, MembersOf(p, firsts[id]))]
  BY <1>2 DEF ResolvedPersons
<1> HIDE DEF firsts, m
<1>6. DOMAIN persons = 1..m
  BY <1>4, <1>5
<1>7. ASSUME NEW k \in 1..m
      PROVE  /\ firsts[k] \in 1..n /\ firsts[k] = Min(Class(n, root, firsts[k]))
             /\ persons[k].id = k /\ persons[k].members = Class(n, root, firsts[k])
             /\ \A i \in persons[k].members : cands[i].identifiers \subseteq persons[k].identifiers
  <2>1. firsts[k] \in first
    BY <1>4
  <2>2. firsts[k] \in 1..n /\ firsts[k] = Min(Class(n, root, firsts[k]))
    BY <2>1
  <2> HIDE DEF first
  <2>3. MembersOf(p, firsts[k]) = Class(n, root, firsts[k])
    BY <2>2, MembersAre
  <2>4. persons[k] = ResolvedPerson(cands, k, Class(n, root, firsts[k]))
    BY <1>4, <1>5, <2>3
  <2> QED
    BY <2>2, <2>4 DEF ResolvedPerson
<1>8. ASSUME NEW i \in 1..n
      PROVE  \E k \in 1..m : persons[k].members = Class(n, root, i)
  <2> DEFINE class == Class(n, root, i)
             least == Min(class)
  <2>1. class \subseteq Nat /\ i \in class /\ class \subseteq 1..n
    BY DEF Class
  <2> HIDE DEF class
  <2>2. least \in class
    BY <2>1, MinIs
  <2> HIDE DEF least
  <2>3. Class(n, root, least) = class
    BY <2>2 DEF class, Class
  <2>4. least \in first
    BY <2>1, <2>2, <2>3 DEF least
  <2> HIDE DEF first
  <2>5. PICK k \in 1..m : firsts[k] = least
    BY <1>4, <2>4
  <2> QED
    BY <1>7, <2>3, <2>5 DEF class
<1>9. ASSUME NEW k \in 1..m, NEW l \in 1..m, k < l
      PROVE  Min(persons[k].members) < Min(persons[l].members)
  BY <1>4, <1>7, <1>9
<1>10. Len(persons) \in Nat /\ DOMAIN persons = 1..Len(persons)
  <2> DEFINE All == {persons[k] : k \in 1..m}
  <2>1. persons \in [1..m -> All]
    BY <1>5, <1>6
  <2> HIDE DEF All
  <2>2. persons \in Seq(All)
    BY <1>4, <2>1, SeqDef
  <2> QED
    BY <2>2, LenProperties
<1>11. \A k \in DOMAIN persons :
         /\ persons[k].id = k
         /\ \E i \in 1..n : persons[k].members = Class(n, root, i)
         /\ \A i \in persons[k].members : cands[i].identifiers \subseteq persons[k].identifiers
  BY <1>6, <1>7
<1>12. /\ \A i \in 1..n : \E k \in DOMAIN persons : persons[k].members = Class(n, root, i)
       /\ \A k, l \in DOMAIN persons :
            k < l => Min(persons[k].members) < Min(persons[l].members)
  BY <1>6, <1>8, <1>9
<1> QED
  BY <1>10, <1>11, <1>12 DEF AreClasses

-----------------------------------------------------------------------------
(* The links that are merged when left are still to be. *)
Done(cands, left) == {p \in Links(cands) : p \notin left /\ <<p[2], p[1]>> \notin left}

(* The classes are what the links merged so far connect: no such link joins two
   of them, and every part of one has such a link that leads out of it. *)
Connects(links, n, root) ==
  /\ \A p \in links : p[1] \in 1..n /\ p[2] \in 1..n /\ root[p[1]] = root[p[2]]
  /\ \A i \in 1..n : \A part \in (SUBSET Class(n, root, i)) \ {{}, Class(n, root, i)} :
       LeadsOut(links, part)

LEMMA LinksAre ==
  ASSUME NEW cands, NEW n \in Nat, DOMAIN cands = 1..n
  PROVE  /\ Links(cands) \subseteq (1..n) \X (1..n)
         /\ \A p \in Links(cands) : <<p[2], p[1]>> \in Links(cands)
         /\ Merges(cands, Accepted) \subseteq Links(cands)
         /\ \A p \in Links(cands) :
              p \in Merges(cands, Accepted) \/ <<p[2], p[1]>> \in Merges(cands, Accepted)
<1>1. Merges(cands, Accepted) = PairsSharing(cands, "email")
  BY DEF Merges, Accepted, HighMatches
<1>2. \A p \in Links(cands) :
        /\ p = <<p[1], p[2]>> /\ p[1] \in 1..n /\ p[2] \in 1..n
        /\ cands[p[1]].source # cands[p[2]].source
        /\ Called(cands[p[1]], "email") \cap Called(cands[p[2]], "email") # {}
  BY DEF Links
<1>3. ASSUME NEW i \in 1..n, NEW j \in 1..n, cands[i].source # cands[j].source,
             Called(cands[i], "email") \cap Called(cands[j], "email") # {}
      PROVE  <<i, j>> \in Links(cands) /\ (i < j => <<i, j>> \in Merges(cands, Accepted))
  BY <1>1, <1>3 DEF Links, PairsSharing
<1>4. ASSUME NEW p \in Merges(cands, Accepted) PROVE p \in Links(cands)
  BY <1>1 DEF Links, PairsSharing
<1>5. ASSUME NEW p \in Links(cands)
      PROVE  /\ <<p[2], p[1]>> \in Links(cands)
             /\ p \in Merges(cands, Accepted) \/ <<p[2], p[1]>> \in Merges(cands, Accepted)
  <2> DEFINE i == p[1]
             j == p[2]
  <2>1. /\ p = <<i, j>> /\ i \in 1..n /\ j \in 1..n
        /\ cands[i].source # cands[j].source /\ cands[j].source # cands[i].source
        /\ Called(cands[i], "email") \cap Called(cands[j], "email") # {}
        /\ Called(cands[j], "email") \cap Called(cands[i], "email") # {}
    BY <1>2
  <2> HIDE DEF i, j
  <2>2. i # j
    BY <2>1
  <2>3. i < j \/ j < i
    BY <2>1, <2>2
  <2>4. /\ <<j, i>> \in Links(cands)
        /\ <<i, j>> \in Merges(cands, Accepted) \/ <<j, i>> \in Merges(cands, Accepted)
    BY <1>3, <2>1, <2>3
  <2> QED
    BY <2>1, <2>4 DEF i, j
<1> QED
  BY <1>2, <1>4, <1>5

LEMMA NoneDone ==
  ASSUME NEW cands, NEW n \in Nat, DOMAIN cands = 1..n
  PROVE  Connects(Done(cands, Merges(cands, Accepted)), n, Indices(n))
<1>1. Done(cands, Merges(cands, Accepted)) = {}
  BY LinksAre DEF Done
<1>2. ASSUME NEW i \in 1..n PROVE (SUBSET Class(n, Indices(n), i)) \ {{}, Class(n, Indices(n), i)} = {}
  <2>1. Class(n, Indices(n), i) = {i}
    BY DEF Class, Indices
  <2> QED
    BY <2>1
<1> QED
  BY <1>1, <1>2 DEF Connects

LEMMA OneMoreDone ==
  ASSUME NEW cands, NEW n \in Nat, DOMAIN cands = 1..n,
         NEW left \in SUBSET Merges(cands, Accepted), NEW p \in left,
         NEW root \in [1..n -> 1..n], \A x \in 1..n : root[root[x]] = root[x],
         Connects(Done(cands, left), n, root)
  PROVE  /\ p[1] \in 1..n /\ p[2] \in 1..n
         /\ Connects(Done(cands, left \ {p}), n, Joined(n, root, p[1], p[2]))
<1> DEFINE a == p[1]
           b == p[2]
           done == Done(cands, left)
           more == Done(cands, left \ {p})
           joined == Joined(n, root, a, b)
           A == Class(n, root, a)
           B == Class(n, root, b)
<1>1. /\ p \in Links(cands) /\ p = <<a, b>> /\ a \in 1..n /\ b \in 1..n
      /\ <<b, a>> \in Links(cands)
  <2>1. p \in Links(cands) /\ Links(cands) \subseteq (1..n) \X (1..n)
    BY LinksAre
  <2>2. <<p[2], p[1]>> \in Links(cands)
    BY <2>1, LinksAre
  <2> QED
    BY <2>1, <2>2
<1>2. more \subseteq done \cup {<<a, b>>, <<b, a>>} /\ done \subseteq more
  <2>1. ASSUME NEW q \in Links(cands) PROVE q = <<q[1], q[2]>>
    BY <2>1, LinksAre
  <2>2. ASSUME NEW q \in more PROVE q \in done \/ q = <<a, b>> \/ q = <<b, a>>
    <3>1. q \in Links(cands) /\ q = <<q[1], q[2]>>
      BY <2>1, <2>2 DEF Done
    <3>2. (q \in left => q = p) /\ (<<q[2], q[1]>> \in left => <<q[2], q[1]>> = p)
      BY <2>2 DEF Done
    <3>3. <<q[2], q[1]>> = p => q = <<b, a>>
      BY <1>1, <3>1
    <3> QED
      BY <1>1, <3>1, <3>2, <3>3 DEF Done
  <2>3. ASSUME NEW q \in done PROVE q \in more
    BY <2>3 DEF Done
  <2> QED
    BY <2>2, <2>3
<1>3. <<a, b>> \in more /\ <<b, a>> \in more
  <2>1. <<b, a>> \in left => <<b, a>> = <<a, b>>
    <3>1. \A q \in Merges(cands, Accepted) : q[1] < q[2] /\ q[1] \in 1..n /\ q[2] \in 1..n
      BY DEF Merges, Accepted, HighMatches, PairsSharing
    <3>2. <<b, a>> \in left => b < a
      BY <3>1
    <3>3. a < b
      BY <1>1, <3>1
    <3> QED
      BY <1>1, <3>2, <3>3
  <2>2. <<b, a>> \notin left \ {p}
    BY <1>1, <2>1
  <2>3. p \notin left \ {p}
    OBVIOUS
  <2> QED
    BY <1>1, <2>2, <2>3 DEF Done
<1> HIDE DEF a, b, done, more
<1>5. /\ joined \in [1..n -> 1..n]
      /\ \A x \in 1..n : joined[x] = IF root[x] = root[b] THEN root[a] ELSE root[x]
  BY <1>1 DEF Joined
<1> HIDE DEF joined
<1>6. \A i \in 1..n : Class(n, joined, i) =
        IF root[i] \in {root[a], root[b]} THEN A \cup B ELSE Class(n, root, i)
  <2>1. ASSUME NEW i \in 1..n, NEW j \in 1..n
        PROVE  joined[j] = joined[i] <=>
                 IF root[i] \in {root[a], root[b]} THEN root[j] \in {root[a], root[b]}
                 ELSE root[j] = root[i]
    BY <1>5
  <2> QED
    BY <2>1 DEF Class
<1>7. /\ \A q \in done : q[1] \in 1..n /\ q[2] \in 1..n /\ root[q[1]] = root[q[2]]
      /\ \A i \in 1..n : \A part \in (SUBSET Class(n, root, i)) \ {{}, Class(n, root, i)} :
           LeadsOut(done, part)
  BY DEF Connects, done
<1>8. ASSUME NEW q \in more
      PROVE  q[1] \in 1..n /\ q[2] \in 1..n /\ joined[q[1]] = joined[q[2]]
  <2>1. CASE q \in done
    BY <1>5, <1>7, <2>1
  <2>2. CASE q = <<a, b>> \/ q = <<b, a>>
    <3>1. (q[1] = a /\ q[2] = b) \/ (q[1] = b /\ q[2] = a)
      BY <2>2
    <3>2. joined[a] = joined[b]
      BY <1>1, <1>5
    <3> QED
      BY <1>1, <3>1, <3>2
  <2> QED
    BY <1>2, <2>1, <2>2
<1>9. ASSUME NEW class \in {A, B}, NEW part, part \cap class # {}, ~ (class \subseteq part)
      PROVE  LeadsOut(more, part)
  <2>1. PICK i \in 1..n : class = Class(n, root, i)
    BY <1>1, <1>9
  <2>2. LeadsOut(done, part \cap class)
    <3>1. part \cap class \in (SUBSET class) \ {{}, class}
      BY <1>9
    <3> QED
      BY <1>7, <2>1, <3>1
  <2>3. PICK q \in done : q[1] \in part \cap class /\ q[2] \notin part \cap class
    BY <2>2 DEF LeadsOut
  <2>4. q[2] \in class
    BY <1>7, <2>1, <2>3 DEF Class
  <2> QED
    BY <1>2, <2>3, <2>4 DEF LeadsOut
<1>10. ASSUME NEW i \in 1..n, NEW part \in (SUBSET Class(n, joined, i)) \ {{}, Class(n, joined, i)}
       PROVE  LeadsOut(more, part)
  <2>1. CASE root[i] \notin {root[a], root[b]}
    <3>1. LeadsOut(done, part)
      BY <1>6, <1>7, <2>1
    <3> QED
      BY <1>2, <3>1 DEF LeadsOut
  <2>2. CASE root[i] \in {root[a], root[b]}
    <3>1. part \subseteq A \cup B /\ part # {} /\ part # A \cup B
      <4>1. Class(n, joined, i) = A \cup B
        BY <1>6, <2>2
      <4> QED
        BY <4>1
    <3>2. a \in A /\ b \in B
      BY <1>1 DEF Class
    <3>3. CASE part \cap A # {} /\ ~ (A \subseteq part)
      BY <1>9, <3>3
    <3>4. CASE part \cap B # {} /\ ~ (B \subseteq part)
      BY <1>9, <3>4
    <3>5. CASE A \subseteq part /\ part \cap B = {}
      <4>1. a \in part /\ b \notin part
        BY <3>2, <3>5
      <4> QED
        BY <1>3, <4>1 DEF LeadsOut
    <3>6. CASE B \subseteq part /\ part \cap A = {}
      <4>1. b \in part /\ a \notin part
        BY <3>2, <3>6
      <4> QED
        BY <1>3, <4>1 DEF LeadsOut
    <3> HIDE DEF A, B
    <3> QED
      BY <3>1, <3>3, <3>4, <3>5, <3>6
  <2> QED
    BY <2>1, <2>2
<1>11. Connects(more, n, joined)
  BY <1>8, <1>10 DEF Connects
<1> QED
  BY <1>1, <1>11 DEF a, b, more, joined

(* With nothing left, the classes are the parts the links make. *)
LEMMA AllDone ==
  ASSUME NEW cands, NEW n \in Nat, DOMAIN cands = 1..n, NEW root, NEW i \in 1..n,
         Connects(Done(cands, {}), n, root)
  PROVE  Whole(Links(cands), Class(n, root, i))
<1>1. Done(cands, {}) = Links(cands)
  BY DEF Done
<1>2. ~ LeadsOut(Links(cands), Class(n, root, i))
  BY <1>1 DEF LeadsOut, Connects, Class
<1> QED
  BY <1>1, <1>2 DEF Whole, Connects

-----------------------------------------------------------------------------
(* What the lake keeps: what the crawlers capture, and recorded analyses. *)
Recorded(p, t) ==
  [schema |-> "slide-analysis-result", user |-> Unset, email |-> p.email, name |-> p.name,
   editors |-> <<>>, owner |-> Unset, at |-> t]

Kept == Observed \cup {Recorded(p, t) : p \in Profiles, t \in Nat}

Addresses == (DOMAIN LowerCase) \ {Unset}

LEMMA KeptIs ==
  ASSUME NEW o \in Kept
  PROVE  /\ o.at \in Nat /\ o.editors \in Seq(Addresses)
         /\ \/ o.schema \in {"slack-message", "workspace-object-snapshot"}
            \/ o.schema = "slide-analysis-result" /\ o.email # Unset
<1>1. CASE o \in Observed
  BY <1>1, DraftAssumption DEF Addresses
<1>2. CASE o \notin Observed
  <2>1. PICK p \in Profiles, t \in Nat : o = Recorded(p, t)
    BY <1>2 DEF Kept
  <2>2. <<>> \in Seq(Addresses)
    BY EmptySeq
  <2> QED
    BY <2>1, <2>2, DraftAssumption DEF Recorded
<1> QED
  BY <1>1, <1>2

Found == {CandidatesOf(o)[k] : o \in Kept, k \in Nat}

(* Whoever an observation names is named by something it mentions. *)
Named(o, candidate) == \E i \in candidate.identifiers : i.value \in Mentions(o)

LEMMA DeckNames ==
  ASSUME NEW o, o.editors \in Seq(Addresses)
  PROVE  \E m \in Nat : /\ DOMAIN DeckCandidates(o) = 1..m
                        /\ DeckCandidates(o) = [k \in 1..m |-> DeckCandidates(o)[k]]
                        /\ \A k \in 1..m : Named(o, DeckCandidates(o)[k])
<1> DEFINE tail == IF o.owner = Unset THEN <<>> ELSE <<o.owner>>
           named == o.editors \o tail
           New(i) == \A j \in 1..(i - 1) : LowerCase[named[j]] # LowerCase[named[i]]
           new == {i \in DOMAIN named : New(i)}
           m == Cardinality(new)
           All == Addresses \cup {o.owner}
<1>1. o.editors \in Seq(All) /\ tail \in Seq(All)
  <2>1. o.editors \in Seq(All)
    BY SeqMonotonic
  <2>2. <<>> \in Seq(All) /\ <<o.owner>> \in Seq(All)
    OBVIOUS
  <2> QED
    BY <2>1, <2>2
<1>2. /\ named \in Seq(All) /\ Len(o.editors) \in Nat /\ DOMAIN o.editors = 1..Len(o.editors)
      /\ \A i \in DOMAIN o.editors : o.editors[i] \in Addresses
      /\ Len(named) \in Nat /\ DOMAIN named = 1..Len(named)
      /\ Len(named) = Len(o.editors) + Len(tail)
      /\ \A i \in DOMAIN named :
           named[i] = IF i <= Len(o.editors) THEN o.editors[i] ELSE tail[i - Len(o.editors)]
  <2> HIDE DEF tail, All
  <2>1. named \in Seq(All)
    BY <1>1, ConcatProperties
  <2>2. /\ Len(named) = Len(o.editors) + Len(tail)
        /\ \A i \in 1..(Len(o.editors) + Len(tail)) :
             named[i] = IF i <= Len(o.editors) THEN o.editors[i] ELSE tail[i - Len(o.editors)]
    BY <1>1, ConcatProperties
  <2> HIDE DEF named
  <2>3. Len(named) \in Nat /\ DOMAIN named = 1..Len(named)
    BY <2>1, LenProperties
  <2>4. /\ Len(o.editors) \in Nat /\ DOMAIN o.editors = 1..Len(o.editors)
        /\ \A i \in DOMAIN o.editors : o.editors[i] \in Addresses
    BY LenProperties
  <2> QED
    BY <2>1, <2>2, <2>3, <2>4
<1> HIDE DEF named
<1>3. ASSUME NEW i \in DOMAIN named
      PROVE  named[i] # Unset /\ named[i] \in Mentions(o)
  <2>1. CASE i <= Len(o.editors)
    <3>1. i \in DOMAIN o.editors /\ named[i] = o.editors[i] /\ o.editors[i] \in Addresses
      <4> HIDE DEF tail
      <4>1. i \in 1..Len(o.editors)
        BY <1>2, <2>1
      <4> QED
        BY <1>2, <2>1, <4>1
    <3> QED
      BY <3>1 DEF Mentions, Addresses
  <2>2. CASE ~ (i <= Len(o.editors))
    <3>1. Len(tail) # 0
      <4> HIDE DEF tail
      <4> QED
        BY <1>2, <2>2
    <3>2. o.owner # Unset /\ tail = <<o.owner>> /\ Len(tail) = 1
      BY <3>1
    <3>3. i = Len(o.editors) + 1
      BY <1>2, <2>2, <3>2
    <3>4. named[i] = o.owner
      BY <1>2, <2>2, <3>2, <3>3
    <3> QED
      BY <3>2, <3>4 DEF Mentions
  <2> QED
    BY <2>1, <2>2
<1>4. IsFiniteSet(new) /\ new \subseteq Nat /\ new \subseteq DOMAIN named
  <2>1. new \in SUBSET (1..Len(named))
    BY <1>2
  <2> HIDE DEF new
  <2> QED
    BY <1>2, <2>1, UptoIsFinite
<1> DEFINE kept == Ascending(new)
<1>5. m \in Nat /\ kept \in [1..m -> new]
  <2> HIDE DEF new
  <2> QED
    BY <1>4, AscendingIs
<1>6. DeckCandidates(o) =
        [k \in DOMAIN kept |->
           Candidate("google", Identifiers("google", "email", named[kept[k]]), Unset, o.at)]
  BY DEF DeckCandidates, named
<1> HIDE DEF kept, m, new
<1>7. ASSUME NEW k \in 1..m PROVE Named(o, DeckCandidates(o)[k])
  <2> DEFINE a == named[kept[k]]
  <2>1. kept[k] \in DOMAIN named
    BY <1>4, <1>5
  <2>2. a # Unset /\ a \in Mentions(o)
    BY <1>3, <2>1
  <2>3. DeckCandidates(o)[k] = Candidate("google", Identifiers("google", "email", a), Unset, o.at)
    BY <1>5, <1>6
  <2> HIDE DEF a
  <2>4. [source |-> "google", type |-> "email", value |-> a] \in DeckCandidates(o)[k].identifiers
    BY <2>2, <2>3 DEF Candidate, Identifiers
  <2> QED
    BY <2>2, <2>4 DEF Named
<1>8. DOMAIN DeckCandidates(o) = 1..m
        /\ DeckCandidates(o) = [k \in 1..m |-> DeckCandidates(o)[k]]
  BY <1>5, <1>6
<1> QED
  BY <1>5, <1>7, <1>8

LEMMA CandidatesOfIs ==
  ASSUME NEW o \in Kept
  PROVE  /\ CandidatesOf(o) \in Seq(Found)
         /\ \A k \in DOMAIN CandidatesOf(o) : Named(o, CandidatesOf(o)[k])
<1> DEFINE c == CandidatesOf(o)
           Right(m) == /\ DOMAIN c = 1..m /\ c = [k \in 1..m |-> c[k]]
                       /\ \A k \in 1..m : Named(o, c[k])
<1>1. ASSUME NEW m \in Nat, Right(m)
      PROVE  c \in Seq(Found) /\ \A k \in DOMAIN c : Named(o, c[k])
  <2> HIDE DEF c
  <2>1. \A k \in 1..m : c[k] \in Found
    BY DEF Found, c
  <2>2. c \in [1..m -> Found]
    BY <1>1, <2>1
  <2> QED
    BY <1>1, <2>2, SeqDef
<1>2. CASE o.schema = "slack-message"
  <2>1. c = SlackCandidates(o)
    BY <1>2 DEF CandidatesOf
  <2>2. CASE o.user = Unset
    <3>1. c = <<>>
      BY <2>1, <2>2 DEF SlackCandidates
    <3>2. Right(0)
      BY <3>1
    <3> QED
      BY <1>1, <3>2
  <2>3. CASE o.user # Unset
    <3> DEFINE identity == [source |-> "slack", type |-> "user", value |-> o.user]
    <3>1. /\ DOMAIN c = 1..1 /\ c = [k \in 1..1 |-> c[k]]
          /\ identity \in c[1].identifiers
      BY <2>1, <2>3 DEF SlackCandidates, Candidate, Identifiers
    <3>2. o.user \in Mentions(o) /\ identity.value = o.user
      BY <2>3 DEF Mentions
    <3>3. Right(1)
      BY <3>1, <3>2 DEF Named
    <3> QED
      BY <1>1, <3>3
  <2> QED
    BY <2>2, <2>3
<1>3. CASE o.schema = "workspace-object-snapshot"
  <2>1. c = DeckCandidates(o) /\ o.editors \in Seq(Addresses)
    BY <1>3, KeptIs DEF CandidatesOf
  <2>2. \E m \in Nat : Right(m)
    BY <2>1, DeckNames
  <2> HIDE DEF Right
  <2> QED
    BY <1>1, <2>2
<1>4. CASE o.schema = "slide-analysis-result" /\ o.email # Unset
  <2>1. c = AnalysisCandidates(o)
    BY <1>4 DEF CandidatesOf
  <2> DEFINE identity == [source |-> "slide-analysis", type |-> "email", value |-> o.email]
  <2>2. /\ DOMAIN c = 1..1 /\ c = [k \in 1..1 |-> c[k]]
        /\ identity \in c[1].identifiers
    BY <1>4, <2>1 DEF AnalysisCandidates, Candidate, Identifiers
  <2>3. o.email \in Mentions(o) /\ identity.value = o.email
    BY <1>4 DEF Mentions
  <2>4. Right(1)
    BY <2>2, <2>3 DEF Named
  <2> QED
    BY <1>1, <2>4
<1> QED
  BY <1>2, <1>3, <1>4, KeptIs

LEMMA CandidatesAre ==
  ASSUME NEW obs \in Seq(Kept)
  PROVE  /\ Candidates(obs) \in Seq(Found)
         /\ Len(Candidates(obs)) \in Nat /\ DOMAIN Candidates(obs) = 1..Len(Candidates(obs))
         /\ \A i \in DOMAIN obs : \A j \in DOMAIN CandidatesOf(obs[i]) :
              \E k \in DOMAIN Candidates(obs) : Candidates(obs)[k] = CandidatesOf(obs[i])[j]
<1> DEFINE ss == [i \in DOMAIN obs |-> CandidatesOf(obs[i])]
<1>1. Len(obs) \in Nat /\ DOMAIN obs = 1..Len(obs) /\ \A i \in DOMAIN obs : obs[i] \in Kept
  BY LenProperties
<1>2. \A i \in DOMAIN obs : CandidatesOf(obs[i]) \in Seq(Found)
  BY <1>1, CandidatesOfIs
<1>3. ss \in [1..Len(obs) -> Seq(Found)]
  BY <1>1, <1>2
<1>4. ss \in Seq(Seq(Found)) /\ DOMAIN ss = DOMAIN obs
        /\ \A i \in DOMAIN obs : ss[i] = CandidatesOf(obs[i])
  BY <1>1, <1>3, SeqDef
<1>5. Candidates(obs) = FlattenSeq(ss)
  BY DEF Candidates
<1> HIDE DEF ss
<1>6. /\ Candidates(obs) \in Seq(Found)
      /\ \A i \in DOMAIN ss : \A j \in DOMAIN ss[i] :
           \E k \in DOMAIN Candidates(obs) : Candidates(obs)[k] = ss[i][j]
  BY <1>4, <1>5, FlattenIs
<1>7. Len(Candidates(obs)) \in Nat /\ DOMAIN Candidates(obs) = 1..Len(Candidates(obs))
  BY <1>6, LenProperties
<1> QED
  BY <1>4, <1>6, <1>7

LEMMA CandidatesOfOne ==
  ASSUME NEW o \in Kept
  PROVE  Candidates(<<o>>) = CandidatesOf(o)
<1> DEFINE ss == [i \in DOMAIN <<o>> |-> CandidatesOf(<<o>>[i])]
<1>1. CandidatesOf(o) \in Seq(Found)
  BY CandidatesOfIs
<1>2. DOMAIN <<o>> = 1..1 /\ <<o>>[1] = o
  OBVIOUS
<1>3. ss \in [1..1 -> Seq(Found)] /\ ss[1] = CandidatesOf(o)
  BY <1>1, <1>2
<1>4. Candidates(<<o>>) = FlattenSeq(ss)
  BY DEF Candidates
<1> HIDE DEF ss
<1>5. ss \in Seq(Seq(Found)) /\ DOMAIN ss = 1..1
  <2>1. ss \in UNION {[1..k -> Seq(Found)] : k \in Nat}
    BY <1>3
  <2> QED
    BY <1>3, <2>1, SeqDef
<1>6. Len(ss) = 1
  <2>1. Len(ss) \in Nat /\ DOMAIN ss = 1..Len(ss)
    BY <1>5, LenProperties
  <2> QED
    BY <1>5, <2>1
<1> QED
  BY <1>3, <1>4, <1>5, <1>6, FlattenIs

-----------------------------------------------------------------------------
(* Every value of a person's identifiers leads to a person. *)
LEMMA PersonOfIs ==
  ASSUME NEW persons, NEW m \in Nat, DOMAIN persons = 1..m
  PROVE  /\ \A v \in DOMAIN PersonOf(persons) : PersonOf(persons)[v] \in 1..m
         /\ \A k \in 1..m : \A i \in persons[k].identifiers : i.value \in DOMAIN PersonOf(persons)
<1> DEFINE Values(p) == {i.value : i \in p.identifiers}
           all == UNION {Values(persons[k]) : k \in DOMAIN persons}
           Having(v) == {k \in DOMAIN persons : v \in Values(persons[k])}
<1>1. PersonOf(persons) = [v \in all |-> Max(Having(v))]
  BY DEF PersonOf
<1>2. ASSUME NEW v \in all PROVE Max(Having(v)) \in 1..m
  <2>1. Having(v) # {} /\ Having(v) \subseteq 1..m
    OBVIOUS
  <2> HIDE DEF Having
  <2>2. Having(v) \subseteq Nat /\ \A k \in Having(v) : k <= m
    BY <2>1
  <2>3. Max(Having(v)) \in Having(v)
    BY <2>1, <2>2, MaxIs
  <2> QED
    BY <2>1, <2>3
<1>3. ASSUME NEW k \in 1..m, NEW i \in persons[k].identifiers PROVE i.value \in all
  OBVIOUS
<1> HIDE DEF all, Having
<1> QED
  BY <1>1, <1>2, <1>3

(* Positions of a page are those of observations that mention its person. *)
LEMMA RelatedIs ==
  ASSUME NEW k, NEW obs \in Seq(Kept), NEW personOf, NEW schemas
  PROVE  /\ ToSet(Related(k, obs, personOf, schemas)) =
              {i \in DOMAIN obs : obs[i].schema \in schemas /\ BelongsTo(obs[i], k, personOf)}
         /\ ToSet(Related(k, obs, personOf, schemas)) \subseteq DOMAIN obs
<1> DEFINE theirs == {i \in DOMAIN obs : obs[i].schema \in schemas /\ BelongsTo(obs[i], k, personOf)}
           s == Ascending(theirs)
<1>1. Len(obs) \in Nat /\ DOMAIN obs = 1..Len(obs)
  BY LenProperties
<1>2. theirs \subseteq DOMAIN obs
  OBVIOUS
<1>3. Related(k, obs, personOf, schemas) = s
  BY DEF Related
<1> HIDE DEF theirs
<1>4. IsFiniteSet(theirs) /\ theirs \subseteq Nat
  <2>1. theirs \in SUBSET (1..Len(obs))
    BY <1>1, <1>2
  <2> QED
    BY <1>1, <2>1, UptoIsFinite
<1>5. /\ s \in [1..Cardinality(theirs) -> theirs]
      /\ \A x \in theirs : \E i \in 1..Cardinality(theirs) : s[i] = x
  BY <1>4, AscendingIs
<1> HIDE DEF s
<1>6. ToSet(s) = theirs
  BY <1>5 DEF ToSet
<1> QED
  BY <1>2, <1>3, <1>6 DEF theirs

(* Whatever the persons were found from, what names somebody is on a page. *)
LEMMA NamedIsShown ==
  ASSUME NEW obs \in Seq(Kept), NEW p, NEW root, NEW depth,
         Forest(Len(Candidates(obs)), p, root, depth), NEW listed,
         NEW i \in DOMAIN obs, Candidates(<<obs[i]>>) # <<>>
  PROVE  LET pages == Pages(ResolvedPersons(Candidates(obs), p), obs, listed)
         IN  \E page \in ToSet(pages) : i \in ToSet(page.slides) \cup ToSet(page.messages)
<1> DEFINE cands == Candidates(obs)
           n == Len(cands)
           persons == ResolvedPersons(cands, p)
           m == Len(persons)
           personOf == PersonOf(persons)
           pages == Pages(persons, obs, listed)
           o == obs[i]
<1>1. o \in Kept
  BY LenProperties
<1>2. PICK j \in DOMAIN CandidatesOf(o) : TRUE
  <2>1. CandidatesOf(o) \in Seq(Found) /\ CandidatesOf(o) # <<>>
    BY <1>1, CandidatesOfOne, CandidatesOfIs
  <2>2. Len(CandidatesOf(o)) \in Nat \ {0} /\ DOMAIN CandidatesOf(o) = 1..Len(CandidatesOf(o))
    BY <2>1, EmptySeq, LenProperties
  <2>3. 1 \in DOMAIN CandidatesOf(o)
    BY <2>2
  <2> QED
    BY <2>3
<1>3. PICK identity \in CandidatesOf(o)[j].identifiers : identity.value \in Mentions(o)
  BY <1>1, <1>2, CandidatesOfIs DEF Named
<1>4. n \in Nat /\ DOMAIN cands = 1..n
  BY CandidatesAre
<1>5. PICK x \in 1..n : cands[x] = CandidatesOf(o)[j]
  BY <1>2, <1>4, CandidatesAre
<1>6. AreClasses(n, root, cands, persons)
  <2>1. Forest(n, p, root, depth)
    OBVIOUS
  <2>2. persons = ResolvedPersons(cands, p)
    OBVIOUS
  <2> HIDE DEF cands, n, persons
  <2> QED
    BY <1>4, <2>1, <2>2, PersonsAre
<1> HIDE DEF cands, persons
<1>7. m \in Nat /\ DOMAIN persons = 1..m
  BY <1>6 DEF AreClasses
<1>8. PICK k \in DOMAIN persons : persons[k].members = Class(n, root, x)
  BY <1>5, <1>6 DEF AreClasses
<1>9. identity \in persons[k].identifiers
  <2>1. x \in persons[k].members
    BY <1>5, <1>8 DEF Class
  <2> QED
    BY <1>3, <1>5, <1>6, <2>1 DEF AreClasses
<1>10. identity.value \in DOMAIN personOf /\ personOf[identity.value] \in 1..m
  BY <1>7, <1>9, PersonOfIs
<1> DEFINE who == personOf[identity.value]
<1>11. BelongsTo(o, who, personOf)
  BY <1>3, <1>10 DEF BelongsTo
<1>12. /\ pages[who].slides = Slides(who, obs, personOf)
       /\ pages[who].messages = Messages(who, obs, personOf)
       /\ who \in DOMAIN pages
  <2>1. who \in DOMAIN persons /\ persons[who].id = who
    BY <1>6, <1>7, <1>10 DEF AreClasses
  <2> HIDE DEF who
  <2> QED
    BY <2>1 DEF Pages, Page
<1> HIDE DEF who, personOf, pages, o
<1>13. i \in ToSet(Slides(who, obs, personOf)) \cup ToSet(Messages(who, obs, personOf))
  <2>1. o.schema \in {"slack-message", "workspace-object-snapshot", "slide-analysis-result"}
    BY <1>1, KeptIs
  <2> QED
    BY <1>11, <2>1, RelatedIs DEF Slides, Messages, o
<1> QED
  BY <1>12, <1>13 DEF ToSet, pages, persons, cands

-----------------------------------------------------------------------------
(* An array on the way of the union-find, when left is still to be merged. *)
Resolving(cands, left, p) ==
  \E root, depth : /\ Forest(Len(cands), p, root, depth)
                   /\ Connects(Done(cands, left), Len(cands), root)

LEMMA ResolvingStarts ==
  ASSUME NEW obs \in Seq(Kept)
  PROVE  LET cands == Candidates(obs)
         IN  Resolving(cands, Merges(cands, Accepted), Indices(Len(cands)))
<1> DEFINE cands == Candidates(obs)
           n == Len(cands)
<1>1. n \in Nat /\ DOMAIN cands = 1..n
  BY CandidatesAre
<1> HIDE DEF cands, n
<1>2. Forest(n, Indices(n), Indices(n), [x \in 1..n |-> 0])
  BY DEF Forest, Indices
<1>3. Connects(Done(cands, Merges(cands, Accepted)), n, Indices(n))
  BY <1>1, NoneDone
<1>4. Resolving(cands, Merges(cands, Accepted), Indices(n))
  BY <1>2, <1>3 DEF Resolving, n
<1> QED
  BY <1>4 DEF cands, n

LEMMA ResolvingGoesOn ==
  ASSUME NEW obs \in Seq(Kept), NEW left \in SUBSET Merges(Candidates(obs), Accepted),
         NEW q \in left, NEW p, Resolving(Candidates(obs), left, p)
  PROVE  Resolving(Candidates(obs), left \ {q}, Merged(p, q[1], q[2]))
<1> DEFINE cands == Candidates(obs)
           n == Len(cands)
<1>1. n \in Nat /\ DOMAIN cands = 1..n
  BY CandidatesAre
<1>2. left \in SUBSET Merges(cands, Accepted) /\ Resolving(cands, left, p)
  OBVIOUS
<1> HIDE DEF cands, n
<1>3. PICK root, depth : Forest(n, p, root, depth) /\ Connects(Done(cands, left), n, root)
  BY <1>2 DEF Resolving, n
<1>4. root \in [1..n -> 1..n] /\ \A x \in 1..n : root[root[x]] = root[x]
  BY <1>3 DEF Forest
<1>5. /\ q[1] \in 1..n /\ q[2] \in 1..n
      /\ Connects(Done(cands, left \ {q}), n, Joined(n, root, q[1], q[2]))
  BY <1>1, <1>2, <1>3, <1>4, OneMoreDone
<1>6. PICK deeper : Forest(n, Merged(p, q[1], q[2]), Joined(n, root, q[1], q[2]), deeper)
  BY <1>1, <1>3, <1>5, MergedIs
<1>7. Resolving(cands, left \ {q}, Merged(p, q[1], q[2]))
  BY <1>5, <1>6 DEF Resolving, n
<1> QED
  BY <1>7 DEF cands

-----------------------------------------------------------------------------
(* What stands after the first u observations does not change when one is added. *)
LEMMA Grown ==
  ASSUME NEW S, NEW s \in Seq(S), NEW e \in S, NEW u \in 0..Len(s)
  PROVE  /\ Append(s, e) \in Seq(S) /\ Len(Append(s, e)) = Len(s) + 1
         /\ SubSeq(Append(s, e), 1, u) = SubSeq(s, 1, u)
<1> DEFINE t == Append(s, e)
<1>1. /\ t \in Seq(S) /\ Len(t) = Len(s) + 1 /\ Len(s) \in Nat
      /\ \A i \in 1..Len(s) : t[i] = s[i] /\ s[i] \in S
  OBVIOUS
<1> HIDE DEF t
<1>2. /\ SubSeq(t, 1, u) \in Seq(S) /\ Len(SubSeq(t, 1, u)) = u
      /\ \A i \in 1..u : SubSeq(t, 1, u)[i] = t[i]
      /\ SubSeq(s, 1, u) \in Seq(S) /\ Len(SubSeq(s, 1, u)) = u
      /\ \A i \in 1..u : SubSeq(s, 1, u)[i] = s[i]
  <2>1. u \in Int /\ 1 \in Int /\ \A i \in 1..u : i \in 1..Len(s)
    BY <1>1
  <2>2. /\ SubSeq(t, 1, u) \in Seq(S) /\ Len(SubSeq(t, 1, u)) = IF 1 <= u THEN u - 1 + 1 ELSE 0
        /\ \A i \in 1..u - 1 + 1 : SubSeq(t, 1, u)[i] = t[1 + i - 1]
    BY <1>1, <2>1, SubSeqProperties
  <2>3. /\ SubSeq(s, 1, u) \in Seq(S) /\ Len(SubSeq(s, 1, u)) = IF 1 <= u THEN u - 1 + 1 ELSE 0
        /\ \A i \in 1..u - 1 + 1 : SubSeq(s, 1, u)[i] = s[1 + i - 1]
    BY <1>1, <2>1, SubSeqProperties
  <2>4. u - 1 + 1 = u /\ (~ (1 <= u) => u = 0) /\ \A i \in 1..u : 1 + i - 1 = i
    BY <1>1
  <2> QED
    BY <2>2, <2>3, <2>4
<1>3. SubSeq(t, 1, u) = SubSeq(s, 1, u)
  BY <1>1, <1>2, SeqEqual
<1> QED
  BY <1>1, <1>3 DEF t

LEMMA FirstsAre ==
  ASSUME NEW S, NEW s \in Seq(S), NEW u \in 0..Len(s)
  PROVE  /\ SubSeq(s, 1, u) \in Seq(S) /\ Len(SubSeq(s, 1, u)) = u
         /\ DOMAIN SubSeq(s, 1, u) = 1..u
         /\ \A i \in 1..u : SubSeq(s, 1, u)[i] = s[i]
<1>1. /\ Len(s) \in Nat /\ \A i \in 1..Len(s) : s[i] \in S
  OBVIOUS
<1>2. /\ SubSeq(s, 1, u) \in Seq(S) /\ Len(SubSeq(s, 1, u)) = IF 1 <= u THEN u - 1 + 1 ELSE 0
      /\ \A i \in 1..u - 1 + 1 : SubSeq(s, 1, u)[i] = s[1 + i - 1]
  BY <1>1, SubSeqProperties
<1>3. u - 1 + 1 = u /\ (~ (1 <= u) => u = 0) /\ \A i \in 1..u : 1 + i - 1 = i
  BY <1>1
<1>4. DOMAIN SubSeq(s, 1, u) = 1..Len(SubSeq(s, 1, u))
  BY <1>2, LenProperties
<1> QED
  BY <1>2, <1>3, <1>4

-----------------------------------------------------------------------------
(* Analyses of observations among the first n. *)
OnDecks(recs, n) ==
  /\ IsFiniteSet(recs)
  /\ \A r \in recs : r.source \in 1..n /\ r.richness \in Nat /\ r.at \in Nat

(* A snapshot made of observations: the merges were all done, in some order, and
   the records gone through, in some order. *)
MadeOf(shot, obs) ==
  /\ OnDecks(shot.records, Len(obs))
  /\ \E p, listed : /\ Resolving(Candidates(obs), {}, p)
                    /\ listed \in SetToSeqs(shot.records)
                    /\ shot.persons = ResolvedPersons(Candidates(obs), p)
                    /\ shot.pages = Pages(shot.persons, obs, listed)

LakeInv == lake \in Seq(Kept) /\ now \in Nat /\ OnDecks(records, Len(lake))

BuildInv ==
  building.on =>
    \E left, parent :
      /\ building = [on |-> TRUE, cands |-> Candidates(lake), left |-> left, parent |-> parent]
      /\ left \in SUBSET Merges(Candidates(lake), Accepted)
      /\ Resolving(Candidates(lake), left, parent)

ShotInv ==
  /\ snapshot.upTo \in 0..Len(lake) /\ snapshot.built \in 0..now
  /\ MadeOf(snapshot, SubSeq(lake, 1, snapshot.upTo))

BuiltInv == LakeInv /\ BuildInv /\ ShotInv

LEMMA EmptyIsMade ==
  ASSUME NEW shot, shot.records = {}, shot.persons = <<>>, shot.pages = <<>>
  PROVE  MadeOf(shot, <<>>)
<1>1. <<>> \in Seq(Kept) /\ Len(<<>>) = 0 /\ <<>> \in Seq({})
  BY EmptySeq
<1>2. Candidates(<<>>) = <<>>
  <2> DEFINE ss == [i \in DOMAIN <<>> |-> CandidatesOf(<<>>[i])]
  <2>1. ss = <<>>
    OBVIOUS
  <2>2. FlattenSeq(<<>>) = <<>>
    BY DEF FlattenSeq
  <2> QED
    BY <2>1, <2>2 DEF Candidates
<1>3. Merges(<<>>, Accepted) = {}
  BY DEF Merges, HighMatches, PairsSharing, Accepted
<1>4. Resolving(<<>>, {}, Indices(0))
  BY <1>1, <1>2, <1>3, ResolvingStarts
<1>5. PICK root, depth : Forest(0, Indices(0), root, depth)
  BY <1>1, <1>4 DEF Resolving
<1> DEFINE persons == ResolvedPersons(<<>>, Indices(0))
<1>6. persons = <<>>
  <2>1. DOMAIN Indices(0) = {}
    BY DEF Indices
  <2> DEFINE first == {i \in DOMAIN Indices(0) : i = Min(MembersOf(Indices(0), i))}
  <2>2. first = {}
    BY <2>1
  <2>3. Cardinality({}) = 0
    BY FS_EmptySet
  <2>4. DOMAIN Ascending(first) = {}
    <3>1. IsFiniteSet(first) /\ first \subseteq Nat /\ Cardinality(first) = 0
      BY <2>2, <2>3, FS_EmptySet
    <3> HIDE DEF first
    <3>2. Ascending(first) \in [1..0 -> first]
      BY <3>1, AscendingIs
    <3> QED
      BY <3>2
  <2>5. persons = [id \in DOMAIN Ascending(first) |->
                     ResolvedPerson(<<>>, id, MembersOf(Indices(0), Ascending(first)[id]))]
    BY DEF ResolvedPersons
  <2> HIDE DEF persons, first
  <2>6. persons = [id \in {} |-> 0]
    BY <2>4, <2>5
  <2> QED
    BY <2>6
<1>7. Pages(<<>>, <<>>, <<>>) = <<>>
  <2> DEFINE pages == Pages(<<>>, <<>>, <<>>)
  <2>1. DOMAIN <<>> = {}
    OBVIOUS
  <2>2. pages = [k \in {} |-> 0]
    BY <2>1 DEF Pages
  <2> HIDE DEF pages
  <2>3. pages = <<>>
    BY <2>2
  <2> QED
    BY <2>3 DEF pages
<1>8. <<>> \in SetToSeqs({})
  <2>1. Cardinality({}) = 0
    BY FS_EmptySet
  <2> QED
    BY <2>1 DEF SetToSeqs
<1>9. OnDecks({}, 0)
  BY FS_EmptySet DEF OnDecks
<1> HIDE DEF persons
<1> QED
  BY <1>1, <1>2, <1>4, <1>6, <1>7, <1>8, <1>9 DEF MadeOf, persons

LEMMA BuiltInit ==
  ASSUME Init PROVE BuiltInv
<1>1. LakeInv
  <2>1. Len(<<>>) = 0 /\ <<>> \in Seq(Kept) /\ OnDecks({}, 0)
    BY FS_EmptySet, EmptySeq DEF OnDecks
  <2> QED
    BY <2>1 DEF Init, LakeInv
<1>2. BuildInv
  BY DEF Init, Idle, BuildInv
<1>3. ShotInv
  <2>1. snapshot.upTo = 0 /\ snapshot.built = 0 /\ lake = <<>> /\ now = 0
    BY DEF Init
  <2>2. SubSeq(lake, 1, 0) = <<>>
    BY SubSeqEmpty
  <2>3. MadeOf(snapshot, <<>>)
    BY EmptyIsMade DEF Init
  <2>4. Len(<<>>) = 0
    BY EmptySeq
  <2>5. snapshot.upTo \in 0..Len(lake) /\ snapshot.built \in 0..now
    BY <2>1, <2>4
  <2>6. SubSeq(lake, 1, snapshot.upTo) = <<>>
    BY <2>1, <2>2
  <2> QED
    BY <2>3, <2>5, <2>6 DEF ShotInv
<1> QED
  BY <1>1, <1>2, <1>3 DEF BuiltInv

(* A capture and an analysis keep it: nothing is being built, and the snapshot is
   of the observations that were there before. *)
LEMMA LakeGrows ==
  ASSUME BuiltInv, ~ building.on, UNCHANGED <<building, snapshot>>,
         now' \in Nat, now <= now',
         NEW e \in Kept, lake' \in {lake, Append(lake, e)},
         OnDecks(records', Len(lake'))
  PROVE  BuiltInv'
<1>1. lake \in Seq(Kept) /\ now \in Nat /\ Len(lake) \in Nat
  BY LenProperties DEF BuiltInv, LakeInv
<1>2. snapshot.upTo \in 0..Len(lake)
  BY DEF BuiltInv, ShotInv
<1>3. /\ lake' \in Seq(Kept) /\ Len(lake') \in {Len(lake), Len(lake) + 1}
      /\ SubSeq(lake', 1, snapshot.upTo) = SubSeq(lake, 1, snapshot.upTo)
  <2>1. CASE lake' = lake
    BY <1>1, <2>1
  <2>2. CASE lake' = Append(lake, e)
    BY <1>1, <1>2, <2>2, Grown
  <2> QED
    BY <2>1, <2>2
<1>4. LakeInv'
  BY <1>3 DEF LakeInv
<1>5. BuildInv'
  BY DEF BuildInv
<1>6. ShotInv'
  <2>1. snapshot' = snapshot
    OBVIOUS
  <2>2. snapshot.upTo \in 0..Len(lake') /\ snapshot.built \in 0..now'
    BY <1>1, <1>2, <1>3 DEF BuiltInv, ShotInv
  <2>3. MadeOf(snapshot, SubSeq(lake', 1, snapshot.upTo))
    BY <1>3 DEF BuiltInv, ShotInv
  <2> QED
    BY <2>1, <2>2, <2>3 DEF ShotInv
<1> QED
  BY <1>4, <1>5, <1>6 DEF BuiltInv

LEMMA CaptureKeepsBuilt ==
  ASSUME BuiltInv, Capture PROVE BuiltInv'
<1>1. PICK o \in Observed : /\ ~ building.on /\ lake' = Append(lake, o)
                            /\ UNCHANGED <<records, now, building, snapshot>>
  BY DEF Capture
<1>2. o \in Kept
  BY DEF Kept
<1>3. lake \in Seq(Kept) /\ now \in Nat /\ OnDecks(records, Len(lake)) /\ Len(lake) \in Nat
  BY LenProperties DEF BuiltInv, LakeInv
<1>4. Len(lake') = Len(lake) + 1
  BY <1>1, <1>2, <1>3
<1>5. OnDecks(records', Len(lake'))
  BY <1>1, <1>3, <1>4 DEF OnDecks
<1> QED
  BY <1>1, <1>2, <1>3, <1>5, LakeGrows

LEMMA AnalyseKeepsBuilt ==
  ASSUME BuiltInv, Analyse PROVE BuiltInv'
<1> DEFINE Read(p, deck) ==
      [slide |-> p.slide, source |-> deck, email |-> p.email,
       richness |-> p.richness, companion |-> p.companion, at |-> now]
<1>1. PICK p \in Profiles, deck \in DOMAIN lake, recorded \in BOOLEAN :
        /\ ~ building.on
        /\ records' = {r \in records : r.slide # p.slide} \cup {Read(p, deck)}
        /\ lake' = IF recorded THEN Append(lake, AnalysisOf(p)) ELSE lake
        /\ now' = now + 1
        /\ UNCHANGED <<building, snapshot>>
  BY DEF Analyse
<1> DEFINE e == Recorded(p, now)
           read == Read(p, deck)
           others == {r \in records : r.slide # p.slide}
<1>2. lake \in Seq(Kept) /\ now \in Nat /\ OnDecks(records, Len(lake)) /\ Len(lake) \in Nat
        /\ DOMAIN lake = 1..Len(lake)
  BY LenProperties DEF BuiltInv, LakeInv
<1>3. e \in Kept /\ lake' \in {lake, Append(lake, e)}
  BY <1>1, <1>2 DEF AnalysisOf, Recorded, Kept
<1>4. Len(lake') \in Nat /\ Len(lake) <= Len(lake')
  <2> HIDE DEF e
  <2> QED
    BY <1>2, <1>3
<1>5. read.source \in 1..Len(lake) /\ read.richness \in Nat /\ read.at \in Nat
  BY <1>1, <1>2, DraftAssumption
<1>6. IsFiniteSet(others \cup {read})
  <2>1. IsFiniteSet(others)
    BY <1>2, FS_Subset DEF OnDecks
  <2> HIDE DEF others, read
  <2> QED
    BY <2>1, FS_AddElement
<1>7. OnDecks(records', Len(lake'))
  <2>1. records' = others \cup {read} /\ others \subseteq records
    BY <1>1
  <2> HIDE DEF others, read
  <2> QED
    BY <1>2, <1>4, <1>5, <1>6, <2>1 DEF OnDecks
<1> HIDE DEF e
<1>8. ~ building.on /\ UNCHANGED <<building, snapshot>> /\ now' \in Nat /\ now <= now'
  BY <1>1, <1>2
<1> QED
  BY <1>3, <1>7, <1>8, LakeGrows

LEMMA StartRebuildKeepsBuilt ==
  ASSUME BuiltInv, StartRebuild PROVE BuiltInv'
<1> DEFINE cands == Candidates(lake)
<1>1. /\ building' = [on |-> TRUE, cands |-> cands, left |-> Merges(cands, Accepted),
                      parent |-> Indices(Len(cands))]
      /\ UNCHANGED <<lake, records, now, snapshot>>
  BY DEF StartRebuild
<1>2. Resolving(cands, Merges(cands, Accepted), Indices(Len(cands)))
  BY ResolvingStarts DEF BuiltInv, LakeInv
<1>3. LakeInv'
  BY <1>1 DEF BuiltInv, LakeInv
<1>4. BuildInv'
  BY <1>1, <1>2 DEF BuildInv
<1>5. ShotInv'
  BY <1>1 DEF BuiltInv, ShotInv
<1> QED
  BY <1>3, <1>4, <1>5 DEF BuiltInv

LEMMA MergeOneKeepsBuilt ==
  ASSUME BuiltInv, MergeOne, building.on PROVE BuiltInv'
<1>1. PICK q \in building.left :
        /\ building' = [building EXCEPT !.left = @ \ {q}, !.parent = Merged(@, q[1], q[2])]
        /\ UNCHANGED <<lake, records, now, snapshot>>
  BY DEF MergeOne
<1>2. PICK left, parent :
        /\ building = [on |-> TRUE, cands |-> Candidates(lake), left |-> left, parent |-> parent]
        /\ left \in SUBSET Merges(Candidates(lake), Accepted)
        /\ Resolving(Candidates(lake), left, parent)
  BY DEF BuiltInv, BuildInv
<1>3. lake \in Seq(Kept) /\ q \in left
  BY <1>1, <1>2 DEF BuiltInv, LakeInv
<1>4. Resolving(Candidates(lake), left \ {q}, Merged(parent, q[1], q[2]))
  BY <1>2, <1>3, ResolvingGoesOn
<1>5. BuildInv'
  <2>1. building' = [on |-> TRUE, cands |-> Candidates(lake), left |-> left \ {q},
                     parent |-> Merged(parent, q[1], q[2])]
    BY <1>1, <1>2
  <2>2. left \ {q} \in SUBSET Merges(Candidates(lake), Accepted)
    BY <1>2
  <2> QED
    BY <1>1, <1>4, <2>1, <2>2 DEF BuildInv
<1>6. LakeInv'
  BY <1>1 DEF BuiltInv, LakeInv
<1>7. ShotInv'
  BY <1>1 DEF BuiltInv, ShotInv
<1> QED
  BY <1>5, <1>6, <1>7 DEF BuiltInv

LEMMA FinishRebuildKeepsBuilt ==
  ASSUME BuiltInv, FinishRebuild PROVE BuiltInv'
<1> DEFINE persons == ResolvedPersons(building.cands, building.parent)
<1>1. PICK listed \in SetToSeqs(records) :
        /\ building.on /\ building.left = {}
        /\ snapshot' = [built |-> BuiltAt(snapshot.built, now + 1), upTo |-> Len(lake),
                        records |-> records, persons |-> persons,
                        pages |-> Pages(persons, lake, listed)]
        /\ building' = Idle
        /\ now' = now + 1
        /\ UNCHANGED <<lake, records>>
  BY DEF FinishRebuild
<1>2. /\ building.cands = Candidates(lake)
      /\ Resolving(Candidates(lake), {}, building.parent)
      /\ lake \in Seq(Kept) /\ now \in Nat /\ OnDecks(records, Len(lake)) /\ Len(lake) \in Nat
  <2>1. PICK left, parent :
          /\ building = [on |-> TRUE, cands |-> Candidates(lake), left |-> left, parent |-> parent]
          /\ Resolving(Candidates(lake), left, parent)
    BY <1>1 DEF BuiltInv, BuildInv
  <2>2. building.cands = Candidates(lake) /\ building.parent = parent /\ left = {}
    BY <1>1, <2>1
  <2>3. lake \in Seq(Kept) /\ now \in Nat /\ OnDecks(records, Len(lake)) /\ Len(lake) \in Nat
    BY LenProperties DEF BuiltInv, LakeInv
  <2> QED
    BY <2>1, <2>2, <2>3
<1>3. LakeInv'
  BY <1>1, <1>2 DEF LakeInv
<1>4. BuildInv'
  BY <1>1 DEF BuildInv, Idle
<1>5. MadeOf(snapshot', lake)
  <2>1. /\ persons = ResolvedPersons(Candidates(lake), building.parent)
        /\ snapshot'.records = records /\ snapshot'.persons = persons
        /\ snapshot'.pages = Pages(persons, lake, listed)
    BY <1>1, <1>2
  <2> HIDE DEF persons
  <2> QED
    BY <1>1, <1>2, <2>1 DEF MadeOf
<1>6. SubSeq(lake, 1, Len(lake)) = lake
  BY <1>2, SubSeqFull
<1>7. snapshot'.upTo = Len(lake) /\ snapshot'.built = now + 1
  BY <1>1 DEF BuiltAt
<1>8. ShotInv'
  <2>1. snapshot'.upTo \in 0..Len(lake') /\ snapshot'.built \in 0..now'
    BY <1>1, <1>2, <1>7
  <2>2. MadeOf(snapshot', SubSeq(lake', 1, snapshot'.upTo))
    BY <1>1, <1>5, <1>6, <1>7
  <2> QED
    BY <2>1, <2>2 DEF ShotInv
<1> QED
  BY <1>3, <1>4, <1>8 DEF BuiltInv

(* Nothing is left to merge but in a rebuild. *)
IdleInv == ~ building.on => building.left = {}

(* Whatever is captured, analysed or rebuilt in between, the snapshot is of a
   beginning of the lake, and a rebuild has merged what its links say so far. *)
THEOREM ReadApiBuilt == Spec => [](BuiltInv /\ IdleInv)
<1>1. Init => BuiltInv /\ IdleInv
  BY BuiltInit DEF Init, IdleInv, Idle
<1>2. ASSUME BuiltInv, IdleInv, [Next]_vars PROVE BuiltInv'
  <2>1. CASE Capture
    BY <1>2, <2>1, CaptureKeepsBuilt
  <2>2. CASE Analyse
    BY <1>2, <2>2, AnalyseKeepsBuilt
  <2>3. CASE StartRebuild
    BY <1>2, <2>3, StartRebuildKeepsBuilt
  <2>4. CASE MergeOne
    <3>1. building.on
      BY <1>2, <2>4 DEF MergeOne, IdleInv
    <3> QED
      BY <1>2, <2>4, <3>1, MergeOneKeepsBuilt
  <2>5. CASE FinishRebuild
    BY <1>2, <2>5, FinishRebuildKeepsBuilt
  <2>6. CASE UNCHANGED <<lake, records, now, building, snapshot>>
    BY <1>2, <2>6 DEF BuiltInv, LakeInv, BuildInv, ShotInv
  <2>7. ListPersons => UNCHANGED <<lake, records, now, building, snapshot>>
    BY DEF ListPersons
  <2> QED
    BY <1>2, <2>1, <2>2, <2>3, <2>4, <2>5, <2>6, <2>7 DEF Next, vars
<1>3. ASSUME IdleInv, BuiltInv, [Next]_vars PROVE IdleInv'
  <2>1. CASE UNCHANGED building
    BY <1>3, <2>1 DEF IdleInv
  <2>2. CASE StartRebuild
    BY <2>2 DEF StartRebuild, IdleInv
  <2>3. CASE MergeOne
    <3>1. building.on
      BY <1>3, <2>3 DEF MergeOne, IdleInv
    <3>2. building'.on
      BY <1>3, <2>3, <3>1 DEF MergeOne, BuiltInv, BuildInv
    <3> QED
      BY <3>2 DEF IdleInv
  <2>4. CASE FinishRebuild
    BY <2>4 DEF FinishRebuild, IdleInv, Idle
  <2> QED
    BY <1>3, <2>1, <2>2, <2>3, <2>4 DEF Next, vars, Capture, Analyse, ListPersons
<1> QED
  BY <1>1, <1>2, <1>3, PTL DEF Spec

-----------------------------------------------------------------------------
LEMMA MasksIdentities == ShouldMask("restricted", "internal")
<1> DEFINE Of(scope, i) == Scopes[i] = scope
<1>1. /\ DOMAIN Scopes = 1..4 /\ Scopes[1] = "public" /\ Scopes[2] = "internal"
      /\ Scopes[3] = "restricted" /\ Scopes[4] = "highly-sensitive"
  BY DEF Scopes
<1>2. \A i \in DOMAIN Scopes : i = 1 \/ i = 2 \/ i = 3 \/ i = 4
  BY <1>1
<1>3. ScopeRank("restricted") = 3
  <2>1. \A i \in DOMAIN Scopes : Scopes[i] = "restricted" <=> i = 3
    BY <1>1, <1>2
  <2>2. 3 \in DOMAIN Scopes
    BY <1>1
  <2> QED
    BY <2>1, <2>2 DEF ScopeRank
<1>4. ScopeRank("internal") = 2
  <2>1. \A i \in DOMAIN Scopes : Scopes[i] = "internal" <=> i = 2
    BY <1>1, <1>2
  <2>2. 2 \in DOMAIN Scopes
    BY <1>1
  <2> QED
    BY <2>1, <2>2 DEF ScopeRank
<1> QED
  BY <1>3, <1>4 DEF ShouldMask

LEMMA AnswersAreMasked ==
  ASSUME NEW asked, NEW found, NEW payload, Answer(asked, found, payload).status = "ok"
  PROVE  Answer(asked, found, payload) =
           [status |-> "ok", mode |-> ResolvedMode(asked), built |-> snapshot.built,
            stale |-> FALSE, payload |-> Excluded(payload, "identities")]
<1>1. Filtered(payload, "internal", Identities) = Excluded(payload, "identities")
  BY MasksIdentities DEF Filtered, Identities
<1> QED
  BY <1>1 DEF Answer

LEMMA EventsShowNothing ==
  ASSUME NEW asked, NEW found, NEW events,
         Answer(asked, found, [events |-> events]).status = "ok"
  PROVE  ~ Shows(Answer(asked, found, [events |-> events]).payload)
<1> DEFINE payload == [events |-> events]
<1>1. DOMAIN payload = {"events"}
  OBVIOUS
<1> HIDE DEF payload
<1>2. Excluded(payload, "identities") = payload
  BY <1>1 DEF Excluded
<1>3. Answer(asked, found, payload).payload = payload
  BY <1>2, AnswersAreMasked DEF payload
<1>4. ~ Shows(payload)
  BY <1>1 DEF Shows
<1> QED
  BY <1>3, <1>4 DEF payload

LEMMA TimelinesShowNothing ==
  ASSUME NEW asked, NEW id, TimelineAnswer(asked, id).status = "ok"
  PROVE  ~ Shows(TimelineAnswer(asked, id).payload)
<1> DEFINE events == ShownOf(id, "slides") \o ShownOf(id, "messages")
           At(i) == lake[events[i]].at
           Later(i, j) == At(i) > At(j) \/ (At(i) = At(j) /\ i < j)
           later == {p \in (DOMAIN events) \X (DOMAIN events) : Later(p[1], p[2])}
           order == Sorted(DOMAIN events, later)
           sorted == [i \in DOMAIN order |-> events[order[i]]]
<1>1. TimelineAnswer(asked, id) = Answer(asked, TRUE, [events |-> sorted])
  BY DEF TimelineAnswer
<1> HIDE DEF sorted
<1> QED
  BY <1>1, EventsShowNothing

LEMMA RelatedShowNothing ==
  ASSUME NEW asked, NEW id, NEW part, RelatedAnswer(asked, id, part).status = "ok"
  PROVE  ~ Shows(RelatedAnswer(asked, id, part).payload)
<1>1. RelatedAnswer(asked, id, part) = Answer(asked, TRUE, [events |-> ShownOf(id, part)])
  BY DEF RelatedAnswer
<1> QED
  BY <1>1, EventsShowNothing

LEMMA ListsShowNothing ==
  ASSUME NEW asked, NEW offset, NEW limit, ListAnswer(asked, offset, limit).status = "ok"
  PROVE  ~ Shows(ListAnswer(asked, offset, limit).payload)
<1> DEFINE data == Paginate(Listed(snapshot.pages), offset, limit)
           payload == [data |-> data, total |-> Len(snapshot.pages),
                       offset |-> offset, limit |-> limit]
           shown == [i \in DOMAIN data |-> Without(data[i], "identities")]
<1>1. Answer(asked, TRUE, payload).status = "ok"
        /\ ListAnswer(asked, offset, limit) = Answer(asked, TRUE, payload)
  BY DEF ListAnswer
<1> HIDE DEF data
<1>2. /\ "identities" \notin DOMAIN payload /\ "data" \in DOMAIN payload
      /\ payload.data = data
  OBVIOUS
<1>3. Excluded(payload, "identities") = [payload EXCEPT !.data = shown]
  BY <1>2 DEF Excluded
<1>4. ~ Shows([payload EXCEPT !.data = shown])
  <2> DEFINE after == [payload EXCEPT !.data = shown]
  <2> HIDE DEF shown
  <2>1. "identities" \notin DOMAIN after /\ after.data = shown
    OBVIOUS
  <2> HIDE DEF after, payload
  <2>2. ASSUME NEW i \in DOMAIN shown PROVE "identities" \notin DOMAIN shown[i]
    <3>1. shown[i] = Without(data[i], "identities")
      BY <2>2 DEF shown
    <3> QED
      BY <3>1 DEF Without
  <2> QED
    BY <2>1, <2>2 DEF Shows, after
<1>5. ListAnswer(asked, offset, limit).payload = Excluded(payload, "identities")
  <2> DEFINE answer == Answer(asked, TRUE, payload)
  <2> HIDE DEF payload
  <2>1. answer = [status |-> "ok", mode |-> ResolvedMode(asked), built |-> snapshot.built,
                  stale |-> FALSE, payload |-> Excluded(payload, "identities")]
    BY <1>1, AnswersAreMasked
  <2>2. ListAnswer(asked, offset, limit) = answer
    BY <1>1
  <2> HIDE DEF answer
  <2> QED
    BY <2>1, <2>2
<1> QED
  BY <1>3, <1>4, <1>5

LEMMA DetailsShowNothing ==
  ASSUME NEW asked, NEW id, DetailAnswer(asked, id).status = "ok"
  PROVE  ~ Shows(DetailAnswer(asked, id).payload)
<1> DEFINE detail == Detail(snapshot.pages[id])
<1>1. "identities" \in DOMAIN detail /\ "data" \notin DOMAIN detail
  BY DEF Detail
<1>2. DetailAnswer(asked, id) = Answer(asked, id \in DOMAIN snapshot.pages, detail)
  BY DEF DetailAnswer
<1> HIDE DEF detail
<1>3. DetailAnswer(asked, id).payload = Excluded(detail, "identities")
  BY <1>2, AnswersAreMasked
<1>4. ~ Shows(Excluded(detail, "identities"))
  BY <1>1 DEF Excluded, Without, Shows
<1> QED
  BY <1>3, <1>4

(* The filter hides what it must in whatever is answered: no snapshot, no page of
   a list and no id makes a difference. *)
THEOREM ReadApiIdentitiesHidden == Spec => []IdentitiesHidden
<1>1. IdentitiesHidden
  <2> SUFFICES ASSUME NEW asked \in Modes,
                      NEW a \in {ListAnswer(asked, 0, limit) : limit \in Limits}
                           \cup {DetailAnswer(asked, id) : id \in 1..(MaxLake + 1)}
                           \cup {TimelineAnswer(asked, id) : id \in 1..(MaxLake + 1)}
                           \cup {RelatedAnswer(asked, id, part) :
                                   id \in 1..(MaxLake + 1), part \in {"slides", "messages"}},
                      a.status = "ok"
               PROVE  ~ Shows(a.payload)
    BY DEF IdentitiesHidden
  <2>1. CASE \E limit \in Limits : a = ListAnswer(asked, 0, limit)
    BY <2>1, ListsShowNothing
  <2>2. CASE \E id \in 1..(MaxLake + 1) : a = DetailAnswer(asked, id)
    BY <2>2, DetailsShowNothing
  <2>3. CASE \E id \in 1..(MaxLake + 1) : a = TimelineAnswer(asked, id)
    BY <2>3, TimelinesShowNothing
  <2>4. CASE \E id \in 1..(MaxLake + 1), part \in {"slides", "messages"} :
               a = RelatedAnswer(asked, id, part)
    BY <2>4, RelatedShowNothing
  <2> QED
    BY <2>1, <2>2, <2>3, <2>4
<1> QED
  BY <1>1, PTL

-----------------------------------------------------------------------------
LEMMA MadePersonsAre ==
  ASSUME NEW shot, NEW obs \in Seq(Kept), MadeOf(shot, obs)
  PROVE  \E p, root, depth, listed :
           /\ Forest(Len(Candidates(obs)), p, root, depth)
           /\ Connects(Done(Candidates(obs), {}), Len(Candidates(obs)), root)
           /\ AreClasses(Len(Candidates(obs)), root, Candidates(obs), shot.persons)
           /\ listed \in SetToSeqs(shot.records)
           /\ shot.persons = ResolvedPersons(Candidates(obs), p)
           /\ shot.pages = Pages(shot.persons, obs, listed)
<1> DEFINE cands == Candidates(obs)
           n == Len(cands)
<1>1. n \in Nat /\ DOMAIN cands = 1..n
  BY CandidatesAre
<1>2. PICK p, listed : /\ Resolving(cands, {}, p)
                       /\ listed \in SetToSeqs(shot.records)
                       /\ shot.persons = ResolvedPersons(cands, p)
                       /\ shot.pages = Pages(shot.persons, obs, listed)
  BY DEF MadeOf
<1>3. PICK root, depth : Forest(n, p, root, depth) /\ Connects(Done(cands, {}), n, root)
  BY <1>2 DEF Resolving
<1> HIDE DEF cands, n
<1>4. AreClasses(n, root, cands, shot.persons)
  BY <1>1, <1>2, <1>3, PersonsAre
<1> QED
  BY <1>2, <1>3, <1>4 DEF cands, n

(* The persons of a snapshot are the classes its matches connect, numbered in
   order of appearance: when it was rebuilt and the order in which a HashMap gave
   the projector its matches make no difference. *)
THEOREM ReadApiReplayGivesSamePersons == Spec => []ReplayGivesSamePersons
<1>1. ASSUME BuiltInv PROVE ReplayGivesSamePersons
  <2> DEFINE obs == SubSeq(lake, 1, snapshot.upTo)
             cands == Candidates(obs)
             n == Len(cands)
             persons == snapshot.persons
  <2>1. obs \in Seq(Kept) /\ MadeOf(snapshot, obs)
    BY <1>1, FirstsAre DEF BuiltInv, LakeInv, ShotInv
  <2>2. n \in Nat /\ DOMAIN cands = 1..n
    BY <2>1, CandidatesAre
  <2>3. PICK root : Connects(Done(cands, {}), n, root) /\ AreClasses(n, root, cands, persons)
    <3> HIDE DEF obs
    <3> QED
      BY <2>1, MadePersonsAre
  <2> HIDE DEF cands, n, persons
  <2>4. \A k \in DOMAIN persons : \E i \in 1..n : persons[k].members = Class(n, root, i)
    BY <2>3 DEF AreClasses
  <2>5. UNION {persons[k].members : k \in DOMAIN persons} = 1..n
    <3>1. \A i \in 1..n : i \in Class(n, root, i) /\ Class(n, root, i) \subseteq 1..n
      BY DEF Class
    <3>2. ASSUME NEW i \in 1..n PROVE \E k \in DOMAIN persons : i \in persons[k].members
      <4>1. PICK k \in DOMAIN persons : persons[k].members = Class(n, root, i)
        BY <2>3 DEF AreClasses
      <4> QED
        BY <3>1, <4>1
    <3> QED
      BY <2>4, <3>1, <3>2
  <2>6. \A k \in DOMAIN persons : Whole(Links(cands), persons[k].members)
    BY <2>2, <2>3, <2>4, AllDone
  <2>7. \A k, l \in DOMAIN persons : k < l => Min(persons[k].members) < Min(persons[l].members)
    BY <2>3 DEF AreClasses
  <2> QED
    BY <2>2, <2>5, <2>6, <2>7 DEF ReplayGivesSamePersons, cands, persons
<1> QED
  BY <1>1, ReadApiBuilt, PTL

(* A name in the lake is on a page of every snapshot that is of it. *)
THEOREM ReadApiNothingLost == Spec => []NothingLost
<1>1. ASSUME BuiltInv PROVE NothingLost
  <2> DEFINE obs == SubSeq(lake, 1, snapshot.upTo)
  <2>1. /\ obs \in Seq(Kept) /\ MadeOf(snapshot, obs) /\ DOMAIN obs = 1..snapshot.upTo
        /\ \A i \in 1..snapshot.upTo : obs[i] = lake[i]
    BY <1>1, FirstsAre DEF BuiltInv, LakeInv, ShotInv
  <2> HIDE DEF obs
  <2>2. PICK p, root, depth, listed :
          /\ Forest(Len(Candidates(obs)), p, root, depth)
          /\ snapshot.pages = Pages(ResolvedPersons(Candidates(obs), p), obs, listed)
    <3>1. PICK p, root, depth, listed :
            /\ Forest(Len(Candidates(obs)), p, root, depth)
            /\ snapshot.persons = ResolvedPersons(Candidates(obs), p)
            /\ snapshot.pages = Pages(snapshot.persons, obs, listed)
      BY <2>1, MadePersonsAre
    <3> QED
      BY <3>1
  <2>3. ASSUME NEW i \in 1..snapshot.upTo, Candidates(<<lake[i]>>) # <<>>
        PROVE  \E page \in ToSet(snapshot.pages) : i \in ToSet(page.slides) \cup ToSet(page.messages)
    <3>1. i \in DOMAIN obs /\ Candidates(<<obs[i]>>) # <<>>
      BY <2>1, <2>3
    <3> QED
      BY <2>1, <2>2, <3>1, NamedIsShown
  <2> QED
    BY <2>3 DEF NothingLost
<1> QED
  BY <1>1, ReadApiBuilt, PTL

-----------------------------------------------------------------------------
LEMMA BoundExists ==
  ASSUME NEW n \in Nat, NEW f, \A i \in 1..n : f[i] \in Nat
  PROVE  \E b \in Nat : \A i \in 1..n : f[i] <= b
<1> DEFINE Bounded(k) == \E b \in Nat : \A i \in 1..k : f[i] <= b
           Wrong == {k \in 0..n : ~ Bounded(k)}
           m == Min(Wrong)
<1> SUFFICES ASSUME ~ Bounded(n) PROVE FALSE
  OBVIOUS
<1>1. m \in Wrong /\ \A k \in Wrong : m <= k
  <2>1. n \in Wrong /\ Wrong \subseteq Nat
    OBVIOUS
  <2> HIDE DEF Wrong
  <2> QED
    BY <2>1, MinIs
<1> HIDE DEF m
<1>2. m # 0
  <2>1. Bounded(0)
    OBVIOUS
  <2> QED
    BY <1>1, <2>1
<1>3. m - 1 \in 0..n /\ m \in 1..n /\ m - 1 \notin Wrong
  <2>1. m \in 0..n
    BY <1>1
  <2> HIDE DEF Wrong
  <2> QED
    BY <1>1, <1>2, <2>1
<1>4. PICK b \in Nat : \A i \in 1..(m - 1) : f[i] <= b
  BY <1>3
<1> DEFINE c == IF f[m] <= b THEN b ELSE f[m]
<1>5. c \in Nat /\ b <= c /\ f[m] <= c
  BY <1>3
<1> HIDE DEF c
<1>6. ASSUME NEW i \in 1..m PROVE f[i] <= c
  <2>1. CASE i = m
    BY <1>5, <2>1
  <2>2. CASE i # m
    <3>1. i \in 1..(m - 1) /\ i \in 1..n
      BY <1>3, <2>2
    <3>2. f[i] <= b /\ f[i] \in Nat
      BY <1>4, <3>1
    <3> QED
      BY <1>4, <1>5, <3>2
  <2> QED
    BY <2>1, <2>2
<1>7. Bounded(m)
  BY <1>5, <1>6
<1> QED
  BY <1>1, <1>7

LEMMA ActivityIs ==
  ASSUME NEW obs \in Seq(Kept), NEW shown, shown \subseteq DOMAIN obs
  PROVE  Activity(shown, obs).last \in Nat
<1> DEFINE times == {obs[i].at : i \in shown}
           at == [i \in DOMAIN obs |-> obs[i].at]
<1>1. Len(obs) \in Nat /\ DOMAIN obs = 1..Len(obs) /\ \A i \in DOMAIN obs : obs[i].at \in Nat
  BY LenProperties, KeptIs
<1>2. PICK b \in Nat : \A i \in DOMAIN obs : obs[i].at <= b
  <2>1. \A i \in 1..Len(obs) : at[i] \in Nat /\ at[i] = obs[i].at
    BY <1>1
  <2> HIDE DEF at
  <2>2. \E b \in Nat : \A i \in 1..Len(obs) : at[i] <= b
    BY <1>1, <2>1, BoundExists
  <2> QED
    BY <1>1, <2>1, <2>2
<1>3. times \subseteq Nat /\ \A t \in times : t <= b
  BY <1>1, <1>2
<1>4. Activity(shown, obs).last = IF times = {} THEN 0 ELSE Max(times)
  BY DEF Activity
<1> HIDE DEF times
<1>5. times # {} => Max(times) \in Nat
  BY <1>2, <1>3, MaxIs
<1> QED
  BY <1>4, <1>5

(* Pages that can be listed: numbered, each with a time. *)
ArePages(pages, m) ==
  /\ DOMAIN pages = 1..m /\ Len(pages) = m
  /\ \A k \in 1..m : pages[k].id = k /\ pages[k].last \in Nat

LEMMA PagesAre ==
  ASSUME NEW m \in Nat, NEW persons, DOMAIN persons = 1..m, \A k \in 1..m : persons[k].id = k,
         NEW obs \in Seq(Kept), NEW recs
  PROVE  ArePages(Pages(persons, obs, recs), m)
<1> DEFINE personOf == PersonOf(persons)
           profiles == FrontendProfiles(Len(persons), recs, obs, personOf)
           pages == Pages(persons, obs, recs)
<1>1. pages = [k \in 1..m |-> Page(persons[k], obs, personOf, profiles[k])]
  BY DEF Pages
<1> HIDE DEF personOf, profiles, pages
<1>2. ASSUME NEW k \in 1..m PROVE pages[k].id = k /\ pages[k].last \in Nat
  <2> DEFINE shown == ToSet(Slides(k, obs, personOf)) \cup ToSet(Messages(k, obs, personOf))
  <2>1. pages[k] = Page(persons[k], obs, personOf, profiles[k])
    BY <1>1
  <2>2. shown \subseteq DOMAIN obs
    BY RelatedIs DEF Slides, Messages
  <2>3. pages[k].id = k /\ pages[k].last = Activity(shown, obs).last
    <3>1. persons[k].id = k
      OBVIOUS
    <3> DEFINE activity == Activity(shown, obs)
               slides == Slides(k, obs, personOf)
               messages == Messages(k, obs, personOf)
    <3>2. activity = Activity(ToSet(slides) \cup ToSet(messages), obs)
      OBVIOUS
    <3> HIDE DEF activity, slides, messages, shown
    <3>3. pages[k].id = k /\ pages[k].last = Activity(ToSet(slides) \cup ToSet(messages), obs).last
      BY <2>1, <3>1 DEF Page, slides, messages
    <3> QED
      BY <3>2, <3>3 DEF activity
  <2> HIDE DEF shown
  <2> QED
    BY <2>2, <2>3, ActivityIs
<1>3. DOMAIN pages = 1..m /\ Len(pages) = m
  <2> DEFINE All == {pages[k] : k \in 1..m}
  <2>1. pages \in [1..m -> All]
    BY <1>1
  <2> HIDE DEF All
  <2>2. pages \in Seq(All)
    BY <2>1, SeqDef
  <2>3. Len(pages) \in Nat /\ DOMAIN pages = 1..Len(pages)
    BY <2>2, LenProperties
  <2> QED
    BY <2>1, <2>3
<1> QED
  BY <1>2, <1>3 DEF ArePages, pages

(* The list has every person once. *)
EachOnce(list, m) ==
  /\ \A i \in 1..m : list[i].id \in 1..m
  /\ \A k \in 1..m : \E i \in 1..m : list[i].id = k

LEMMA ListedIs ==
  ASSUME NEW m \in Nat, NEW pages, ArePages(pages, m)
  PROVE  /\ Listed(pages) \in [1..m -> {ListItem(p) : p \in ToSet(pages)}]
         /\ EachOnce(Listed(pages), m)
<1> DEFINE S == ToSet(pages)
           Later(p, q) == p.last > q.last \/ (p.last = q.last /\ p.id < q.id)
           later == {pair \in S \X S : Later(pair[1], pair[2])}
           sorted == Sorted(S, later)
<1>1. Listed(pages) = [i \in DOMAIN sorted |-> ListItem(sorted[i])]
  BY DEF Listed
<1>2. /\ \A k \in 1..m : pages[k] \in S /\ pages[k].id = k
      /\ \A p \in S : p.id \in 1..m /\ p = pages[p.id] /\ p.last \in Nat
  BY DEF ToSet, ArePages
<1>3. IsFiniteSet(S) /\ Cardinality(S) = m
  <2> DEFINE id == [p \in S |-> p.id]
  <2>1. id \in [S -> 1..m] /\ \A p, q \in S : id[p] = id[q] => p = q
    <3> HIDE DEF S
    <3> QED
      BY <1>2
  <2>2. \A k \in 1..m : id[pages[k]] = k /\ pages[k] \in S
    <3> HIDE DEF S
    <3> QED
      BY <1>2
  <2> HIDE DEF id, S
  <2>3. id \in Injection(S, 1..m)
    BY <2>1, Fun_IsInj
  <2>4. id \in Surjection(S, 1..m)
    BY <2>1, <2>2, Fun_IsSurj
  <2>5. IsFiniteSet(1..m) /\ Cardinality(1..m) = m
    BY FS_Interval
  <2> QED
    BY <2>3, <2>4, <2>5, FS_Injection
<1>4. \A p, q \in S : <<p, q>> \in later <=> Later(p, q)
  OBVIOUS
<1> HIDE DEF S, later
<1>5. /\ \A p \in S : <<p, p>> \notin later
      /\ \A p, q \in S : p # q => <<p, q>> \in later \/ <<q, p>> \in later
      /\ \A p, q, r \in S : <<p, q>> \in later /\ <<q, r>> \in later => <<p, r>> \in later
  <2>1. \A p \in S : ~ Later(p, p)
    BY <1>2
  <2>2. ASSUME NEW p \in S, NEW q \in S, p # q PROVE Later(p, q) \/ Later(q, p)
    <3>1. p.id # q.id /\ p.id \in Nat /\ q.id \in Nat /\ p.last \in Nat /\ q.last \in Nat
      BY <1>2, <2>2
    <3> QED
      BY <3>1
  <2>3. ASSUME NEW p \in S, NEW q \in S, NEW r \in S, Later(p, q), Later(q, r) PROVE Later(p, r)
    <3>1. /\ p.id \in Nat /\ q.id \in Nat /\ r.id \in Nat
          /\ p.last \in Nat /\ q.last \in Nat /\ r.last \in Nat
      BY <1>2
    <3> QED
      BY <2>3, <3>1
  <2> HIDE DEF Later
  <2> QED
    BY <1>4, <2>1, <2>2, <2>3
<1>6. /\ sorted \in [1..m -> S]
      /\ \A p \in S : \E i \in 1..m : sorted[i] = p
  BY <1>3, <1>5, SortedIs
<1> HIDE DEF sorted
<1>7. /\ DOMAIN Listed(pages) = 1..m
      /\ \A i \in 1..m : Listed(pages)[i] = ListItem(sorted[i]) /\ sorted[i] \in S
  BY <1>1, <1>6
<1>8. \A i \in 1..m : Listed(pages)[i].id = sorted[i].id
  BY <1>7 DEF ListItem
<1>9. \A i \in 1..m : Listed(pages)[i].id \in 1..m
  BY <1>2, <1>7, <1>8
<1>10. ASSUME NEW k \in 1..m PROVE \E i \in 1..m : Listed(pages)[i].id = k
  <2>1. PICK i \in 1..m : sorted[i] = pages[k]
    BY <1>2, <1>6
  <2> QED
    BY <1>2, <1>8, <2>1
<1>11. Listed(pages) \in [1..m -> {ListItem(p) : p \in S}]
  BY <1>1, <1>6
<1> QED
  BY <1>9, <1>10, <1>11 DEF S, EachOnce

-----------------------------------------------------------------------------
LEMMA MinOfTwo ==
  ASSUME NEW a \in Nat, NEW b \in Nat
  PROVE  Min({a, b}) = IF a <= b THEN a ELSE b
<1>1. Min({a, b}) \in {a, b} /\ \A t \in {a, b} : Min({a, b}) <= t
  BY MinIs
<1> DEFINE least == Min({a, b})
<1>2. least \in {a, b} /\ least <= a /\ least <= b
  BY <1>1
<1> HIDE DEF least
<1>3. least = IF a <= b THEN a ELSE b
  BY <1>2
<1> QED
  BY <1>3 DEF least

(* What a page of the list has: the items after the offset, no more than there are. *)
IsCut(page, list, m, offset) ==
  \E k \in Nat : /\ offset + k <= m /\ DOMAIN page = 1..k
                 /\ \A i \in 1..k : page[i] = list[offset + i]

LEMMA PaginateIs ==
  ASSUME NEW S, NEW m \in Nat, NEW list \in [1..m -> S], NEW offset \in 0..m, NEW limit \in Nat
  PROVE  IsCut(Paginate(list, offset, limit), list, m, offset)
<1>1. list \in Seq(S) /\ Len(list) = m
  <2>1. list \in Seq(S)
    BY SeqDef
  <2>2. Len(list) \in Nat /\ DOMAIN list = 1..Len(list)
    BY <2>1, LenProperties
  <2> QED
    BY <2>1, <2>2
<1>2. Validated(limit) \in Nat
  BY MinOfTwo, ReadApiAssumption DEF Validated
<1>3. Min({offset, Len(list)}) = offset
  BY <1>1, MinOfTwo
<1> DEFINE end == Min({offset + Validated(limit), Len(list)})
           k == end - offset
<1>4. end \in Nat /\ offset <= end /\ end <= m
  <2>1. end = IF offset + Validated(limit) <= m THEN offset + Validated(limit) ELSE m
    BY <1>1, <1>2, MinOfTwo
  <2> HIDE DEF end
  <2> QED
    BY <1>2, <2>1
<1>5. Paginate(list, offset, limit) = SubSeq(list, offset + 1, end)
  BY <1>3 DEF Paginate
<1> HIDE DEF end
<1>6. /\ SubSeq(list, offset + 1, end) \in Seq(S)
      /\ Len(SubSeq(list, offset + 1, end)) = IF offset + 1 <= end THEN end - (offset + 1) + 1 ELSE 0
      /\ \A i \in 1..end - (offset + 1) + 1 :
           SubSeq(list, offset + 1, end)[i] = list[(offset + 1) + i - 1]
  <2>1. offset + 1 \in Int /\ end \in Int /\ \A i \in (offset + 1)..end : list[i] \in S
    BY <1>4
  <2> QED
    BY <2>1, SubSeqProperties
<1> DEFINE page == SubSeq(list, offset + 1, end)
<1>7. DOMAIN page = 1..Len(page)
  BY <1>6, LenProperties
<1>8. k \in Nat /\ end - (offset + 1) + 1 = k /\ (~ (offset + 1 <= end) => k = 0)
  BY <1>4
<1>9. \A i \in 1..k : (offset + 1) + i - 1 = offset + i
  BY <1>8
<1>10. /\ offset + k <= m /\ DOMAIN page = 1..k
       /\ \A i \in 1..k : page[i] = list[offset + i]
  <2>1. Len(page) = k
    BY <1>6, <1>8
  <2>2. offset + k <= m
    BY <1>4
  <2> HIDE DEF k
  <2>3. \A i \in 1..k : page[i] = list[offset + i]
    BY <1>6, <1>8, <1>9
  <2> HIDE DEF page
  <2> QED
    BY <1>7, <2>1, <2>2, <2>3
<1> HIDE DEF page
<1> QED
  BY <1>5, <1>8, <1>10 DEF page, IsCut

HasLength(page) == \E k \in Nat : DOMAIN page = 1..k

LEMMA PaginateHasLength ==
  ASSUME NEW S, NEW m \in Nat, NEW list \in [1..m -> S], NEW offset \in Nat, NEW limit \in Nat
  PROVE  HasLength(Paginate(list, offset, limit))
<1>1. CASE offset <= m
  BY <1>1, PaginateIs DEF IsCut, HasLength
<1>2. CASE ~ (offset <= m)
  <2>1. Len(list) = m
    <3>1. list \in Seq(S)
      BY SeqDef
    <3>2. Len(list) \in Nat /\ DOMAIN list = 1..Len(list)
      BY <3>1, LenProperties
    <3> QED
      BY <3>2
  <2>2. Min({offset, Len(list)}) = m /\ Min({m, Len(list)}) = m
    BY <1>2, <2>1, MinOfTwo
  <2>3. Paginate(list, offset, limit) = Paginate(list, m, limit)
    BY <2>2 DEF Paginate
  <2>4. HasLength(Paginate(list, m, limit))
    BY PaginateIs DEF IsCut, HasLength
  <2> QED
    BY <2>3, <2>4
<1> QED
  BY <1>1, <1>2

-----------------------------------------------------------------------------
(* The first k of the ids listed. *)
Begins(seen, list, m, k) ==
  /\ k \in 0..m /\ seen \in Seq(1..m) /\ Len(seen) = k
  /\ \A i \in 1..k : seen[i] = list[i].id

(* What a reader has seen of one snapshot is the beginning of its list. *)
HasSeen(r, pages) ==
  \E m \in Nat :
    /\ ArePages(pages, m) /\ r.total = m /\ r.offset < m
    /\ Begins(r.seen, Listed(pages), m, r.offset)

ReaderInv ==
  /\ reader.built \subseteq 0..snapshot.built
  /\ reader.on => reader.offset \in Nat /\ reader.built # {}
  /\ reader.on /\ reader.built = {snapshot.built} => HasSeen(reader, snapshot.pages)
  /\ ListingIsComplete

LEMMA MadePagesAre ==
  ASSUME NEW shot, NEW obs \in Seq(Kept), MadeOf(shot, obs)
  PROVE  \E m \in Nat : ArePages(shot.pages, m)
<1>1. PICK p, root, depth, listed :
        /\ AreClasses(Len(Candidates(obs)), root, Candidates(obs), shot.persons)
        /\ shot.pages = Pages(shot.persons, obs, listed)
  BY MadePersonsAre
<1>2. /\ Len(shot.persons) \in Nat /\ DOMAIN shot.persons = 1..Len(shot.persons)
      /\ \A k \in 1..Len(shot.persons) : shot.persons[k].id = k
  BY <1>1 DEF AreClasses
<1> QED
  BY <1>1, <1>2, PagesAre

(* The items of a page, as they are answered. *)
Answered(pages, offset, limit) ==
  [i \in DOMAIN Paginate(Listed(pages), offset, limit) |->
     Without(Paginate(Listed(pages), offset, limit)[i], "identities")]

(* The answer to a request for a page of the list. *)
LEMMA ListAnswerIs ==
  ASSUME NEW m \in Nat, ArePages(snapshot.pages, m), NEW asked, NEW offset, NEW limit \in Limits,
         ListAnswer(asked, offset, limit).status = "ok"
  PROVE  /\ ListAnswer(asked, offset, limit).built = snapshot.built
         /\ ListAnswer(asked, offset, limit).payload.total = m
         /\ ListAnswer(asked, offset, limit).payload.data = Answered(snapshot.pages, offset, limit)
<1> DEFINE page == Paginate(Listed(snapshot.pages), offset, limit)
           payload == [data |-> page, total |-> Len(snapshot.pages),
                       offset |-> offset, limit |-> limit]
           shown == [i \in DOMAIN page |-> Without(page[i], "identities")]
           got == ListAnswer(asked, offset, limit)
<1>1. got = Answer(asked, TRUE, payload)
  BY DEF ListAnswer
<1> HIDE DEF page
<1>2. /\ "identities" \notin DOMAIN payload /\ "data" \in DOMAIN payload
      /\ payload.data = page
  OBVIOUS
<1>3. Excluded(payload, "identities") = [payload EXCEPT !.data = shown]
  BY <1>2 DEF Excluded
<1>4. [payload EXCEPT !.data = shown] =
        [data |-> shown, total |-> Len(snapshot.pages), offset |-> offset, limit |-> limit]
  <2> HIDE DEF shown
  <2> QED
    OBVIOUS
<1>5. Len(snapshot.pages) = m
  BY DEF ArePages
<1> HIDE DEF payload, shown
<1>6. got.built = snapshot.built /\ got.payload = Excluded(payload, "identities")
  <2> DEFINE answer == Answer(asked, TRUE, payload)
  <2>1. answer.status = "ok"
    BY <1>1
  <2>2. answer = [status |-> "ok", mode |-> ResolvedMode(asked), built |-> snapshot.built,
                  stale |-> FALSE, payload |-> Excluded(payload, "identities")]
    BY <2>1, AnswersAreMasked
  <2>3. got = answer
    BY <1>1
  <2> HIDE DEF answer, got
  <2> QED
    BY <2>2, <2>3
<1> HIDE DEF got
<1>7. got.payload.total = m /\ got.payload.data = shown
  BY <1>3, <1>4, <1>5, <1>6
<1> QED
  BY <1>6, <1>7 DEF got, shown, page, Answered

-----------------------------------------------------------------------------
LEMMA SeenGoesOn ==
  ASSUME NEW m \in Nat, NEW list, EachOnce(list, m), NEW offset \in Nat, NEW k \in Nat,
         offset + k <= m, NEW seen, Begins(seen, list, m, offset),
         NEW next, next = [i \in 1..k |-> list[offset + i].id]
  PROVE  Begins(seen \o next, list, m, offset + k)
<1>1. /\ next \in Seq(1..m) /\ Len(next) = k
      /\ \A i \in 1..k : next[i] = list[offset + i].id
  <2>1. \A i \in 1..k : offset + i \in 1..m
    OBVIOUS
  <2>2. \A i \in 1..k : list[offset + i].id \in 1..m
    BY <2>1 DEF EachOnce
  <2>3. next \in [1..k -> 1..m]
    BY <2>2
  <2>4. next \in Seq(1..m)
    BY <2>3, SeqDef
  <2>5. Len(next) \in Nat /\ DOMAIN next = 1..Len(next)
    BY <2>4, LenProperties
  <2> QED
    BY <2>3, <2>4, <2>5
<1>2. seen \in Seq(1..m) /\ Len(seen) = offset /\ \A i \in 1..offset : seen[i] = list[i].id
  BY DEF Begins
<1>3. /\ seen \o next \in Seq(1..m) /\ Len(seen \o next) = offset + k
      /\ \A i \in 1..offset + k :
           (seen \o next)[i] = IF i <= offset THEN seen[i] ELSE next[i - offset]
  <2>1. /\ seen \o next \in Seq(1..m) /\ Len(seen \o next) = Len(seen) + Len(next)
        /\ \A i \in 1..Len(seen) + Len(next) :
             (seen \o next)[i] = IF i <= Len(seen) THEN seen[i] ELSE next[i - Len(seen)]
    <3>1. seen \in Seq(1..m) /\ next \in Seq(1..m)
      BY <1>1, <1>2
    <3> QED
      BY <3>1, ConcatProperties
  <2> QED
    BY <1>1, <1>2, <2>1
<1>4. ASSUME NEW i \in 1..(offset + k) PROVE (seen \o next)[i] = list[i].id
  <2>1. CASE i <= offset
    BY <1>2, <1>3, <2>1
  <2>2. CASE ~ (i <= offset)
    <3>1. i - offset \in 1..k /\ offset + (i - offset) = i
      BY <2>2
    <3> QED
      BY <1>1, <1>3, <2>2, <3>1
  <2> QED
    BY <2>1, <2>2
<1>5. offset + k \in 0..m
  OBVIOUS
<1> QED
  BY <1>3, <1>4, <1>5 DEF Begins

LEMMA AnsweredHasLength ==
  ASSUME NEW m \in Nat, NEW pages, ArePages(pages, m), NEW offset \in Nat, NEW limit \in Limits
  PROVE  Len(Answered(pages, offset, limit)) \in Nat
<1> DEFINE list == Listed(pages)
           Items == {ListItem(p) : p \in ToSet(pages)}
           data == Answered(pages, offset, limit)
<1>1. list \in [1..m -> Items] /\ limit \in Nat
  BY ListedIs, ReadApiAssumption
<1>2. DOMAIN data = DOMAIN Paginate(list, offset, limit)
  BY DEF Answered
<1>3. data = [i \in DOMAIN data |-> data[i]]
  BY DEF Answered
<1> HIDE DEF list, Items, data
<1>4. PICK k \in Nat : DOMAIN data = 1..k
  <2>1. HasLength(Paginate(list, offset, limit))
    BY <1>1, PaginateHasLength
  <2> QED
    BY <1>2, <2>1 DEF HasLength
<1> DEFINE All == {data[i] : i \in 1..k}
<1>5. data \in [1..k -> All]
  BY <1>3, <1>4
<1> HIDE DEF All
<1>6. data \in Seq(All)
  BY <1>5, SeqDef
<1> QED
  BY <1>6, LenProperties DEF data

(* One more page of the list of this snapshot. *)
LEMMA PageGoesOn ==
  ASSUME NEW m \in Nat, NEW pages, ArePages(pages, m), NEW offset, NEW limit \in Limits,
         NEW seen, Begins(seen, Listed(pages), m, offset),
         NEW data, data = Answered(pages, offset, limit)
  PROVE  Begins(seen \o [i \in DOMAIN data |-> data[i].id], Listed(pages), m, offset + Len(data))
<1> DEFINE list == Listed(pages)
           Items == {ListItem(p) : p \in ToSet(pages)}
           page == Paginate(list, offset, limit)
<1>1. list \in [1..m -> Items] /\ EachOnce(list, m)
  BY ListedIs
<1>2. limit \in Nat /\ offset \in 0..m /\ offset \in Nat
  BY ReadApiAssumption DEF Begins
<1>3. \A item \in Items : "id" \in DOMAIN item
  BY DEF ListItem
<1>4. data = [i \in DOMAIN page |-> Without(page[i], "identities")]
  BY DEF Answered
<1>5. Begins(seen, list, m, offset)
  OBVIOUS
<1> HIDE DEF list, Items
<1>6. PICK k \in Nat : /\ offset + k <= m /\ DOMAIN page = 1..k
                       /\ \A i \in 1..k : page[i] = list[offset + i]
  <2>1. IsCut(page, list, m, offset)
    BY <1>1, <1>2, PaginateIs
  <2> HIDE DEF page
  <2> QED
    BY <2>1 DEF IsCut
<1> HIDE DEF page
<1>7. DOMAIN data = 1..k /\ Len(data) = k
  <2> DEFINE All == {data[i] : i \in 1..k}
  <2>1. DOMAIN data = 1..k /\ data \in [1..k -> All]
    BY <1>4, <1>6
  <2> HIDE DEF All
  <2>2. data \in Seq(All)
    BY <2>1, SeqDef
  <2>3. Len(data) \in Nat /\ DOMAIN data = 1..Len(data)
    BY <2>2, LenProperties
  <2> QED
    BY <2>1, <2>3
<1>8. ASSUME NEW i \in 1..k PROVE data[i].id = list[offset + i].id
  <2>1. offset + i \in 1..m /\ page[i] = list[offset + i]
    BY <1>2, <1>6
  <2>2. "id" \in DOMAIN page[i]
    BY <1>1, <1>3, <2>1
  <2>3. data[i] = Without(page[i], "identities")
    BY <1>4, <1>6
  <2>4. data[i].id = page[i].id
    BY <2>2, <2>3 DEF Without
  <2> QED
    BY <2>1, <2>4
<1> DEFINE next == [i \in DOMAIN data |-> data[i].id]
<1>9. next = [i \in 1..k |-> list[offset + i].id]
  BY <1>7, <1>8
<1> HIDE DEF next
<1>10. Begins(seen \o next, list, m, offset + k)
  BY <1>1, <1>2, <1>5, <1>6, <1>9, SeenGoesOn
<1> QED
  BY <1>7, <1>10 DEF next, list

(* A reader that has all of the list has every id once. *)
LEMMA AllSeen ==
  ASSUME NEW m \in Nat, NEW list, EachOnce(list, m), NEW seen, Begins(seen, list, m, m)
  PROVE  Len(seen) = m /\ ToSet(seen) = 1..m
<1>1. Len(seen) = m /\ DOMAIN seen = 1..m /\ \A i \in 1..m : seen[i] = list[i].id
  BY LenProperties DEF Begins
<1>2. \A i \in 1..m : list[i].id \in 1..m
  BY DEF EachOnce
<1>3. ASSUME NEW k \in 1..m PROVE \E i \in 1..m : seen[i] = k
  <2>1. PICK i \in 1..m : list[i].id = k
    BY DEF EachOnce
  <2> QED
    BY <1>1, <2>1
<1>4. ToSet(seen) = {seen[i] : i \in 1..m}
  BY <1>1 DEF ToSet
<1>5. \A i \in 1..m : seen[i] \in 1..m
  BY <1>1, <1>2
<1>6. ToSet(seen) = 1..m
  BY <1>3, <1>4, <1>5
<1> QED
  BY <1>1, <1>6

LEMMA BuiltOfOne ==
  ASSUME NEW b \in Nat, NEW built, built \subseteq 0..b, b \in built, Cardinality(built) = 1
  PROVE  built = {b}
<1>1. IsFiniteSet(built)
  <2>1. IsFiniteSet(0..b)
    BY FS_Interval
  <2> QED
    BY <2>1, FS_Subset
<1>2. PICK x : built = {x}
  BY <1>1, FS_Singleton
<1> QED
  BY <1>2

LEMMA ListPersonsKeepsReader ==
  ASSUME BuiltInv, ReaderInv, ListPersons PROVE ReaderInv'
<1> DEFINE before == IF reader.on THEN reader ELSE NotListing
<1>1. PICK m \in Nat : ArePages(snapshot.pages, m)
  <2>1. /\ SubSeq(lake, 1, snapshot.upTo) \in Seq(Kept)
        /\ MadeOf(snapshot, SubSeq(lake, 1, snapshot.upTo))
    BY FirstsAre DEF BuiltInv, LakeInv, ShotInv
  <2> QED
    BY <2>1, MadePagesAre
<1>2. PICK asked \in Modes, limit \in Limits :
        LET got == ListAnswer(asked, before.offset, limit)
            data == got.payload.data
            next == before.offset + Len(data)
        IN  /\ got.status = "ok"
            /\ reader' = [on |-> next < got.payload.total,
                          offset |-> next,
                          seen |-> before.seen \o [i \in DOMAIN data |-> data[i].id],
                          built |-> before.built \cup {got.built},
                          total |-> got.payload.total]
            /\ UNCHANGED snapshot
  BY DEF ListPersons
<1> DEFINE got == ListAnswer(asked, before.offset, limit)
           data == Answered(snapshot.pages, before.offset, limit)
           next == before.offset + Len(data)
           all == before.seen \o [i \in DOMAIN data |-> data[i].id]
<1>3. got.built = snapshot.built /\ got.payload.total = m /\ got.payload.data = data
  <2>1. got.status = "ok"
    BY <1>2
  <2> HIDE DEF before
  <2> QED
    BY <1>1, <2>1, ListAnswerIs
<1>4. /\ reader' = [on |-> next < m, offset |-> next, seen |-> all,
                    built |-> before.built \cup {snapshot.built}, total |-> m]
      /\ snapshot' = snapshot
  <2> HIDE DEF before
  <2> QED
    BY <1>2, <1>3, Zenon
<1>5. /\ reader'.on = (next < m) /\ reader'.offset = next /\ reader'.seen = all
      /\ reader'.built = before.built \cup {snapshot.built} /\ reader'.total = m
      /\ snapshot' = snapshot
  <2> HIDE DEF before, next, all
  <2> QED
    BY <1>4
<1>6. snapshot.built \in Nat
  BY DEF BuiltInv, ShotInv, LakeInv
<1>7. /\ before.built \subseteq 0..snapshot.built /\ before.offset \in Nat
      /\ before.built = {} \/ reader.on
      /\ reader.on => before = reader /\ before.built # {}
      /\ ~ reader.on => before = NotListing
  BY DEF ReaderInv, NotListing
<1>8. before.built \subseteq {snapshot.built} => Begins(before.seen, Listed(snapshot.pages), m, before.offset)
  <2>1. CASE reader.on /\ reader.built = {snapshot.built}
    <3>1. HasSeen(reader, snapshot.pages)
      BY <2>1 DEF ReaderInv
    <3>2. PICK k \in Nat : /\ ArePages(snapshot.pages, k)
                           /\ Begins(reader.seen, Listed(snapshot.pages), k, reader.offset)
      BY <3>1 DEF HasSeen
    <3>3. k = m
      BY <1>1, <3>2 DEF ArePages
    <3> QED
      BY <1>7, <2>1, <3>2, <3>3
  <2>2. CASE ~ reader.on
    <3>1. Begins(<<>>, Listed(snapshot.pages), m, 0)
      BY EmptySeq DEF Begins
    <3>2. before.seen = <<>> /\ before.offset = 0
      BY <1>7, <2>2 DEF NotListing
    <3> QED
      BY <3>1, <3>2
  <2>3. CASE reader.on /\ reader.built # {snapshot.built}
    BY <1>7, <2>3
  <2> QED
    BY <2>1, <2>2, <2>3
<1> HIDE DEF before
<1>9. before.built \subseteq {snapshot.built} => Begins(all, Listed(snapshot.pages), m, next)
  BY <1>1, <1>8, PageGoesOn
<1>10. next \in Nat
  <2>1. Len(data) \in Nat
    BY <1>1, <1>7, AnsweredHasLength
  <2> HIDE DEF data
  <2> QED
    BY <1>7, <2>1
<1> HIDE DEF data, next, all
<1>11. reader'.built \subseteq 0..snapshot'.built
  BY <1>5, <1>6, <1>7
<1>12. reader'.on => reader'.offset \in Nat /\ reader'.built # {}
  BY <1>5, <1>10
<1>13. reader'.on /\ reader'.built = {snapshot'.built} => HasSeen(reader', snapshot'.pages)
  <2> SUFFICES ASSUME reader'.on, reader'.built = {snapshot'.built}
               PROVE  HasSeen(reader', snapshot'.pages)
    OBVIOUS
  <2>1. before.built \subseteq {snapshot.built} /\ next < m
    BY <1>5
  <2>2. Begins(reader'.seen, Listed(snapshot'.pages), m, reader'.offset)
    BY <1>5, <1>9, <2>1
  <2> QED
    BY <1>1, <1>5, <2>1, <2>2 DEF HasSeen
<1>14. ListingIsComplete'
  <2> SUFFICES ASSUME ~ reader'.on, Cardinality(reader'.built) = 1
               PROVE  Len(reader'.seen) = reader'.total /\ ToSet(reader'.seen) = 1..reader'.total
    BY DEF ListingIsComplete
  <2>1. reader'.built = {snapshot.built}
    BY <1>5, <1>6, <1>11, BuiltOfOne
  <2>2. Begins(all, Listed(snapshot.pages), m, next)
    BY <1>5, <1>9, <2>1
  <2>3. next = m
    <3>1. next \in 0..m
      BY <2>2 DEF Begins
    <3>2. ~ (next < m)
      BY <1>5
    <3> QED
      BY <3>1, <3>2
  <2>4. EachOnce(Listed(snapshot.pages), m)
    BY <1>1, ListedIs
  <2>5. Len(all) = m /\ ToSet(all) = 1..m
    BY <2>2, <2>3, <2>4, AllSeen
  <2> QED
    BY <1>5, <2>5
<1> QED
  BY <1>11, <1>12, <1>13, <1>14 DEF ReaderInv

(* A reader that goes through the list of one snapshot to its end has every
   person once, whatever page sizes it asked for. *)
THEOREM ReadApiListingIsComplete == Spec => []ListingIsComplete
<1>1. Init => ReaderInv
  <2> SUFFICES ASSUME Init PROVE ReaderInv
    OBVIOUS
  <2>1. ~ reader.on /\ reader.built = {}
    BY DEF Init, NotListing
  <2>2. Cardinality(reader.built) # 1
    BY <2>1, FS_EmptySet
  <2> QED
    BY <2>1, <2>2 DEF ReaderInv, ListingIsComplete
<1>2. ASSUME BuiltInv, ReaderInv, [Next]_vars PROVE ReaderInv'
  <2>1. CASE ListPersons
    BY <1>2, <2>1, ListPersonsKeepsReader
  <2>2. CASE UNCHANGED <<snapshot, reader>>
    BY <1>2, <2>2 DEF ReaderInv, ListingIsComplete
  <2>3. CASE FinishRebuild
    <3>1. snapshot'.built = now + 1 /\ reader' = reader
      BY <2>3 DEF FinishRebuild, BuiltAt
    <3>2. snapshot.built \in 0..now /\ now \in Nat
      BY <1>2 DEF BuiltInv, ShotInv, LakeInv
    <3>3. /\ reader.built \subseteq 0..snapshot.built
          /\ reader.on => reader.offset \in Nat /\ reader.built # {}
          /\ ListingIsComplete
      BY <1>2 DEF ReaderInv
    <3>4. snapshot'.built \notin reader.built /\ reader.built \subseteq 0..snapshot'.built
      BY <3>1, <3>2, <3>3
    <3> QED
      BY <3>1, <3>3, <3>4 DEF ReaderInv, ListingIsComplete
  <2> QED
    BY <1>2, <2>1, <2>2, <2>3 DEF Next, vars, Capture, Analyse, StartRebuild, MergeOne
<1>3. ReaderInv => ListingIsComplete
  BY DEF ReaderInv
<1> QED
  BY <1>1, <1>2, <1>3, ReadApiBuilt, PTL DEF Spec

-----------------------------------------------------------------------------
(* FrontendProfiles enters one record after the other. *)
Entered(shown, record, obs, personOf) ==
  LET k == Subject(record, obs, personOf)
  IN  IF \/ record.companion \/ record.source \notin DOMAIN obs
         \/ k = 0
         \/ \E current \in shown[k] : Keeps(current, record)
      THEN shown
      ELSE [shown EXCEPT ![k] = {record}]

Folds(iter, D, base, recs, obs, personOf) ==
  iter = [s \in SUBSET D |->
            IF s = {} THEN base
            ELSE LET x == Max(s) IN Entered(iter[s \ {x}], recs[x], obs, personOf)]

LEMMA FoldExists ==
  ASSUME NEW n \in Nat, NEW base, NEW recs, NEW obs, NEW personOf
  PROVE  \E iter : Folds(iter, 1..n, base, recs, obs, personOf)
<1> DEFINE Exists(k) == \E iter : Folds(iter, 1..k, base, recs, obs, personOf)
           Wrong == {k \in Nat : ~ Exists(k)}
           m == Min(Wrong)
<1> SUFFICES ASSUME ~ Exists(n) PROVE FALSE
  OBVIOUS
<1>1. m \in Wrong /\ \A k \in Wrong : m <= k
  <2>1. n \in Wrong /\ Wrong \subseteq Nat
    OBVIOUS
  <2> HIDE DEF Wrong
  <2> QED
    BY <2>1, MinIs
<1> HIDE DEF m
<1>2. m \in Nat /\ ~ Exists(m) /\ \A k \in Nat : ~ Exists(k) => m <= k
  BY <1>1
<1> HIDE DEF Wrong, Exists
<1>3. m # 0
  <2> DEFINE iter == [s \in SUBSET (1..0) |-> base]
  <2>1. \A s \in SUBSET (1..0) : s = {}
    OBVIOUS
  <2>2. Folds(iter, 1..0, base, recs, obs, personOf)
    BY <2>1 DEF Folds
  <2>3. Exists(0)
    BY <2>2 DEF Exists
  <2> QED
    BY <1>2, <2>3
<1>4. m - 1 \in Nat /\ m \in 1..m /\ Exists(m - 1)
  <2>1. m - 1 \in Nat /\ ~ (m <= m - 1)
    BY <1>2, <1>3
  <2> QED
    BY <1>2, <1>3, <2>1
<1>5. PICK f : Folds(f, 1..(m - 1), base, recs, obs, personOf)
  BY <1>4 DEF Exists
<1> DEFINE g == [s \in SUBSET (1..m) |->
                   IF m \in s THEN Entered(f[s \ {m}], recs[m], obs, personOf) ELSE f[s]]
           Right(s) == g[s] = IF s = {} THEN base
                              ELSE LET x == Max(s) IN Entered(g[s \ {x}], recs[x], obs, personOf)
<1>6. ASSUME NEW s \in SUBSET (1..m), s # {}
      PROVE  Max(s) \in s /\ \A t \in s : t <= Max(s)
  <2>1. s \subseteq Nat /\ \A t \in s : t <= m
    BY <1>2
  <2> QED
    BY <1>2, <1>6, <2>1, MaxIs
<1>7. ASSUME NEW s \in SUBSET (1..m), m \in s PROVE Right(s)
  <2>1. Max(s) = m
    <3>1. Max(s) \in s /\ m <= Max(s)
      BY <1>6, <1>7
    <3> DEFINE x == Max(s)
    <3>2. x \in 1..m /\ m <= x
      BY <3>1
    <3> HIDE DEF x
    <3>3. x = m
      BY <1>2, <3>2
    <3> QED
      BY <3>3 DEF x
  <2>2. g[s] = Entered(f[s \ {m}], recs[m], obs, personOf)
    BY <1>7
  <2>3. s \ {m} \in SUBSET (1..m) /\ m \notin s \ {m}
    OBVIOUS
  <2>4. g[s \ {m}] = f[s \ {m}]
    BY <2>3
  <2> HIDE DEF g
  <2> QED
    BY <1>7, <2>1, <2>2, <2>4
<1>8. ASSUME NEW s \in SUBSET (1..m), m \notin s PROVE Right(s)
  <2>1. s \in SUBSET (1..(m - 1))
    <3>1. \A t \in 1..m : t # m => t \in 1..(m - 1)
      BY <1>2
    <3> QED
      BY <1>8, <3>1
  <2>2. f[s] = IF s = {} THEN base
               ELSE LET x == Max(s) IN Entered(f[s \ {x}], recs[x], obs, personOf)
    BY <1>5, <2>1 DEF Folds
  <2>3. g[s] = f[s]
    BY <1>8
  <2>4. \A x : g[s \ {x}] = f[s \ {x}]
    <3>1. \A x : s \ {x} \in SUBSET (1..m) /\ m \notin s \ {x}
      BY <1>8
    <3> QED
      BY <3>1
  <2> HIDE DEF g
  <2> QED
    BY <2>2, <2>3, <2>4
<1>9. \A s \in SUBSET (1..m) : Right(s)
  BY <1>7, <1>8
<1>10. g = [s \in SUBSET (1..m) |-> g[s]]
  OBVIOUS
<1> HIDE DEF g
<1>11. Folds(g, 1..m, base, recs, obs, personOf)
  BY <1>9, <1>10, Zenon DEF Folds
<1> QED
  BY <1>2, <1>11 DEF Exists

Steps(at, n, recs, obs, personOf) ==
  /\ at[0] = [k \in 1..n |-> {}]
  /\ \A i \in 1..Len(recs) : at[i] = Entered(at[i - 1], recs[i], obs, personOf)

LEMMA ProfilesAre ==
  ASSUME NEW S, NEW recs \in Seq(S), NEW n, NEW obs, NEW personOf
  PROVE  \E at : /\ Steps(at, n, recs, obs, personOf)
                 /\ FrontendProfiles(n, recs, obs, personOf) = at[Len(recs)]
<1> DEFINE c == Len(recs)
           base == [k \in 1..n |-> {}]
           iter == CHOOSE iter : Folds(iter, 1..c, base, recs, obs, personOf)
           at == [i \in 0..c |-> iter[1..i]]
<1>1. c \in Nat /\ DOMAIN recs = 1..c
  BY LenProperties
<1>2. FrontendProfiles(n, recs, obs, personOf) =
        (CHOOSE f : Folds(f, DOMAIN recs, base, recs, obs, personOf))[DOMAIN recs]
  BY Zenon DEF FrontendProfiles, FoldLeft, MapThenFoldSet, Folds, Entered
<1> HIDE DEF c, base
<1>3. FrontendProfiles(n, recs, obs, personOf) = iter[1..c]
  BY <1>1, <1>2
<1>4. Folds(iter, 1..c, base, recs, obs, personOf)
  BY <1>1, FoldExists
<1> HIDE DEF iter
<1>5. at[0] = base
  <2>1. {} \in SUBSET (1..c) /\ 1..0 = {}
    OBVIOUS
  <2>2. iter[{}] = base
    BY <1>4, <2>1 DEF Folds
  <2> QED
    BY <1>1, <2>1, <2>2
<1>6. ASSUME NEW i \in 1..c PROVE at[i] = Entered(at[i - 1], recs[i], obs, personOf)
  <2>1. 1..i \in SUBSET (1..c) /\ 1..i # {} /\ i \in Nat /\ i - 1 \in 0..c /\ i \in 0..c
    BY <1>1
  <2>2. Max(1..i) = i
    <3>1. \A t \in 1..i : t <= i
      OBVIOUS
    <3>2. 1..i \subseteq Nat /\ i \in 1..i
      BY <1>1
    <3>3. Max(1..i) \in 1..i /\ \A t \in 1..i : t <= Max(1..i)
      BY <2>1, <3>1, <3>2, MaxIs
    <3> DEFINE x == Max(1..i)
    <3>4. x \in 1..i /\ i <= x
      BY <3>2, <3>3
    <3> HIDE DEF x
    <3>5. x = i
      BY <3>4
    <3> QED
      BY <3>5 DEF x
  <2>3. (1..i) \ {i} = 1..(i - 1)
    BY <2>1
  <2>4. iter[1..i] = LET x == Max(1..i) IN Entered(iter[(1..i) \ {x}], recs[x], obs, personOf)
    BY <1>4, <2>1 DEF Folds
  <2>5. iter[1..i] = Entered(iter[1..(i - 1)], recs[i], obs, personOf)
    BY <2>2, <2>3, <2>4
  <2> QED
    BY <2>1, <2>5
<1>7. at[c] = iter[1..c]
  BY <1>1
<1> HIDE DEF at
<1>8. Steps(at, n, recs, obs, personOf)
  BY <1>5, <1>6 DEF Steps, base, c
<1> QED
  BY <1>3, <1>7, <1>8 DEF c

-----------------------------------------------------------------------------
(* Of the records in theirs, the one shown is the best, and there is one. *)
Best(one, theirs) ==
  /\ one \subseteq theirs
  /\ \A s, t \in one : s = t
  /\ theirs # {} => one # {}
  /\ \A s \in one, r \in theirs :
       r.richness <= s.richness /\ (r.richness = s.richness => r.at <= s.at)

Timed(r) == r.richness \in Nat /\ r.at \in Nat

LEMMA BestOfMore ==
  ASSUME NEW one, NEW theirs, Best(one, theirs), NEW record, Timed(record),
         \A r \in theirs : Timed(r)
  PROVE  Best(IF \E current \in one : Keeps(current, record) THEN one ELSE {record},
              theirs \cup {record})
<1>1. CASE \E current \in one : Keeps(current, record)
  <2>1. PICK current \in one : Keeps(current, record)
    BY <1>1
  <2>2. current \in theirs /\ Timed(current) /\ one = {current}
    BY <2>1 DEF Best
  <2>3. /\ record.richness <= current.richness
        /\ record.richness = current.richness => record.at <= current.at
    BY <2>1, <2>2 DEF Keeps, Timed
  <2>4. Best(one, theirs \cup {record})
    BY <2>2, <2>3 DEF Best
  <2> QED
    BY <1>1, <2>4
<1>2. CASE ~ \E current \in one : Keeps(current, record)
  <2>1. ASSUME NEW r \in theirs
        PROVE  r.richness <= record.richness /\ (r.richness = record.richness => r.at <= record.at)
    <3>1. PICK s \in one : s \in theirs
      BY DEF Best
    <3>2. r.richness <= s.richness /\ (r.richness = s.richness => r.at <= s.at)
      BY <3>1 DEF Best
    <3>3. ~ Keeps(s, record) /\ Timed(s) /\ Timed(r)
      BY <1>2, <3>1
    <3> QED
      BY <3>2, <3>3 DEF Keeps, Timed
  <2>2. Best({record}, theirs \cup {record})
    BY <2>1 DEF Best, Timed
  <2> QED
    BY <1>2, <2>2
<1> QED
  BY <1>1, <1>2

Those(recs, i, k, obs, personOf) ==
  {recs[j] : j \in {j \in 1..i : ~ recs[j].companion /\ Subject(recs[j], obs, personOf) = k}}

LEMMA StepsAreBest ==
  ASSUME NEW S, NEW recs \in Seq(S), NEW n \in Nat, NEW obs, NEW personOf, NEW at,
         Steps(at, n, recs, obs, personOf),
         \A r \in S : Timed(r) /\ r.source \in DOMAIN obs,
         NEW i \in 0..Len(recs)
  PROVE  /\ at[i] = [k \in 1..n |-> at[i][k]]
         /\ \A k \in 1..n : Best(at[i][k], Those(recs, i, k, obs, personOf))
<1> DEFINE c == Len(recs)
           theirs(j, k) == Those(recs, j, k, obs, personOf)
           Right(j) == at[j] = [k \in 1..n |-> at[j][k]] /\ \A k \in 1..n : Best(at[j][k], theirs(j, k))
           Wrong == {j \in 0..c : ~ Right(j)}
           m == Min(Wrong)
<1> SUFFICES ASSUME ~ Right(i) PROVE FALSE
  OBVIOUS
<1>0. c \in Nat /\ \A j \in 1..c : recs[j] \in S
  BY LenProperties
<1>1. m \in Wrong /\ \A k \in Wrong : m <= k
  <2>1. i \in Wrong
    OBVIOUS
  <2>2. Wrong \subseteq Nat
    BY <1>0
  <2> HIDE DEF Wrong
  <2> QED
    BY <2>1, <2>2, MinIs
<1> HIDE DEF m
<1>2. m \in 0..c /\ ~ Right(m) /\ \A j \in 0..c : ~ Right(j) => m <= j
  BY <1>1
<1>3. m # 0
  <2>1. at[0] = [k \in 1..n |-> {}]
    BY DEF Steps
  <2>2. \A k \in 1..n : theirs(0, k) = {}
    BY DEF Those
  <2> HIDE DEF theirs
  <2>3. Right(0)
    BY <2>1, <2>2 DEF Best
  <2> QED
    BY <1>2, <2>3
<1> HIDE DEF Wrong, Right
<1>4. m \in 1..c /\ m - 1 \in 0..c /\ Right(m - 1)
  <2>1. m - 1 \in 0..c /\ ~ (m <= m - 1)
    BY <1>0, <1>2, <1>3
  <2> QED
    BY <1>0, <1>2, <1>3, <2>1
<1> DEFINE r == recs[m]
           k0 == Subject(r, obs, personOf)
           before == at[m - 1]
<1>5. at[m] = Entered(before, r, obs, personOf)
  BY <1>4 DEF Steps
<1>6. Timed(r) /\ r.source \in DOMAIN obs
  BY <1>0, <1>4
<1>7. /\ DOMAIN before = 1..n /\ before = [k \in 1..n |-> before[k]]
      /\ \A k \in 1..n : Best(before[k], theirs(m - 1, k))
  <2>1. Right(m - 1)
    BY <1>4
  <2> QED
    BY <2>1 DEF Right
<1>8. ASSUME NEW k \in 1..n
      PROVE  /\ theirs(m, k) = IF ~ r.companion /\ k0 = k THEN theirs(m - 1, k) \cup {r}
                               ELSE theirs(m - 1, k)
             /\ \A s \in theirs(m - 1, k) : Timed(s)
  <2>1. \A j \in 1..m : j \in 1..(m - 1) \/ j = m
    BY <1>4
  <2>2. \A j \in 1..(m - 1) : j \in 1..m /\ j \in 1..c
    BY <1>4
  <2>3. m \in 1..m
    BY <1>4
  <2> QED
    BY <1>0, <2>1, <2>2, <2>3 DEF Those
<1> HIDE DEF r, k0, before, theirs
<1>9. CASE r.companion \/ k0 = 0
  <2>1. at[m] = before
    BY <1>5, <1>9 DEF Entered, k0
  <2>2. \A k \in 1..n : theirs(m, k) = theirs(m - 1, k)
    BY <1>8, <1>9
  <2>3. Right(m)
    BY <1>7, <2>1, <2>2 DEF Right
  <2> QED
    BY <1>2, <2>3
<1>10. CASE ~ r.companion /\ k0 # 0
  <2> DEFINE next(k) == IF \E current \in before[k] : Keeps(current, r) THEN before[k] ELSE {r}
  <2>1. at[m] = IF \E current \in before[k0] : Keeps(current, r) THEN before
                ELSE [before EXCEPT ![k0] = {r}]
    BY <1>5, <1>6, <1>10 DEF Entered, k0
  <2>2. at[m] = [k \in 1..n |-> at[m][k]] /\ \A k \in 1..n : at[m][k] = IF k = k0 THEN next(k) ELSE before[k]
    BY <1>7, <2>1
  <2>3. ASSUME NEW k \in 1..n PROVE Best(at[m][k], theirs(m, k))
    <3>1. Best(before[k], theirs(m - 1, k)) /\ \A s \in theirs(m - 1, k) : Timed(s)
      BY <1>7, <1>8
    <3>2. CASE k = k0
      <4>1. theirs(m, k) = theirs(m - 1, k) \cup {r}
        BY <1>8, <1>10, <3>2
      <4>2. at[m][k] = next(k)
        BY <2>2, <3>2
      <4>3. Best(next(k), theirs(m - 1, k) \cup {r})
        BY <1>6, <3>1, BestOfMore
      <4> HIDE DEF next
      <4> QED
        BY <4>1, <4>2, <4>3
    <3>3. CASE k # k0
      <4>1. theirs(m, k) = theirs(m - 1, k) /\ at[m][k] = before[k]
        BY <1>8, <2>2, <3>3
      <4> QED
        BY <3>1, <4>1
    <3> QED
      BY <3>2, <3>3
  <2>4. Right(m)
    BY <2>2, <2>3 DEF Right
  <2> QED
    BY <1>2, <2>4
<1> QED
  BY <1>9, <1>10

LEMMA ListedRecordsAre ==
  ASSUME NEW recs, IsFiniteSet(recs), NEW listed \in SetToSeqs(recs)
  PROVE  /\ listed \in Seq(recs)
         /\ \A r \in recs : \E i \in 1..Len(listed) : listed[i] = r
<1> DEFINE c == Cardinality(recs)
<1>1. c \in Nat
  BY FS_CardinalityType
<1>2. listed \in [1..c -> recs] /\ \A i, j \in 1..c : i # j => listed[i] # listed[j]
  BY DEF SetToSeqs
<1>3. IsFiniteSet(1..c) /\ Cardinality(1..c) = c
  BY <1>1, FS_Interval
<1> HIDE DEF c
<1>4. listed \in Injection(1..c, recs)
  BY <1>2, Fun_IsInj
<1>5. listed \in Surjection(1..c, recs)
  BY <1>3, <1>4, FS_Injection DEF c
<1>6. \A r \in recs : \E i \in 1..c : listed[i] = r
  BY <1>5 DEF Surjection
<1>7. listed \in Seq(recs)
  BY <1>1, <1>2, SeqDef
<1>8. Len(listed) = c
  <2>1. Len(listed) \in Nat /\ DOMAIN listed = 1..Len(listed)
    BY <1>7, LenProperties
  <2> QED
    BY <1>1, <1>2, <2>1
<1> QED
  BY <1>6, <1>7, <1>8

LEMMA MadeProfilesAreBest ==
  ASSUME NEW shot, NEW obs \in Seq(Kept), MadeOf(shot, obs), NEW k \in DOMAIN shot.pages
  PROVE  Best(shot.pages[k].profile,
              {r \in shot.records : ~ r.companion /\ Subject(r, obs, PersonOf(shot.persons)) = k})
<1> DEFINE persons == shot.persons
           recs == shot.records
           n == Len(persons)
           personOf == PersonOf(persons)
           theirs == {r \in recs : ~ r.companion /\ Subject(r, obs, personOf) = k}
<1>1. PICK root, listed :
        /\ AreClasses(Len(Candidates(obs)), root, Candidates(obs), persons)
        /\ listed \in SetToSeqs(recs)
        /\ shot.pages = Pages(persons, obs, listed)
  BY MadePersonsAre
<1> DEFINE profiles == FrontendProfiles(n, listed, obs, personOf)
<1>2. n \in Nat /\ DOMAIN persons = 1..n
  BY <1>1 DEF AreClasses
<1>3. shot.pages = [j \in DOMAIN persons |-> Page(persons[j], obs, personOf, profiles[j])]
  BY <1>1 DEF Pages
<1> HIDE DEF profiles, personOf, persons, n
<1>4. k \in 1..n /\ shot.pages[k].profile = profiles[k]
  <2>1. k \in 1..n /\ shot.pages[k] = Page(persons[k], obs, personOf, profiles[k])
    BY <1>2, <1>3
  <2> QED
    BY <2>1 DEF Page
<1>5. IsFiniteSet(recs) /\ \A r \in recs : Timed(r) /\ r.source \in DOMAIN obs
  <2>1. DOMAIN obs = 1..Len(obs)
    BY LenProperties
  <2> QED
    BY <2>1 DEF MadeOf, OnDecks, Timed
<1> HIDE DEF recs
<1>6. listed \in Seq(recs) /\ \A r \in recs : \E i \in 1..Len(listed) : listed[i] = r
  BY <1>1, <1>5, ListedRecordsAre
<1>7. PICK at : Steps(at, n, listed, obs, personOf) /\ profiles = at[Len(listed)]
  BY <1>6, ProfilesAre DEF profiles
<1>8. Len(listed) \in Nat /\ Len(listed) \in 0..Len(listed)
        /\ \A i \in 1..Len(listed) : listed[i] \in recs
  BY <1>6, LenProperties
<1> DEFINE those == Those(listed, Len(listed), k, obs, personOf)
<1>9. Best(profiles[k], those)
  BY <1>2, <1>4, <1>5, <1>6, <1>7, <1>8, StepsAreBest
<1>10. those = theirs
  <2>1. ASSUME NEW r \in those PROVE r \in theirs
    BY <1>8 DEF Those
  <2>2. ASSUME NEW r \in theirs PROVE r \in those
    <3>1. PICK i \in 1..Len(listed) : listed[i] = r
      BY <1>6
    <3> QED
      BY <3>1 DEF Those
  <2> QED
    BY <2>1, <2>2
<1> HIDE DEF those
<1> QED
  BY <1>4, <1>9, <1>10 DEF recs, personOf, persons

(* Whoever introduces a person does so with the best of what is theirs, in
   whatever order the store lists its records. *)
THEOREM ReadApiRichestIntroduces == Spec => []RichestIntroduces
<1>1. ASSUME BuiltInv PROVE RichestIntroduces
  <2> DEFINE obs == SubSeq(lake, 1, snapshot.upTo)
             recs == snapshot.records
             personOf == PersonOf(snapshot.persons)
             Theirs(k) == {r \in recs : ~ r.companion /\ Subject(r, lake, personOf) = k}
  <2>1. /\ obs \in Seq(Kept) /\ MadeOf(snapshot, obs) /\ DOMAIN obs = 1..snapshot.upTo
        /\ Len(obs) = snapshot.upTo
        /\ \A i \in 1..snapshot.upTo : obs[i] = lake[i]
    BY <1>1, FirstsAre DEF BuiltInv, LakeInv, ShotInv
  <2> HIDE DEF obs
  <2>2. ASSUME NEW r \in recs
        PROVE  Subject(r, obs, personOf) = Subject(r, lake, personOf)
    <3>1. r.source \in 1..snapshot.upTo
      BY <2>1 DEF MadeOf, OnDecks
    <3>2. obs[r.source] = lake[r.source]
      BY <2>1, <3>1
    <3> QED
      BY <3>2 DEF Subject
  <2>3. ASSUME NEW k \in DOMAIN snapshot.pages
        PROVE  Best(snapshot.pages[k].profile, Theirs(k))
    <3>1. Best(snapshot.pages[k].profile,
               {r \in recs : ~ r.companion /\ Subject(r, obs, personOf) = k})
      BY <2>1, MadeProfilesAreBest
    <3>2. {r \in recs : ~ r.companion /\ Subject(r, obs, personOf) = k} = Theirs(k)
      BY <2>2
    <3> QED
      BY <3>1, <3>2
  <2> HIDE DEF Theirs
  <2>4. \A k \in DOMAIN snapshot.pages :
          /\ Theirs(k) # {} => snapshot.pages[k].profile # {}
          /\ \A shown \in snapshot.pages[k].profile, r \in Theirs(k) :
               /\ shown \in Theirs(k)
               /\ r.richness <= shown.richness
               /\ r.richness = shown.richness => r.at <= shown.at
    BY <2>3 DEF Best
  <2> QED
    BY <2>4 DEF RichestIntroduces, Theirs
<1> QED
  BY <1>1, ReadApiBuilt, PTL
=============================================================================
