--------------------------- MODULE PropagationProofs ---------------------------
(***************************************************************************)
(* Safety of Propagation for any projections, specs and workers.           *)
(***************************************************************************)
EXTENDS Propagation, FiniteSetTheorems, SequenceTheorems, WellFoundedInduction, TLAPS

-----------------------------------------------------------------------------
(* The least element of a set of numbers, and induction, as facts about sets. *)
LEMMA LeastNumber ==
  ASSUME NEW T, T \subseteq Nat, T # {}
  PROVE  \E x \in T : \A y \in T : x <= y
<1> DEFINE R == OpToRel(<, Nat)
<1>1. IsWellFoundedOn(R, Nat)
  BY NatLessThanWellFounded
<1>2. \A x, y \in Nat : x < y => <<x, y>> \in R
  BY DEF OpToRel
<1> HIDE DEF R
<1>3. PICK x \in T : \A y \in T : ~ (<<y, x>> \in R)
  BY <1>1, WFMin
<1>4. \A y \in T : x \in Nat /\ y \in Nat /\ ~ (y < x)
  BY <1>2, <1>3
<1>5. \A y \in T : x <= y
  BY <1>4
<1> QED
  BY <1>3, <1>5

LEMMA NatInduct ==
  ASSUME NEW S, 0 \in S, \A n \in Nat : n \in S => n + 1 \in S
  PROVE  Nat \subseteq S
<1> SUFFICES ASSUME Nat \ S # {} PROVE FALSE
  OBVIOUS
<1>1. PICK n \in Nat \ S : \A m \in Nat \ S : n <= m
  BY LeastNumber
<1>2. n # 0 /\ n \in Nat
  OBVIOUS
<1>3. n - 1 \in Nat /\ ~ (n <= n - 1) /\ (n - 1) + 1 = n
  BY <1>2
<1>4. n - 1 \in S
  BY <1>1, <1>3
<1> QED
  BY <1>3, <1>4

Iterated(f, T, G, b) ==
  f \in [Nat -> T] /\ f[0] = b /\ \A n \in Nat : f[n + 1] = G[f[n]]

(* The values b, G[b], G[G[b]], ... form a function on Nat. *)
LEMMA Iterates ==
  ASSUME NEW T, NEW G \in [T -> T], NEW b \in T
  PROVE  \E f : Iterated(f, T, G, b)
<1> DEFINE Part(n) == {g \in [0..n -> T] : g[0] = b /\ \A i \in 0..(n - 1) : g[i + 1] = G[g[i]]}
           Has == {n \in Nat : Part(n) # {}}
<1>1. Nat \subseteq Has
  <2>1. 0 \in Has
    <3>1. [i \in 0..0 |-> b] \in Part(0)
      OBVIOUS
    <3> QED
      BY <3>1
  <2>2. ASSUME NEW n \in Nat, n \in Has PROVE n + 1 \in Has
    <3>1. PICK g \in [0..n -> T] : g[0] = b /\ \A i \in 0..(n - 1) : g[i + 1] = G[g[i]]
      BY <2>2
    <3> DEFINE h == [i \in 0..(n + 1) |-> IF i = n + 1 THEN G[g[n]] ELSE g[i]]
    <3>2. n \in 0..n /\ g[n] \in T /\ G[g[n]] \in T
      BY <3>1
    <3>3. h \in [0..(n + 1) -> T]
      BY <3>1, <3>2
    <3>4. h[0] = b
      BY <3>1
    <3>5. ASSUME NEW i \in 0..n PROVE h[i + 1] = G[h[i]]
      <4>1. CASE i = n
        BY <4>1, <3>1
      <4>2. CASE i # n
        <5>1. i \in 0..(n - 1) /\ i + 1 \in 0..(n + 1) /\ i + 1 # n + 1 /\ i \in 0..(n + 1) /\ i # n + 1
          BY <4>2
        <5> QED
          BY <5>1, <3>1
      <4> QED
        BY <4>1, <4>2
    <3>6. (n + 1) - 1 = n
      OBVIOUS
    <3> HIDE DEF h
    <3>7. h \in Part(n + 1)
      BY <3>3, <3>4, <3>5, <3>6
    <3> QED
      BY <3>7
  <2> HIDE DEF Has
  <2> QED
    BY <2>1, <2>2, NatInduct
<1>2. ASSUME NEW n \in Nat, NEW m \in Nat, NEW g \in Part(n), NEW h \in Part(m)
      PROVE  \A i \in Nat : i <= n /\ i <= m => g[i] = h[i]
  <2> DEFINE Same == {i \in Nat : i <= n /\ i <= m => g[i] = h[i]}
  <2>1. 0 \in Same
    OBVIOUS
  <2>2. ASSUME NEW i \in Nat, i \in Same PROVE i + 1 \in Same
    <3> SUFFICES ASSUME i + 1 <= n, i + 1 <= m PROVE g[i + 1] = h[i + 1]
      OBVIOUS
    <3>1. i \in 0..(n - 1) /\ i \in 0..(m - 1) /\ i <= n /\ i <= m
      OBVIOUS
    <3>2. g[i] = h[i]
      BY <2>2, <3>1
    <3> QED
      BY <3>1, <3>2
  <2> HIDE DEF Same
  <2>3. Nat \subseteq Same
    BY <2>1, <2>2, NatInduct
  <2> QED
    BY <2>3 DEF Same
<1> DEFINE f == [n \in Nat |-> (CHOOSE g \in Part(n) : TRUE)[n]]
<1>3. ASSUME NEW n \in Nat, NEW m \in Nat, NEW g \in Part(m), n <= m
      PROVE  f[n] = g[n]
  <2> DEFINE c == CHOOSE x \in Part(n) : TRUE
  <2>1. c \in Part(n)
    BY <1>1
  <2>2. f[n] = c[n]
    OBVIOUS
  <2> HIDE DEF c, f, Part
  <2> QED
    BY <1>2, <1>3, <2>1, <2>2
<1>4. ASSUME NEW n \in Nat
      PROVE  f[n] \in T /\ f[n + 1] = G[f[n]] /\ f[0] = b
  <2>1. PICK g : g \in Part(n + 1)
    BY <1>1
  <2>2. f[n] = g[n] /\ f[n + 1] = g[n + 1] /\ f[0] = g[0]
    <3> HIDE DEF f, Part
    <3> QED
      BY <1>3, <2>1
  <2>3. n \in 0..(n + 1) /\ n \in 0..((n + 1) - 1)
    OBVIOUS
  <2> HIDE DEF f
  <2> QED
    BY <2>1, <2>2, <2>3
<1>5. f \in [Nat -> T]
  <2>1. f = [n \in Nat |-> f[n]]
    OBVIOUS
  <2> HIDE DEF f
  <2> QED
    BY <1>4, <2>1
<1> HIDE DEF f
<1>6. Iterated(f, T, G, b)
  BY <1>4, <1>5 DEF Iterated
<1> QED
  BY <1>6

-----------------------------------------------------------------------------
(* The search for a cycle. *)
News(c, seen) == UNION {Deps(c, p) : p \in seen \cap DOMAIN c}

(* What the search from deps has seen after each round. *)
Rounds(v, c, deps) == v[0] = deps /\ \A n \in Nat : v[n + 1] = v[n] \cup News(c, v[n])

LEMMA UpstreamIs ==
  ASSUME NEW c, NEW deps
  PROVE  \E v : Rounds(v, c, deps) /\ Upstream(c, deps) = v[Cardinality(DOMAIN c)]
<1> DEFINE Def(v) == v = [n \in Nat |-> IF n = 0 THEN deps
                                        ELSE v[n - 1] \cup News(c, v[n - 1])]
           T == SUBSET (deps \cup UNION {Deps(c, p) : p \in DOMAIN c})
           G == [seen \in T |-> seen \cup News(c, seen)]
<1>1. deps \in T /\ G \in [T -> T]
  BY DEF News
<1>a. \A seen \in T : G[seen] = seen \cup News(c, seen)
  OBVIOUS
<1> HIDE DEF T, G
<1>b. PICK f : Iterated(f, T, G, deps)
  BY <1>1, Iterates
<1>2. f \in [Nat -> T] /\ f[0] = deps /\ \A n \in Nat : f[n + 1] = G[f[n]]
  BY <1>b DEF Iterated
<1>3. Def(f)
  <2>1. ASSUME NEW n \in Nat PROVE f[n + 1] = f[n] \cup News(c, f[n])
    BY <1>2, <1>a
  <2>2. ASSUME NEW n \in Nat, n # 0 PROVE f[n] = f[n - 1] \cup News(c, f[n - 1])
    <3>1. n - 1 \in Nat /\ (n - 1) + 1 = n
      BY <2>2
    <3> QED
      BY <2>1, <3>1
  <2> QED
    BY <1>2, <2>2
<1> DEFINE v == CHOOSE g : Def(g)
<1>4. Def(v)
  BY <1>3
<1>5. Upstream(c, deps) = v[Cardinality(DOMAIN c)]
  BY DEF Upstream, News
<1> HIDE DEF v
<1>6. v[0] = deps
  BY <1>4
<1>7. ASSUME NEW n \in Nat PROVE v[n + 1] = v[n] \cup News(c, v[n])
  <2>1. n + 1 \in Nat /\ n + 1 # 0 /\ (n + 1) - 1 = n
    OBVIOUS
  <2> QED
    BY <1>4, <2>1
<1>8. Rounds(v, c, deps)
  BY <1>6, <1>7 DEF Rounds
<1> QED
  BY <1>5, <1>8

(* A round either sees nothing new or one more entry than the last. *)
LEMMA UpstreamClosed ==
  ASSUME NEW c, IsFiniteSet(DOMAIN c), NEW deps, deps \subseteq DOMAIN c
  PROVE  deps \subseteq Upstream(c, deps) /\ News(c, Upstream(c, deps)) \subseteq Upstream(c, deps)
<1> DEFINE D == DOMAIN c
           N == Cardinality(D)
<1>1. PICK v : Rounds(v, c, deps) /\ Upstream(c, deps) = v[N]
  BY UpstreamIs
<1>2. v[0] = deps /\ \A n \in Nat : v[n + 1] = v[n] \cup News(c, v[n])
  BY <1>1 DEF Rounds
<1>3. ASSUME NEW n PROVE IsFiniteSet(v[n] \cap D) /\ Cardinality(v[n] \cap D) \in Nat
                          /\ Cardinality(v[n] \cap D) <= N /\ N \in Nat
  BY FS_Subset, FS_CardinalityType
<1> DEFINE Closed(n) == News(c, v[n]) \subseteq v[n]
           S == {n \in Nat : deps \subseteq v[n]
                               /\ (Closed(n) \/ Cardinality(v[n] \cap D) >= n + 1)}
<1> HIDE DEF N
<1>4. 0 \in S
  <2>1. CASE deps = {}
    BY <1>2, <2>1 DEF News
  <2>2. CASE deps # {}
    <3>1. deps \cap D = deps /\ Cardinality(deps \cap D) \in Nat /\ IsFiniteSet(deps \cap D)
      BY <1>2, <1>3
    <3>2. Cardinality(deps \cap D) # 0
      BY <2>2, <3>1, FS_EmptySet
    <3>3. Cardinality(deps \cap D) >= 0 + 1
      BY <3>1, <3>2
    <3> QED
      BY <1>2, <3>3
  <2> QED
    BY <2>1, <2>2
<1>5. ASSUME NEW n \in Nat, n \in S, NEW m \in Nat, m = n + 1 PROVE m \in S
  <2>1. v[m] = v[n] \cup News(c, v[n]) /\ deps \subseteq v[m]
    BY <1>2, <1>5
  <2>2. CASE v[m] \cap D = v[n] \cap D
    <3>1. News(c, v[m]) = News(c, v[n])
      BY <2>2 DEF News
    <3>2. Closed(m)
      BY <2>1, <3>1
    <3> QED
      BY <2>1, <3>2
  <2>3. CASE v[m] \cap D # v[n] \cap D
    <3>1. ~ Closed(n)
      BY <2>1, <2>3
    <3>2. Cardinality(v[n] \cap D) >= n + 1
      BY <1>5, <3>1
    <3>3. v[n] \cap D \subseteq v[m] \cap D
      BY <2>1
    <3>4. Cardinality(v[n] \cap D) < Cardinality(v[m] \cap D)
      <4> DEFINE A == v[n] \cap D
                 B == v[m] \cap D
      <4>1. IsFiniteSet(B) /\ A \subseteq B /\ A # B
        BY <1>3, <2>3, <3>3
      <4> HIDE DEF A, B
      <4>2. Cardinality(A) <= Cardinality(B) /\ (Cardinality(A) = Cardinality(B) => A = B)
        BY <4>1, FS_Subset
      <4>3. Cardinality(A) \in Nat /\ Cardinality(B) \in Nat
        BY <1>3 DEF A, B
      <4>4. Cardinality(A) < Cardinality(B)
        BY <4>1, <4>2, <4>3
      <4> QED
        BY <4>4 DEF A, B
    <3>5. Cardinality(v[n] \cap D) \in Nat /\ Cardinality(v[m] \cap D) \in Nat
      BY <1>3
    <3>6. Cardinality(v[m] \cap D) >= m + 1
      BY <1>5, <3>2, <3>4, <3>5
    <3> QED
      BY <2>1, <3>6
  <2> QED
    BY <2>2, <2>3
<1>6. N \in S
  <2> HIDE DEF S
  <2>1. Nat \subseteq S
    BY <1>4, <1>5, NatInduct
  <2> QED
    BY <1>3, <2>1
<1>7. deps \subseteq v[N] /\ Closed(N)
  <2>1. deps \subseteq v[N] /\ (Closed(N) \/ Cardinality(v[N] \cap D) >= N + 1)
    BY <1>6
  <2>2. Cardinality(v[N] \cap D) \in Nat /\ Cardinality(v[N] \cap D) <= N /\ N \in Nat
    BY <1>3
  <2> QED
    BY <2>1, <2>2
<1> QED
  BY <1>1, <1>7

(* A catalogue as the methods build it. *)
IsCatalog(c) ==
  /\ DOMAIN c \subseteq Nat /\ IsFiniteSet(DOMAIN c)
  /\ \A p \in DOMAIN c : IsFiniteSet(Projections(c[p].spec))

LEMMA Registering ==
  ASSUME NEW c, IsFiniteSet(DOMAIN c), NEW p, NEW spec, Registrable(c, p, spec), Acyclic(c)
  PROVE  Acyclic(Registered(c, p, spec))
<1> DEFINE d == Registered(c, p, spec)
           U == Upstream(c, DepsOf(spec))
<1>1. /\ p \notin DOMAIN c /\ DepsOf(spec) \subseteq DOMAIN c /\ p \notin U
  BY DEF Registrable, WouldCreateCycle
<1>2. /\ DOMAIN d = DOMAIN c \cup {p} /\ Deps(d, p) = DepsOf(spec)
      /\ \A q \in DOMAIN c : Deps(d, q) = Deps(c, q)
  BY <1>1 DEF Registered, Deps, Entry
<1>3. DepsOf(spec) \subseteq U /\ News(c, U) \subseteq U
  BY <1>1, UpstreamClosed
<1> HIDE DEF d, U
<1> SUFFICES ASSUME NEW ps \in SUBSET DOMAIN d, ps # {}, \A q \in ps : Deps(d, q) \cap ps # {}
             PROVE  FALSE
  BY DEF Acyclic, d
<1>4. CASE p \notin ps
  <2>1. ps \in (SUBSET DOMAIN c) \ {{}}
    BY <1>2, <1>4
  <2>2. \A q \in ps : Deps(c, q) \cap ps # {}
    BY <1>2, <2>1
  <2> QED
    BY <2>1, <2>2 DEF Acyclic
<1>5. CASE p \in ps
  <2> DEFINE up == ps \cap U \cap DOMAIN c
  <2>1. up # {}
    BY <1>1, <1>2, <1>3, <1>5
  <2>2. ASSUME NEW q \in up PROVE Deps(c, q) \cap up # {}
    <3>1. PICK r : r \in Deps(d, q) /\ r \in ps
      BY <2>2
    <3>2. r \in Deps(c, q)
      BY <1>2, <3>1
    <3>3. r \in U
      BY <1>3, <3>2 DEF News
    <3>4. r \in DOMAIN c
      BY <1>1, <1>2, <3>1, <3>3
    <3> QED
      BY <3>1, <3>2, <3>3, <3>4
  <2>3. up \in (SUBSET DOMAIN c) \ {{}}
    BY <2>1
  <2> HIDE DEF up
  <2> QED
    BY <2>2, <2>3 DEF Acyclic
<1> QED
  BY <1>4, <1>5

(* The end of the queue is in it: a finite set of numbers has a greatest. *)
LEMMA MaxIs ==
  ASSUME NEW S, S \subseteq Nat, S # {}, IsFiniteSet(S)
  PROVE  Max(S) \in S
<1> DEFINE Has(Q) == \E x \in Q : \A y \in Q : x >= y
           T == {n \in Nat : \A Q \in SUBSET S : Q # {} /\ Cardinality(Q) = n => Has(Q)}
<1>1. 0 \in T
  <2>1. \A Q \in SUBSET S : Cardinality(Q) = 0 => Q = {}
    BY FS_EmptySet, FS_Subset
  <2> QED
    BY <2>1
<1>2. ASSUME NEW n \in Nat, n \in T PROVE n + 1 \in T
  <2> SUFFICES ASSUME NEW Q \in SUBSET S, Q # {}, Cardinality(Q) = n + 1 PROVE Has(Q)
    OBVIOUS
  <2>1. PICK a \in Q : TRUE
    OBVIOUS
  <2>2. IsFiniteSet(Q)
    BY FS_Subset
  <2>3. Cardinality(Q \ {a}) = n
    <3>1. Cardinality(Q \ {a}) = Cardinality(Q) - 1
      BY <2>1, <2>2, FS_RemoveElement
    <3> QED
      BY <3>1
  <2>4. CASE Q \ {a} = {}
    <3>1. \A y \in Q : a >= y
      BY <2>4
    <3> QED
      BY <2>1, <3>1
  <2>5. CASE Q \ {a} # {}
    <3>1. Has(Q \ {a})
      BY <1>2, <2>3, <2>5
    <3>2. PICK m \in Q \ {a} : \A y \in Q \ {a} : m >= y
      BY <3>1
    <3>3. a \in Nat /\ m \in Nat /\ \A y \in Q : y \in Nat
      OBVIOUS
    <3>4. CASE m >= a
      BY <3>2, <3>4
    <3>5. CASE a >= m
      <4>1. \A y \in Q : a >= y
        BY <3>2, <3>3, <3>5
      <4> QED
        BY <4>1
    <3> QED
      BY <3>3, <3>4, <3>5
  <2> QED
    BY <2>4, <2>5
<1>3. Nat \subseteq T
  <2> HIDE DEF T
  <2> QED
    BY <1>1, <1>2, NatInduct
<1>4. Cardinality(S) \in Nat /\ S \in SUBSET S
  BY FS_CardinalityType
<1>5. Has(S)
  BY <1>3, <1>4
<1> QED
  BY <1>5 DEF Max

LEMMA CardinalityZero ==
  ASSUME NEW S, IsFiniteSet(S)
  PROVE  Cardinality(S) = 0 <=> S = {}
BY FS_EmptySet

(* What Kahn's algorithm has done when it has listed order. *)
Listed(k) == {k.order[i] : i \in DOMAIN k.order}

Waits(c, q, listed) == {s \in Projections(c[q].spec) : s.id \notin listed}

States(c) == [order : Seq(DOMAIN c), degree : [DOMAIN c -> Int], queue : SUBSET DOMAIN c]

KahnInv(c, k) ==
  /\ k \in States(c)
  /\ Cardinality(Listed(k)) = Len(k.order)
  /\ \A i, j \in DOMAIN k.order : k.order[i] = k.order[j] => i = j
  /\ \A i \in DOMAIN k.order : \A p \in Deps(c, k.order[i]) :
       \E j \in DOMAIN k.order : j < i /\ k.order[j] = p
  /\ \A q \in DOMAIN c : k.degree[q] = Cardinality(Waits(c, q, Listed(k)))
  /\ k.queue = {q \in DOMAIN c \ Listed(k) : k.degree[q] = 0}

LEMMA WaitsIs ==
  ASSUME NEW c, IsCatalog(c), NEW q \in DOMAIN c, NEW listed
  PROVE  /\ IsFiniteSet(Waits(c, q, listed)) /\ Cardinality(Waits(c, q, listed)) \in Nat
         /\ Cardinality(Waits(c, q, listed)) = 0 <=> Deps(c, q) \subseteq listed
<1>1. IsFiniteSet(Projections(c[q].spec)) /\ Waits(c, q, listed) \subseteq Projections(c[q].spec)
  BY DEF IsCatalog, Waits
<1>2. IsFiniteSet(Waits(c, q, listed))
  BY <1>1, FS_Subset
<1>3. Waits(c, q, listed) = {} <=> Deps(c, q) \subseteq listed
  BY DEF Waits, Deps, DepsOf
<1> QED
  BY <1>2, <1>3, FS_CardinalityType, CardinalityZero

(* Every edge of node is taken off the degree of its other end. *)
LEMMA EdgesIs ==
  ASSUME NEW c, IsCatalog(c), NEW q \in DOMAIN c, NEW listed, NEW node, node \notin listed
  PROVE  /\ Edges(c, node, q) \in Nat
         /\ Cardinality(Waits(c, q, listed)) - Edges(c, node, q)
              = Cardinality(Waits(c, q, listed \cup {node}))
<1> DEFINE all == Waits(c, q, listed)
           off == {s \in Projections(c[q].spec) : s.id = node}
<1>1. IsFiniteSet(all)
  BY WaitsIs
<1>2. off \subseteq all /\ all \cap off = off /\ all \ off = Waits(c, q, listed \cup {node})
  BY DEF Waits
<1>3. Edges(c, node, q) = Cardinality(off)
  BY DEF Edges
<1> HIDE DEF all, off
<1>4. IsFiniteSet(off)
  BY <1>1, <1>2, FS_Subset
<1>5. Cardinality(all \ off) = Cardinality(all) - Cardinality(off)
  BY <1>1, <1>2, FS_Difference
<1> QED
  BY <1>2, <1>3, <1>4, <1>5, FS_CardinalityType DEF all

LEMMA StartedInv ==
  ASSUME NEW c, IsCatalog(c)
  PROVE  KahnInv(c, Started(c))
<1> DEFINE k == Started(c)
<1>1. /\ k.order = <<>>
      /\ k.degree = [q \in DOMAIN c |-> Cardinality(Projections(c[q].spec))]
      /\ k.queue = {q \in DOMAIN c : k.degree[q] = 0}
      /\ k = [order |-> k.order, degree |-> k.degree, queue |-> k.queue]
  BY DEF Started
<1> HIDE DEF k
<1>2. k.order \in Seq(DOMAIN c) /\ DOMAIN k.order = {} /\ Len(k.order) = 0 /\ Listed(k) = {}
  BY <1>1 DEF Listed
<1>3. \A q \in DOMAIN c : Waits(c, q, {}) = Projections(c[q].spec)
  BY DEF Waits
<1>4. ASSUME NEW q \in DOMAIN c
      PROVE  k.degree[q] = Cardinality(Waits(c, q, {})) /\ k.degree[q] \in Int
  BY <1>1, <1>3, WaitsIs
<1>5. k \in States(c)
  <2>1. k.degree \in [DOMAIN c -> Int]
    BY <1>1, <1>4
  <2> QED
    BY <1>1, <1>2, <2>1 DEF States
<1>6. Cardinality(Listed(k)) = 0
  BY <1>2, FS_EmptySet
<1> QED
  BY <1>1, <1>2, <1>4, <1>5, <1>6 DEF KahnInv, k

LEMMA PoppedInv ==
  ASSUME NEW c, IsCatalog(c), NEW k, KahnInv(c, k), NEW node \in k.queue
  PROVE  /\ KahnInv(c, Popped(c, k, node))
         /\ Len(Popped(c, k, node).order) = Len(k.order) + 1
<1> DEFINE m == Popped(c, k, node)
           last == Len(k.order) + 1
<1>1. /\ k.order \in Seq(DOMAIN c) /\ k.degree \in [DOMAIN c -> Int]
      /\ Len(k.order) \in Nat /\ DOMAIN k.order = 1..Len(k.order)
      /\ node \in DOMAIN c /\ node \notin Listed(k) /\ k.degree[node] = 0
  BY DEF KahnInv, States
<1>2. /\ m.order = Append(k.order, node)
      /\ m.degree = [q \in DOMAIN c |-> k.degree[q] - Edges(c, node, q)]
      /\ m.queue = (k.queue \ {node}) \cup {q \in DOMAIN c : k.degree[q] > 0 /\ m.degree[q] = 0}
      /\ m = [order |-> m.order, degree |-> m.degree, queue |-> m.queue]
  BY DEF Popped
<1> HIDE DEF m
<1>3. /\ m.order \in Seq(DOMAIN c) /\ Len(m.order) = last
      /\ DOMAIN m.order = 1..last
      /\ m.order[last] = node
      /\ \A i \in 1..Len(k.order) : m.order[i] = k.order[i]
  BY <1>1, <1>2
<1>4. Listed(m) = Listed(k) \cup {node}
  <2>1. \A i \in DOMAIN m.order : i \in DOMAIN k.order \/ i = last
    BY <1>1, <1>3
  <2>2. \A i \in DOMAIN k.order : i \in DOMAIN m.order /\ m.order[i] = k.order[i]
    BY <1>1, <1>3
  <2>3. last \in DOMAIN m.order
    BY <1>1, <1>3
  <2> HIDE DEF last
  <2> QED
    BY <1>3, <2>1, <2>2, <2>3 DEF Listed
<1>5. Listed(k) \subseteq DOMAIN c /\ IsFiniteSet(Listed(k))
  <2>1. Listed(k) \subseteq DOMAIN c
    BY <1>1 DEF Listed
  <2> QED
    BY <2>1, FS_Subset DEF IsCatalog
<1>6. Cardinality(Listed(m)) = last
  <2>1. Cardinality(Listed(k)) = Len(k.order)
    BY DEF KahnInv
  <2>2. node \notin Listed(k) /\ IsFiniteSet(Listed(k))
    BY <1>1, <1>5
  <2>3. Cardinality(Listed(k) \cup {node}) = Cardinality(Listed(k)) + 1
    BY <2>2, FS_AddElement
  <2> QED
    BY <1>4, <2>1, <2>3
<1>7. Deps(c, node) \subseteq Listed(k)
  BY <1>1, WaitsIs DEF KahnInv
<1>8. ASSUME NEW i \in DOMAIN m.order, NEW j \in DOMAIN m.order, m.order[i] = m.order[j]
      PROVE  i = j
  <2>1. \A n \in DOMAIN k.order : m.order[n] = k.order[n] /\ k.order[n] # node
    BY <1>1, <1>3 DEF Listed
  <2>2. \A n \in DOMAIN m.order : n \in DOMAIN k.order \/ n = last
    BY <1>1, <1>3
  <2> HIDE DEF last
  <2> QED
    BY <1>3, <1>8, <2>1, <2>2 DEF KahnInv
<1>9. ASSUME NEW i \in DOMAIN m.order, NEW p \in Deps(c, m.order[i])
      PROVE  \E j \in DOMAIN m.order : j < i /\ m.order[j] = p
  <2>1. CASE i = last
    <3>1. PICK j \in DOMAIN k.order : k.order[j] = p
      BY <1>3, <1>7, <2>1 DEF Listed
    <3>2. j \in DOMAIN m.order /\ j < i /\ m.order[j] = p
      BY <1>1, <1>3, <2>1, <3>1
    <3> QED
      BY <3>2
  <2>2. CASE i # last
    <3>1. i \in DOMAIN k.order /\ m.order[i] = k.order[i]
      <4>1. i \in 1..last /\ i # last
        BY <1>3, <2>2
      <4>2. i \in 1..Len(k.order)
        BY <1>1, <4>1
      <4> QED
        BY <1>1, <1>3, <4>2
    <3>2. PICK j \in DOMAIN k.order : j < i /\ k.order[j] = p
      BY <3>1 DEF KahnInv
    <3>3. j \in DOMAIN m.order /\ m.order[j] = p
      BY <1>1, <1>3, <3>2
    <3> QED
      BY <3>2, <3>3
  <2> QED
    BY <2>1, <2>2
<1>10. ASSUME NEW q \in DOMAIN c
       PROVE  /\ m.degree[q] = Cardinality(Waits(c, q, Listed(m)))
              /\ m.degree[q] \in Nat /\ k.degree[q] \in Nat /\ m.degree[q] <= k.degree[q]
  <2>1. k.degree[q] = Cardinality(Waits(c, q, Listed(k))) /\ k.degree[q] \in Nat
    BY WaitsIs DEF KahnInv
  <2>2. Edges(c, node, q) \in Nat
          /\ k.degree[q] - Edges(c, node, q) = Cardinality(Waits(c, q, Listed(m)))
    BY <1>1, <1>4, <2>1, EdgesIs
  <2>3. m.degree[q] = k.degree[q] - Edges(c, node, q)
    BY <1>2
  <2>4. m.degree[q] \in Nat
    BY <2>2, <2>3, WaitsIs
  <2> QED
    BY <2>1, <2>2, <2>3, <2>4
<1>11. \A q \in Listed(k) : k.degree[q] = 0
  <2> SUFFICES ASSUME NEW q \in Listed(k) PROVE k.degree[q] = 0
    OBVIOUS
  <2>1. PICK i \in DOMAIN k.order : k.order[i] = q
    BY DEF Listed
  <2>2. ASSUME NEW p \in Deps(c, q) PROVE p \in Listed(k)
    <3>1. PICK j \in DOMAIN k.order : k.order[j] = p
      BY <2>1 DEF KahnInv
    <3> QED
      BY <3>1 DEF Listed
  <2>3. q \in DOMAIN c
    BY <1>5
  <2> QED
    BY <2>2, <2>3, WaitsIs DEF KahnInv
<1>12. m.queue = {q \in DOMAIN c \ Listed(m) : m.degree[q] = 0}
  <2>1. k.queue = {q \in DOMAIN c \ Listed(k) : k.degree[q] = 0}
    BY DEF KahnInv
  <2>2. ASSUME NEW q \in DOMAIN c
        PROVE  q \in m.queue <=> q \notin Listed(m) /\ m.degree[q] = 0
    <3>1. q \in m.queue <=> (q \in k.queue /\ q # node) \/ (k.degree[q] > 0 /\ m.degree[q] = 0)
      BY <1>2
    <3>2. q \in k.queue <=> q \notin Listed(k) /\ k.degree[q] = 0
      BY <2>1
    <3>3. q \in Listed(m) <=> q \in Listed(k) \/ q = node
      BY <1>4
    <3>4. k.degree[q] = 0 => m.degree[q] = 0
      BY <1>10
    <3>5. q \in Listed(k) => k.degree[q] = 0
      BY <1>11
    <3>6. k.degree[q] > 0 <=> k.degree[q] # 0
      BY <1>10
    <3> QED
      BY <1>1, <3>1, <3>2, <3>3, <3>4, <3>5, <3>6
  <2>3. m.queue \subseteq DOMAIN c
    BY <1>2, <2>1
  <2> QED
    BY <2>2, <2>3
<1>13. m \in States(c)
  <2>1. m.degree \in [DOMAIN c -> Int]
    BY <1>2, <1>10
  <2>2. m.queue \subseteq DOMAIN c
    BY <1>12
  <2> QED
    BY <1>2, <1>3, <2>1, <2>2 DEF States
<1>14. KahnInv(c, m)
  BY <1>3, <1>6, <1>8, <1>9, <1>10, <1>12, <1>13 DEF KahnInv
<1> QED
  BY <1>3, <1>14 DEF m

(* The rounds of the algorithm: each lists one more entry until none is ready. *)
Kahns(v, c) ==
  /\ v[0] = Started(c)
  /\ \A n \in Nat : v[n + 1] = IF v[n].queue = {} THEN v[n] ELSE Popped(c, v[n], Max(v[n].queue))

LEMMA KahnIs ==
  ASSUME NEW c, IsCatalog(c)
  PROVE  \E v : /\ Kahns(v, c)
               /\ TopologicalOrder(c) =
                    [ok |-> Len(v[Cardinality(DOMAIN c)].order) = Cardinality(DOMAIN c),
                     order |-> v[Cardinality(DOMAIN c)].order]
<1> DEFINE After(k) == IF k.queue = {} THEN k ELSE Popped(c, k, Max(k.queue))
           Def(v) == v = [n \in Nat |-> IF n = 0 THEN Started(c) ELSE After(v[n - 1])]
           T == {k \in States(c) : KahnInv(c, k)}
           G == [k \in T |-> After(k)]
<1>1. Started(c) \in T
  BY StartedInv DEF KahnInv
<1>2. ASSUME NEW k \in T PROVE After(k) \in T
  <2>1. CASE k.queue = {}
    BY <2>1
  <2>2. CASE k.queue # {}
    <3>1. k.queue \subseteq DOMAIN c /\ KahnInv(c, k)
      BY DEF KahnInv
    <3>2. k.queue \subseteq Nat /\ IsFiniteSet(k.queue)
      BY <3>1, FS_Subset DEF IsCatalog
    <3>3. Max(k.queue) \in k.queue
      BY <2>2, <3>2, MaxIs
    <3>4. KahnInv(c, Popped(c, k, Max(k.queue)))
      BY <3>1, <3>3, PoppedInv
    <3> QED
      BY <2>2, <3>4 DEF KahnInv
  <2> QED
    BY <2>1, <2>2
<1>3. G \in [T -> T] /\ \A k \in T : G[k] = After(k)
  BY <1>2
<1> HIDE DEF T, G
<1>4. PICK f : Iterated(f, T, G, Started(c))
  BY <1>1, <1>3, Iterates
<1>5. f \in [Nat -> T] /\ f[0] = Started(c) /\ \A n \in Nat : f[n + 1] = G[f[n]]
  BY <1>4 DEF Iterated
<1>6. ASSUME NEW n \in Nat, n # 0 PROVE f[n] = After(f[n - 1])
  <2>1. n - 1 \in Nat /\ (n - 1) + 1 = n
    BY <1>6
  <2>2. f[n] = G[f[n - 1]] /\ f[n - 1] \in T
    BY <1>5, <2>1
  <2> HIDE DEF After
  <2> QED
    BY <1>3, <2>2
<1>7. Def(f)
  <2> HIDE DEF After
  <2> QED
    BY <1>5, <1>6
<1> DEFINE v == CHOOSE g : Def(g)
<1>8. Def(v)
  <2> HIDE DEF After
  <2> QED
    BY <1>7
<1>9. TopologicalOrder(c) =
        [ok |-> Len(v[Cardinality(DOMAIN c)].order) = Cardinality(DOMAIN c),
         order |-> v[Cardinality(DOMAIN c)].order]
  BY DEF TopologicalOrder
<1> HIDE DEF v
<1>10. v[0] = Started(c)
  BY <1>8
<1>11. ASSUME NEW n \in Nat PROVE v[n + 1] = After(v[n])
  <2>1. n + 1 \in Nat /\ n + 1 # 0 /\ (n + 1) - 1 = n
    OBVIOUS
  <2> HIDE DEF After
  <2> QED
    BY <1>8, <2>1
<1>12. Kahns(v, c)
  BY <1>10, <1>11 DEF Kahns
<1> QED
  BY <1>9, <1>12

(* k is where the algorithm ends. *)
Ends(c, k) ==
  /\ KahnInv(c, k)
  /\ k.queue = {} \/ Len(k.order) = Cardinality(DOMAIN c)
  /\ TopologicalOrder(c) = [ok |-> Len(k.order) = Cardinality(DOMAIN c), order |-> k.order]

LEMMA OrderIs ==
  ASSUME NEW c, IsCatalog(c)
  PROVE  \E k : Ends(c, k)
<1>1. PICK v : /\ Kahns(v, c)
               /\ TopologicalOrder(c) =
                    [ok |-> Len(v[Cardinality(DOMAIN c)].order) = Cardinality(DOMAIN c),
                     order |-> v[Cardinality(DOMAIN c)].order]
  BY KahnIs
<1> DEFINE Good(n) == KahnInv(c, v[n]) /\ (v[n].queue = {} \/ Len(v[n].order) = n)
           S == {n \in Nat : Good(n)}
<1>2. 0 \in S
  <2>1. v[0] = Started(c) /\ Started(c).order = <<>>
    BY <1>1 DEF Kahns, Started
  <2> QED
    BY <2>1, StartedInv
<1>3. ASSUME NEW n \in Nat, n \in S PROVE n + 1 \in S
  <2> DEFINE k == v[n]
             next == v[n + 1]
  <2>1. next = IF k.queue = {} THEN k ELSE Popped(c, k, Max(k.queue))
    BY <1>1 DEF Kahns
  <2>2. KahnInv(c, k) /\ (k.queue = {} \/ Len(k.order) = n)
    BY <1>3
  <2> HIDE DEF k, next
  <2>3. CASE k.queue = {}
    <3>1. KahnInv(c, next) /\ next.queue = {}
      BY <2>1, <2>2, <2>3
    <3> QED
      BY <3>1 DEF next
  <2>4. CASE k.queue # {}
    <3>1. k.queue \subseteq DOMAIN c
      BY <2>2 DEF KahnInv
    <3>2. k.queue \subseteq Nat /\ IsFiniteSet(k.queue)
      BY <3>1, FS_Subset DEF IsCatalog
    <3>3. Max(k.queue) \in k.queue
      BY <2>4, <3>2, MaxIs
    <3>4. KahnInv(c, next) /\ Len(next.order) = n + 1
      BY <2>1, <2>2, <2>4, <3>3, PoppedInv
    <3> QED
      BY <3>4 DEF next
  <2> QED
    BY <2>3, <2>4
<1> DEFINE N == Cardinality(DOMAIN c)
<1>4. N \in Nat
  BY FS_CardinalityType DEF IsCatalog
<1>5. N \in S
  <2> HIDE DEF S, N
  <2>1. Nat \subseteq S
    BY <1>2, <1>3, NatInduct
  <2> QED
    BY <1>4, <2>1
<1>6. KahnInv(c, v[N]) /\ (v[N].queue = {} \/ Len(v[N].order) = N)
  BY <1>5
<1>7. TopologicalOrder(c) = [ok |-> Len(v[N].order) = N, order |-> v[N].order]
  BY <1>1
<1>8. Ends(c, v[N])
  BY <1>6, <1>7 DEF Ends
<1> QED
  BY <1>8

Registers(c) == \A p \in DOMAIN c : Deps(c, p) \subseteq DOMAIN c

Right(c) ==
  LET t == TopologicalOrder(c)
  IN  /\ t.ok <=> Acyclic(c) /\ Registers(c)
      /\ \A i, j \in DOMAIN t.order :
           /\ t.order[i] = t.order[j] => i = j
           /\ t.order[j] \in Deps(c, t.order[i]) => j < i
      /\ t.ok => {t.order[i] : i \in DOMAIN t.order} = DOMAIN c

LEMMA TopologicalOrderIsRight ==
  ASSUME NEW c, IsCatalog(c)
  PROVE  Right(c)
<1> DEFINE N == Cardinality(DOMAIN c)
<1>a. PICK k : Ends(c, k)
  BY OrderIs
<1>1. /\ KahnInv(c, k)
      /\ k.queue = {} \/ Len(k.order) = N
      /\ TopologicalOrder(c) = [ok |-> Len(k.order) = N, order |-> k.order]
  BY <1>a DEF Ends
<1>2. /\ k.order \in Seq(DOMAIN c) /\ DOMAIN k.order = 1..Len(k.order) /\ Len(k.order) \in Nat
      /\ Listed(k) \subseteq DOMAIN c
  <2>1. k.order \in Seq(DOMAIN c)
    BY <1>1 DEF KahnInv, States
  <2> QED
    BY <2>1 DEF Listed
<1>3. Len(k.order) = N <=> Listed(k) = DOMAIN c
  <2>1. Cardinality(Listed(k)) = Len(k.order)
    BY <1>1 DEF KahnInv
  <2>2. Cardinality(Listed(k)) = N <=> Listed(k) = DOMAIN c
    BY <1>2, FS_Subset DEF IsCatalog
  <2> QED
    BY <2>1, <2>2
<1> HIDE DEF N
<1>4. \A i, j \in DOMAIN k.order : k.order[i] = k.order[j] => i = j
  BY <1>1 DEF KahnInv
<1>5. ASSUME NEW i \in DOMAIN k.order, NEW p \in Deps(c, k.order[i])
      PROVE  \E j \in DOMAIN k.order : j < i /\ k.order[j] = p
  BY <1>1 DEF KahnInv
<1>6. ASSUME NEW i \in DOMAIN k.order, NEW j \in DOMAIN k.order, k.order[j] \in Deps(c, k.order[i])
      PROVE  j < i
  BY <1>4, <1>5, <1>6
<1>7. ASSUME Listed(k) = DOMAIN c PROVE Registers(c)
  <2> SUFFICES ASSUME NEW q \in DOMAIN c, NEW p \in Deps(c, q) PROVE p \in DOMAIN c
    BY DEF Registers
  <2>1. PICK i \in DOMAIN k.order : k.order[i] = q
    BY <1>7 DEF Listed
  <2>2. PICK j \in DOMAIN k.order : k.order[j] = p
    BY <1>5, <2>1
  <2> QED
    BY <1>2, <2>2 DEF Listed
<1>8. ASSUME Listed(k) = DOMAIN c PROVE Acyclic(c)
  <2> SUFFICES ASSUME NEW ps \in SUBSET DOMAIN c, ps # {}, \A q \in ps : Deps(c, q) \cap ps # {}
               PROVE  FALSE
    BY DEF Acyclic
  <2> DEFINE at == {i \in DOMAIN k.order : k.order[i] \in ps}
  <2>1. at \subseteq Nat /\ at # {}
    BY <1>2, <1>8 DEF Listed
  <2>2. PICK i \in at : \A j \in at : i <= j
    BY <2>1, LeastNumber
  <2>3. PICK p : p \in Deps(c, k.order[i]) /\ p \in ps
    OBVIOUS
  <2>4. PICK j \in DOMAIN k.order : j < i /\ k.order[j] = p
    BY <1>5, <2>3
  <2>5. j \in at /\ i <= j /\ i \in Nat /\ j \in Nat
    BY <1>2, <2>2, <2>3, <2>4
  <2> QED
    BY <2>4, <2>5
<1>9. ASSUME Acyclic(c), Registers(c), Len(k.order) # N PROVE FALSE
  <2> DEFINE ps == DOMAIN c \ Listed(k)
  <2>1. ps # {} /\ ps \in SUBSET DOMAIN c
    BY <1>2, <1>3, <1>9
  <2>2. ASSUME NEW q \in ps PROVE Deps(c, q) \cap ps # {}
    <3>1. k.degree[q] # 0
      BY <1>1, <1>9 DEF KahnInv
    <3>2. ~ (Deps(c, q) \subseteq Listed(k))
      BY <1>1, <3>1, WaitsIs DEF KahnInv
    <3> QED
      BY <1>9, <3>2 DEF Registers
  <2> HIDE DEF ps
  <2> QED
    BY <1>9, <2>1, <2>2 DEF Acyclic
<1>10. Len(k.order) = N <=> Acyclic(c) /\ Registers(c)
  BY <1>3, <1>7, <1>8, <1>9
<1>11. Listed(k) = {k.order[i] : i \in DOMAIN k.order}
  BY DEF Listed
<1> DEFINE t == TopologicalOrder(c)
<1>12. t.order = k.order /\ (t.ok <=> Len(k.order) = N)
  <2>1. t = [ok |-> Len(k.order) = N, order |-> k.order]
    BY <1>1
  <2> HIDE DEF t
  <2>2. t.order = k.order
    BY <2>1
  <2>3. t.ok = (Len(k.order) = N)
    BY <2>1
  <2> QED
    BY <2>2, <2>3
<1> HIDE DEF t
<1>13. \A i, j \in DOMAIN t.order :
           /\ t.order[i] = t.order[j] => i = j
           /\ t.order[j] \in Deps(c, t.order[i]) => j < i
  BY <1>4, <1>6, <1>12
<1>14. t.ok <=> Acyclic(c) /\ Registers(c)
  BY <1>10, <1>12
<1>15. t.ok => {t.order[i] : i \in DOMAIN t.order} = DOMAIN c
  BY <1>3, <1>11, <1>12
<1> QED
  BY <1>13, <1>14, <1>15 DEF Right, t

-----------------------------------------------------------------------------

(* An entry of the catalogue. *)
IsEntry(e) == e = [spec |-> e.spec, health |-> e.health] /\ IsSpec(e.spec)

CatalogInv ==
  /\ DOMAIN catalog \subseteq Projection /\ IsFiniteSet(DOMAIN catalog)
  /\ \A p \in DOMAIN catalog : IsEntry(catalog[p])

(* What a worker builds is registered; it builds from where the records read so far
   end, or earlier, to an end that was the lake's. *)
JobsInv ==
  /\ DOMAIN job = Worker
  /\ \A w \in Worker :
       /\ job[w].at \in {"idle", "build", "failed"}
       /\ job[w].at \in {"build", "failed"} => job[w].id \in DOMAIN catalog
       /\ job[w].at = "build" =>
            /\ job[w].from \in Nat /\ job[w].from <= applied[job[w].id]
            /\ job[w].to \in Nat

WatermarksInv ==
  /\ lake \in Nat
  /\ applied \in [Projection -> Nat]
  /\ watermark \in [Projection -> [position : Nat, last : {"success", "failed"}]]
  /\ \A p \in Projection : watermark[p].position <= applied[p]

(* A projection whose last build failed is known to be unwell. *)
HealthInv ==
  \A p \in Projection :
    watermark[p].last = "failed" =>
      p \in DOMAIN catalog /\ catalog[p].health \in {"degraded", "broken"}

IInv == CatalogInv /\ JobsInv /\ WatermarksInv /\ HealthInv

-----------------------------------------------------------------------------
LEMMA EntryIs ==
  ASSUME NEW spec, IsSpec(spec), NEW health
  PROVE  LET e == [spec |-> spec, health |-> health]
         IN  IsEntry(e) /\ e.spec = spec /\ e.health = health
BY DEF IsEntry

(* Setting the health of some entries leaves everything else. *)
LEMMA SetHealthIs ==
  ASSUME CatalogInv, NEW ps, NEW health
  PROVE  LET c == SetHealthOf(catalog, ps, health)
         IN  /\ DOMAIN c = DOMAIN catalog
             /\ \A p \in DOMAIN catalog :
                  /\ IsEntry(c[p]) /\ c[p].spec = catalog[p].spec
                  /\ c[p].health = IF p \in ps THEN health ELSE catalog[p].health
<1> SUFFICES ASSUME NEW p \in DOMAIN catalog
             PROVE  LET e == SetHealthOf(catalog, ps, health)[p]
                    IN  /\ IsEntry(e) /\ e.spec = catalog[p].spec
                        /\ e.health = IF p \in ps THEN health ELSE catalog[p].health
  BY DEF SetHealthOf
<1>1. catalog[p] = [spec |-> catalog[p].spec, health |-> catalog[p].health] /\ IsSpec(catalog[p].spec)
  BY DEF CatalogInv, IsEntry
<1>2. SetHealthOf(catalog, ps, health)[p] =
        IF p \in ps THEN [spec |-> catalog[p].spec, health |-> health] ELSE catalog[p]
  BY <1>1 DEF SetHealthOf
<1>3. CASE p \in ps
  BY <1>1, <1>2, <1>3, EntryIs
<1>4. CASE p \notin ps
  BY <1>1, <1>2, <1>4 DEF IsEntry
<1> QED
  BY <1>3, <1>4

(* After a build of p that read from+1..to all of 1..to is read. *)
LEMMA ReadsIs ==
  ASSUME NEW read \in [Projection -> Nat], NEW p \in Projection,
         NEW from \in Nat, NEW to \in Nat, from <= read[p]
  PROVE  LET after == Reads(read, p, from, to)
         IN  /\ after \in [Projection -> Nat] /\ after[p] >= to
             /\ \A q \in Projection : after[q] >= read[q]
BY DEF Reads

LEMMA InitInv == Init => IInv
<1> SUFFICES ASSUME Init PROVE IInv
  OBVIOUS
<1>1. CatalogInv
  BY FS_EmptySet DEF Init, EmptyCatalog, CatalogInv
<1>2. JobsInv
  BY DEF Init, JobsInv, Idle
<1>3. WatermarksInv /\ HealthInv
  BY DEF Init, WatermarksInv, HealthInv, NewWatermark
<1> QED
  BY <1>1, <1>2, <1>3 DEF IInv

LEMMA RegisterStep == ASSUME IInv, Register PROVE IInv'
<1>1. PICK p \in Projection, spec \in ProjectionSpec :
        /\ p \notin DOMAIN catalog /\ catalog' = Registered(catalog, p, spec)
        /\ UNCHANGED <<lake, watermark, job, applied, edits>>
  BY DEF Register, Registrable
<1>2. /\ DOMAIN catalog' = DOMAIN catalog \cup {p}
      /\ catalog'[p] = Entry(spec)
      /\ \A q \in DOMAIN catalog : catalog'[q] = catalog[q]
  BY <1>1 DEF Registered
<1>3. CatalogInv'
  <2>1. IsSpec(spec)
    BY PropagationAssumption
  <2>2. IsEntry(Entry(spec))
    BY <2>1, EntryIs DEF Entry
  <2>3. IsFiniteSet(DOMAIN catalog')
    BY <1>2, FS_AddElement DEF IInv, CatalogInv
  <2> QED
    BY <1>1, <1>2, <2>2, <2>3 DEF IInv, CatalogInv
<1> QED
  BY <1>1, <1>2, <1>3 DEF IInv, JobsInv, WatermarksInv, HealthInv

LEMMA EditedIs ==
  ASSUME NEW old, IsSpec(old), NEW sources, IsFiniteSet(sources)
  PROVE  IsSpec([[old EXCEPT !.sources = sources] EXCEPT !.reconciliation = "lake-first"])
<1> DEFINE modes == old.readModes
           outputs == old.outputs
           reconciliation == old.reconciliation
           deterministic == old.deterministicIn
           before == old.sources
<1>1. old = [sources |-> before, readModes |-> modes, outputs |-> outputs,
             reconciliation |-> reconciliation, deterministicIn |-> deterministic]
  BY DEF IsSpec
<1> HIDE DEF modes, outputs, reconciliation, deterministic, before
<1> DEFINE mid == [old EXCEPT !.sources = sources]
<1>2. mid
        = [sources |-> sources, readModes |-> modes, outputs |-> outputs,
           reconciliation |-> reconciliation, deterministicIn |-> deterministic]
  BY <1>1
<1> HIDE DEF mid
<1>3. [mid EXCEPT !.reconciliation = "lake-first"]
        = [sources |-> sources, readModes |-> modes, outputs |-> outputs,
           reconciliation |-> "lake-first", deterministicIn |-> deterministic]
  BY <1>2
<1> QED
  BY <1>3 DEF IsSpec, mid

LEMMA EditSpecStep == ASSUME IInv, EditSpec PROVE IInv'
<1>1. PICK p \in DOMAIN catalog, q \in Projection :
        /\ catalog' = [catalog EXCEPT
             ![p].spec.sources = IF Projected(q, 1) \in catalog[p].spec.sources
                                 THEN catalog[p].spec.sources \ {Projected(q, 1)}
                                 ELSE catalog[p].spec.sources \cup {Projected(q, 1)},
             ![p].spec.reconciliation = "lake-first"]
        /\ UNCHANGED <<lake, watermark, job, applied>>
  BY DEF EditSpec
<1>2. /\ DOMAIN catalog' = DOMAIN catalog
      /\ \A r \in DOMAIN catalog : r # p => catalog'[r] = catalog[r]
  BY <1>1
<1>3. catalog[p] = [spec |-> catalog[p].spec, health |-> catalog[p].health]
  BY DEF IInv, CatalogInv, IsEntry
<1>4. IsEntry(catalog'[p]) /\ catalog'[p].health = catalog[p].health
  <2> DEFINE sources == IF Projected(q, 1) \in catalog[p].spec.sources
                        THEN catalog[p].spec.sources \ {Projected(q, 1)}
                        ELSE catalog[p].spec.sources \cup {Projected(q, 1)}
  <2>1. catalog'[p] = [catalog[p] EXCEPT !.spec =
                         [[@ EXCEPT !.sources = sources] EXCEPT !.reconciliation = "lake-first"]]
    BY <1>1, <1>3
  <2>2. catalog[p].spec = [sources |-> catalog[p].spec.sources, readModes |-> catalog[p].spec.readModes,
                           outputs |-> catalog[p].spec.outputs,
                           reconciliation |-> catalog[p].spec.reconciliation,
                           deterministicIn |-> catalog[p].spec.deterministicIn]
          /\ IsFiniteSet(catalog[p].spec.sources)
    BY DEF IInv, CatalogInv, IsEntry, IsSpec
  <2>3. IsFiniteSet(sources)
    BY <2>2, FS_AddElement, FS_RemoveElement
  <2> HIDE DEF sources
  <2> DEFINE old == catalog[p].spec
             spec == [[old EXCEPT !.sources = sources] EXCEPT !.reconciliation = "lake-first"]
  <2>4. IsSpec(spec)
    BY <2>2, <2>3, EditedIs DEF IsSpec
  <2>5. catalog'[p] = [spec |-> spec, health |-> catalog[p].health]
    BY <1>3, <2>1
  <2> HIDE DEF spec
  <2> QED
    BY <2>4, <2>5, EntryIs
<1> QED
  BY <1>1, <1>2, <1>4 DEF IInv, CatalogInv, JobsInv, WatermarksInv, HealthInv

LEMMA AppendStep == ASSUME IInv, AppendObservation PROVE IInv'
BY DEF IInv, AppendObservation, CatalogInv, JobsInv, WatermarksInv, HealthInv

LEMMA PrepareStep == ASSUME IInv, NEW w \in Worker, Prepare(w) PROVE IInv'
<1>1. PICK p \in DOMAIN catalog : job' = [job EXCEPT ![w] = Building(p, watermark[p].position, lake)]
  BY DEF Prepare
<1>2. UNCHANGED <<catalog, lake, watermark, applied, edits>>
  BY DEF Prepare
<1>3. p \in Projection /\ watermark[p].position \in Nat /\ watermark[p].position <= applied[p]
        /\ lake \in Nat
  BY DEF IInv, CatalogInv, WatermarksInv
<1>4. JobsInv'
  BY <1>1, <1>2, <1>3 DEF IInv, JobsInv, Building
<1> QED
  BY <1>2, <1>4 DEF IInv, CatalogInv, WatermarksInv, HealthInv

LEMMA CommitSuccessStep == ASSUME IInv, NEW w \in Worker, CommitSuccess(w) PROVE IInv'
<1> DEFINE p == job[w].id
           to == job[w].to
<1>1. /\ p \in DOMAIN catalog /\ p \in Projection
      /\ to \in Nat /\ job[w].from \in Nat /\ job[w].from <= applied[p]
  BY DEF IInv, JobsInv, CatalogInv, CommitSuccess
<1>2. /\ watermark' = Advanced(watermark, p, to)
      /\ catalog' = SetHealthOf(catalog, {p}, "healthy")
      /\ applied' = Reads(applied, p, job[w].from, to)
      /\ job' = [job EXCEPT ![w] = Idle]
      /\ UNCHANGED <<lake, edits>>
  BY DEF CommitSuccess
<1> HIDE DEF p, to
<1>3. /\ DOMAIN catalog' = DOMAIN catalog
      /\ \A q \in DOMAIN catalog : IsEntry(catalog'[q])
      /\ \A q \in DOMAIN catalog : q # p => catalog'[q].health = catalog[q].health
  BY <1>2, SetHealthIs DEF IInv
<1>4. applied' \in [Projection -> Nat] /\ applied'[p] >= to
        /\ \A q \in Projection : applied'[q] >= applied[q]
  BY <1>1, <1>2, ReadsIs DEF IInv, WatermarksInv
<1>5. /\ watermark' \in [Projection -> [position : Nat, last : {"success", "failed"}]]
      /\ watermark'[p] = [position |-> to, last |-> "success"]
      /\ \A q \in Projection : q # p => watermark'[q] = watermark[q]
  BY <1>1, <1>2 DEF Advanced, IInv, WatermarksInv
<1>6. JobsInv'
  <2>1. ASSUME NEW v \in Worker, job[v].at = "build"
        PROVE  job[v].from <= applied'[job[v].id]
    BY <1>4, <2>1 DEF IInv, JobsInv, CatalogInv, WatermarksInv
  <2>2. /\ DOMAIN job' = Worker /\ job'[w].at = "idle"
        /\ \A v \in Worker : v # w => job'[v] = job[v]
    BY <1>2 DEF IInv, JobsInv, Idle
  <2> QED
    BY <1>3, <2>1, <2>2 DEF IInv, JobsInv
<1>7. WatermarksInv'
  BY <1>2, <1>4, <1>5 DEF IInv, WatermarksInv
<1>8. HealthInv'
  BY <1>3, <1>5 DEF IInv, HealthInv
<1> QED
  BY <1>3, <1>6, <1>7, <1>8 DEF IInv, CatalogInv

LEMMA CommitPanicsStep == ASSUME IInv, NEW w \in Worker, CommitPanics(w) PROVE IInv'
BY DEF IInv, CommitPanics, CatalogInv, JobsInv, WatermarksInv, HealthInv, Idle

LEMMA CommitFailureStep == ASSUME IInv, NEW w \in Worker, CommitFailure(w) PROVE IInv'
<1> DEFINE p == job[w].id
<1>1. p \in DOMAIN catalog /\ p \in Projection
  BY DEF IInv, JobsInv, CatalogInv, CommitFailure
<1>2. /\ watermark' = [watermark EXCEPT ![p].last = "failed"]
      /\ catalog' = SetHealthOf(catalog, {p}, "broken")
      /\ job' = [job EXCEPT ![w] = Failed(p)]
      /\ UNCHANGED <<lake, applied, edits>>
  BY DEF CommitFailure, FailureRecorded
<1> HIDE DEF p
<1>3. /\ DOMAIN catalog' = DOMAIN catalog
      /\ \A q \in DOMAIN catalog : IsEntry(catalog'[q])
      /\ \A q \in DOMAIN catalog : q # p => catalog'[q].health = catalog[q].health
      /\ catalog'[p].health = "broken"
  BY <1>1, <1>2, SetHealthIs DEF IInv
<1>4. JobsInv'
  BY <1>1, <1>2, <1>3 DEF IInv, JobsInv, Failed
<1>5. WatermarksInv'
  BY <1>1, <1>2 DEF IInv, WatermarksInv
<1>6. \A q \in Projection : q # p => watermark'[q] = watermark[q]
  BY <1>2 DEF IInv, WatermarksInv
<1>7. HealthInv'
  BY <1>1, <1>3, <1>6 DEF IInv, HealthInv
<1> QED
  BY <1>3, <1>4, <1>5, <1>7 DEF IInv, CatalogInv

LEMMA PropagateFailureStep ==
  ASSUME IInv, NEW w \in Worker, PropagateUpstreamFailure(w) PROVE IInv'
<1>1. PICK ps : catalog' = SetHealthOf(catalog, ps, "degraded")
  BY DEF PropagateUpstreamFailure
<1>2. job' = [job EXCEPT ![w] = Idle] /\ UNCHANGED <<lake, watermark, applied, edits>>
  BY DEF PropagateUpstreamFailure
<1>3. /\ DOMAIN catalog' = DOMAIN catalog
      /\ \A q \in DOMAIN catalog : IsEntry(catalog'[q])
      /\ \A q \in DOMAIN catalog : catalog'[q].health \in {"degraded", catalog[q].health}
  BY <1>1, SetHealthIs DEF IInv
<1> QED
  BY <1>2, <1>3 DEF IInv, CatalogInv, JobsInv, WatermarksInv, HealthInv, Idle

LEMMA PropagateAllStep == ASSUME IInv, PropagateAll PROVE IInv'
<1> DEFINE topological == TopologicalOrder(catalog)
           order == {topological.order[i] : i \in DOMAIN topological.order}
           behind == {p \in order : ~ UpToDate(watermark, p)}
<1>1. \/ catalog' = SetHealthOf(catalog, DOMAIN catalog, "broken") /\ UNCHANGED <<watermark, applied>>
      \/ /\ catalog' = SetHealthOf(catalog, behind, "healthy")
         /\ watermark' = [p \in Projection |->
              IF p \in behind THEN [position |-> lake, last |-> "success"] ELSE watermark[p]]
         /\ applied' = [p \in Projection |->
              IF p \in behind THEN Reads(applied, p, watermark[p].position, lake)[p] ELSE applied[p]]
  BY DEF PropagateAll, HealthAfter
<1>2. UNCHANGED <<lake, job, edits>>
  BY DEF PropagateAll
<1> HIDE DEF behind
<1>3. CASE /\ catalog' = SetHealthOf(catalog, DOMAIN catalog, "broken")
           /\ UNCHANGED <<watermark, applied>>
  <2>1. /\ DOMAIN catalog' = DOMAIN catalog
        /\ \A q \in DOMAIN catalog : IsEntry(catalog'[q]) /\ catalog'[q].health = "broken"
    BY <1>3, SetHealthIs DEF IInv
  <2> QED
    BY <1>2, <1>3, <2>1 DEF IInv, CatalogInv, JobsInv, WatermarksInv, HealthInv
<1>4. CASE /\ catalog' = SetHealthOf(catalog, behind, "healthy")
           /\ watermark' = [p \in Projection |->
                IF p \in behind THEN [position |-> lake, last |-> "success"] ELSE watermark[p]]
           /\ applied' = [p \in Projection |->
                IF p \in behind THEN Reads(applied, p, watermark[p].position, lake)[p] ELSE applied[p]]
  <2>1. /\ DOMAIN catalog' = DOMAIN catalog
        /\ \A q \in DOMAIN catalog : IsEntry(catalog'[q])
        /\ \A q \in DOMAIN catalog : q \notin behind => catalog'[q].health = catalog[q].health
    BY <1>4, SetHealthIs DEF IInv
  <2>2. ASSUME NEW p \in Projection
        PROVE  LET read == Reads(applied, p, watermark[p].position, lake)[p]
               IN  read \in Nat /\ read >= lake /\ read >= applied[p]
    BY ReadsIs DEF IInv, WatermarksInv
  <2>3. ASSUME NEW p \in Projection
        PROVE  /\ applied'[p] \in Nat /\ applied'[p] >= applied[p]
               /\ watermark'[p] \in [position : Nat, last : {"success", "failed"}]
               /\ watermark'[p].position <= applied'[p]
               /\ watermark'[p].last = "failed" => p \notin behind /\ watermark[p].last = "failed"
    <3>1. CASE p \in behind
      BY <1>4, <2>2, <3>1 DEF IInv, WatermarksInv
    <3>2. CASE p \notin behind
      BY <1>4, <3>2 DEF IInv, WatermarksInv
    <3> QED
      BY <3>1, <3>2
  <2>4. WatermarksInv'
    BY <1>2, <1>4, <2>3 DEF IInv, WatermarksInv
  <2>5. HealthInv'
    BY <2>1, <2>3 DEF IInv, HealthInv
  <2>6. JobsInv'
    <3> SUFFICES ASSUME NEW v \in Worker
                 PROVE  job[v].at = "build" => job[v].from <= applied'[job[v].id]
      BY <1>2, <2>1 DEF IInv, JobsInv
    <3> QED
      BY <2>3 DEF IInv, JobsInv, CatalogInv, WatermarksInv
  <2> QED
    BY <2>1, <2>4, <2>5, <2>6 DEF IInv, CatalogInv
<1> QED
  BY <1>1, <1>3, <1>4

LEMMA StepInv == IInv /\ [Next]_vars => IInv'
<1> SUFFICES ASSUME IInv, [Next]_vars PROVE IInv'
  OBVIOUS
<1>1. CASE UNCHANGED vars
  BY <1>1 DEF vars, IInv, CatalogInv, JobsInv, WatermarksInv, HealthInv
<1>2. CASE Next
  BY <1>2, RegisterStep, EditSpecStep, AppendStep, PrepareStep, CommitSuccessStep, CommitPanicsStep,
     CommitFailureStep, PropagateFailureStep, PropagateAllStep DEF Next, Work
<1> QED
  BY <1>1, <1>2

LEMMA Invariance == Spec => []IInv
BY InitInv, StepInv, PTL DEF Spec

LEMMA CatalogIs ==
  ASSUME CatalogInv
  PROVE  IsCatalog(catalog)
<1>1. DOMAIN catalog \subseteq Nat /\ IsFiniteSet(DOMAIN catalog)
  BY PropagationAssumption DEF CatalogInv
<1>2. ASSUME NEW p \in DOMAIN catalog PROVE IsFiniteSet(Projections(catalog[p].spec))
  <2>1. IsFiniteSet(catalog[p].spec.sources)
    BY DEF CatalogInv, IsEntry, IsSpec
  <2>2. Projections(catalog[p].spec) \subseteq catalog[p].spec.sources
    BY DEF Projections
  <2> QED
    BY <2>1, <2>2, FS_Subset
<1> QED
  BY <1>1, <1>2 DEF IsCatalog

(* Only a registration changes which projections there are. *)
LEMMA RegisterStepKeepsAcyclic ==
  ASSUME IInv, [Next]_vars, DOMAIN catalog' # DOMAIN catalog, Acyclic(catalog)
  PROVE  Acyclic(catalog')
<1>1. Register
  <2>1. ASSUME NEW ps, NEW health, catalog' = SetHealthOf(catalog, ps, health) PROVE FALSE
    BY <2>1 DEF SetHealthOf
  <2>2. CASE EditSpec
    BY <2>2 DEF EditSpec
  <2>3. CASE AppendObservation \/ UNCHANGED vars
    BY <2>3 DEF AppendObservation, vars
  <2>4. ASSUME NEW w \in Worker, Work(w) PROVE FALSE
    <3>1. CASE Prepare(w) \/ CommitPanics(w)
      BY <3>1 DEF Prepare, CommitPanics
    <3>2. CASE CommitSuccess(w)
      BY <2>1, <3>2 DEF CommitSuccess
    <3>3. CASE CommitFailure(w)
      BY <2>1, <3>3 DEF CommitFailure
    <3>4. CASE PropagateUpstreamFailure(w)
      BY <2>1, <3>4 DEF PropagateUpstreamFailure
    <3> QED
      BY <2>4, <3>1, <3>2, <3>3, <3>4 DEF Work
  <2>5. CASE PropagateAll
    BY <2>1, <2>5 DEF PropagateAll, HealthAfter
  <2> QED
    BY <2>2, <2>3, <2>4, <2>5 DEF Next
<1>2. PICK p \in Projection, spec \in ProjectionSpec :
        Registrable(catalog, p, spec) /\ catalog' = Registered(catalog, p, spec)
  BY <1>1 DEF Register
<1>3. IsFiniteSet(DOMAIN catalog)
  BY DEF IInv, CatalogInv
<1> QED
  BY <1>2, <1>3, Registering

-----------------------------------------------------------------------------
(* A watermark covers only observations that successful builds have read, *)
(* whatever was appended or built by others between check_and_prepare and  *)
(* commit_success.                                                         *)
THEOREM PropagationNothingSkipped == Spec => []NothingSkipped
<1>1. IInv => NothingSkipped
  BY DEF IInv, WatermarksInv, NothingSkipped
<1> QED
  BY Invariance, <1>1, PTL

(* While the last build of a projection failed compute_overall does not    *)
(* answer ok: no other build, propagate_all or edit hides the failure.     *)
THEOREM PropagationFailureIsVisible == Spec => []FailureIsVisible
<1>1. IInv => FailureIsVisible
  BY DEF IInv, HealthInv, FailureIsVisible, Overall
<1> QED
  BY Invariance, <1>1, PTL

(* topological_order answers ok exactly for a catalogue whose dependencies *)
(* are all registered and none circular, and lists each projection once,   *)
(* after all that it depends on, whatever was registered and edited.       *)
THEOREM PropagationOrderIsRight == Spec => []OrderIsRight
<1>1. IInv => OrderIsRight
  BY CatalogIs, TopologicalOrderIsRight DEF IInv, Right, Registers, OrderIsRight
<1> QED
  BY Invariance, <1>1, PTL

(* CatalogRegistry::register never closes a cycle in a catalogue that has  *)
(* none, not even through specs edited behind its back: the search sees    *)
(* everything the new projection waits for, however deep.                  *)
THEOREM PropagationRegisterKeepsAcyclic == Spec => RegisterKeepsAcyclic
<1>1. IInv /\ [Next]_vars =>
        [DOMAIN catalog' # DOMAIN catalog /\ Acyclic(catalog) => Acyclic(catalog')]_vars
  BY RegisterStepKeepsAcyclic
<1> QED
  BY Invariance, <1>1, PTL DEF Spec, RegisterKeepsAcyclic
=============================================================================
