------------------------- MODULE NotionWritebackProofs -------------------------
(***************************************************************************)
(* Safety of NotionWriteback for any writers, persons, versions and pages. *)
(*                                                                         *)
(* Everything a writer does it does to the page it holds, and who else     *)
(* holds a page of the same person knows not to be alone.  So a step on a  *)
(* page can only concern its writer and what is remembered of the page:    *)
(* that block ids are unique in it, and that what people typed above the   *)
(* section is still above everything else and in no delete queue.          *)
(***************************************************************************)
EXTENDS NotionWriteback, FiniteSetTheorems, SequenceTheorems, WellFoundedInduction, TLAPS

Kinds == {"note", "image", "divider", "text", "toggle"}
Blocks == [id : Nat, kind : Kinds, of : Nat]
Pages == [entity : Entity, properties : [Field -> Nat], blocks : Seq(Blocks)]
Busies == {"trash", "find", "create", "update", "read", "replace"}
Jobs == [at : Busies \cup {"idle", "next"}, review : BOOLEAN, todo : SUBSET Entity,
         entity : Entity \cup {Idle.entity}, version : [Entity -> Nat], page : Nat,
         queue : Seq(Nat), archive : BOOLEAN, alone : BOOLEAN]

Works(j, e) == j.at \in Busies /\ j.entity = e

-----------------------------------------------------------------------------
(* Bodies of pages. *)
Distinct(blocks) ==
  \A m, n \in 1..Len(blocks) : blocks[m].id = blocks[n].id => m = n

(* A note that has nothing but notes above it. *)
Above(blocks, id) ==
  \E n \in 1..Len(blocks) : blocks[n].id = id /\ \A k \in 1..n : blocks[k].kind = "note"

(* The last section is of version, and the only one. *)
ShownAt(blocks, version, m) ==
  /\ blocks[m].kind = "divider"
  /\ \A k \in 1..Len(blocks) : blocks[k].kind = "divider" => k = m
  /\ \A n \in 1..Len(blocks) : n > m /\ blocks[n].kind = "text" => blocks[n].of = version
  /\ \E n \in 1..Len(blocks) : n > m /\ blocks[n].kind = "text"
  /\ version \in Pictured => m > 1 /\ blocks[m - 1].kind = "image"

Shown(blocks, version) == \E m \in 1..Len(blocks) : ShownAt(blocks, version, m)

(* What people typed above the section of page p is where it was. *)
Body(p, blocks, N) == Distinct(blocks) /\ \A t \in N : t[1] = p => Above(blocks, t[2])

-----------------------------------------------------------------------------
TypeInv ==
  /\ snapshot \in [Entity -> Nat]
  /\ DOMAIN pages \subseteq 1..MaxPage /\ \A p \in DOMAIN pages : pages[p] \in Pages
  /\ job \in [Writer -> Jobs]
  /\ crowded \subseteq Entity
  /\ written \in [Entity -> [page : Nat, version : Nat]]

(* Writers that are busy with one entity know, and it is crowded. *)
CrowdInv ==
  \A v, w \in Writer, e \in Entity : v # w /\ Works(job[v], e) /\ Works(job[w], e) =>
    e \in crowded /\ ~ job[w].alone

(* A page is created only where there is none. *)
PagesInv ==
  \A e \in Entity \ crowded :
    /\ \A p, q \in PagesOf(e) : p = q
    /\ \A w \in Writer : job[w].at = "create" /\ job[w].entity = e => PagesOf(e) = {}

(* A page that was written alone, with nobody at it since, shows it. *)
WrittenAt(e) ==
  written[e] # Nothing =>
    /\ \A w \in Writer : ~ Works(job[w], e)
    /\ written[e].page \in DOMAIN pages
    /\ LET page == pages[written[e].page]
       IN  page.entity = e /\ Carries(page, written[e].version)
             /\ Shown(page.blocks, written[e].version)

WrittenInv == \A e \in Entity : WrittenAt(e)

BodyInv == \A p \in DOMAIN pages : Body(p, pages[p].blocks, notes)

(* The page a writer holds is of the entity it writes.  One that is alone finds the page
   as it left it, and no marker remains but those it is about to delete; nor is any
   writer about to delete what people typed above the section. *)
JobInv(j, P, N) ==
  /\ j.at \in Busies => j.entity \in Entity
  /\ j.at \in Busies /\ j.page \in DOMAIN P => P[j.page].entity = j.entity
  /\ j.at \in {"find", "create"} => j.page = NoPage
  /\ j.at \in {"read", "replace"} /\ j.alone /\ j.page \in DOMAIN P =>
       Carries(P[j.page], j.version[j.entity])
  /\ j.at = "replace" /\ j.alone /\ j.page \in DOMAIN P =>
       \A m \in 1..Len(P[j.page].blocks) :
         P[j.page].blocks[m].kind = "divider" =>
           \E k \in 1..Len(j.queue) : j.queue[k] = P[j.page].blocks[m].id
  /\ j.at = "replace" =>
       \A t \in N, k \in 1..Len(j.queue) : t[1] = j.page => j.queue[k] # t[2]

JobsInv == \A w \in Writer : JobInv(job[w], pages, notes)

IInv == TypeInv /\ CrowdInv /\ PagesInv /\ WrittenInv /\ BodyInv /\ JobsInv

-----------------------------------------------------------------------------
LEMMA MinIs ==
  ASSUME NEW S, S \subseteq Nat, S # {}
  PROVE  Min(S) \in S /\ \A t \in S : Min(S) <= t
<1> DEFINE R == OpToRel(<, Nat)
<1>1. IsWellFoundedOn(R, Nat)
  BY NatLessThanWellFounded
<1>2. \A x, y \in Nat : x < y => <<x, y>> \in R
  BY DEF OpToRel
<1> HIDE DEF R
<1>3. PICK x \in S : \A y \in S : ~ (<<y, x>> \in R)
  BY <1>1, WFMin
<1>4. \A y \in S : x \in Nat /\ y \in Nat /\ ~ (y < x)
  BY <1>2, <1>3
<1>5. \A y \in S : x <= y
  BY <1>4
<1> QED
  BY <1>3, <1>5 DEF Min

LEMMA RemoveAtIs ==
  ASSUME NEW S, NEW s \in Seq(S), NEW i \in 1..Len(s)
  PROVE  /\ RemoveAt(s, i) \in Seq(S) /\ Len(RemoveAt(s, i)) = Len(s) - 1
         /\ \A k \in 1..(Len(s) - 1) : RemoveAt(s, i)[k] = IF k < i THEN s[k] ELSE s[k + 1]
<1> DEFINE a == SubSeq(s, 1, i - 1)
           b == SubSeq(s, i + 1, Len(s))
<1>1. a \in Seq(S) /\ Len(a) = i - 1 /\ \A k \in 1..(i - 1) : a[k] = s[k]
  BY SubSeqProperties
<1>2. b \in Seq(S) /\ Len(b) = Len(s) - i /\ \A k \in 1..(Len(s) - i) : b[k] = s[i + k]
  BY SubSeqProperties
<1>3. RemoveAt(s, i) = a \o b
  BY DEF RemoveAt
<1> HIDE DEF a, b
<1>4. /\ a \o b \in Seq(S) /\ Len(a \o b) = Len(a) + Len(b)
      /\ \A k \in 1..(Len(a) + Len(b)) : (a \o b)[k] = IF k <= Len(a) THEN a[k] ELSE b[k - Len(a)]
  BY <1>1, <1>2, ConcatProperties
<1>5. Len(s) \in Nat
  OBVIOUS
<1>6. \A k \in 1..(Len(s) - 1) : (a \o b)[k] = IF k < i THEN s[k] ELSE s[k + 1]
  BY <1>1, <1>2, <1>4, <1>5
<1> QED
  BY <1>1, <1>2, <1>3, <1>4, <1>5, <1>6

(* The ids of the blocks to append are new and different ones. *)
LEMMA FreshIdsAre ==
  ASSUME EnoughIds, MaxBlock \in Nat
  PROVE  /\ \A n \in 1..4 : FreshIds[n] \in UnknownBlocks
         /\ \A m, n \in 1..4 : FreshIds[m] = FreshIds[n] => m = n
<1> DEFINE U == UnknownBlocks
<1>1. U \subseteq 1..MaxBlock
  BY DEF UnknownBlocks
<1>2. IsFiniteSet(U) /\ U \subseteq Nat /\ Cardinality(U) \in Nat /\ Cardinality(U) >= 4
  <2>1. IsFiniteSet(1..MaxBlock)
    BY FS_Interval
  <2>2. IsFiniteSet(U)
    BY <1>1, <2>1, FS_Subset
  <2>3. Cardinality(U) \in Nat
    BY <2>2, FS_CardinalityType
  <2> QED
    BY <1>1, <2>2, <2>3 DEF EnoughIds, SectionSize
<1> HIDE DEF U
<1>3. ASSUME NEW V, IsFiniteSet(V), V \subseteq U, NEW n \in Nat, Cardinality(V) >= n, n > 0
      PROVE  /\ Min(V) \in V /\ IsFiniteSet(V \ {Min(V)})
             /\ Cardinality(V \ {Min(V)}) >= n - 1
  <2>1. V # {}
    BY <1>3, FS_EmptySet
  <2>2. Min(V) \in V
    BY <1>2, <1>3, <2>1, MinIs
  <2>3. IsFiniteSet(V \ {Min(V)}) /\ Cardinality(V \ {Min(V)}) = Cardinality(V) - 1
    BY <1>3, <2>2, FS_RemoveElement
  <2>4. Cardinality(V) \in Nat
    BY <1>3, FS_CardinalityType
  <2> QED
    BY <1>3, <2>2, <2>3, <2>4
<1> DEFINE a1 == Min(U)
           a2 == Min(U \ {a1})
           a3 == Min(U \ {a1, a2})
           a4 == Min(U \ {a1, a2, a3})
<1>4. a1 \in U /\ IsFiniteSet(U \ {a1}) /\ Cardinality(U \ {a1}) >= 3
  BY <1>2, <1>3
<1> HIDE DEF a1
<1>5. a2 \in U \ {a1} /\ IsFiniteSet(U \ {a1, a2}) /\ Cardinality(U \ {a1, a2}) >= 2
  <2>1. (U \ {a1}) \ {a2} = U \ {a1, a2}
    OBVIOUS
  <2> QED
    BY <1>3, <1>4, <2>1
<1> HIDE DEF a2
<1>6. a3 \in U \ {a1, a2} /\ IsFiniteSet(U \ {a1, a2, a3}) /\ Cardinality(U \ {a1, a2, a3}) >= 1
  <2>1. (U \ {a1, a2}) \ {a3} = U \ {a1, a2, a3}
    OBVIOUS
  <2> QED
    BY <1>3, <1>5, <2>1
<1> HIDE DEF a3
<1>7. a4 \in U \ {a1, a2, a3}
  BY <1>3, <1>6
<1> HIDE DEF a4
<1> DEFINE g == [n \in 1..4 |-> IF n = 1 THEN a1 ELSE IF n = 2 THEN a2 ELSE IF n = 3 THEN a3 ELSE a4]
           Is(f) == f = [n \in 1..4 |-> Min(U \ {f[k] : k \in 1..(n - 1)})]
<1>8. /\ {g[k] : k \in 1..(1 - 1)} = {} /\ {g[k] : k \in 1..(2 - 1)} = {a1}
      /\ {g[k] : k \in 1..(3 - 1)} = {a1, a2} /\ {g[k] : k \in 1..(4 - 1)} = {a1, a2, a3}
  <2>1. 1..(1 - 1) = {} /\ 1..(2 - 1) = {1} /\ 1..(3 - 1) = {1, 2} /\ 1..(4 - 1) = {1, 2, 3}
    OBVIOUS
  <2>2. g[1] = a1 /\ g[2] = a2 /\ g[3] = a3
    OBVIOUS
  <2> HIDE DEF g
  <2> QED
    BY <2>1, <2>2
<1>9. Is(g)
  <2>1. \A n \in 1..4 : Min(U \ {g[k] : k \in 1..(n - 1)}) = g[n]
    <3> SUFFICES ASSUME NEW n \in 1..4 PROVE Min(U \ {g[k] : k \in 1..(n - 1)}) = g[n]
      OBVIOUS
    <3>1. g[1] = a1 /\ g[2] = a2 /\ g[3] = a3 /\ g[4] = a4
      OBVIOUS
    <3>2. U \ {} = U
      OBVIOUS
    <3> HIDE DEF g
    <3>3. n = 1 \/ n = 2 \/ n = 3 \/ n = 4
      OBVIOUS
    <3>4. CASE n = 1
      BY <1>8, <3>1, <3>2, <3>4 DEF a1
    <3>5. CASE n = 2
      BY <1>8, <3>1, <3>5 DEF a2
    <3>6. CASE n = 3
      BY <1>8, <3>1, <3>6 DEF a3
    <3>7. CASE n = 4
      BY <1>8, <3>1, <3>7 DEF a4
    <3> QED
      BY <3>3, <3>4, <3>5, <3>6, <3>7
  <2>2. g = [n \in 1..4 |-> g[n]]
    OBVIOUS
  <2> HIDE DEF g
  <2> QED
    BY <2>1, <2>2
<1> HIDE DEF g
<1>10. FreshIds = CHOOSE f : Is(f)
  BY DEF FreshIds, SectionSize, U
<1> DEFINE f == FreshIds
<1>11. Is(f)
  <2> HIDE DEF Is
  <2> QED
    BY <1>9, <1>10
<1> HIDE DEF f
<1>12. \A n \in 1..4 : f[n] = Min(U \ {f[k] : k \in 1..(n - 1)})
  BY <1>11
<1>13. f[1] = a1
  <2>1. {f[k] : k \in 1..(1 - 1)} = {}
    OBVIOUS
  <2> QED
    BY <1>12, <2>1 DEF a1
<1>14. f[2] = a2
  <2>1. {f[k] : k \in 1..(2 - 1)} = {a1}
    BY <1>13
  <2> QED
    BY <1>12, <2>1 DEF a2
<1>15. f[3] = a3
  <2>1. 1..(3 - 1) = {1, 2}
    OBVIOUS
  <2>2. {f[k] : k \in 1..(3 - 1)} = {a1, a2}
    BY <1>13, <1>14, <2>1
  <2> QED
    BY <1>12, <2>2 DEF a3
<1>16. f[4] = a4
  <2>1. 1..(4 - 1) = {1, 2, 3}
    OBVIOUS
  <2>2. {f[k] : k \in 1..(4 - 1)} = {a1, a2, a3}
    BY <1>13, <1>14, <1>15, <2>1
  <2> QED
    BY <1>12, <2>2 DEF a4
<1>17. /\ \A n \in 1..4 : f[n] \in U
       /\ \A m, n \in 1..4 : f[m] = f[n] => m = n
  BY <1>4, <1>5, <1>6, <1>7, <1>13, <1>14, <1>15, <1>16
<1> QED
  BY <1>17 DEF f, U

LEMMA BlockIs ==
  ASSUME NEW blocks \in Seq(Blocks), NEW n \in 1..Len(blocks)
  PROVE  blocks[n] \in Blocks /\ blocks[n].id \in Nat /\ blocks[n].kind \in Kinds
<1>1. blocks[n] \in Blocks
  BY ElementOfSeq
<1> QED
  BY <1>1 DEF Blocks

(* What is deleted: no note above the section, and every marker. *)
LEMMA DeleteQueueIs ==
  ASSUME NEW blocks \in Seq(Blocks), Distinct(blocks)
  PROVE  /\ DeleteQueue(blocks) \in Seq(Nat)
         /\ \A m \in 1..Len(blocks) :
              blocks[m].kind = "divider" =>
                \E k \in 1..Len(DeleteQueue(blocks)) : DeleteQueue(blocks)[k] = blocks[m].id
         /\ \A id \in Nat, k \in 1..Len(DeleteQueue(blocks)) :
              Above(blocks, id) => DeleteQueue(blocks)[k] # id
<1> DEFINE M == Markers(blocks)
<1>1. M = {n \in 1..Len(blocks) : blocks[n].kind = "divider"}
  BY DEF Markers
<1>2. CASE M = {}
  <2>1. DeleteQueue(blocks) = <<>>
    BY <1>2 DEF DeleteQueue
  <2> QED
    BY <1>1, <1>2, <2>1
<1>3. CASE M # {}
  <2> DEFINE m == CHOOSE n \in M : \A k \in M : n <= k
  <2>1. m \in M /\ \A k \in M : m <= k
    <3>1. M \subseteq Nat
      BY <1>1
    <3>2. \E n \in M : \A k \in M : n <= k
      BY <1>3, <3>1, MinIs
    <3> QED
      BY <3>2
  <2> DEFINE a == Thumbnail(blocks, m)
             b == [n \in 1..(Len(blocks) - m + 1) |-> blocks[m + n - 1].id]
  <2>2. DeleteQueue(blocks) = a \o b
    BY <1>3 DEF DeleteQueue
  <2> HIDE DEF m
  <2>3. m \in 1..Len(blocks) /\ blocks[m].kind = "divider" /\ Len(blocks) \in Nat
    BY <1>1, <2>1
  <2>4. /\ a \in Seq(Nat)
        /\ \A k \in 1..Len(a) : m > 1 /\ blocks[m - 1].kind = "image" /\ a[k] = blocks[m - 1].id
    <3>1. CASE m > 1 /\ blocks[m - 1].kind = "image"
      <4>1. a = <<blocks[m - 1].id>> /\ blocks[m - 1].id \in Nat
        BY <2>3, <3>1, BlockIs DEF Thumbnail
      <4> QED
        BY <3>1, <4>1
    <3>2. CASE ~ (m > 1 /\ blocks[m - 1].kind = "image")
      BY <3>2 DEF Thumbnail
    <3> QED
      BY <3>1, <3>2
  <2>5. b \in Seq(Nat) /\ Len(b) = Len(blocks) - m + 1
    <3>1. \A n \in 1..(Len(blocks) - m + 1) : m + n - 1 \in 1..Len(blocks)
      BY <2>3
    <3>2. \A n \in 1..(Len(blocks) - m + 1) : blocks[m + n - 1].id \in Nat
      BY <3>1, BlockIs
    <3>3. Len(blocks) - m + 1 \in Nat
      BY <2>3
    <3> QED
      BY <3>2, <3>3, IsASeq
  <2>6. \A n \in 1..(Len(blocks) - m + 1) : b[n] = blocks[m + n - 1].id
    OBVIOUS
  <2> HIDE DEF a, b
  <2>7. /\ a \o b \in Seq(Nat) /\ Len(a \o b) = Len(a) + Len(b)
        /\ \A k \in 1..(Len(a) + Len(b)) : (a \o b)[k] = IF k <= Len(a) THEN a[k] ELSE b[k - Len(a)]
    BY <2>4, <2>5, ConcatProperties
  <2>8. Len(a) \in Nat /\ Len(b) \in Nat
    BY <2>4, <2>5
  <2>9. ASSUME NEW n \in 1..Len(blocks), blocks[n].kind = "divider"
        PROVE  \E k \in 1..Len(a \o b) : (a \o b)[k] = blocks[n].id
    <3>1. n >= m /\ n \in Nat
      BY <1>1, <2>1, <2>9
    <3> DEFINE k == Len(a) + (n - m + 1)
    <3>2. k \in 1..Len(a \o b) /\ k > Len(a) /\ k - Len(a) = n - m + 1
      <4>1. n - m + 1 \in 1..Len(b)
        BY <2>3, <2>5, <3>1
      <4>2. Len(a \o b) = Len(a) + Len(b)
        BY <2>7
      <4> QED
        BY <2>8, <4>1, <4>2
    <3>3. n - m + 1 \in 1..(Len(blocks) - m + 1) /\ m + (n - m + 1) - 1 = n
      BY <2>3, <2>9, <3>1
    <3>4. (a \o b)[k] = b[n - m + 1]
      BY <2>7, <2>8, <3>2
    <3> QED
      BY <2>6, <3>2, <3>3, <3>4
  <2>10. ASSUME NEW id \in Nat, NEW k \in 1..Len(a \o b), Above(blocks, id), (a \o b)[k] = id
         PROVE  FALSE
    <3>1. PICK n \in 1..Len(blocks) : blocks[n].id = id /\ \A i \in 1..n : blocks[i].kind = "note"
      BY <2>10 DEF Above
    <3>2. n < m
      BY <2>3, <3>1
    <3>3. CASE k <= Len(a)
      <4>1. k \in 1..Len(a) /\ a[k] = id
        BY <2>7, <2>8, <2>10, <3>3
      <4>2. m > 1 /\ blocks[m - 1].kind = "image" /\ blocks[m - 1].id = id
        BY <2>4, <4>1
      <4>3. m - 1 = n
        BY <2>3, <3>1, <4>2 DEF Distinct
      <4> QED
        BY <3>1, <4>2, <4>3
    <3>4. CASE k > Len(a)
      <4> DEFINE i == k - Len(a)
      <4>1. i \in 1..(Len(blocks) - m + 1) /\ b[i] = id
        BY <2>5, <2>7, <2>8, <2>10, <3>4
      <4>2. m + i - 1 \in 1..Len(blocks) /\ m + i - 1 >= m
        BY <2>3, <4>1
      <4>3. blocks[m + i - 1].id = id
        BY <2>6, <4>1
      <4>4. m + i - 1 = n
        BY <3>1, <4>2, <4>3 DEF Distinct
      <4> QED
        BY <2>3, <3>2, <4>2, <4>4
    <3> QED
      BY <2>8, <3>3, <3>4
  <2> QED
    BY <2>2, <2>7, <2>9, <2>10
<1> QED
  BY <1>2, <1>3

(* A section: its thumbnail, the marker, one text, then the archive if there is one. *)
LEMMA KindsAre ==
  ASSUME NEW p \in Seq(Kinds), NEW e \in Seq(Kinds), NEW d \in 1..2, Len(p) = d - 1, Len(e) \in 0..1,
         \A n \in 1..Len(p) : p[n] = "image", \A n \in 1..Len(e) : e[n] = "toggle"
  PROVE  LET kinds == ((p \o <<"divider">>) \o Rendered) \o e
         IN  /\ kinds \in Seq(Kinds) /\ Len(kinds) = d + 1 + Len(e)
             /\ kinds[d] = "divider" /\ kinds[d + 1] = "text"
             /\ \A n \in 1..Len(kinds) : kinds[n] = "divider" => n = d
             /\ d = 2 => kinds[1] = "image"
<1> DEFINE one == <<"divider">>
           q == p \o one
           t == q \o Rendered
           kinds == t \o e
<1>1. "divider" \in Kinds /\ "text" \in Kinds
  BY DEF Kinds
<1>2. /\ one \in Seq(Kinds) /\ Len(one) = 1 /\ one[1] = "divider"
      /\ Rendered \in Seq(Kinds) /\ Len(Rendered) = 1 /\ Rendered[1] = "text"
  BY <1>1 DEF Rendered
<1> HIDE DEF one
<1>3. /\ q \in Seq(Kinds) /\ Len(q) = Len(p) + Len(one)
      /\ \A n \in 1..(Len(p) + Len(one)) : q[n] = IF n <= Len(p) THEN p[n] ELSE one[n - Len(p)]
  BY <1>2, ConcatProperties
<1> HIDE DEF q
<1>4. /\ Len(q) = d /\ q[d] = "divider" /\ \A n \in 1..(d - 1) : q[n] = "image"
  BY <1>2, <1>3
<1>5. /\ t \in Seq(Kinds) /\ Len(t) = Len(q) + Len(Rendered)
      /\ \A n \in 1..(Len(q) + Len(Rendered)) : t[n] = IF n <= Len(q) THEN q[n] ELSE Rendered[n - Len(q)]
  <2>1. q \in Seq(Kinds) /\ Rendered \in Seq(Kinds)
    BY <1>2, <1>3
  <2> QED
    BY <2>1, ConcatProperties
<1> HIDE DEF t
<1>6. /\ Len(t) = d + 1 /\ t[d] = "divider" /\ t[d + 1] = "text" /\ \A n \in 1..(d - 1) : t[n] = "image"
  BY <1>2, <1>4, <1>5
<1>7. /\ kinds \in Seq(Kinds) /\ Len(kinds) = Len(t) + Len(e)
      /\ \A n \in 1..(Len(t) + Len(e)) : kinds[n] = IF n <= Len(t) THEN t[n] ELSE e[n - Len(t)]
  <2>1. t \in Seq(Kinds)
    BY <1>5
  <2> QED
    BY <2>1, ConcatProperties
<1> HIDE DEF kinds
<1>8. kinds[d] = "divider" /\ kinds[d + 1] = "text" /\ \A n \in 1..(d - 1) : kinds[n] = "image"
  BY <1>6, <1>7
<1>9. ASSUME NEW n \in 1..Len(kinds), kinds[n] = "divider"
      PROVE  n = d
  <2>1. n \in Nat /\ n >= 1 /\ n <= d + 1 + Len(e) /\ Len(e) \in Nat
    BY <1>6, <1>7, <1>9
  <2>2. CASE n < d
    <3>1. n \in 1..(d - 1)
      BY <2>1, <2>2
    <3> QED
      BY <1>8, <1>9, <3>1
  <2>3. CASE n > d
    <3>1. CASE n = d + 1
      BY <1>8, <1>9, <3>1
    <3>2. CASE n > d + 1
      <4>1. n - (d + 1) \in 1..Len(e)
        BY <2>1, <3>2
      <4>2. kinds[n] = e[n - (d + 1)]
        BY <1>6, <1>7, <2>1, <3>2
      <4> QED
        BY <1>9, <4>1, <4>2
    <3> QED
      BY <2>1, <2>3, <3>1, <3>2
  <2> QED
    BY <2>1, <2>2, <2>3
<1>10. d = 2 => kinds[1] = "image"
  BY <1>8
<1> QED
  BY <1>6, <1>7, <1>8, <1>9, <1>10 DEF kinds, t, q, one

Layout(kinds, version, d) ==
  /\ kinds \in Seq(Kinds) /\ Len(kinds) \in 1..4 /\ d \in 1..2 /\ d + 1 \in 1..Len(kinds)
  /\ kinds[d] = "divider" /\ kinds[d + 1] = "text"
  /\ \A n \in 1..Len(kinds) : kinds[n] = "divider" => n = d
  /\ d = 2 => kinds[1] = "image"
  /\ version \in Pictured => d = 2

LEMMA WithinFour ==
  ASSUME NEW len \in 1..4, NEW n \in 1..len
  PROVE  n \in 1..4
  OBVIOUS

LEMMA SectionOf ==
  ASSUME NEW kinds, NEW s, NEW ids, NEW version \in Nat, NEW d, Layout(kinds, version, d),
         \A n \in 1..4 : ids[n] \in Nat,
         s = [n \in 1..Len(kinds) |-> Block(ids[n], kinds[n], IF kinds[n] = "text" THEN version ELSE 0)]
  PROVE  /\ s \in Seq(Blocks) /\ Len(s) = Len(kinds)
         /\ \A n \in 1..Len(s) : s[n].id = ids[n]
         /\ ShownAt(s, version, d)
<1> DEFINE of(n) == IF kinds[n] = "text" THEN version ELSE 0
<1>1. \A n \in 1..Len(kinds) : n \in 1..4
  <2>1. Len(kinds) \in 1..4
    BY DEF Layout
  <2> QED
    BY <2>1, WithinFour
<1>2. \A n \in 1..Len(kinds) : kinds[n] \in Kinds
  BY ElementOfSeq DEF Layout
<1>3. \A n \in 1..Len(kinds) : of(n) \in Nat
  OBVIOUS
<1>4. \A n \in 1..Len(kinds) : kinds[n] = "text" => of(n) = version
  OBVIOUS
<1>5. s = [n \in 1..Len(kinds) |-> [id |-> ids[n], kind |-> kinds[n], of |-> of(n)]]
  BY DEF Block
<1> HIDE DEF of
<1>6. \A n \in 1..Len(kinds) : s[n] = [id |-> ids[n], kind |-> kinds[n], of |-> of(n)]
  BY <1>5
<1>7. \A n \in 1..Len(kinds) : [id |-> ids[n], kind |-> kinds[n], of |-> of(n)] \in Blocks
  BY <1>1, <1>2, <1>3 DEF Blocks
<1>8. \A n \in 1..Len(kinds) : s[n].id = ids[n] /\ s[n].kind = kinds[n] /\ s[n].of = of(n)
  BY <1>6
<1>9. s \in Seq(Blocks) /\ Len(s) = Len(kinds)
  <2>1. Len(kinds) \in Nat
    BY DEF Layout
  <2> QED
    BY <1>5, <1>7, <2>1, IsASeq
<1>10. ShownAt(s, version, d)
  <2>1. d \in 1..Len(kinds) /\ d + 1 \in 1..Len(kinds) /\ d + 1 > d
    BY DEF Layout
  <2>2. s[d].kind = "divider" /\ s[d + 1].kind = "text"
    BY <1>8, <2>1 DEF Layout
  <2>3. \A k \in 1..Len(s) : s[k].kind = "divider" => k = d
    BY <1>8, <1>9 DEF Layout
  <2>4. \A n \in 1..Len(s) : n > d /\ s[n].kind = "text" => s[n].of = version
    BY <1>4, <1>8, <1>9
  <2>5. version \in Pictured => d > 1 /\ s[d - 1].kind = "image"
    <3>1. d = 2 => s[1].kind = "image"
      BY <1>8, <2>1 DEF Layout
    <3> QED
      BY <3>1 DEF Layout
  <2> QED
    BY <1>9, <2>1, <2>2, <2>3, <2>4, <2>5 DEF ShownAt
<1> QED
  BY <1>8, <1>9, <1>10

(* s is a section of version whose blocks have the given ids. *)
IsSection(s, version, ids) ==
  /\ s \in Seq(Blocks) /\ Len(s) \in 1..4
  /\ \A n \in 1..Len(s) : s[n].id = ids[n]
  /\ \E d \in 1..Len(s) : ShownAt(s, version, d)

LEMMA SectionIs ==
  ASSUME NEW version \in Nat, NEW archive \in BOOLEAN, NEW ids, \A n \in 1..4 : ids[n] \in Nat
  PROVE  IsSection(Section(version, archive, ids), version, ids)
<1> DEFINE p == Picture(version)
           e == IF archive THEN <<"toggle">> ELSE <<>>
           d == IF version \in Pictured THEN 2 ELSE 1
           kinds == p \o <<"divider">> \o Rendered \o e
           s == Section(version, archive, ids)
<1>1. "image" \in Kinds /\ "toggle" \in Kinds
  BY DEF Kinds
<1>2. p \in Seq(Kinds) /\ Len(p) = d - 1 /\ \A n \in 1..Len(p) : p[n] = "image"
  <2>1. CASE version \in Pictured
    <3>1. p = <<"image">>
      BY <2>1 DEF Picture
    <3> QED
      BY <1>1, <2>1, <3>1
  <2>2. CASE version \notin Pictured
    <3>1. p = <<>>
      BY <2>2 DEF Picture
    <3> QED
      BY <2>2, <3>1
  <2> QED
    BY <2>1, <2>2
<1>3. e \in Seq(Kinds) /\ Len(e) \in 0..1 /\ \A n \in 1..Len(e) : e[n] = "toggle"
  BY <1>1
<1>4. d \in 1..2 /\ (version \in Pictured => d = 2)
  OBVIOUS
<1>5. s = [n \in 1..Len(kinds) |-> Block(ids[n], kinds[n], IF kinds[n] = "text" THEN version ELSE 0)]
  BY DEF Section
<1> HIDE DEF p, e, d, s
<1>6. /\ kinds \in Seq(Kinds) /\ Len(kinds) = d + 1 + Len(e)
      /\ kinds[d] = "divider" /\ kinds[d + 1] = "text"
      /\ \A n \in 1..Len(kinds) : kinds[n] = "divider" => n = d
      /\ d = 2 => kinds[1] = "image"
  BY <1>2, <1>3, <1>4, KindsAre
<1> HIDE DEF kinds
<1>7. Len(kinds) \in 1..4 /\ d + 1 \in 1..Len(kinds) /\ Layout(kinds, version, d)
  BY <1>3, <1>4, <1>6 DEF Layout
<1>8. /\ s \in Seq(Blocks) /\ Len(s) = Len(kinds)
      /\ \A n \in 1..Len(s) : s[n].id = ids[n]
      /\ ShownAt(s, version, d)
  BY <1>5, <1>7, SectionOf
<1>9. d \in 1..Len(s)
  BY <1>4, <1>7, <1>8
<1> QED
  BY <1>7, <1>8, <1>9 DEF s, IsSection

LEMMA ConcatIs ==
  ASSUME NEW S, NEW a \in Seq(S), NEW b \in Seq(S)
  PROVE  /\ a \o b \in Seq(S) /\ Len(a \o b) = Len(a) + Len(b)
         /\ \A n \in 1..Len(a) : n \in 1..Len(a \o b) /\ (a \o b)[n] = a[n]
         /\ \A n \in 1..Len(b) : Len(a) + n \in 1..Len(a \o b) /\ (a \o b)[Len(a) + n] = b[n]
         /\ \A k \in 1..Len(a \o b) : k \in 1..Len(a) \/ \E n \in 1..Len(b) : k = Len(a) + n
<1>1. /\ a \o b \in Seq(S) /\ Len(a \o b) = Len(a) + Len(b)
      /\ \A k \in 1..(Len(a) + Len(b)) : (a \o b)[k] = IF k <= Len(a) THEN a[k] ELSE b[k - Len(a)]
  BY ConcatProperties
<1>2. Len(a) \in Nat /\ Len(b) \in Nat
  OBVIOUS
<1>3. \A n \in 1..Len(a) : n \in 1..Len(a \o b) /\ (a \o b)[n] = a[n]
  BY <1>1, <1>2
<1>4. ASSUME NEW n \in 1..Len(b)
      PROVE  Len(a) + n \in 1..Len(a \o b) /\ (a \o b)[Len(a) + n] = b[n]
  <2>1. Len(a) + n \in 1..(Len(a) + Len(b)) /\ ~ (Len(a) + n <= Len(a)) /\ Len(a) + n - Len(a) = n
    BY <1>2
  <2> QED
    BY <1>1, <2>1
<1>5. ASSUME NEW k \in 1..Len(a \o b), k \notin 1..Len(a)
      PROVE  \E n \in 1..Len(b) : k = Len(a) + n
  <2>1. k - Len(a) \in 1..Len(b) /\ k = Len(a) + (k - Len(a))
    BY <1>1, <1>2, <1>5
  <2> QED
    BY <2>1
<1> QED
  BY <1>1, <1>3, <1>4, <1>5

LEMMA ConcatDistinct ==
  ASSUME NEW a \in Seq(Blocks), NEW b \in Seq(Blocks), Distinct(a), Distinct(b),
         \A m \in 1..Len(a), n \in 1..Len(b) : a[m].id # b[n].id
  PROVE  Distinct(a \o b)
<1> SUFFICES ASSUME NEW k \in 1..Len(a \o b), NEW l \in 1..Len(a \o b),
                    (a \o b)[k].id = (a \o b)[l].id
             PROVE  k = l
  BY DEF Distinct
<1>1. /\ \A n \in 1..Len(a) : (a \o b)[n] = a[n]
      /\ \A n \in 1..Len(b) : (a \o b)[Len(a) + n] = b[n]
      /\ k \in 1..Len(a) \/ \E n \in 1..Len(b) : k = Len(a) + n
      /\ l \in 1..Len(a) \/ \E n \in 1..Len(b) : l = Len(a) + n
  <2>1. /\ \A n \in 1..Len(a) : n \in 1..Len(a \o b) /\ (a \o b)[n] = a[n]
        /\ \A n \in 1..Len(b) : Len(a) + n \in 1..Len(a \o b) /\ (a \o b)[Len(a) + n] = b[n]
        /\ \A i \in 1..Len(a \o b) : i \in 1..Len(a) \/ \E n \in 1..Len(b) : i = Len(a) + n
    BY ConcatIs
  <2> QED
    BY <2>1
<1>2. CASE k \in 1..Len(a) /\ l \in 1..Len(a)
  BY <1>1, <1>2 DEF Distinct
<1>3. CASE k \in 1..Len(a) /\ l \notin 1..Len(a)
  BY <1>1, <1>3
<1>4. CASE k \notin 1..Len(a) /\ l \in 1..Len(a)
  BY <1>1, <1>4
<1>5. CASE k \notin 1..Len(a) /\ l \notin 1..Len(a)
  BY <1>1, <1>5 DEF Distinct
<1> QED
  BY <1>2, <1>3, <1>4, <1>5

(* Blocks that are added at the end leave what is above them. *)
LEMMA AboveConcat ==
  ASSUME NEW a \in Seq(Blocks), NEW b \in Seq(Blocks), NEW id, Above(a, id)
  PROVE  Above(a \o b, id)
<1>1. PICK n \in 1..Len(a) : a[n].id = id /\ \A k \in 1..n : a[k].kind = "note"
  BY DEF Above
<1>2. \A k \in 1..n : k \in 1..Len(a)
  OBVIOUS
<1>3. \A k \in 1..Len(a) : k \in 1..Len(a \o b) /\ (a \o b)[k] = a[k]
  BY ConcatIs
<1> QED
  BY <1>1, <1>2, <1>3 DEF Above

(* A section shows its version below any body without markers. *)
LEMMA SectionShown ==
  ASSUME NEW a \in Seq(Blocks), NEW s \in Seq(Blocks), NEW version, NEW d \in 1..Len(s),
         ShownAt(s, version, d), \A n \in 1..Len(a) : a[n].kind # "divider"
  PROVE  Shown(a \o s, version)
<1> DEFINE m == Len(a) + d
           b == a \o s
<1>1. /\ Len(b) = Len(a) + Len(s) /\ m \in 1..Len(b)
      /\ \A n \in 1..Len(a) : b[n] = a[n]
      /\ \A n \in 1..Len(s) : Len(a) + n \in 1..Len(b) /\ b[Len(a) + n] = s[n]
      /\ \A k \in 1..Len(b) : k \in 1..Len(a) \/ \E n \in 1..Len(s) : k = Len(a) + n
  BY ConcatIs
<1>2. Len(a) \in Nat /\ Len(s) \in Nat
  OBVIOUS
<1> HIDE DEF b
<1>3. b[m].kind = "divider"
  BY <1>1 DEF ShownAt
<1>4. ASSUME NEW k \in 1..Len(b), b[k].kind = "divider" PROVE k = m
  <2>1. k \notin 1..Len(a)
    BY <1>1, <1>4
  <2>2. PICK n \in 1..Len(s) : k = Len(a) + n
    BY <1>1, <2>1
  <2>3. n = d
    BY <1>1, <1>4, <2>2 DEF ShownAt
  <2> QED
    BY <2>2, <2>3
<1>5. ASSUME NEW k \in 1..Len(b), k > m, b[k].kind = "text" PROVE b[k].of = version
  <2>1. k \notin 1..Len(a)
    BY <1>2, <1>5
  <2>2. PICK n \in 1..Len(s) : k = Len(a) + n
    BY <1>1, <2>1
  <2>3. n > d /\ s[n].kind = "text" /\ b[k] = s[n]
    BY <1>1, <1>2, <1>5, <2>2
  <2> QED
    BY <2>3 DEF ShownAt
<1>6. \E k \in 1..Len(b) : k > m /\ b[k].kind = "text"
  <2>1. PICK n \in 1..Len(s) : n > d /\ s[n].kind = "text"
    BY DEF ShownAt
  <2>2. Len(a) + n > m
    BY <1>2, <2>1
  <2> QED
    BY <1>1, <2>1, <2>2
<1>7. version \in Pictured => m > 1 /\ b[m - 1].kind = "image"
  <2> SUFFICES ASSUME version \in Pictured PROVE m > 1 /\ b[m - 1].kind = "image"
    OBVIOUS
  <2>1. d > 1 /\ s[d - 1].kind = "image"
    BY DEF ShownAt
  <2>2. d - 1 \in 1..Len(s) /\ Len(a) + (d - 1) = m - 1 /\ m > 1
    BY <1>2, <2>1
  <2>3. b[Len(a) + (d - 1)] = s[d - 1]
    BY <1>1, <2>2
  <2> QED
    BY <2>1, <2>2, <2>3
<1>8. ShownAt(b, version, m)
  BY <1>3, <1>4, <1>5, <1>6, <1>7 DEF ShownAt
<1> QED
  BY <1>1, <1>8 DEF Shown, b

(* A note above everything else, or below it, changes nothing of that. *)
LEMMA NoteAbove ==
  ASSUME NEW a \in Seq(Blocks), NEW note \in Blocks, note.kind = "note"
  PROVE  /\ Above(<<note>> \o a, note.id)
         /\ \A id : Above(a, id) => Above(<<note>> \o a, id)
         /\ \A version : Shown(a, version) => Shown(<<note>> \o a, version)
<1> DEFINE one == <<note>>
           b == one \o a
<1>1. one \in Seq(Blocks) /\ Len(one) = 1 /\ one[1] = note
  OBVIOUS
<1> HIDE DEF one
<1>2. Len(a) \in Nat
  OBVIOUS
<1>3. /\ b \in Seq(Blocks) /\ Len(b) = 1 + Len(a)
      /\ 1 \in 1..Len(b) /\ b[1] = note
      /\ \A n \in 1..Len(a) : 1 + n \in 1..Len(b) /\ b[1 + n] = a[n]
      /\ \A k \in 1..Len(b) : k = 1 \/ \E n \in 1..Len(a) : k = 1 + n
  <2>1. /\ b \in Seq(Blocks) /\ Len(b) = Len(one) + Len(a)
        /\ \A n \in 1..Len(one) : n \in 1..Len(b) /\ b[n] = one[n]
        /\ \A n \in 1..Len(a) : Len(one) + n \in 1..Len(b) /\ b[Len(one) + n] = a[n]
        /\ \A k \in 1..Len(b) : k \in 1..Len(one) \/ \E n \in 1..Len(a) : k = Len(one) + n
    <3>1. one \in Seq(Blocks)
      BY <1>1
    <3> QED
      BY <3>1, ConcatIs
  <2> HIDE DEF b
  <2>2. 1 \in 1..Len(one) /\ \A k \in 1..Len(one) : k = 1
    BY <1>1
  <2> QED
    BY <1>1, <2>1, <2>2
<1> HIDE DEF b
<1>4. Above(b, note.id)
  <2>1. \A k \in 1..1 : k = 1
    OBVIOUS
  <2> QED
    BY <1>3, <2>1 DEF Above
<1>5. ASSUME NEW id, Above(a, id) PROVE Above(b, id)
  <2>1. PICK n \in 1..Len(a) : a[n].id = id /\ \A k \in 1..n : a[k].kind = "note"
    BY <1>5 DEF Above
  <2>2. 1 + n \in 1..Len(b) /\ b[1 + n].id = id
    BY <1>3, <2>1
  <2>3. ASSUME NEW k \in 1..(1 + n) PROVE b[k].kind = "note"
    <3>1. CASE k = 1
      BY <1>3, <3>1
    <3>2. CASE k # 1
      <4>1. k - 1 \in 1..n /\ k - 1 \in 1..Len(a) /\ 1 + (k - 1) = k
        BY <1>2, <3>2
      <4> QED
        BY <1>3, <2>1, <4>1
    <3> QED
      BY <3>1, <3>2
  <2> QED
    BY <2>2, <2>3 DEF Above
<1>6. ASSUME NEW version, Shown(a, version) PROVE Shown(b, version)
  <2>1. PICK m \in 1..Len(a) : ShownAt(a, version, m)
    BY <1>6 DEF Shown
  <2>2. b[1 + m].kind = "divider" /\ 1 + m \in 1..Len(b)
    BY <1>3, <2>1 DEF ShownAt
  <2>3. ASSUME NEW k \in 1..Len(b), b[k].kind = "divider" PROVE k = 1 + m
    <3>1. k # 1
      BY <1>3, <2>3
    <3>2. PICK n \in 1..Len(a) : k = 1 + n
      BY <1>3, <3>1
    <3> QED
      BY <1>3, <2>1, <2>3, <3>2 DEF ShownAt
  <2>4. ASSUME NEW k \in 1..Len(b), k > 1 + m, b[k].kind = "text" PROVE b[k].of = version
    <3>1. k # 1
      BY <2>4
    <3>2. PICK n \in 1..Len(a) : k = 1 + n
      BY <1>3, <3>1
    <3>3. n > m /\ a[n].kind = "text" /\ b[k] = a[n]
      BY <1>3, <2>4, <3>2
    <3> QED
      BY <2>1, <3>3 DEF ShownAt
  <2>5. \E k \in 1..Len(b) : k > 1 + m /\ b[k].kind = "text"
    <3>1. PICK n \in 1..Len(a) : n > m /\ a[n].kind = "text"
      BY <2>1 DEF ShownAt
    <3>2. 1 + n > 1 + m
      BY <3>1
    <3> QED
      BY <1>3, <3>1, <3>2
  <2>6. version \in Pictured => 1 + m > 1 /\ b[1 + m - 1].kind = "image"
    <3> SUFFICES ASSUME version \in Pictured PROVE 1 + m > 1 /\ b[1 + m - 1].kind = "image"
      OBVIOUS
    <3>1. m > 1 /\ a[m - 1].kind = "image"
      BY <2>1 DEF ShownAt
    <3>2. m - 1 \in 1..Len(a) /\ 1 + (m - 1) = 1 + m - 1 /\ 1 + m > 1
      BY <1>2, <3>1
    <3>3. b[1 + (m - 1)] = a[m - 1]
      BY <1>3, <3>2
    <3> QED
      BY <3>1, <3>2, <3>3
  <2>7. ShownAt(b, version, 1 + m)
    BY <2>2, <2>3, <2>4, <2>5, <2>6 DEF ShownAt
  <2> QED
    BY <2>2, <2>7 DEF Shown
<1> QED
  BY <1>4, <1>5, <1>6 DEF b, one

LEMMA NoteBelow ==
  ASSUME NEW a \in Seq(Blocks), NEW note \in Blocks, note.kind = "note"
  PROVE  /\ \A id : Above(a, id) => Above(Append(a, note), id)
         /\ \A version : Shown(a, version) => Shown(Append(a, note), version)
<1> DEFINE b == Append(a, note)
<1>1. /\ Len(b) = Len(a) + 1 /\ b[Len(a) + 1] = note /\ Len(a) \in Nat
      /\ \A n \in 1..Len(a) : n \in 1..Len(b) /\ b[n] = a[n]
      /\ \A k \in 1..Len(b) : k \in 1..Len(a) \/ k = Len(a) + 1
  BY AppendProperties
<1> HIDE DEF b
<1>2. ASSUME NEW id, Above(a, id) PROVE Above(b, id)
  <2>1. PICK n \in 1..Len(a) : a[n].id = id /\ \A k \in 1..n : a[k].kind = "note"
    BY <1>2 DEF Above
  <2>2. \A k \in 1..n : k \in 1..Len(a)
    BY <1>1
  <2> QED
    BY <1>1, <2>1, <2>2 DEF Above
<1>3. ASSUME NEW version, Shown(a, version) PROVE Shown(b, version)
  <2>1. PICK m \in 1..Len(a) : ShownAt(a, version, m)
    BY <1>3 DEF Shown
  <2>2. b[m].kind = "divider" /\ m \in 1..Len(b)
    BY <1>1, <2>1 DEF ShownAt
  <2>3. ASSUME NEW k \in 1..Len(b), b[k].kind \in {"divider", "text"} PROVE k \in 1..Len(a) /\ b[k] = a[k]
    BY <1>1, <2>3
  <2>4. \A k \in 1..Len(b) : b[k].kind = "divider" => k = m
    BY <2>1, <2>3 DEF ShownAt
  <2>5. \A k \in 1..Len(b) : k > m /\ b[k].kind = "text" => b[k].of = version
    BY <2>1, <2>3 DEF ShownAt
  <2>6. \E k \in 1..Len(b) : k > m /\ b[k].kind = "text"
    BY <1>1, <2>1 DEF ShownAt
  <2>7. version \in Pictured => m > 1 /\ b[m - 1].kind = "image"
    <3> SUFFICES ASSUME version \in Pictured PROVE m > 1 /\ b[m - 1].kind = "image"
      OBVIOUS
    <3>1. m > 1 /\ a[m - 1].kind = "image"
      BY <2>1 DEF ShownAt
    <3>2. m - 1 \in 1..Len(a)
      BY <1>1, <3>1
    <3> QED
      BY <1>1, <3>1, <3>2
  <2>8. ShownAt(b, version, m)
    BY <2>2, <2>4, <2>5, <2>6, <2>7 DEF ShownAt
  <2> QED
    BY <2>2, <2>8 DEF Shown
<1> QED
  BY <1>2, <1>3 DEF b

(* Deleting another block leaves a note above everything but notes. *)
LEMMA RemoveBody ==
  ASSUME NEW a \in Seq(Blocks), NEW i \in 1..Len(a), Distinct(a)
  PROVE  /\ Distinct(RemoveAt(a, i))
         /\ \A k \in 1..Len(RemoveAt(a, i)) : \E n \in 1..Len(a) : n # i /\ RemoveAt(a, i)[k] = a[n]
         /\ \A id : Above(a, id) /\ id # a[i].id => Above(RemoveAt(a, i), id)
<1> DEFINE b == RemoveAt(a, i)
           at(k) == IF k < i THEN k ELSE k + 1
<1>1. /\ Len(b) = Len(a) - 1
      /\ \A k \in 1..(Len(a) - 1) : b[k] = IF k < i THEN a[k] ELSE a[k + 1]
  BY RemoveAtIs
<1> HIDE DEF b
<1>2. Len(a) \in Nat /\ i \in Nat
  OBVIOUS
<1>3. \A k \in 1..Len(b) : at(k) \in 1..Len(a) /\ at(k) # i /\ k \in Nat
  BY <1>1, <1>2
<1>4. \A k \in 1..Len(b) : b[k] = a[at(k)]
  BY <1>1
<1>5. \A k, l \in Nat : at(k) = at(l) => k = l
  BY <1>2
<1>6. Distinct(b)
  <2> HIDE DEF at
  <2> QED
    BY <1>3, <1>4, <1>5 DEF Distinct
<1>7. \A k \in 1..Len(b) : \E n \in 1..Len(a) : n # i /\ b[k] = a[n]
  BY <1>3, <1>4
<1>8. ASSUME NEW id, Above(a, id), id # a[i].id PROVE Above(b, id)
  <2>1. PICK n \in 1..Len(a) : a[n].id = id /\ \A k \in 1..n : a[k].kind = "note"
    BY <1>8 DEF Above
  <2>2. n # i
    BY <1>8, <2>1
  <2> DEFINE j == IF n < i THEN n ELSE n - 1
  <2>3. j \in 1..Len(b) /\ at(j) = n /\ \A k \in 1..j : k \in 1..Len(b) /\ at(k) \in 1..n
    BY <1>1, <1>2, <2>2
  <2> HIDE DEF j, at
  <2>4. b[j].id = id
    BY <1>4, <2>1, <2>3
  <2>5. \A k \in 1..j : b[k].kind = "note"
    BY <1>4, <2>1, <2>3
  <2> QED
    BY <2>3, <2>4, <2>5 DEF Above
<1> QED
  BY <1>6, <1>7, <1>8 DEF b

-----------------------------------------------------------------------------
(* What a step has to say of the job it changes when it leaves the pages alone. *)
LEMMA JobStep ==
  ASSUME IInv, NEW w \in Writer, NEW j \in Jobs, job' = [job EXCEPT ![w] = j],
         UNCHANGED <<pages, notes, written, crowded>>, snapshot' \in [Entity -> Nat],
         j.at \in Busies => job[w].at \in Busies /\ j.entity = job[w].entity /\ j.alone = job[w].alone,
         j.at = "create" => PagesOf(j.entity) = {},
         JobInv(j, pages, notes)
  PROVE  IInv'
<1>1. job \in [Writer -> Jobs]
  BY DEF IInv, TypeInv
<1>2. job' \in [Writer -> Jobs] /\ \A v \in Writer : job'[v] = IF v = w THEN j ELSE job[v]
  BY <1>1
<1>3. \A v \in Writer, e \in Entity :
        Works(job'[v], e) => Works(job[v], e) /\ job'[v].alone = job[v].alone
  BY <1>2 DEF Works
<1>4. TypeInv'
  BY <1>2 DEF IInv, TypeInv
<1>5. CrowdInv'
  BY <1>3 DEF IInv, CrowdInv
<1>6. PagesInv'
  BY <1>2 DEF IInv, PagesInv, PagesOf
<1>7. WrittenInv'
  <2>1. \A e \in Entity : WrittenAt(e)
    BY DEF IInv, WrittenInv
  <2> QED
    BY <1>3, <2>1 DEF WrittenInv, WrittenAt
<1>8. BodyInv'
  BY DEF IInv, BodyInv
<1>9. JobsInv'
  <2>1. \A v \in Writer : JobInv(job'[v], pages, notes)
    BY <1>2 DEF IInv, JobsInv
  <2> QED
    BY <2>1 DEF JobsInv
<1> QED
  BY <1>4, <1>5, <1>6, <1>7, <1>8, <1>9 DEF IInv

(* ... and when it changes the page it holds: of the others at that page nobody is
   alone, and no write of the person stands. *)
LEMMA OwnStep ==
  ASSUME IInv, NEW w \in Writer, NEW p \in DOMAIN pages, job[w].at \in Busies, job[w].page = p,
         NEW page \in Pages, page.entity = pages[p].entity, pages' = [pages EXCEPT ![p] = page],
         NEW j \in Jobs, job' = [job EXCEPT ![w] = j], UNCHANGED <<notes, crowded, snapshot>>,
         j.at \in Busies => j.entity = job[w].entity /\ j.alone = job[w].alone, j.at # "create",
         Body(p, page.blocks, notes), JobInv(j, pages', notes),
         written' \in [Entity -> [page : Nat, version : Nat]],
         \A e \in Entity : written'[e] = written[e] \/ (e = job[w].entity /\ WrittenAt(e)')
  PROVE  IInv'
<1>1. job \in [Writer -> Jobs] /\ \A v \in Writer : JobInv(job[v], pages, notes)
  BY DEF IInv, TypeInv, JobsInv
<1>2. job' \in [Writer -> Jobs] /\ \A v \in Writer : job'[v] = IF v = w THEN j ELSE job[v]
  BY <1>1
<1>3. DOMAIN pages' = DOMAIN pages /\ \A q \in DOMAIN pages : pages'[q] = IF q = p THEN page ELSE pages[q]
  OBVIOUS
<1>4. \A v \in Writer, e \in Entity :
        Works(job'[v], e) => Works(job[v], e) /\ job'[v].alone = job[v].alone
  BY <1>2 DEF Works
<1> DEFINE e0 == job[w].entity
<1>5. e0 \in Entity /\ pages[p].entity = e0 /\ Works(job[w], e0)
  BY <1>1 DEF JobInv, Works
<1>6. ASSUME NEW v \in Writer, v # w, job[v].at \in Busies, job[v].page = p
      PROVE  ~ job[v].alone
  <2>1. Works(job[v], e0)
    BY <1>1, <1>5, <1>6 DEF JobInv, Works
  <2> QED
    BY <1>5, <1>6, <2>1 DEF IInv, CrowdInv
<1>7. TypeInv'
  BY <1>2, <1>3 DEF IInv, TypeInv
<1>8. CrowdInv'
  BY <1>4 DEF IInv, CrowdInv
<1>9. \A e : PagesOf(e)' = PagesOf(e)
  BY <1>3 DEF PagesOf
<1>10. PagesInv'
  BY <1>2, <1>9 DEF IInv, PagesInv
<1>11. WrittenInv'
  <2> SUFFICES ASSUME NEW e \in Entity PROVE WrittenAt(e)'
    BY DEF WrittenInv
  <2>1. CASE written'[e] = written[e] /\ written[e] # Nothing
    <3>1. WrittenAt(e)
      BY DEF IInv, WrittenInv
    <3>2. e # e0
      BY <1>5, <2>1, <3>1 DEF WrittenAt
    <3>3. written[e].page # p /\ written[e].page \in DOMAIN pages
      BY <1>5, <2>1, <3>1, <3>2 DEF WrittenAt
    <3>4. pages'[written[e].page] = pages[written[e].page]
      BY <1>3, <3>3
    <3> QED
      BY <1>3, <1>4, <2>1, <3>1, <3>3, <3>4 DEF WrittenAt
  <2>2. CASE written'[e] = written[e] /\ written[e] = Nothing
    BY <2>2 DEF WrittenAt, Nothing
  <2> QED
    BY <2>1, <2>2
<1>12. BodyInv'
  BY <1>3 DEF IInv, BodyInv
<1>13. JobsInv'
  <2> SUFFICES ASSUME NEW v \in Writer PROVE JobInv(job'[v], pages', notes)
    BY DEF JobsInv
  <2>1. CASE v = w
    BY <1>2, <2>1
  <2>2. CASE v # w
    <3>1. job'[v] = job[v] /\ JobInv(job[v], pages, notes)
      BY <1>1, <1>2, <2>2
    <3>2. CASE job[v].page # p
      BY <1>3, <3>1, <3>2 DEF JobInv
    <3>3. CASE job[v].page = p
      BY <1>3, <1>6, <2>2, <3>1, <3>3 DEF JobInv, Busies
    <3> QED
      BY <3>2, <3>3
  <2> QED
    BY <2>1, <2>2
<1> QED
  BY <1>7, <1>8, <1>10, <1>11, <1>12, <1>13 DEF IInv

LEMMA SameStep ==
  ASSUME IInv, UNCHANGED <<pages, job, notes, written, crowded>>, snapshot' \in [Entity -> Nat]
  PROVE  IInv'
<1>1. TypeInv'
  BY DEF IInv, TypeInv
<1>2. CrowdInv' /\ BodyInv' /\ JobsInv'
  BY DEF IInv, CrowdInv, BodyInv, JobsInv
<1>3. PagesInv'
  BY DEF IInv, PagesInv, PagesOf
<1>4. WrittenInv'
  BY DEF IInv, WrittenInv, WrittenAt
<1> QED
  BY <1>1, <1>2, <1>3, <1>4 DEF IInv

LEMMA IdleFits ==
  /\ Idle \in Jobs /\ Idle.at = "idle"
  /\ \A P, N : JobInv(Idle, P, N)
<1>1. Idle.at = "idle"
  BY DEF Idle
<1>2. Idle \in Jobs
  <2>1. [e \in Entity |-> 0] \in [Entity -> Nat]
    OBVIOUS
  <2>2. <<>> \in Seq(Nat)
    OBVIOUS
  <2> QED
    BY <2>1, <2>2 DEF Idle, Jobs, NoPage
<1> QED
  BY <1>1, <1>2 DEF JobInv, Busies

LEMMA InitInv == Init => IInv
<1> SUFFICES ASSUME Init PROVE IInv
  OBVIOUS
<1>1. DOMAIN pages = {}
  BY DEF Init
<1>2. \A w \in Writer : job[w] = Idle
  BY DEF Init
<1>3. TypeInv
  <2>1. Nothing \in [page : Nat, version : Nat]
    BY DEF Nothing, NoPage
  <2> QED
    BY <1>1, <2>1, IdleFits DEF Init, TypeInv
<1>4. \A w \in Writer, e \in Entity : ~ Works(job[w], e)
  BY <1>2, IdleFits DEF Works, Busies
<1>5. CrowdInv
  BY <1>4 DEF CrowdInv
<1>6. PagesInv
  BY <1>1, <1>2, IdleFits DEF PagesInv, PagesOf
<1>7. WrittenInv
  BY DEF Init, WrittenInv, WrittenAt
<1>8. BodyInv /\ JobsInv
  BY <1>1, <1>2, IdleFits DEF BodyInv, JobsInv
<1> QED
  BY <1>3, <1>5, <1>6, <1>7, <1>8 DEF IInv

LEMMA RebuildStep ==
  ASSUME IInv, NEW e \in Entity, Rebuild(e)
  PROVE  IInv'
<1>1. snapshot' \in [Entity -> Nat]
  BY DEF Rebuild, IInv, TypeInv
<1> QED
  BY <1>1, SameStep DEF Rebuild

LEMMA StopStep ==
  ASSUME IInv, NEW w \in Writer, Fail(w) \/ FailGone(w)
  PROVE  IInv'
<1>1. /\ job' = [job EXCEPT ![w] = Idle]
      /\ UNCHANGED <<pages, notes, written, crowded>> /\ snapshot' \in [Entity -> Nat]
  BY DEF Fail, FailGone, IInv, TypeInv
<1>2. Idle \in Jobs /\ Idle.at \notin Busies /\ Idle.at # "create" /\ JobInv(Idle, pages, notes)
  BY IdleFits DEF Busies
<1> QED
  BY <1>1, <1>2, JobStep

LEMMA StartWritebackStep ==
  ASSUME IInv, NEW w \in Writer, StartWriteback(w)
  PROVE  IInv'
<1>1. PICK review \in {FALSE} \cup {w \in Reviewer} :
        \E todo \in SUBSET Entity :
          job' = [job EXCEPT ![w] = [Idle EXCEPT !.at = "next", !.review = review,
                                                 !.todo = todo, !.version = snapshot]]
  BY DEF StartWriteback, Candidates
<1>2. PICK todo \in SUBSET Entity :
        job' = [job EXCEPT ![w] = [Idle EXCEPT !.at = "next", !.review = review,
                                               !.todo = todo, !.version = snapshot]]
  BY <1>1
<1> DEFINE j == [Idle EXCEPT !.at = "next", !.review = review, !.todo = todo, !.version = snapshot]
<1>3. j \in Jobs /\ j.at = "next"
  BY IdleFits DEF Jobs, IInv, TypeInv
<1>4. job' = [job EXCEPT ![w] = j]
  BY <1>2
<1> HIDE DEF j
<1>5. j.at \notin Busies /\ j.at # "create" /\ JobInv(j, pages, notes)
  BY <1>3 DEF Busies, JobInv
<1>6. UNCHANGED <<pages, notes, written, crowded>> /\ snapshot' \in [Entity -> Nat]
  BY DEF StartWriteback, IInv, TypeInv
<1> QED
  BY <1>3, <1>4, <1>5, <1>6, JobStep

LEMMA FindPageStep ==
  ASSUME IInv, NEW w \in Writer, FindPage(w)
  PROVE  IInv'
<1>1. PICK p \in Found(job[w].entity) :
        job' = [job EXCEPT ![w].at = IF p = NoPage THEN "create" ELSE "update", ![w].page = p]
  BY DEF FindPage
<1> DEFINE at == IF p = NoPage THEN "create" ELSE "update"
           j == [job[w] EXCEPT !.at = at, !.page = p]
<1>2. job[w] \in Jobs /\ JobInv(job[w], pages, notes) /\ job[w].at = "find"
  BY DEF FindPage, IInv, TypeInv, JobsInv
<1>3. job[w].at \in Busies /\ job[w].entity \in Entity
  BY <1>2 DEF Busies, JobInv
<1>4. \/ PagesOf(job[w].entity) = {} /\ p = NoPage
      \/ p \in PagesOf(job[w].entity) /\ p # NoPage /\ p \in DOMAIN pages
           /\ pages[p].entity = job[w].entity /\ p \in Nat
  BY DEF Found, PagesOf, NoPage, IInv, TypeInv
<1>5. at \in {"create", "update"} /\ (at = "create" <=> p = NoPage) /\ p \in Nat
  BY <1>4 DEF NoPage
<1>6. job' = [job EXCEPT ![w] = j]
  BY <1>1, <1>2 DEF IInv, TypeInv, Jobs
<1> HIDE DEF at
<1>7. j \in Jobs /\ j.at = at /\ j.page = p /\ j.entity = job[w].entity /\ j.alone = job[w].alone
  BY <1>2, <1>5 DEF Jobs, Busies
<1> HIDE DEF j
<1>8. JobInv(j, pages, notes)
  <2>1. j.entity \in Entity
    BY <1>3, <1>7
  <2>2. j.page \in DOMAIN pages => pages[j.page].entity = j.entity
    <3>1. NoPage \notin DOMAIN pages
      BY DEF IInv, TypeInv, NoPage
    <3> QED
      BY <1>4, <1>7, <3>1
  <2>3. j.at \in {"create", "update"} /\ (j.at = "create" => j.page = NoPage)
    BY <1>5, <1>7
  <2> QED
    BY <2>1, <2>2, <2>3 DEF JobInv
<1>9. j.at = "create" => PagesOf(j.entity) = {}
  BY <1>4, <1>5, <1>7
<1>10. UNCHANGED <<pages, notes, written, crowded>> /\ snapshot' \in [Entity -> Nat]
  BY DEF FindPage, IInv, TypeInv
<1> QED
  BY <1>3, <1>6, <1>7, <1>8, <1>9, <1>10, JobStep

LEMMA ReadChildrenStep ==
  ASSUME IInv, NEW w \in Writer, ReadChildren(w)
  PROVE  IInv'
<1> DEFINE p == job[w].page
           blocks == pages[p].blocks
           q == DeleteQueue(blocks)
           archive == HasOldContent(blocks)
           j == [job[w] EXCEPT !.at = "replace", !.queue = q, !.archive = archive]
<1>1. job[w] \in Jobs /\ JobInv(job[w], pages, notes) /\ job[w].at = "read" /\ p \in DOMAIN pages
  BY DEF ReadChildren, IInv, TypeInv, JobsInv
<1>2. job[w].at \in Busies /\ job[w].entity \in Entity
  BY <1>1 DEF Busies, JobInv
<1>3. pages[p] \in Pages /\ blocks \in Seq(Blocks) /\ Body(p, blocks, notes)
  BY <1>1 DEF IInv, TypeInv, BodyInv, Pages
<1>4. /\ q \in Seq(Nat)
      /\ \A m \in 1..Len(blocks) :
           blocks[m].kind = "divider" => \E k \in 1..Len(q) : q[k] = blocks[m].id
      /\ \A id \in Nat, k \in 1..Len(q) : Above(blocks, id) => q[k] # id
  BY <1>3, DeleteQueueIs DEF Body
<1>5. archive \in BOOLEAN
  BY DEF HasOldContent
<1>6. job' = [job EXCEPT ![w] = j]
  BY <1>1 DEF ReadChildren, IInv, TypeInv, Jobs
<1>7. ASSUME NEW t \in notes, NEW k \in 1..Len(q), t[1] = p PROVE q[k] # t[2]
  <2>1. Above(blocks, t[2])
    BY <1>3, <1>7 DEF Body
  <2>2. t[2] \in Nat
    <3>1. PICK n \in 1..Len(blocks) : blocks[n].id = t[2]
      BY <2>1 DEF Above
    <3> QED
      BY <1>3, <3>1, BlockIs
  <2> QED
    BY <1>4, <2>1, <2>2
<1> HIDE DEF q, archive
<1>8. /\ j \in Jobs /\ j.at = "replace" /\ j.page = p /\ j.entity = job[w].entity
      /\ j.alone = job[w].alone /\ j.version = job[w].version /\ j.queue = q
  BY <1>1, <1>4, <1>5 DEF Jobs, Busies
<1> HIDE DEF j
<1>9. JobInv(j, pages, notes)
  <2>1. pages[p].entity = job[w].entity /\ (job[w].alone => Carries(pages[p], job[w].version[job[w].entity]))
    BY <1>1, <1>2 DEF JobInv
  <2> HIDE DEF p
  <2> QED
    BY <1>2, <1>4, <1>7, <1>8, <2>1 DEF JobInv
<1>10. UNCHANGED <<pages, notes, written, crowded>> /\ snapshot' \in [Entity -> Nat]
  BY DEF ReadChildren, IInv, TypeInv
<1> QED
  BY <1>2, <1>6, <1>8, <1>9, <1>10, JobStep

(* A page with other blocks. *)
LEMMA Rewritten ==
  ASSUME TypeInv, NEW p \in DOMAIN pages, NEW b \in Seq(Blocks)
  PROVE  /\ [pages[p] EXCEPT !.blocks = b] \in Pages
         /\ [pages[p] EXCEPT !.blocks = b].entity = pages[p].entity
         /\ [pages[p] EXCEPT !.blocks = b].properties = pages[p].properties
         /\ [pages[p] EXCEPT !.blocks = b].blocks = b
         /\ [pages EXCEPT ![p].blocks = b] = [pages EXCEPT ![p] = [pages[p] EXCEPT !.blocks = b]]
<1>1. pages[p] \in Pages
  BY DEF TypeInv
<1> QED
  BY <1>1 DEF Pages

LEMMA UpdatePropertiesStep ==
  ASSUME IInv, NEW w \in Writer, UpdateProperties(w)
  PROVE  IInv'
<1> DEFINE p == job[w].page
           v == Writes(w)
           page == [pages[p] EXCEPT !.properties = Patched(@, v)]
           j == [job[w] EXCEPT !.at = "read"]
<1>1. job[w] \in Jobs /\ JobInv(job[w], pages, notes) /\ job[w].at = "update" /\ p \in DOMAIN pages
  BY DEF UpdateProperties, IInv, TypeInv, JobsInv
<1>2. job[w].at \in Busies /\ job[w].entity \in Entity /\ pages[p].entity = job[w].entity
  BY <1>1 DEF Busies, JobInv
<1>3. pages[p] \in Pages /\ Body(p, pages[p].blocks, notes)
  BY <1>1 DEF IInv, TypeInv, BodyInv
<1>4. v \in Nat /\ v = job[w].version[job[w].entity]
  BY <1>1, <1>2 DEF Writes, Jobs
<1>5. pages' = [pages EXCEPT ![p] = page]
  BY DEF UpdateProperties
<1>6. job' = [job EXCEPT ![w] = j]
  BY DEF UpdateProperties
<1> HIDE DEF v
<1>7. page \in Pages /\ page.entity = pages[p].entity /\ Carries(page, v) /\ page.blocks = pages[p].blocks
  <2>1. page.properties = Patched(pages[p].properties, v)
    BY <1>3 DEF Pages
  <2>2. Patched(pages[p].properties, v) \in [Field -> Nat]
    BY <1>3, <1>4 DEF Pages, Patched
  <2>3. Carries(page, v)
    BY <2>1 DEF Carries, Patched
  <2> QED
    BY <1>3, <2>2, <2>3 DEF Pages
<1>8. /\ j \in Jobs /\ j.at = "read" /\ j.page = p /\ j.entity = job[w].entity
      /\ j.alone = job[w].alone /\ j.version = job[w].version
  BY <1>1 DEF Jobs, Busies
<1> HIDE DEF p, page, j
<1>9. JobInv(j, pages', notes)
  <2>1. p \in DOMAIN pages' /\ pages'[p] = page
    BY <1>1, <1>5 DEF p
  <2> QED
    BY <1>2, <1>4, <1>7, <1>8, <2>1 DEF JobInv
<1>10. UNCHANGED <<notes, crowded, snapshot, written>>
  BY DEF UpdateProperties
<1>11. written' \in [Entity -> [page : Nat, version : Nat]] /\ \A e \in Entity : written'[e] = written[e]
  BY <1>10 DEF IInv, TypeInv
<1>12. /\ p \in DOMAIN pages /\ job[w].page = p /\ Body(p, page.blocks, notes) /\ j.at # "create"
       /\ j.at \in Busies => j.entity = job[w].entity /\ j.alone = job[w].alone
  BY <1>1, <1>3, <1>7, <1>8 DEF p
<1> QED
  BY <1>2, <1>5, <1>6, <1>7, <1>8, <1>9, <1>10, <1>11, <1>12, OwnStep

LEMMA DeleteBlockStep ==
  ASSUME IInv, NEW w \in Writer, DeleteBlock(w)
  PROVE  IInv'
<1> DEFINE p == job[w].page
           a == pages[p].blocks
           q == job[w].queue
           j == [job[w] EXCEPT !.queue = Tail(q)]
<1>1. /\ job[w] \in Jobs /\ JobInv(job[w], pages, notes) /\ job[w].at = "replace" /\ p \in DOMAIN pages
      /\ q \in Seq(Nat) /\ q # <<>>
  BY DEF DeleteBlock, IInv, TypeInv, JobsInv, Jobs
<1>2. job[w].at \in Busies /\ job[w].entity \in Entity /\ pages[p].entity = job[w].entity
  BY <1>1 DEF Busies, JobInv
<1>3. pages[p] \in Pages /\ a \in Seq(Blocks) /\ Body(p, a, notes)
  BY <1>1 DEF IInv, TypeInv, BodyInv, Pages
<1>4. PICK i \in 1..Len(a) : a[i].id = Head(q) /\ pages' = [pages EXCEPT ![p].blocks = RemoveAt(@, i)]
  BY DEF DeleteBlock
<1> DEFINE b == RemoveAt(a, i)
           page == [pages[p] EXCEPT !.blocks = b]
<1>5. /\ b \in Seq(Blocks) /\ Distinct(b)
      /\ \A k \in 1..Len(b) : \E n \in 1..Len(a) : n # i /\ b[k] = a[n]
      /\ \A id : Above(a, id) /\ id # a[i].id => Above(b, id)
  BY <1>3, RemoveAtIs, RemoveBody DEF Body
<1>6. pages' = [pages EXCEPT ![p].blocks = b]
  BY <1>4
<1> HIDE DEF b
<1>7. /\ page \in Pages /\ page.entity = pages[p].entity /\ page.properties = pages[p].properties
      /\ page.blocks = b /\ pages' = [pages EXCEPT ![p] = page]
  BY <1>1, <1>5, <1>6, Rewritten DEF IInv
<1>8. job' = [job EXCEPT ![w] = j]
  BY DEF DeleteBlock
<1>9. /\ Tail(q) \in Seq(Nat) /\ Head(q) = q[1] /\ Len(q) \in Nat /\ Len(q) >= 1
      /\ Len(Tail(q)) = Len(q) - 1 /\ \A k \in 1..(Len(q) - 1) : Tail(q)[k] = q[k + 1]
  BY <1>1, HeadTailProperties
<1>10. /\ j \in Jobs /\ j.at = "replace" /\ j.page = p /\ j.entity = job[w].entity
       /\ j.alone = job[w].alone /\ j.version = job[w].version /\ j.queue = Tail(q)
  BY <1>1, <1>9 DEF Jobs, Busies
<1>11. \A k \in 1..Len(Tail(q)) : k + 1 \in 1..Len(q) /\ Tail(q)[k] = q[k + 1]
  BY <1>9
<1>12. 1 \in 1..Len(q)
  BY <1>9
<1> HIDE DEF p, a, q, page, j
<1>13. Body(p, b, notes)
  <2>1. ASSUME NEW t \in notes, t[1] = p PROVE Above(b, t[2])
    <3>1. Above(a, t[2])
      BY <1>3, <2>1 DEF Body
    <3>2. q[1] # t[2]
      BY <1>1, <1>12, <2>1 DEF JobInv, p, q
    <3> QED
      BY <1>4, <1>5, <1>9, <3>1, <3>2
  <2> QED
    BY <1>5, <2>1 DEF Body
<1>14. p \in DOMAIN pages' /\ pages'[p] = page
  BY <1>1, <1>7
<1>15. JobInv(j, pages', notes)
  <2>1. ASSUME j.alone PROVE Carries(page, j.version[j.entity])
    BY <1>1, <1>7, <1>10, <2>1 DEF JobInv, Carries, p
  <2>2. ASSUME j.alone, NEW m \in 1..Len(b), b[m].kind = "divider"
        PROVE  \E k \in 1..Len(Tail(q)) : Tail(q)[k] = b[m].id
    <3>1. PICK n \in 1..Len(a) : n # i /\ b[m] = a[n]
      BY <1>5
    <3>2. PICK k \in 1..Len(q) : q[k] = a[n].id
      BY <1>1, <1>10, <2>2, <3>1 DEF JobInv, p, q, a
    <3>3. a[n].id # a[i].id
      BY <1>3, <3>1 DEF Body, Distinct
    <3>4. k # 1
      BY <1>4, <1>9, <3>2, <3>3
    <3>5. k - 1 \in 1..Len(Tail(q)) /\ k - 1 \in 1..(Len(q) - 1) /\ k - 1 + 1 = k
      BY <1>9, <3>4
    <3>6. Tail(q)[k - 1] = q[k]
      BY <1>9, <3>5
    <3> QED
      BY <3>1, <3>2, <3>5, <3>6
  <2>3. ASSUME NEW t \in notes, NEW k \in 1..Len(Tail(q)), t[1] = p PROVE Tail(q)[k] # t[2]
    BY <1>1, <1>11, <2>3 DEF JobInv, p, q
  <2>4. page.entity = j.entity /\ j.entity \in Entity
    BY <1>2, <1>7, <1>10
  <2> QED
    BY <1>7, <1>10, <1>14, <2>1, <2>2, <2>3, <2>4 DEF JobInv
<1>16. UNCHANGED <<notes, crowded, snapshot, written>>
  BY DEF DeleteBlock
<1>17. written' \in [Entity -> [page : Nat, version : Nat]] /\ \A e \in Entity : written'[e] = written[e]
  BY <1>16 DEF IInv, TypeInv
<1>18. /\ job[w].page = p /\ Body(p, page.blocks, notes) /\ j.at # "create"
       /\ j.at \in Busies => j.entity = job[w].entity /\ j.alone = job[w].alone
  BY <1>7, <1>10, <1>13 DEF p
<1> QED
  BY <1>1, <1>2, <1>7, <1>8, <1>10, <1>15, <1>16, <1>17, <1>18, OwnStep

(* A new id is in no page and in no delete queue. *)
LEMMA FreshIdsAreNew ==
  ASSUME EnoughIds, TypeInv
  PROVE  /\ \A n \in 1..4 :
              /\ FreshIds[n] \in Nat
              /\ \A p \in DOMAIN pages : \A m \in 1..Len(pages[p].blocks) : pages[p].blocks[m].id # FreshIds[n]
              /\ \A w \in Writer : \A k \in 1..Len(job[w].queue) : job[w].queue[k] # FreshIds[n]
         /\ \A m, n \in 1..4 : FreshIds[m] = FreshIds[n] => m = n
<1>1. /\ \A n \in 1..4 : FreshIds[n] \in UnknownBlocks
      /\ \A m, n \in 1..4 : FreshIds[m] = FreshIds[n] => m = n
  BY WriterAssumption, FreshIdsAre
<1>2. ASSUME NEW id \in UnknownBlocks
      PROVE  /\ id \in Nat
             /\ \A p \in DOMAIN pages : \A m \in 1..Len(pages[p].blocks) : pages[p].blocks[m].id # id
             /\ \A w \in Writer : \A k \in 1..Len(job[w].queue) : job[w].queue[k] # id
  <2>1. /\ id \in 1..MaxBlock
        /\ \A p \in DOMAIN pages : id \notin Ids(pages[p].blocks)
        /\ \A w \in Writer : id \notin Range(job[w].queue)
    BY <1>2 DEF UnknownBlocks
  <2>2. \A p \in DOMAIN pages : \A m \in 1..Len(pages[p].blocks) : pages[p].blocks[m].id # id
    BY <2>1 DEF Ids
  <2>3. ASSUME NEW w \in Writer, NEW k \in 1..Len(job[w].queue) PROVE job[w].queue[k] # id
    <3>1. job[w].queue \in Seq(Nat)
      BY DEF TypeInv, Jobs
    <3>2. k \in DOMAIN job[w].queue
      BY <3>1
    <3> QED
      BY <2>1, <3>2 DEF Range
  <2> QED
    BY <2>1, <2>2, <2>3
<1> QED
  BY <1>1, <1>2

LEMMA AppendChildrenStep ==
  ASSUME IInv, NEW w \in Writer, AppendChildren(w)
  PROVE  IInv'
<1>0. job[w] \in Jobs /\ JobInv(job[w], pages, notes) /\ job[w].at \in Busies
  BY DEF AppendChildren, IInv, TypeInv, JobsInv, Busies
<1> PICK e0 \in Entity : e0 = job[w].entity
  BY <1>0 DEF JobInv
<1> DEFINE p == job[w].page
           a == pages[p].blocks
           v == Writes(w)
           ids == FreshIds
           archive == job[w].archive
           s == Section(v, archive, ids)
           b == a \o s
           page == [pages[p] EXCEPT !.blocks = b]
           rest == job[w].todo \ {e0}
           j == IF rest = {} THEN Idle
                ELSE [Idle EXCEPT !.at = "next", !.review = job[w].review,
                                  !.todo = rest, !.version = job[w].version]
           last == [page |-> p, version |-> v]
<1>1. /\ job[w] \in Jobs /\ JobInv(job[w], pages, notes) /\ job[w].at = "replace" /\ p \in DOMAIN pages
      /\ job[w].queue = <<>>
  BY DEF AppendChildren, IInv, TypeInv, JobsInv, Jobs
<1>2. job[w].at \in Busies /\ e0 \in Entity /\ pages[p].entity = e0
  BY <1>1 DEF Busies, JobInv
<1>3. pages[p] \in Pages /\ a \in Seq(Blocks) /\ Body(p, a, notes)
  BY <1>1 DEF IInv, TypeInv, BodyInv, Pages
<1>4. v \in Nat /\ v = job[w].version[e0] /\ archive \in BOOLEAN
  BY <1>1, <1>2 DEF Writes, Jobs
<1>5. /\ \A n \in 1..4 : ids[n] \in Nat /\ \A m \in 1..Len(a) : a[m].id # ids[n]
      /\ \A m, n \in 1..4 : ids[m] = ids[n] => m = n
  BY <1>1, FreshIdsAreNew DEF IInv, AppendChildren
<1>6. pages' = [pages EXCEPT ![p].blocks = b] /\ job' = [job EXCEPT ![w] = j]
  BY DEF AppendChildren
<1>7. written' = [written EXCEPT ![e0] = IF job[w].alone THEN last ELSE @]
  BY DEF AppendChildren
<1>8. UNCHANGED <<notes, crowded, snapshot>>
  BY DEF AppendChildren
<1> HIDE DEF v, ids, archive
<1>9. /\ s \in Seq(Blocks) /\ Len(s) \in 1..4 /\ \A n \in 1..Len(s) : s[n].id = ids[n]
      /\ \E d \in 1..Len(s) : ShownAt(s, v, d)
  <2>1. \A n \in 1..4 : ids[n] \in Nat
    BY <1>5
  <2> QED
    <3>1. IsSection(s, v, ids)
      BY <1>4, <2>1, SectionIs
    <3> HIDE DEF s
    <3> QED
      BY <3>1 DEF IsSection
<1> HIDE DEF s
<1>10. \A n \in 1..Len(s) : n \in 1..4
  BY <1>9, WithinFour
<1>11. Distinct(s) /\ \A m \in 1..Len(a), n \in 1..Len(s) : a[m].id # s[n].id
  <2>1. ASSUME NEW m \in 1..Len(s), NEW n \in 1..Len(s), s[m].id = s[n].id PROVE m = n
    BY <1>5, <1>9, <1>10, <2>1
  <2>2. ASSUME NEW m \in 1..Len(a), NEW n \in 1..Len(s) PROVE a[m].id # s[n].id
    BY <1>5, <1>9, <1>10
  <2> QED
    BY <2>1, <2>2 DEF Distinct
<1>12. Body(p, b, notes) /\ b \in Seq(Blocks)
  <2>1. Distinct(b)
    BY <1>3, <1>9, <1>11, ConcatDistinct DEF Body
  <2>2. \A id : Above(a, id) => Above(b, id)
    BY <1>3, <1>9, AboveConcat
  <2>3. b \in Seq(Blocks)
    BY <1>3, <1>9, ConcatIs
  <2> QED
    BY <1>3, <2>1, <2>2, <2>3 DEF Body
<1> HIDE DEF b
<1>13. /\ page \in Pages /\ page.entity = pages[p].entity /\ page.properties = pages[p].properties
       /\ page.blocks = b /\ pages' = [pages EXCEPT ![p] = page]
  BY <1>1, <1>6, <1>12, Rewritten DEF IInv
<1>14. j \in Jobs /\ j.at \notin Busies /\ j.at # "create"
  <2>1. CASE rest = {}
    BY <2>1, IdleFits DEF Busies
  <2>2. CASE rest # {}
    <3>1. rest \in SUBSET Entity /\ job[w].review \in BOOLEAN /\ job[w].version \in [Entity -> Nat]
      BY <1>1 DEF Jobs
    <3>2. j = [Idle EXCEPT !.at = "next", !.review = job[w].review,
                           !.todo = rest, !.version = job[w].version]
      BY <2>2
    <3> HIDE DEF rest
    <3> QED
      BY <3>1, <3>2, IdleFits DEF Jobs, Busies
  <2> QED
    BY <2>1, <2>2
<1> HIDE DEF rest, j
<1>15. JobInv(j, pages', notes)
  BY <1>14 DEF JobInv, Busies
<1>16. DOMAIN pages' = DOMAIN pages /\ pages'[p] = page
  BY <1>1, <1>13
<1>17. last \in [page : Nat, version : Nat]
  BY <1>1, <1>4 DEF Jobs
<1>18. written' \in [Entity -> [page : Nat, version : Nat]]
  BY <1>7, <1>17 DEF IInv, TypeInv
<1>19. written'[e0] = IF job[w].alone THEN last ELSE written[e0]
  BY <1>2, <1>7 DEF IInv, TypeInv
<1>20. ASSUME job[w].alone PROVE WrittenAt(e0)'
  <2>1. \A m \in 1..Len(a) : a[m].kind # "divider"
    BY <1>1, <1>20 DEF JobInv
  <2>2. Shown(b, v)
    BY <1>3, <1>9, <2>1, SectionShown DEF b
  <2>3. Carries(page, v)
    BY <1>1, <1>4, <1>13, <1>20 DEF JobInv, Carries
  <2>4. ASSUME NEW u \in Writer PROVE ~ Works(job'[u], e0)
    <3>1. CASE u = w
      <4>1. job'[u] = j
        BY <1>6, <3>1 DEF IInv, TypeInv
      <4> QED
        BY <1>14, <4>1 DEF Works
    <3>2. CASE u # w
      <4>1. job'[u] = job[u]
        BY <1>6, <3>2 DEF IInv, TypeInv
      <4>2. Works(job[w], e0)
        BY <1>2 DEF Works
      <4>3. ~ Works(job[u], e0)
        BY <1>2, <1>20, <3>2, <4>2 DEF IInv, CrowdInv
      <4> QED
        BY <4>1, <4>3
    <3> QED
      BY <3>1, <3>2
  <2>5. written'[e0].page = p /\ written'[e0].version = v
    BY <1>19, <1>20
  <2> HIDE DEF page, p
  <2> QED
    BY <1>1, <1>2, <1>13, <1>16, <2>2, <2>3, <2>4, <2>5 DEF WrittenAt
<1>21. \A e \in Entity : written'[e] = written[e] \/ (e = e0 /\ WrittenAt(e)')
  <2>1. \A e \in Entity : e # e0 => written'[e] = written[e]
    BY <1>7 DEF IInv, TypeInv
  <2>2. written'[e0] = written[e0] \/ WrittenAt(e0)'
    BY <1>19, <1>20
  <2> HIDE DEF last
  <2> QED
    BY <2>1, <2>2
<1>22. \A e \in Entity : written'[e] = written[e] \/ (e = job[w].entity /\ WrittenAt(e)')
  BY <1>21
<1>23. Body(p, page.blocks, notes) /\ p \in DOMAIN pages /\ job[w].page = p
  BY <1>1, <1>12, <1>13
<1> HIDE DEF p, page, last
<1> QED
  BY <1>2, <1>6, <1>8, <1>13, <1>14, <1>15, <1>18, <1>22, <1>23, OwnStep

(* What people type moves the blocks of a page and takes none away. *)
LEMMA NoteStep ==
  ASSUME IInv, NEW p \in DOMAIN pages, NEW b \in Seq(Blocks), pages' = [pages EXCEPT ![p].blocks = b],
         UNCHANGED <<snapshot, job, crowded, written>>, Body(p, b, notes'), notes \subseteq notes',
         \A version : Shown(pages[p].blocks, version) => Shown(b, version),
         \A m \in 1..Len(b) :
           b[m].kind = "divider" => \E n \in 1..Len(pages[p].blocks) : b[m] = pages[p].blocks[n],
         \A t \in notes' \ notes :
           t[1] = p /\ \A w \in Writer : \A k \in 1..Len(job[w].queue) : job[w].queue[k] # t[2]
  PROVE  IInv'
<1> DEFINE a == pages[p].blocks
           page == [pages[p] EXCEPT !.blocks = b]
<1>1. /\ page \in Pages /\ page.entity = pages[p].entity /\ page.properties = pages[p].properties
      /\ page.blocks = b /\ pages' = [pages EXCEPT ![p] = page]
  BY Rewritten DEF IInv
<1> HIDE DEF page
<1>2. DOMAIN pages' = DOMAIN pages /\ \A q \in DOMAIN pages : pages'[q] = IF q = p THEN page ELSE pages[q]
  BY <1>1
<1>3. TypeInv'
  BY <1>1, <1>2 DEF IInv, TypeInv
<1>4. CrowdInv'
  BY DEF IInv, CrowdInv
<1>5. PagesInv'
  <2>1. \A e : PagesOf(e)' = PagesOf(e)
    BY <1>1, <1>2 DEF PagesOf
  <2> QED
    BY <2>1 DEF IInv, PagesInv
<1>6. WrittenInv'
  <2> SUFFICES ASSUME NEW e \in Entity, written[e] # Nothing PROVE WrittenAt(e)'
    BY DEF WrittenInv, WrittenAt
  <2> DEFINE q == written[e].page
  <2>1. /\ q \in DOMAIN pages /\ pages[q].entity = e /\ Carries(pages[q], written[e].version)
        /\ Shown(pages[q].blocks, written[e].version) /\ \A w \in Writer : ~ Works(job[w], e)
    BY DEF IInv, WrittenInv, WrittenAt
  <2>2. /\ q \in DOMAIN pages' /\ pages'[q].entity = e /\ Carries(pages'[q], written[e].version)
        /\ Shown(pages'[q].blocks, written[e].version)
    BY <1>1, <1>2, <2>1 DEF Carries
  <2> QED
    BY <2>1, <2>2 DEF WrittenAt
<1>7. BodyInv'
  <2> SUFFICES ASSUME NEW q \in DOMAIN pages PROVE Body(q, pages'[q].blocks, notes')
    BY <1>2 DEF BodyInv
  <2>1. CASE q = p
    BY <1>1, <1>2, <2>1
  <2>2. CASE q # p
    <3>1. pages'[q] = pages[q] /\ Body(q, pages[q].blocks, notes)
      BY <1>2, <2>2 DEF IInv, BodyInv
    <3>2. \A t \in notes' : t[1] = q => t \in notes
      BY <2>2
    <3> QED
      BY <3>1, <3>2 DEF Body
  <2> QED
    BY <2>1, <2>2
<1>8. JobsInv'
  <2> SUFFICES ASSUME NEW w \in Writer PROVE JobInv(job[w], pages', notes')
    BY DEF JobsInv
  <2> DEFINE j == job[w]
  <2>1. JobInv(j, pages, notes)
    BY DEF IInv, JobsInv
  <2> HIDE DEF j
  <2>2. j.page \in DOMAIN pages => pages'[j.page].entity = pages[j.page].entity
                                     /\ pages'[j.page].properties = pages[j.page].properties
    BY <1>1, <1>2
  <2>3. ASSUME j.at = "replace", j.alone, j.page \in DOMAIN pages,
               NEW m \in 1..Len(pages'[j.page].blocks), pages'[j.page].blocks[m].kind = "divider"
        PROVE  \E k \in 1..Len(j.queue) : j.queue[k] = pages'[j.page].blocks[m].id
    <3>1. PICK n \in 1..Len(pages[j.page].blocks) : pages'[j.page].blocks[m] = pages[j.page].blocks[n]
      BY <1>1, <1>2, <2>3
    <3> QED
      BY <2>1, <2>3, <3>1 DEF JobInv
  <2>4. ASSUME j.at = "replace", NEW t \in notes', NEW k \in 1..Len(j.queue), t[1] = j.page
        PROVE  j.queue[k] # t[2]
    BY <2>1, <2>4 DEF JobInv, j
  <2>5. JobInv(j, pages', notes')
    BY <1>2, <2>1, <2>2, <2>3, <2>4 DEF JobInv, Carries
  <2> QED
    BY <2>5 DEF j
<1> QED
  BY <1>3, <1>4, <1>5, <1>6, <1>7, <1>8 DEF IInv

LEMMA TypeNoteStep ==
  ASSUME IInv, NEW p \in DOMAIN pages, TypeNote(p)
  PROVE  IInv'
<1> DEFINE a == pages[p].blocks
           id == FreshIds[1]
           note == Block(id, "note", 0)
<1>1. /\ id \in Nat
      /\ \A q \in DOMAIN pages : \A m \in 1..Len(pages[q].blocks) : pages[q].blocks[m].id # id
      /\ \A w \in Writer : \A k \in 1..Len(job[w].queue) : job[w].queue[k] # id
  BY FreshIdsAreNew DEF IInv, TypeNote
<1>2. a \in Seq(Blocks) /\ Body(p, a, notes)
  BY DEF IInv, TypeInv, BodyInv, Pages
<1>3. \/ /\ pages' = [pages EXCEPT ![p].blocks = <<note>> \o @]
         /\ notes' = notes \cup {<<p, note.id>>}
      \/ /\ pages' = [pages EXCEPT ![p].blocks = Append(@, note)]
         /\ notes' = notes
  BY DEF TypeNote
<1>4. UNCHANGED <<snapshot, job, crowded, written>>
  BY DEF TypeNote
<1> HIDE DEF id
<1>5. note \in Blocks /\ note.id = id /\ note.kind = "note"
  BY <1>1 DEF Block, Blocks, Kinds
<1> HIDE DEF note
<1> DEFINE one == <<note>>
<1>6. one \in Seq(Blocks) /\ Len(one) = 1 /\ one[1] = note /\ Distinct(one)
  BY <1>5 DEF Distinct
<1>7. CASE pages' = [pages EXCEPT ![p].blocks = <<note>> \o @] /\ notes' = notes \cup {<<p, note.id>>}
  <2> DEFINE b == one \o a
  <2>1. pages' = [pages EXCEPT ![p].blocks = b]
    BY <1>7
  <2> HIDE DEF one
  <2>2. \A m \in 1..Len(one), n \in 1..Len(a) : one[m].id # a[n].id
    BY <1>1, <1>5, <1>6
  <2>3. b \in Seq(Blocks) /\ Distinct(b)
    <3>1. one \in Seq(Blocks) /\ Distinct(one)
      BY <1>6
    <3>2. b \in Seq(Blocks)
      BY <1>2, <3>1, ConcatIs
    <3> QED
      BY <1>2, <2>2, <3>1, <3>2, ConcatDistinct DEF Body
  <2>4. /\ Above(b, note.id)
        /\ \A i : Above(a, i) => Above(b, i)
        /\ \A version : Shown(a, version) => Shown(b, version)
    BY <1>2, <1>5, NoteAbove DEF one
  <2>5. ASSUME NEW m \in 1..Len(b), b[m].kind = "divider" PROVE \E n \in 1..Len(a) : b[m] = a[n]
    <3>1. one \in Seq(Blocks)
      BY <1>6
    <3>2. /\ \A n \in 1..Len(one) : b[n] = one[n]
          /\ \A n \in 1..Len(a) : b[Len(one) + n] = a[n]
          /\ m \in 1..Len(one) \/ \E n \in 1..Len(a) : m = Len(one) + n
      <4>1. a \in Seq(Blocks)
        BY <1>2
      <4> HIDE DEF a
      <4>2. /\ \A n \in 1..Len(one) : n \in 1..Len(b) /\ b[n] = one[n]
            /\ \A n \in 1..Len(a) : Len(one) + n \in 1..Len(b) /\ b[Len(one) + n] = a[n]
            /\ \A k \in 1..Len(b) : k \in 1..Len(one) \/ \E n \in 1..Len(a) : k = Len(one) + n
        BY <3>1, <4>1, ConcatIs
      <4> HIDE DEF b
      <4> QED
        BY <4>2
    <3>3. m \notin 1..Len(one)
      <4>1. \A k \in 1..Len(one) : k = 1
        BY <1>6
      <4> QED
        BY <1>5, <1>6, <2>5, <3>2, <4>1
    <3> QED
      BY <3>2, <3>3
  <2> HIDE DEF b, a
  <2>6. Body(p, b, notes')
    <3>1. \A t \in notes' : t \in notes \/ t[2] = note.id
      BY <1>7
    <3> QED
      BY <1>2, <2>3, <2>4, <3>1 DEF Body
  <2>7. notes \subseteq notes' /\ \A t \in notes' \ notes : t[1] = p /\ t[2] = id
    BY <1>5, <1>7
  <2>8. \A t \in notes' \ notes :
          t[1] = p /\ \A w \in Writer : \A k \in 1..Len(job[w].queue) : job[w].queue[k] # t[2]
    BY <1>1, <2>7
  <2> QED
    BY <1>4, <2>1, <2>3, <2>4, <2>5, <2>6, <2>7, <2>8, NoteStep DEF a
<1>8. CASE pages' = [pages EXCEPT ![p].blocks = Append(@, note)] /\ notes' = notes
  <2> DEFINE b == Append(a, note)
  <2>1. pages' = [pages EXCEPT ![p].blocks = b]
    BY <1>8
  <2> HIDE DEF one
  <2>2. \A n \in 1..Len(a), m \in 1..Len(one) : a[n].id # one[m].id
    BY <1>1, <1>5, <1>6
  <2>3. b \in Seq(Blocks) /\ Distinct(b)
    <3>1. one \in Seq(Blocks) /\ Distinct(one)
      BY <1>6
    <3>2. b \in Seq(Blocks) /\ b = a \o one
      BY <1>2, <1>5, AppendIsConcat, AppendProperties DEF one
    <3> HIDE DEF b
    <3> QED
      BY <1>2, <2>2, <3>1, <3>2, ConcatDistinct DEF Body
  <2>4. /\ \A i : Above(a, i) => Above(b, i)
        /\ \A version : Shown(a, version) => Shown(b, version)
    BY <1>2, <1>5, NoteBelow
  <2>5. ASSUME NEW m \in 1..Len(b), b[m].kind = "divider" PROVE \E n \in 1..Len(a) : b[m] = a[n]
    <3>1. /\ \A n \in 1..Len(a) : b[n] = a[n]
          /\ b[Len(a) + 1] = note /\ (m \in 1..Len(a) \/ m = Len(a) + 1)
      BY <1>2, <1>5, AppendProperties
    <3> QED
      BY <1>5, <2>5, <3>1
  <2> HIDE DEF b, a
  <2>6. Body(p, b, notes') /\ notes \subseteq notes' /\ notes' \ notes = {}
    BY <1>2, <1>8, <2>3, <2>4 DEF Body
  <2> QED
    BY <1>4, <2>1, <2>3, <2>4, <2>5, <2>6, NoteStep DEF a
<1> QED
  BY <1>3, <1>7, <1>8

LEMMA TrashPageStep ==
  ASSUME IInv, NEW w \in Writer, TrashPage(w)
  PROVE  IInv'
<1> DEFINE p == job[w].page
           j == [job[w] EXCEPT !.at = "find", !.page = NoPage]
<1>1. job[w] \in Jobs /\ JobInv(job[w], pages, notes) /\ job[w].at = "trash" /\ p \in DOMAIN pages
  BY DEF TrashPage, IInv, TypeInv, JobsInv
<1>2. job[w].at \in Busies /\ job[w].entity \in Entity /\ pages[p].entity = job[w].entity
  BY <1>1 DEF Busies, JobInv
<1>3. /\ pages' = [q \in DOMAIN pages \ {p} |-> pages[q]]
      /\ UNCHANGED <<notes, crowded, snapshot, written>>
  BY DEF TrashPage
<1>4. DOMAIN pages' = DOMAIN pages \ {p} /\ \A q \in DOMAIN pages' : pages'[q] = pages[q]
  BY <1>3
<1>5. job' = [job EXCEPT ![w] = j]
  BY <1>1 DEF TrashPage, IInv, TypeInv, Jobs
<1>6. /\ j \in Jobs /\ j.at = "find" /\ j.page = NoPage /\ j.entity = job[w].entity
      /\ j.alone = job[w].alone
  BY <1>1 DEF Jobs, Busies, NoPage
<1> HIDE DEF j, p
<1>7. job' \in [Writer -> Jobs] /\ \A v \in Writer : job'[v] = IF v = w THEN j ELSE job[v]
  BY <1>5, <1>6 DEF IInv, TypeInv
<1>8. \A v \in Writer, e \in Entity :
        Works(job'[v], e) => Works(job[v], e) /\ job'[v].alone = job[v].alone
  BY <1>2, <1>6, <1>7 DEF Works
<1>9. TypeInv'
  BY <1>3, <1>4, <1>7 DEF IInv, TypeInv
<1>10. CrowdInv'
  BY <1>3, <1>8 DEF IInv, CrowdInv
<1>11. PagesInv'
  <2>1. \A e : PagesOf(e)' \subseteq PagesOf(e)
    BY <1>4 DEF PagesOf
  <2>2. \A v \in Writer, e \in Entity :
          job'[v].at = "create" /\ job'[v].entity = e => job[v].at = "create" /\ job[v].entity = e
    BY <1>6, <1>7
  <2> QED
    BY <1>3, <2>1, <2>2 DEF IInv, PagesInv
<1>12. WrittenInv'
  <2> SUFFICES ASSUME NEW e \in Entity, written[e] # Nothing PROVE WrittenAt(e)'
    BY <1>3 DEF WrittenInv, WrittenAt
  <2> DEFINE q == written[e].page
  <2>1. /\ q \in DOMAIN pages /\ pages[q].entity = e /\ Carries(pages[q], written[e].version)
        /\ Shown(pages[q].blocks, written[e].version) /\ \A v \in Writer : ~ Works(job[v], e)
    BY DEF IInv, WrittenInv, WrittenAt
  <2>2. q # p
    BY <1>2, <2>1 DEF Works
  <2>3. q \in DOMAIN pages' /\ pages'[q] = pages[q]
    BY <1>4, <2>1, <2>2
  <2> QED
    BY <1>3, <1>8, <2>1, <2>3 DEF WrittenAt
<1>13. BodyInv'
  BY <1>3, <1>4 DEF IInv, BodyInv
<1>14. JobsInv'
  <2> SUFFICES ASSUME NEW v \in Writer PROVE JobInv(job'[v], pages', notes)
    BY <1>3 DEF JobsInv
  <2>1. CASE v = w
    <3>1. NoPage \notin DOMAIN pages'
      BY <1>4 DEF IInv, TypeInv, NoPage
    <3> QED
      BY <1>2, <1>6, <1>7, <2>1, <3>1 DEF JobInv
  <2>2. CASE v # w
    <3>1. job'[v] = job[v] /\ JobInv(job[v], pages, notes)
      BY <1>7, <2>2 DEF IInv, JobsInv
    <3>2. job[v].page \in DOMAIN pages' => job[v].page \in DOMAIN pages
      BY <1>4
    <3> QED
      BY <1>4, <3>1, <3>2 DEF JobInv
  <2> QED
    BY <2>1, <2>2
<1> QED
  BY <1>9, <1>10, <1>11, <1>12, <1>13, <1>14 DEF IInv

LEMMA CreatePageStep ==
  ASSUME IInv, NEW w \in Writer, CreatePage(w)
  PROVE  IInv'
<1>0. job[w] \in Jobs /\ JobInv(job[w], pages, notes) /\ job[w].at = "create" /\ job[w].at \in Busies
  BY DEF CreatePage, IInv, TypeInv, JobsInv, Busies
<1> PICK e0 \in Entity : e0 = job[w].entity
  BY <1>0 DEF JobInv
<1>1. PICK p \in UnknownPages :
        /\ pages' = [q \in DOMAIN pages \cup {p} |->
                       IF q = p THEN [entity |-> e0, properties |-> NoText, blocks |-> <<>>] ELSE pages[q]]
        /\ job' = [job EXCEPT ![w].at = "update", ![w].page = p]
  BY DEF CreatePage
<1> DEFINE page == [entity |-> e0, properties |-> NoText, blocks |-> <<>>]
           j == [job[w] EXCEPT !.at = "update", !.page = p]
<1>2. /\ p \in 1..MaxPage /\ p \in Nat /\ p \notin DOMAIN pages
      /\ \A v \in Writer : job[v].page # p
      /\ \A t \in notes : t[1] # p
  <2>1. p \in 1..MaxPage /\ MaxPage \in Nat
    BY WriterAssumption DEF UnknownPages
  <2> QED
    BY <2>1 DEF UnknownPages
<1>3. page \in Pages /\ page.entity = e0 /\ Body(p, page.blocks, notes)
  <2>1. page.blocks = <<>> /\ page.blocks \in Seq(Blocks) /\ 1..Len(page.blocks) = {}
    OBVIOUS
  <2>2. Distinct(page.blocks)
    BY <2>1 DEF Distinct
  <2>3. page \in Pages
    BY <2>1 DEF Pages, NoText
  <2> HIDE DEF page
  <2>4. Body(p, page.blocks, notes)
    BY <1>2, <2>2 DEF Body
  <2> QED
    BY <2>3, <2>4 DEF page
<1>4. DOMAIN pages' = DOMAIN pages \cup {p} /\ \A q \in DOMAIN pages' : pages'[q] = IF q = p THEN page ELSE pages[q]
  BY <1>1
<1> HIDE DEF page
<1>5. job' = [job EXCEPT ![w] = j]
  BY <1>0, <1>1 DEF IInv, TypeInv, Jobs
<1>6. j \in Jobs /\ j.at = "update" /\ j.page = p /\ j.entity = e0 /\ j.alone = job[w].alone
  BY <1>0, <1>2 DEF Jobs, Busies
<1> HIDE DEF j
<1>7. job' \in [Writer -> Jobs] /\ \A v \in Writer : job'[v] = IF v = w THEN j ELSE job[v]
  BY <1>5, <1>6 DEF IInv, TypeInv
<1>8. UNCHANGED <<notes, crowded, snapshot, written>>
  BY DEF CreatePage
<1>9. \A v \in Writer, e \in Entity :
        Works(job'[v], e) => Works(job[v], e) /\ job'[v].alone = job[v].alone
  BY <1>0, <1>6, <1>7 DEF Works
<1>10. \A q \in DOMAIN pages : q \in DOMAIN pages' /\ pages'[q] = pages[q]
  BY <1>2, <1>4
<1>11. TypeInv'
  BY <1>2, <1>3, <1>4, <1>7, <1>8 DEF IInv, TypeInv
<1>12. CrowdInv'
  BY <1>8, <1>9 DEF IInv, CrowdInv
<1>13. PagesInv'
  <2> SUFFICES ASSUME NEW e \in Entity \ crowded
               PROVE  /\ \A q, r \in PagesOf(e)' : q = r
                      /\ \A v \in Writer : job'[v].at = "create" /\ job'[v].entity = e => PagesOf(e)' = {}
    BY <1>8 DEF PagesInv
  <2>1. /\ \A q, r \in PagesOf(e) : q = r
        /\ \A v \in Writer : job[v].at = "create" /\ job[v].entity = e => PagesOf(e) = {}
    BY DEF IInv, PagesInv
  <2>2. \A v \in Writer : job'[v].at = "create" => v # w /\ job'[v] = job[v]
    BY <1>6, <1>7
  <2>3. CASE e = e0
    <3>1. PagesOf(e) = {}
      BY <1>0, <2>1, <2>3
    <3>2. \A q \in PagesOf(e)' : q = p
      BY <1>4, <3>1 DEF PagesOf
    <3>3. ASSUME NEW v \in Writer, v # w, job[v].at = "create", job[v].entity = e PROVE FALSE
      <4>1. Works(job[v], e) /\ Works(job[w], e)
        BY <1>0, <2>3, <3>3 DEF Works, Busies
      <4> QED
        BY <3>3, <4>1 DEF IInv, CrowdInv
    <3> QED
      BY <2>2, <3>2, <3>3
  <2>4. CASE e # e0
    <3>1. PagesOf(e)' = PagesOf(e)
      BY <1>3, <1>4, <1>10, <2>4 DEF PagesOf
    <3> QED
      BY <2>1, <2>2, <3>1
  <2> QED
    BY <2>3, <2>4
<1>14. WrittenInv'
  <2> SUFFICES ASSUME NEW e \in Entity, written[e] # Nothing PROVE WrittenAt(e)'
    BY <1>8 DEF WrittenInv, WrittenAt
  <2> DEFINE q == written[e].page
  <2>1. /\ q \in DOMAIN pages /\ pages[q].entity = e /\ Carries(pages[q], written[e].version)
        /\ Shown(pages[q].blocks, written[e].version) /\ \A v \in Writer : ~ Works(job[v], e)
    BY DEF IInv, WrittenInv, WrittenAt
  <2>2. q \in DOMAIN pages' /\ pages'[q] = pages[q]
    BY <1>10, <2>1
  <2> QED
    BY <1>8, <1>9, <2>1, <2>2 DEF WrittenAt
<1>15. BodyInv'
  <2> SUFFICES ASSUME NEW q \in DOMAIN pages' PROVE Body(q, pages'[q].blocks, notes)
    BY <1>8 DEF BodyInv
  <2>1. CASE q = p
    BY <1>3, <1>4, <2>1
  <2>2. CASE q # p
    <3>1. q \in DOMAIN pages /\ pages'[q] = pages[q]
      BY <1>4, <2>2
    <3> QED
      BY <3>1 DEF IInv, BodyInv
  <2> QED
    BY <2>1, <2>2
<1>16. JobsInv'
  <2> SUFFICES ASSUME NEW v \in Writer PROVE JobInv(job'[v], pages', notes)
    BY <1>8 DEF JobsInv
  <2>1. CASE v = w
    <3>1. p \in DOMAIN pages' /\ pages'[p].entity = e0
      BY <1>3, <1>4
    <3> QED
      BY <1>6, <1>7, <2>1, <3>1 DEF JobInv
  <2>2. CASE v # w
    <3>1. job'[v] = job[v] /\ JobInv(job[v], pages, notes)
      BY <1>7, <2>2 DEF IInv, JobsInv
    <3>2. job[v].page \in DOMAIN pages' =>
            job[v].page \in DOMAIN pages /\ pages'[job[v].page] = pages[job[v].page]
      BY <1>2, <1>4
    <3> QED
      BY <3>1, <3>2 DEF JobInv
  <2> QED
    BY <2>1, <2>2
<1> QED
  BY <1>11, <1>12, <1>13, <1>14, <1>15, <1>16 DEF IInv

LEMMA FindExistingStep ==
  ASSUME IInv, NEW w \in Writer, NEW e \in Entity, FindExisting(w, e)
  PROVE  IInv'
<1> DEFINE others == {v \in Writer \ {w} : job[v].at \notin {"idle", "next"} /\ job[v].entity = e}
<1>1. /\ job[w].at = "next"
      /\ crowded' = IF others = {} THEN crowded ELSE crowded \cup {e}
      /\ written' = [written EXCEPT ![e] = Nothing]
      /\ UNCHANGED <<snapshot, pages, notes>>
  BY DEF FindExisting
<1>2. PICK p \in Found(e) :
        job' = [v \in Writer |->
                CASE v = w ->
                       [job[w] EXCEPT !.at = AfterFinding(job[w].review, p),
                                      !.entity = e, !.page = p, !.alone = others = {}]
                  [] v \in others -> [job[v] EXCEPT !.alone = FALSE]
                  [] OTHER -> job[v]]
  BY DEF FindExisting
<1> DEFINE at == AfterFinding(job[w].review, p)
           alone == others = {}
           j == [job[w] EXCEPT !.at = at, !.entity = e, !.page = p, !.alone = alone]
<1>3. \/ p = NoPage
      \/ p \in PagesOf(e) /\ p # NoPage /\ p \in DOMAIN pages /\ pages[p].entity = e /\ p \in Nat
  BY DEF Found, PagesOf, NoPage, IInv, TypeInv
<1>4. at \in {"find", "trash", "update"} /\ (at = "find" <=> p = NoPage) /\ p \in Nat /\ alone \in BOOLEAN
  BY <1>3 DEF AfterFinding, NoPage
<1>5. job \in [Writer -> Jobs]
  BY DEF IInv, TypeInv
<1>6. /\ job'[w] = j
      /\ \A v \in others : job'[v] = [job[v] EXCEPT !.alone = FALSE]
      /\ \A v \in Writer : v # w /\ v \notin others => job'[v] = job[v]
      /\ job' = [v \in Writer |-> job'[v]]
  BY <1>2
<1>7. w \notin others /\ others \subseteq Writer
  OBVIOUS
<1>8. \A v \in Writer : v # w /\ Works(job[v], e) => v \in others
  BY DEF Works, Busies
<1>9. alone <=> others = {}
  OBVIOUS
<1> HIDE DEF others, at, alone
<1>10. j \in Jobs /\ j.at = at /\ j.entity = e /\ j.page = p /\ j.alone = alone
  BY <1>4, <1>5 DEF Jobs, Busies
<1> HIDE DEF j
<1>11. \A v \in Writer : v # w =>
         /\ job'[v] \in Jobs /\ job'[v].at = job[v].at /\ job'[v].entity = job[v].entity
         /\ job'[v].page = job[v].page /\ job'[v].queue = job[v].queue
         /\ job'[v].version = job[v].version
         /\ (job'[v].alone => job[v].alone /\ v \notin others)
  <2>1. \A v \in others :
          /\ job'[v] \in Jobs /\ job'[v].at = job[v].at /\ job'[v].entity = job[v].entity
          /\ job'[v].page = job[v].page /\ job'[v].queue = job[v].queue
          /\ job'[v].version = job[v].version /\ job'[v].alone = FALSE
    <3> SUFFICES ASSUME NEW v \in others
                 PROVE  /\ job'[v] \in Jobs /\ job'[v].at = job[v].at /\ job'[v].entity = job[v].entity
                        /\ job'[v].page = job[v].page /\ job'[v].queue = job[v].queue
                        /\ job'[v].version = job[v].version /\ job'[v].alone = FALSE
      OBVIOUS
    <3>1. job[v] \in Jobs
      BY <1>5, <1>7
    <3>2. job'[v] = [job[v] EXCEPT !.alone = FALSE]
      BY <1>6
    <3> DEFINE i == job[v]
    <3> HIDE DEF i
    <3>3. i \in Jobs /\ job'[v] = [i EXCEPT !.alone = FALSE]
      BY <3>1, <3>2 DEF i
    <3>4. /\ job'[v] \in Jobs /\ job'[v].at = i.at /\ job'[v].entity = i.entity
          /\ job'[v].page = i.page /\ job'[v].queue = i.queue
          /\ job'[v].version = i.version /\ job'[v].alone = FALSE
      BY <3>3 DEF Jobs
    <3> QED
      BY <3>4 DEF i
  <2>2. \A v \in Writer : v # w /\ v \notin others => job'[v] = job[v] /\ job'[v] \in Jobs
    BY <1>5, <1>6
  <2> QED
    BY <2>1, <2>2
<1>12. \A v \in Writer, f \in Entity : v # w /\ Works(job'[v], f) => Works(job[v], f)
  BY <1>11 DEF Works
<1>13. \A f \in Entity : Works(job'[w], f) => f = e
  BY <1>6, <1>10 DEF Works
<1>14. crowded \subseteq crowded' /\ crowded' \subseteq Entity /\ (others # {} => e \in crowded')
  BY <1>1 DEF IInv, TypeInv
<1>15. TypeInv'
  <2>1. job' \in [Writer -> Jobs]
    BY <1>6, <1>10, <1>11
  <2>2. written' \in [Entity -> [page : Nat, version : Nat]]
    BY <1>1 DEF IInv, TypeInv, Nothing, NoPage
  <2> QED
    BY <1>1, <1>14, <2>1, <2>2 DEF IInv, TypeInv
<1>16. CrowdInv'
  <2> SUFFICES ASSUME NEW u \in Writer, NEW v \in Writer, NEW f \in Entity,
                      u # v, Works(job'[u], f), Works(job'[v], f)
               PROVE  f \in crowded' /\ ~ job'[v].alone
    BY DEF CrowdInv
  <2>1. CASE u = w
    <3>1. f = e /\ v # w /\ Works(job[v], e)
      BY <1>12, <1>13, <2>1
    <3>2. v \in others
      BY <1>8, <3>1
    <3> QED
      BY <1>11, <1>14, <3>1, <3>2
  <2>2. CASE v = w
    <3>1. f = e /\ u # w /\ Works(job[u], e)
      BY <1>12, <1>13, <2>2
    <3>2. u \in others
      BY <1>8, <3>1
    <3> QED
      BY <1>6, <1>9, <1>10, <1>14, <2>2, <3>1, <3>2
  <2>3. CASE u # w /\ v # w
    <3>1. Works(job[u], f) /\ Works(job[v], f)
      BY <1>12, <2>3
    <3>2. f \in crowded /\ ~ job[v].alone
      BY <3>1 DEF IInv, CrowdInv
    <3> QED
      BY <1>11, <1>14, <2>3, <3>2
  <2> QED
    BY <2>1, <2>2, <2>3
<1>17. PagesInv'
  <2>1. \A f : PagesOf(f)' = PagesOf(f)
    BY <1>1 DEF PagesOf
  <2>2. \A v \in Writer : job'[v].at = "create" => job[v].at = "create" /\ job'[v].entity = job[v].entity
    BY <1>4, <1>6, <1>10, <1>11
  <2> QED
    BY <1>14, <2>1, <2>2 DEF IInv, PagesInv
<1>18. WrittenInv'
  <2> SUFFICES ASSUME NEW f \in Entity, written'[f] # Nothing PROVE WrittenAt(f)'
    BY DEF WrittenInv, WrittenAt
  <2>1. f # e /\ written'[f] = written[f]
    BY <1>1 DEF IInv, TypeInv
  <2>2. WrittenAt(f)
    BY DEF IInv, WrittenInv
  <2>3. \A v \in Writer : ~ Works(job'[v], f)
    BY <1>12, <1>13, <2>1, <2>2 DEF WrittenAt
  <2> QED
    BY <1>1, <2>1, <2>2, <2>3 DEF WrittenAt
<1>19. BodyInv'
  BY <1>1 DEF IInv, BodyInv
<1>20. JobsInv'
  <2> SUFFICES ASSUME NEW v \in Writer PROVE JobInv(job'[v], pages, notes)
    BY <1>1 DEF JobsInv
  <2>1. CASE v = w
    <3>1. NoPage \notin DOMAIN pages
      BY DEF IInv, TypeInv, NoPage
    <3> QED
      BY <1>3, <1>4, <1>6, <1>10, <2>1, <3>1 DEF JobInv
  <2>2. CASE v # w
    <3> DEFINE i == job[v]
               k == job'[v]
    <3>1. JobInv(i, pages, notes)
      BY DEF IInv, JobsInv
    <3>2. /\ k.at = i.at /\ k.entity = i.entity /\ k.page = i.page /\ k.queue = i.queue
          /\ k.version = i.version /\ (k.alone => i.alone)
      BY <1>11, <2>2
    <3> HIDE DEF i, k
    <3>3. JobInv(k, pages, notes)
      BY <3>1, <3>2 DEF JobInv
    <3> QED
      BY <3>3 DEF k
  <2> QED
    BY <2>1, <2>2
<1> QED
  BY <1>15, <1>16, <1>17, <1>18, <1>19, <1>20 DEF IInv

-----------------------------------------------------------------------------
LEMMA WriterStepInv ==
  ASSUME IInv, NEW w \in Writer, WriterStep(w)
  PROVE  IInv'
<1>1. CASE \E e \in Entity : FindExisting(w, e)
  BY <1>1, FindExistingStep
<1>2. CASE ~ \E e \in Entity : FindExisting(w, e)
  BY <1>2, StartWritebackStep, TrashPageStep, FindPageStep, CreatePageStep, UpdatePropertiesStep,
     ReadChildrenStep, DeleteBlockStep, AppendChildrenStep, StopStep DEF WriterStep
<1> QED
  BY <1>1, <1>2

LEMMA StepInv == IInv /\ [Next]_vars => IInv'
<1> SUFFICES ASSUME IInv, [Next]_vars PROVE IInv'
  OBVIOUS
<1>1. CASE \E e \in Entity : Rebuild(e)
  BY <1>1, RebuildStep
<1>2. CASE \E p \in DOMAIN pages : TypeNote(p)
  BY <1>2, TypeNoteStep
<1>3. CASE \E w \in Writer : WriterStep(w)
  BY <1>3, WriterStepInv
<1>4. CASE \E w \in Writer : Fail(w)
  BY <1>4, StopStep
<1>5. CASE UNCHANGED vars
  BY <1>5, SameStep DEF vars, IInv, TypeInv
<1> QED
  BY <1>1, <1>2, <1>3, <1>4, <1>5 DEF Next

LEMMA Invariance == Spec => []IInv
<1> QED
  BY InitInv, StepInv, PTL DEF Spec

(* A person no two write-backs ever worked on at once has at most one page,
   however many writes failed half-way: write_record creates one only after
   find_page found none, and delete_record trashes the one it found. *)
THEOREM NotionOnePagePerEntity == Spec => []OnePagePerEntity
<1>1. IInv => OnePagePerEntity
  <2> SUFFICES ASSUME IInv, NEW e \in Entity \ crowded PROVE Cardinality(PagesOf(e)) <= 1
    BY DEF OnePagePerEntity
  <2>1. \A p, q \in PagesOf(e) : p = q
    BY DEF IInv, PagesInv
  <2>2. CASE PagesOf(e) = {}
    BY <2>2, FS_EmptySet
  <2>3. CASE PagesOf(e) # {}
    <3>1. PICK p \in PagesOf(e) : TRUE
      BY <2>3
    <3>2. PagesOf(e) = {p}
      BY <2>1, <3>1
    <3>3. Cardinality({p}) = 1
      BY FS_Singleton
    <3> QED
      BY <3>2, <3>3
  <2> QED
    BY <2>2, <2>3
<1> QED
  BY <1>1, Invariance, PTL

(* The last write of a person that no other overlapped left its page with the
   text in every field it fills and below the only marker, under the thumbnail
   if the profile has one, whatever unfinished or concurrent writes had left there. *)
THEOREM NotionLastWriteIsShown == Spec => []LastWriteIsShown
<1>1. IInv => LastWriteIsShown
  <2> SUFFICES ASSUME IInv, NEW e \in Entity, written[e] # Nothing
               PROVE  /\ written[e].page \in DOMAIN pages
                      /\ Carries(pages[written[e].page], written[e].version)
                      /\ LET blocks == pages[written[e].page].blocks IN
                           \E m \in Markers(blocks) :
                             /\ Markers(blocks) = {m}
                             /\ {blocks[n].of : n \in {k \in TextAt(written[e].page) : k > m}} = {written[e].version}
                             /\ written[e].version \in Pictured => m > 1 /\ blocks[m - 1].kind = "image"
    BY DEF LastWriteIsShown
  <2> DEFINE p == written[e].page
             version == written[e].version
             blocks == pages[p].blocks
  <2>1. p \in DOMAIN pages /\ Carries(pages[p], version) /\ Shown(blocks, version)
    BY DEF IInv, WrittenInv, WrittenAt
  <2>2. TextAt(p) = {n \in 1..Len(blocks) : blocks[n].kind = "text"}
    BY DEF TextAt
  <2>3. Markers(blocks) = {n \in 1..Len(blocks) : blocks[n].kind = "divider"}
    BY DEF Markers
  <2> HIDE DEF p, version, blocks
  <2>4. PICK m \in 1..Len(blocks) : ShownAt(blocks, version, m)
    BY <2>1 DEF Shown
  <2>5. m \in Markers(blocks) /\ Markers(blocks) = {m}
    BY <2>3, <2>4 DEF ShownAt
  <2> DEFINE Below == {k \in TextAt(p) : k > m}
  <2>6. (\A n \in Below : blocks[n].of = version) /\ \E n \in Below : TRUE
    BY <2>2, <2>4 DEF ShownAt
  <2> HIDE DEF Below
  <2>7. {blocks[n].of : n \in Below} = {version}
    BY <2>6
  <2>8. version \in Pictured => m > 1 /\ blocks[m - 1].kind = "image"
    BY <2>4 DEF ShownAt
  <2> QED
    BY <2>1, <2>5, <2>7, <2>8 DEF p, version, blocks, Below
<1> QED
  BY <1>1, Invariance, PTL

(* What people typed above the section is there as long as its page is: no
   delete_queue holds such a block, even one read before the note was typed. *)
THEOREM NotionNotesKept == Spec => []NotesKept
<1>1. IInv => NotesKept
  <2> SUFFICES ASSUME IInv, NEW t \in notes, t[1] \in DOMAIN pages
               PROVE  t[2] \in Ids(pages[t[1]].blocks)
    BY DEF NotesKept
  <2>1. Above(pages[t[1]].blocks, t[2])
    BY DEF IInv, BodyInv, Body
  <2> QED
    BY <2>1 DEF Above, Ids
<1> QED
  BY <1>1, Invariance, PTL
=============================================================================
