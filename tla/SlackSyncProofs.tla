---------------------------- MODULE SlackSyncProofs ----------------------------
(***************************************************************************)
(* Safety of SlackSync for any workers, page size and bounds.              *)
(***************************************************************************)
EXTENDS SlackSync, FiniteSetTheorems, SequenceTheorems, WellFoundedInduction, TLAPS

-----------------------------------------------------------------------------
(* Sets of timestamps and their listings. *)
LEMMA MinIs ==
  ASSUME NEW S, S \subseteq Nat, S # {}
  PROVE  Min(S) \in S /\ \A t \in S : Min(S) <= t
<1> DEFINE R == OpToRel(<, Nat)
<1>1. IsWellFoundedOn(R, Nat)
  BY NatLessThanWellFounded
<1>2. \A x, y \in Nat : x < y => <<x, y>> \in R
  BY DEF OpToRel
<1> HIDE DEF R
<1>3. PICK x \in S : \A y \in S : ~ (<<y, x>> \in R)
  BY <1>1, WFMin
<1>4. \A y \in S : x \in Nat /\ y \in Nat /\ ~ (y < x)
  BY <1>2, <1>3
<1>5. \A y \in S : x <= y
  BY <1>4
<1> QED
  BY <1>3, <1>5 DEF Min

LEMMA FewerIs ==
  ASSUME NEW A, NEW B, IsFiniteSet(B), A \subseteq B
  PROVE  /\ Cardinality(A) \in Nat /\ Cardinality(B) \in Nat
         /\ Cardinality(A) <= Cardinality(B)
         /\ A # B => Cardinality(A) < Cardinality(B)
<1>1. IsFiniteSet(A) /\ Cardinality(A) <= Cardinality(B) /\ (Cardinality(A) = Cardinality(B) => A = B)
  BY FS_Subset
<1>2. Cardinality(A) \in Nat /\ Cardinality(B) \in Nat
  BY <1>1, FS_CardinalityType
<1> QED
  BY <1>1, <1>2

(* If every member of S has its own number among the first Cardinality(S), *)
(* every number has its member.                                            *)
LEMMA NumbersAreTaken ==
  ASSUME NEW S, IsFiniteSet(S), NEW number \in [S -> 1..Cardinality(S)],
         \A s, t \in S : number[s] = number[t] => s = t
  PROVE  \A n \in 1..Cardinality(S) : \E s \in S : number[s] = n
<1> DEFINE N == Cardinality(S)
<1>1. N \in Nat
  BY FS_CardinalityType
<1>2. IsFiniteSet(1..N) /\ Cardinality(1..N) = N
  BY <1>1, FS_Interval
<1>3. number \in Injection(S, 1..N)
  BY DEF Injection, IsInjective
<1>4. number \in Surjection(S, 1..N)
  BY <1>2, <1>3, FS_Injection
<1> QED
  BY <1>4 DEF Surjection

(* A listing numbers the members of a finite set and has each of them once. *)
LEMMA NewestFirstIs ==
  ASSUME NEW S, S \subseteq Nat, IsFiniteSet(S)
  PROVE  /\ NewestFirst(S) \in Seq(S)
         /\ \A t \in S : \E n \in DOMAIN NewestFirst(S) : NewestFirst(S)[n] = t
<1> DEFINE newer(t) == {u \in S : u > t}
           N == Cardinality(S)
           number == [t \in S |-> Cardinality(newer(t)) + 1]
<1>1. ASSUME NEW t \in S PROVE Cardinality(newer(t)) \in Nat /\ number[t] \in 1..N /\ N \in Nat
  <2>1. newer(t) \subseteq S /\ newer(t) # S
    <3>1. ~ (t > t)
      OBVIOUS
    <3> QED
      BY <3>1
  <2> HIDE DEF newer
  <2>2. Cardinality(newer(t)) \in Nat /\ N \in Nat /\ Cardinality(newer(t)) < N
    BY <2>1, FewerIs
  <2>3. Cardinality(newer(t)) + 1 \in 1..N
    <3> HIDE DEF N
    <3> QED
      BY <2>2
  <2> QED
    BY <2>2, <2>3
<1>2. ASSUME NEW s \in S, NEW t \in S, s > t PROVE number[s] # number[t]
  <2>1. newer(s) \subseteq newer(t) /\ s \in newer(t) /\ s \notin newer(s) /\ newer(t) \subseteq S
    <3>1. s \in Nat /\ t \in Nat /\ \A u \in S : u \in Nat
      OBVIOUS
    <3>2. ~ (s > s) /\ \A u \in S : u > s => u > t
      BY <1>2, <3>1
    <3> QED
      BY <1>2, <3>2
  <2> HIDE DEF newer
  <2>2. Cardinality(newer(s)) < Cardinality(newer(t))
    <3>1. IsFiniteSet(newer(t))
      BY <2>1, FS_Subset
    <3> QED
      BY <2>1, <3>1, FewerIs
  <2> QED
    BY <1>1, <2>2
<1>3. \A s, t \in S : number[s] = number[t] => s = t
  <2> SUFFICES ASSUME NEW s \in S, NEW t \in S, s # t PROVE number[s] # number[t]
    OBVIOUS
  <2>1. s > t \/ t > s
    OBVIOUS
  <2> QED
    BY <1>2, <2>1
<1>4. number \in [S -> 1..N]
  BY <1>1
<1>5. \A n \in 1..N : \E s \in S : number[s] = n
  <2> HIDE DEF number
  <2> QED
    BY <1>3, <1>4, NumbersAreTaken
<1>6. \A t \in S : number[t] - 1 = Cardinality(newer(t)) /\ number[t] \in Nat
  BY <1>1
<1> DEFINE at(n) == CHOOSE t \in S : Cardinality(newer(t)) = n - 1
<1>7. NewestFirst(S) = [n \in 1..N |-> at(n)]
  BY DEF NewestFirst
<1> HIDE DEF newer, number
<1>8. ASSUME NEW n \in 1..N PROVE at(n) \in S /\ number[at(n)] = n
  <2>1. PICK s \in S : number[s] = n
    BY <1>5
  <2>2. Cardinality(newer(s)) = n - 1
    BY <1>6, <2>1
  <2> DEFINE a == at(n)
  <2>3. a \in S /\ Cardinality(newer(a)) = n - 1
    BY <2>2
  <2> HIDE DEF at, a
  <2>4. number[a] - 1 = n - 1 /\ number[a] \in Nat
    BY <1>6, <2>3
  <2>5. number[a] = n
    BY <2>4
  <2> QED
    BY <2>3, <2>5 DEF a
<1>9. ASSUME NEW t \in S PROVE number[t] \in 1..N /\ at(number[t]) = t
  <2>1. number[t] \in 1..N
    BY <1>1
  <2> HIDE DEF at
  <2> QED
    BY <1>3, <1>8, <2>1
<1> HIDE DEF at, N
<1>10. NewestFirst(S) \in Seq(S)
  <2>1. N \in Nat
    BY FS_CardinalityType DEF N
  <2>2. [n \in 1..N |-> at(n)] \in [1..N -> S]
    BY <1>8
  <2> QED
    BY <1>7, <2>1, <2>2
<1> QED
  BY <1>7, <1>9, <1>10

(* The same, the other way round. *)
LEMMA OldestFirstIs ==
  ASSUME NEW S, S \subseteq Nat, IsFiniteSet(S)
  PROVE  /\ OldestFirst(S) \in Seq(S)
         /\ \A t \in S : \E n \in DOMAIN OldestFirst(S) : OldestFirst(S)[n] = t
<1> DEFINE older(t) == {u \in S : u < t}
           N == Cardinality(S)
           number == [t \in S |-> Cardinality(older(t)) + 1]
<1>1. ASSUME NEW t \in S PROVE Cardinality(older(t)) \in Nat /\ number[t] \in 1..N /\ N \in Nat
  <2>1. older(t) \subseteq S /\ older(t) # S
    <3>1. ~ (t < t)
      OBVIOUS
    <3> QED
      BY <3>1
  <2> HIDE DEF older
  <2>2. Cardinality(older(t)) \in Nat /\ N \in Nat /\ Cardinality(older(t)) < N
    BY <2>1, FewerIs
  <2>3. Cardinality(older(t)) + 1 \in 1..N
    <3> HIDE DEF N
    <3> QED
      BY <2>2
  <2> QED
    BY <2>2, <2>3
<1>2. ASSUME NEW s \in S, NEW t \in S, s < t PROVE number[s] # number[t]
  <2>1. older(s) \subseteq older(t) /\ s \in older(t) /\ s \notin older(s) /\ older(t) \subseteq S
    <3>1. s \in Nat /\ t \in Nat /\ \A u \in S : u \in Nat
      OBVIOUS
    <3>2. ~ (s < s) /\ \A u \in S : u < s => u < t
      BY <1>2, <3>1
    <3> QED
      BY <1>2, <3>2
  <2> HIDE DEF older
  <2>2. Cardinality(older(s)) < Cardinality(older(t))
    <3>1. IsFiniteSet(older(t))
      BY <2>1, FS_Subset
    <3> QED
      BY <2>1, <3>1, FewerIs
  <2> QED
    BY <1>1, <2>2
<1>3. \A s, t \in S : number[s] = number[t] => s = t
  <2> SUFFICES ASSUME NEW s \in S, NEW t \in S, s # t PROVE number[s] # number[t]
    OBVIOUS
  <2>1. s < t \/ t < s
    OBVIOUS
  <2> QED
    BY <1>2, <2>1
<1>4. number \in [S -> 1..N]
  BY <1>1
<1>5. \A n \in 1..N : \E s \in S : number[s] = n
  <2> HIDE DEF number
  <2> QED
    BY <1>3, <1>4, NumbersAreTaken
<1>6. \A t \in S : number[t] - 1 = Cardinality(older(t)) /\ number[t] \in Nat
  BY <1>1
<1> DEFINE at(n) == CHOOSE t \in S : Cardinality(older(t)) = n - 1
<1>7. OldestFirst(S) = [n \in 1..N |-> at(n)]
  BY DEF OldestFirst
<1> HIDE DEF older, number
<1>8. ASSUME NEW n \in 1..N PROVE at(n) \in S /\ number[at(n)] = n
  <2>1. PICK s \in S : number[s] = n
    BY <1>5
  <2>2. Cardinality(older(s)) = n - 1
    BY <1>6, <2>1
  <2> DEFINE a == at(n)
  <2>3. a \in S /\ Cardinality(older(a)) = n - 1
    BY <2>2
  <2> HIDE DEF at, a
  <2>4. number[a] - 1 = n - 1 /\ number[a] \in Nat
    BY <1>6, <2>3
  <2>5. number[a] = n
    BY <2>4
  <2> QED
    BY <2>3, <2>5 DEF a
<1>9. ASSUME NEW t \in S PROVE number[t] \in 1..N /\ at(number[t]) = t
  <2>1. number[t] \in 1..N
    BY <1>1
  <2> HIDE DEF at
  <2> QED
    BY <1>3, <1>8, <2>1
<1> HIDE DEF at, N
<1>10. OldestFirst(S) \in Seq(S)
  <2>1. N \in Nat
    BY FS_CardinalityType DEF N
  <2>2. [n \in 1..N |-> at(n)] \in [1..N -> S]
    BY <1>8
  <2> QED
    BY <1>7, <2>1, <2>2
<1> QED
  BY <1>7, <1>9, <1>10

(* A page is the newest of what there is: the rest is older than all of it. *)
LEMMA NewestOfIs ==
  ASSUME NEW S, S \subseteq Nat, IsFiniteSet(S)
  PROVE  /\ NewestOf(S) \subseteq S
         /\ \A t \in S \ NewestOf(S) : \A u \in NewestOf(S) : t < u
<1> DEFINE newer(t) == {u \in S : u > t}
<1>1. NewestOf(S) = {t \in S : Cardinality(newer(t)) < PageSize}
  BY DEF NewestOf
<1>2. ASSUME NEW t \in S \ NewestOf(S), NEW u \in NewestOf(S) PROVE ~ (u < t)
  <2> SUFFICES ASSUME u < t PROVE FALSE
    OBVIOUS
  <2>1. newer(t) \subseteq newer(u) /\ newer(u) \subseteq S
    <3>1. u \in Nat /\ t \in Nat /\ \A s \in S : s \in Nat
      BY <1>1
    <3>2. \A s \in S : s > t => s > u
      BY <3>1
    <3> QED
      BY <3>2
  <2> HIDE DEF newer
  <2>2. /\ Cardinality(newer(t)) \in Nat /\ Cardinality(newer(u)) \in Nat
        /\ Cardinality(newer(t)) <= Cardinality(newer(u))
    <3>1. IsFiniteSet(newer(u))
      BY <2>1, FS_Subset
    <3> QED
      BY <2>1, <3>1, FewerIs
  <2>3. Cardinality(newer(u)) < PageSize /\ ~ (Cardinality(newer(t)) < PageSize) /\ PageSize \in Nat
    BY <1>1, SyncAssumption
  <2> QED
    BY <2>2, <2>3
<1>3. NewestOf(S) \subseteq S
  BY <1>1
<1>4. ASSUME NEW t \in S \ NewestOf(S), NEW u \in NewestOf(S) PROVE t < u
  <2>1. t \in Nat /\ u \in Nat /\ t # u /\ ~ (u < t)
    BY <1>2, <1>3
  <2> QED
    BY <2>1
<1> QED
  BY <1>3, <1>4

-----------------------------------------------------------------------------
Message == [ts : Nat, replied : BOOLEAN]

(* A sync under way. *)
Syncs == [pc : {"idle", "fetch", "page", "threads", "thread"}, oldest : Nat, latest : Nat,
          before : Nat, batch : Seq(Message), more : BOOLEAN, roots : SUBSET Nat,
          thread : Nat, threadLatest : Nat, since : Nat]

Batch(j) == {j.batch[n] : n \in DOMAIN j.batch}

(* What it will still ask the history of the channel for. *)
Asks(j, t) ==
  /\ j.pc = "fetch" \/ (j.pc = "page" /\ j.more)
  /\ j.oldest < t /\ t < j.before

TypeInv ==
  /\ clock \in Nat /\ clock <= MaxTs
  /\ root \in [Ts -> Nat]
  /\ DOMAIN captured \subseteq Posted /\ \A t \in DOMAIN captured : captured[t] \in BOOLEAN
  /\ cursor \in Nat /\ cursor <= clock
  /\ threadCursor \in [Ts -> Nat] /\ \A t \in Ts : threadCursor[t] <= clock
  /\ job \in [Worker -> Syncs]

(* Replies are to top-level messages older than they are. *)
RootsInv ==
  \A t \in Posted : root[t] # 0 => root[t] \in Posted /\ root[t] < t /\ root[root[t]] = 0

CursorsInv ==
  /\ \A t \in Posted : root[t] = 0 /\ t <= cursor => t \in Captured
  /\ \A t, r \in Posted : root[r] = t /\ r <= threadCursor[t] => r \in Captured

(* Nothing a sync has seen, or remembers, is newer than the newest message. *)
SeenInv(j) ==
  /\ j.oldest <= clock /\ j.latest <= clock /\ j.since <= clock /\ j.threadLatest <= clock
  /\ j.roots \subseteq Posted
  /\ j.pc = "thread" => j.thread \in Posted
  /\ \A m \in Batch(j) : m.ts \in Posted

(* Each top-level message up to the newest the sync has seen is captured, or it is
   in the page being read, or in one to come. *)
Passed(j, t) ==
  t <= j.latest \/ t <= j.since \/ (j.pc = "page" /\ \E m \in Batch(j) : t <= m.ts)

InPage(j, t) == j.pc = "page" /\ \E m \in Batch(j) : m.ts = t

HistoryInv(j) ==
  \A t \in Posted : root[t] = 0 =>
    /\ t <= j.oldest => t \in Captured
    /\ Passed(j, t) => t \in Captured \/ Asks(j, t) \/ InPage(j, t)

(* Each reply up to the newest seen of the thread being read is captured or at hand. *)
ThreadInv(j) ==
  j.pc = "thread" =>
    \A r \in Posted : root[r] = j.thread /\ (r <= j.threadLatest \/ \E m \in Batch(j) : r <= m.ts) =>
      r \in Captured \/ \E m \in Batch(j) : m.ts = r

(* A reply there was when the sync began is captured, or its root was captured
   without replies, or the sync has its thread still to read. *)
RepliesInv(j) ==
  \A r \in Posted : r <= j.since /\ root[r] # 0 =>
    \/ r \in Captured
    \/ root[r] \in Captured /\ ~ captured[root[r]]
    \/ root[r] \in j.roots
    \/ Asks(j, root[r])
    \/ j.pc = "page" /\ \E m \in Batch(j) : m.ts = root[r] /\ m.replied
    \/ j.pc = "thread" /\ j.thread = root[r] /\ \E m \in Batch(j) : m.ts = r

JobInv(j) ==
  j.pc # "idle" => SeenInv(j) /\ HistoryInv(j) /\ ThreadInv(j) /\ RepliesInv(j)

JobsInv == \A w \in Worker : JobInv(job[w])

IInv == TypeInv /\ RootsInv /\ CursorsInv /\ JobsInv

-----------------------------------------------------------------------------
LEMMA SyncIs ==
  ASSUME NEW j \in Syncs
  PROVE  /\ j.pc \in {"idle", "fetch", "page", "threads", "thread"}
         /\ j.oldest \in Nat /\ j.latest \in Nat /\ j.before \in Nat /\ j.since \in Nat
         /\ j.batch \in Seq(Message) /\ j.more \in BOOLEAN /\ j.roots \subseteq Nat
         /\ j.thread \in Nat /\ j.threadLatest \in Nat
         /\ \A m \in Batch(j) : m \in Message /\ m.ts \in Nat /\ m.replied \in BOOLEAN
<1>1. /\ j.pc \in {"idle", "fetch", "page", "threads", "thread"}
      /\ j.oldest \in Nat /\ j.latest \in Nat /\ j.before \in Nat /\ j.since \in Nat
      /\ j.batch \in Seq(Message) /\ j.more \in BOOLEAN /\ j.roots \subseteq Nat
      /\ j.thread \in Nat /\ j.threadLatest \in Nat
  BY DEF Syncs
<1>2. \A m \in Batch(j) : m \in Message
  BY <1>1 DEF Batch
<1>3. \A m \in Message : m.ts \in Nat /\ m.replied \in BOOLEAN
  BY DEF Message
<1> QED
  BY <1>1, <1>2, <1>3

(* Reading the next message of a batch leaves the others. *)
LEMMA BatchIs ==
  ASSUME NEW s \in Seq(Message), s # <<>>
  PROVE  /\ Head(s) \in Message /\ Tail(s) \in Seq(Message)
         /\ {s[n] : n \in DOMAIN s} = {Head(s)} \cup {Tail(s)[n] : n \in DOMAIN Tail(s)}
<1>1. /\ Head(s) \in Message /\ Tail(s) \in Seq(Message) /\ Head(s) = s[1]
      /\ Len(s) \in Nat /\ Len(s) # 0 /\ Len(Tail(s)) = Len(s) - 1
      /\ DOMAIN s = 1..Len(s) /\ DOMAIN Tail(s) = 1..Len(Tail(s))
      /\ \A n \in 1..Len(Tail(s)) : Tail(s)[n] = s[n + 1]
  OBVIOUS
<1>2. ASSUME NEW n \in DOMAIN s
      PROVE  s[n] = Head(s) \/ \E i \in DOMAIN Tail(s) : s[n] = Tail(s)[i]
  <2>1. CASE n = 1
    BY <1>1, <2>1
  <2>2. CASE n # 1
    <3>1. n - 1 \in 1..Len(Tail(s)) /\ (n - 1) + 1 = n
      BY <1>1, <2>2
    <3>2. s[n] = Tail(s)[n - 1]
      BY <1>1, <3>1
    <3> QED
      BY <1>1, <3>1, <3>2
  <2> QED
    BY <2>1, <2>2
<1>3. ASSUME NEW i \in DOMAIN Tail(s)
      PROVE  \E n \in DOMAIN s : s[n] = Tail(s)[i]
  <2>1. i + 1 \in DOMAIN s /\ s[i + 1] = Tail(s)[i]
    BY <1>1
  <2> QED
    BY <2>1
<1>4. 1 \in DOMAIN s /\ s[1] = Head(s)
  BY <1>1
<1> DEFINE rest == Tail(s)
           first == Head(s)
<1> HIDE DEF rest, first
<1>5. {s[n] : n \in DOMAIN s} = {first} \cup {rest[n] : n \in DOMAIN rest}
  BY <1>2, <1>3, <1>4 DEF rest, first
<1> QED
  BY <1>1, <1>5 DEF rest, first

(* What a worker has left does not depend on what others capture, or post. *)
LEMMA OthersKeep ==
  ASSUME IInv, UNCHANGED slack,
         \A t \in Captured : t \in Captured' /\ captured'[t] = captured[t],
         NEW w \in Worker, job'[w] = job[w]
  PROVE  JobInv(job[w])'
<1> SUFFICES ASSUME job[w].pc # "idle"
             PROVE  (SeenInv(job[w]) /\ HistoryInv(job[w]) /\ ThreadInv(job[w]) /\ RepliesInv(job[w]))'
  BY DEF JobInv
<1>1. SeenInv(job[w]) /\ HistoryInv(job[w]) /\ ThreadInv(job[w]) /\ RepliesInv(job[w])
  BY DEF IInv, JobsInv, JobInv
<1>2. clock' = clock /\ root' = root
  BY DEF slack
<1>3. SeenInv(job[w])'
  BY <1>1, <1>2 DEF SeenInv, Batch, Posted
<1>4. HistoryInv(job[w])'
  BY <1>1, <1>2 DEF HistoryInv, Passed, InPage, Asks, Batch, Posted
<1>5. ThreadInv(job[w])'
  BY <1>1, <1>2 DEF ThreadInv, Batch, Posted
<1>6. RepliesInv(job[w])'
  BY <1>1, <1>2 DEF RepliesInv, Asks, Batch, Posted
<1> QED
  BY <1>3, <1>4, <1>5, <1>6

LEMMA JobsKept ==
  ASSUME IInv, UNCHANGED slack,
         \A t \in Captured : t \in Captured' /\ captured'[t] = captured[t],
         NEW w \in Worker, \A v \in Worker \ {w} : job'[v] = job[v], JobInv(job[w])'
  PROVE  JobsInv'
<1> SUFFICES ASSUME NEW v \in Worker PROVE JobInv(job[v])'
  BY DEF JobsInv
<1> QED
  BY OthersKeep

-----------------------------------------------------------------------------
LEMMA InitInv == Init => IInv
<1> SUFFICES ASSUME Init PROVE IInv
  OBVIOUS
<1>1. Idle \in Syncs
  BY DEF Idle, Syncs
<1>2. TypeInv
  BY <1>1, SyncAssumption DEF Init, TypeInv, Posted, Ts
<1>3. RootsInv /\ CursorsInv
  BY DEF Init, RootsInv, CursorsInv, Posted
<1>4. JobsInv
  BY DEF Init, JobsInv, JobInv, Idle
<1> QED
  BY <1>2, <1>3, <1>4 DEF IInv

(* A new message is newer than everything seen or remembered. *)
LEMMA PostStep == ASSUME IInv, NEW r \in 0..MaxTs, Post(r) PROVE IInv'
<1> DEFINE new == clock + 1
<1>1. /\ clock \in Nat /\ clock < MaxTs /\ clock' = new /\ new \in Ts
      /\ root' = [root EXCEPT ![new] = r] /\ root \in [Ts -> Nat] /\ r \in Nat
      /\ UNCHANGED <<captured, cursor, threadCursor, job>>
  BY SyncAssumption DEF IInv, TypeInv, Post, state, Ts
<1>2. Posted' = Posted \cup {new} /\ new \notin Posted /\ Posted \subseteq Ts
  <2>1. Posted = 1..clock /\ Posted' = 1..(clock + 1) /\ Ts = 1..MaxTs
    BY <1>1 DEF Posted, Ts
  <2>2. \A n \in Int : n \in 1..(clock + 1) <=> n \in 1..clock \/ n = clock + 1
    BY <1>1
  <2>3. 1..clock \subseteq 1..MaxTs /\ clock + 1 \notin 1..clock
    BY <1>1, SyncAssumption
  <2> QED
    BY <1>1, <2>1, <2>2, <2>3
<1>3. root'[new] = r /\ \A t \in Posted : root'[t] = root[t] /\ t \in Nat /\ t < new
  BY <1>1, <1>2 DEF Posted
<1>4. r = 0 \/ (r \in Posted /\ root[r] = 0)
  BY DEF Post, TopLevel
<1>5. TypeInv'
  <2>1. root' \in [Ts -> Nat]
    BY <1>1
  <2>2. clock' \in Nat /\ clock' <= MaxTs /\ \A n \in Nat : n <= clock => n <= clock'
    BY <1>1, SyncAssumption
  <2> QED
    BY <1>1, <1>2, <2>1, <2>2 DEF IInv, TypeInv
<1>6. RootsInv'
  <2>1. ASSUME NEW t \in Posted', root'[t] # 0
        PROVE  root'[t] \in Posted' /\ root'[t] < t /\ root'[root'[t]] = 0
    <3>1. CASE t = new
      BY <1>2, <1>3, <1>4, <2>1, <3>1
    <3>2. CASE t # new
      BY <1>2, <1>3, <2>1, <3>2 DEF IInv, RootsInv
    <3> QED
      BY <3>1, <3>2
  <2> QED
    BY <2>1 DEF RootsInv
<1>7. CursorsInv'
  <2>1. cursor < new /\ \A t \in Ts : threadCursor[t] < new
    BY <1>1 DEF IInv, TypeInv
  <2>2. ASSUME NEW t \in Posted', root'[t] = 0, t <= cursor PROVE t \in Captured
    <3>1. t \in Posted
      BY <1>1, <1>2, <2>1, <2>2 DEF IInv, TypeInv
    <3> QED
      BY <1>3, <2>2, <3>1 DEF IInv, CursorsInv
  <2>3. ASSUME NEW t \in Posted', NEW q \in Posted', root'[q] = t, q <= threadCursor[t]
        PROVE  q \in Captured
    <3>1. q # new
      BY <1>1, <1>2, <2>1, <2>3 DEF IInv, TypeInv
    <3>2. q \in Posted /\ root[q] = t
      BY <1>2, <1>3, <2>3, <3>1
    <3>3. t \in Posted
      <4>1. t # 0
        BY <1>1, <1>2, <2>3 DEF Posted
      <4> QED
        BY <3>2, <4>1 DEF IInv, RootsInv
    <3> QED
      BY <2>3, <3>2, <3>3 DEF IInv, CursorsInv
  <2> QED
    BY <1>1, <2>2, <2>3 DEF CursorsInv, Captured
<1>8. ASSUME NEW w \in Worker, job[w].pc # "idle"
      PROVE  (SeenInv(job[w]) /\ HistoryInv(job[w]) /\ ThreadInv(job[w]) /\ RepliesInv(job[w]))'
  <2> DEFINE j == job[w]
  <2>1. SeenInv(j) /\ HistoryInv(j) /\ ThreadInv(j) /\ RepliesInv(j)
    BY <1>8 DEF IInv, JobsInv, JobInv
  <2>2. j' = j
    BY <1>1
  <2>3. j \in Syncs
    BY DEF IInv, TypeInv
  <2>4. /\ j.oldest < new /\ j.latest < new /\ j.since < new /\ j.threadLatest < new
        /\ \A m \in Batch(j) : m.ts < new /\ m.ts \in Posted
    <3>1. /\ j.oldest <= clock /\ j.latest <= clock /\ j.since <= clock /\ j.threadLatest <= clock
          /\ \A m \in Batch(j) : m.ts \in Posted
      BY <2>1 DEF SeenInv
    <3> HIDE DEF j
    <3> QED
      BY <1>1, <1>3, <2>3, <3>1, SyncIs
  <2>5. SeenInv(j)'
    <3>1. \A n \in Nat : n <= clock => n <= clock'
      BY <1>1
    <3> QED
      BY <1>2, <2>1, <2>2, <2>3, <3>1, SyncIs DEF SeenInv, Batch
  <2>6. HistoryInv(j)'
    <3>1. ASSUME NEW t \in Posted', root'[t] = 0, t <= j.oldest \/ Passed(j, t) PROVE t \in Posted
      <4>1. t # new
        BY <1>1, <2>3, <2>4, <3>1, SyncIs DEF Passed
      <4> QED
        BY <1>2, <4>1
    <3> QED
      BY <1>1, <1>3, <2>1, <2>2, <3>1 DEF HistoryInv, Passed, InPage, Asks, Batch, Captured
  <2>7. ThreadInv(j)'
    <3>1. ASSUME NEW t \in Posted', t <= j.threadLatest \/ \E m \in Batch(j) : t <= m.ts
          PROVE  t \in Posted
      <4>1. t # new
        BY <1>1, <2>3, <2>4, <3>1, SyncIs
      <4> QED
        BY <1>2, <4>1
    <3> QED
      BY <1>1, <1>3, <2>1, <2>2, <3>1 DEF ThreadInv, Batch, Captured
  <2>8. RepliesInv(j)'
    <3>1. ASSUME NEW t \in Posted', t <= j.since PROVE t \in Posted
      <4>1. t # new
        BY <1>1, <2>3, <2>4, <3>1, SyncIs
      <4> QED
        BY <1>2, <4>1
    <3> QED
      BY <1>1, <1>3, <2>1, <2>2, <3>1 DEF RepliesInv, Asks, Batch, Captured
  <2> QED
    BY <2>5, <2>6, <2>7, <2>8
<1>9. JobsInv'
  BY <1>1, <1>8 DEF JobsInv, JobInv
<1> QED
  BY <1>5, <1>6, <1>7, <1>9 DEF IInv

-----------------------------------------------------------------------------
(* A step of one worker that moves no cursor. *)
LEMMA WorkerStep ==
  ASSUME IInv, NEW w \in Worker, UNCHANGED <<slack, cursor, threadCursor>>,
         DOMAIN captured' \subseteq Posted, \A t \in DOMAIN captured' : captured'[t] \in BOOLEAN,
         \A t \in Captured : t \in Captured' /\ captured'[t] = captured[t],
         job' \in [Worker -> Syncs], \A v \in Worker \ {w} : job'[v] = job[v], JobInv(job[w])'
  PROVE  IInv'
<1>1. clock' = clock /\ root' = root /\ Posted' = Posted
  BY DEF slack, Posted
<1>2. TypeInv' /\ RootsInv' /\ CursorsInv'
  BY <1>1 DEF IInv, TypeInv, RootsInv, CursorsInv
<1> QED
  BY <1>2, JobsKept DEF IInv

LEMMA StartSyncStep == ASSUME IInv, NEW w \in Worker, StartSync(w) PROVE IInv'
<1> DEFINE j == job[w]
<1>1. job' = [job EXCEPT ![w] =
                [Idle EXCEPT !.pc = "fetch", !.oldest = cursor, !.latest = cursor,
                             !.before = MaxTs + 1, !.roots = KnownRoots, !.since = clock]]
      /\ UNCHANGED <<slack, captured, cursor, threadCursor>>
  BY DEF StartSync, state
<1>2. /\ clock \in Nat /\ clock <= MaxTs /\ cursor \in Nat /\ cursor <= clock /\ MaxTs \in Nat
      /\ Captured \subseteq Posted /\ KnownRoots \subseteq Posted /\ Posted \subseteq Nat
      /\ \A t \in Posted : t <= clock /\ t < MaxTs + 1
  BY SyncAssumption DEF IInv, TypeInv, KnownRoots, Captured, Posted
<1>3. j' = [pc |-> "fetch", oldest |-> cursor, latest |-> cursor, before |-> MaxTs + 1,
            batch |-> <<>>, more |-> FALSE, roots |-> KnownRoots, thread |-> 0,
            threadLatest |-> 0, since |-> clock]
  BY <1>1 DEF IInv, TypeInv, Idle
<1>4. job' \in [Worker -> Syncs] /\ \A v \in Worker \ {w} : job'[v] = job[v]
  <2>1. j' \in Syncs
    BY <1>2, <1>3 DEF Syncs
  <2> QED
    BY <1>1, <2>1 DEF IInv, TypeInv
<1>5. Batch(j)' = {}
  BY <1>3 DEF Batch
<1>6. clock' = clock /\ root' = root /\ Posted' = Posted /\ Captured' = Captured /\ captured' = captured
  BY <1>1 DEF slack, Posted, Captured
<1> HIDE DEF j
<1>7. SeenInv(j)'
  <2>1. /\ j'.oldest = cursor /\ j'.latest = cursor /\ j'.since = clock /\ j'.threadLatest = 0
        /\ j'.roots = KnownRoots /\ j'.pc = "fetch"
    BY <1>3
  <2>2. clock <= clock /\ 0 <= clock
    BY <1>2
  <2> QED
    BY <1>2, <1>5, <1>6, <2>1, <2>2 DEF SeenInv
<1>8. HistoryInv(j)'
  <2>1. ASSUME NEW t \in Posted, root[t] = 0 PROVE t \in Captured \/ Asks(j, t)'
    <3>1. t <= cursor => t \in Captured
      BY <2>1 DEF IInv, CursorsInv
    <3>2. ~ (t <= cursor) => cursor < t /\ t < MaxTs + 1
      BY <1>2
    <3> QED
      BY <1>3, <3>1, <3>2 DEF Asks
  <2>2. ASSUME NEW t \in Posted, root[t] = 0, t <= cursor PROVE t \in Captured
    BY <2>2 DEF IInv, CursorsInv
  <2> QED
    BY <1>3, <1>6, <2>1, <2>2 DEF HistoryInv
<1>9. ThreadInv(j)'
  BY <1>3 DEF ThreadInv
<1>10. RepliesInv(j)'
  <2> SUFFICES ASSUME NEW r \in Posted, root[r] # 0
               PROVE  \/ root[r] \in Captured /\ ~ captured[root[r]]
                      \/ root[r] \in KnownRoots
                      \/ Asks(j, root[r])'
    BY <1>3, <1>6 DEF RepliesInv
  <2>1. root[r] \in Posted /\ root[root[r]] = 0
    BY DEF IInv, RootsInv
  <2>2. CASE root[r] \in Captured
    BY <2>1, <2>2 DEF KnownRoots
  <2>3. CASE root[r] \notin Captured
    <3>1. ~ (root[r] <= cursor)
      BY <2>1, <2>3 DEF IInv, CursorsInv
    <3> DEFINE q == root[r]
    <3>2. q \in Nat /\ q < MaxTs + 1 /\ ~ (q <= cursor)
      BY <1>2, <2>1, <3>1
    <3> HIDE DEF q
    <3>3. cursor < q
      BY <1>2, <3>2
    <3>4. cursor < root[r] /\ root[r] < MaxTs + 1
      BY <3>2, <3>3 DEF q
    <3> QED
      BY <1>3, <1>6, <3>4 DEF Asks
  <2> QED
    BY <2>2, <2>3
<1>11. JobInv(job[w])'
  BY <1>7, <1>8, <1>9, <1>10 DEF JobInv, j
<1> QED
  BY <1>1, <1>4, <1>6, <1>11, WorkerStep DEF IInv, TypeInv

LEMMA HistoryIs ==
  ASSUME IInv, NEW oldest \in Nat, NEW before \in Nat
  PROVE  /\ History(oldest, before) \subseteq Posted /\ Posted \subseteq Nat
         /\ IsFiniteSet(Posted) /\ IsFiniteSet(History(oldest, before))
         /\ \A t \in Posted : t \in History(oldest, before) <=>
              root[t] = 0 /\ oldest < t /\ t < before
<1>1. clock \in Nat /\ Posted \subseteq Nat /\ IsFiniteSet(Posted)
  BY FS_Interval DEF IInv, TypeInv, Posted
<1>2. History(oldest, before) \subseteq Posted
  BY DEF History, TopLevel
<1> QED
  BY <1>1, <1>2, FS_Subset DEF History, TopLevel

LEMMA FetchPageStep == ASSUME IInv, NEW w \in Worker, FetchPage(w) PROVE IInv'
<1> DEFINE j == job[w]
           all == History(j.oldest, j.before)
           page == NewestOf(all)
           list == NewestFirst(page)
           batch == [n \in DOMAIN list |-> [ts |-> list[n], replied |-> RepliesTo(list[n]) # {}]]
           before == IF page = {} THEN j.before ELSE Min(page)
           more == page # all
<1>1. /\ job' = [job EXCEPT ![w].pc = "page", ![w].batch = batch, ![w].before = before, ![w].more = more]
      /\ UNCHANGED <<slack, captured, cursor, threadCursor>> /\ j.pc = "fetch"
  BY DEF FetchPage, state
<1>2. j \in Syncs
  BY DEF IInv, TypeInv
<1>3. /\ all \subseteq Posted /\ Posted \subseteq Nat /\ IsFiniteSet(all)
      /\ \A t \in Posted : t \in all <=> root[t] = 0 /\ j.oldest < t /\ t < j.before
  <2> HIDE DEF j
  <2> QED
    BY <1>2, SyncIs, HistoryIs
<1>4. page \subseteq all /\ IsFiniteSet(page) /\ \A t \in all \ page : \A u \in page : t < u
  <2> HIDE DEF all
  <2>1. page \subseteq all /\ \A t \in all \ page : \A u \in page : t < u
    BY <1>3, NewestOfIs
  <2> QED
    BY <1>3, <2>1, FS_Subset
<1>5. list \in Seq(page) /\ \A t \in page : \E n \in DOMAIN list : list[n] = t
  <2> HIDE DEF page
  <2>1. page \subseteq Nat
    BY <1>3, <1>4
  <2> QED
    BY <1>4, <2>1, NewestFirstIs
<1>6. before \in Nat /\ \A t \in all \ page : t < before
  <2> HIDE DEF page, all
  <2>1. CASE page = {}
    BY <1>2, <1>3, <2>1, SyncIs
  <2>2. CASE page # {}
    <3>1. page \subseteq Nat
      BY <1>3, <1>4
    <3>2. Min(page) \in page
      BY <2>2, <3>1, MinIs
    <3> QED
      BY <1>4, <2>2, <3>1, <3>2
  <2> QED
    BY <2>1, <2>2
<1> HIDE DEF all, page, list, before
<1>7. /\ batch \in Seq(Message)
      /\ {batch[n] : n \in DOMAIN batch} = {[ts |-> t, replied |-> RepliesTo(t) # {}] : t \in page}
  <2>1. DOMAIN list = 1..Len(list) /\ Len(list) \in Nat
        /\ \A n \in 1..Len(list) : list[n] \in page /\ list[n] \in Nat
    <3>1. DOMAIN list = 1..Len(list) /\ Len(list) \in Nat /\ \A n \in 1..Len(list) : list[n] \in page
      BY <1>5
    <3> QED
      BY <1>3, <1>4, <3>1
  <2>2. batch \in [1..Len(list) -> Message]
    BY <2>1 DEF Message
  <2>3. batch \in Seq(Message)
    BY <2>1, <2>2
  <2> DEFINE message(t) == [ts |-> t, replied |-> RepliesTo(t) # {}]
  <2>4. \A t \in page : \E n \in DOMAIN batch : batch[n] = message(t)
    BY <1>5
  <2>5. \A n \in DOMAIN batch : batch[n] = message(list[n]) /\ list[n] \in page
    BY <2>1
  <2> HIDE DEF message, batch
  <2>6. {batch[n] : n \in DOMAIN batch} = {message(t) : t \in page}
    BY <2>4, <2>5
  <2> QED
    BY <2>3, <2>6 DEF message
<1> HIDE DEF batch, more
<1>8. j' = [pc |-> "page", oldest |-> j.oldest, latest |-> j.latest, before |-> before,
            batch |-> batch, more |-> more, roots |-> j.roots, thread |-> j.thread,
            threadLatest |-> j.threadLatest, since |-> j.since]
  BY <1>1, <1>2 DEF IInv, TypeInv, Syncs
<1> HIDE DEF j
<1>9. job' \in [Worker -> Syncs] /\ \A v \in Worker \ {w} : job'[v] = job[v]
  <2>1. j' \in Syncs
    <3>1. more \in BOOLEAN
      BY DEF more
    <3> QED
      BY <1>2, <1>6, <1>7, <1>8, <3>1, SyncIs DEF Syncs
  <2> QED
    BY <1>1, <2>1 DEF IInv, TypeInv, j
<1>10. clock' = clock /\ root' = root /\ Posted' = Posted /\ Captured' = Captured /\ captured' = captured
  BY <1>1 DEF slack, Posted, Captured
<1>11. /\ \A m \in Batch(j)' : m.ts \in page /\ (m.replied <=> RepliesTo(m.ts) # {})
       /\ \A t \in page : \E m \in Batch(j)' : m.ts = t /\ (m.replied <=> RepliesTo(t) # {})
  <2> DEFINE message(t) == [ts |-> t, replied |-> RepliesTo(t) # {}]
  <2>1. Batch(j)' = {message(t) : t \in page}
    BY <1>7, <1>8 DEF Batch
  <2>2. \A t \in page : message(t).ts = t /\ (message(t).replied <=> RepliesTo(t) # {})
    OBVIOUS
  <2> HIDE DEF message
  <2> QED
    BY <2>1, <2>2
<1>12. SeenInv(j) /\ HistoryInv(j) /\ RepliesInv(j)
  BY <1>1 DEF IInv, JobsInv, JobInv, j
(* What the sync would have asked for is in the page or in one to come. *)
<1>13. ASSUME NEW t \in all PROVE InPage(j, t)' \/ Asks(j, t)'
  <2>1. CASE t \in page
    BY <1>8, <1>11, <2>1 DEF InPage
  <2>2. CASE t \notin page
    BY <1>3, <1>6, <1>8, <2>2 DEF Asks, more
  <2> QED
    BY <2>1, <2>2
<1>14. \A t \in Posted : root[t] = 0 /\ Asks(j, t) => t \in all
  BY <1>3 DEF Asks
<1>15. SeenInv(j)'
  BY <1>3, <1>4, <1>8, <1>10, <1>11, <1>12 DEF SeenInv
<1>16. HistoryInv(j)'
  <2>1. ASSUME NEW t \in Posted, root[t] = 0, Passed(j, t)'
        PROVE  t \in Captured \/ Asks(j, t)' \/ InPage(j, t)'
    <3>1. CASE t <= j.latest \/ t <= j.since
      BY <1>1, <1>12, <1>13, <1>14, <2>1, <3>1 DEF HistoryInv, Passed, InPage, j
    <3>2. CASE \E m \in Batch(j)' : t <= m.ts
      <4>1. PICK u \in page : t <= u
        BY <1>11, <3>2
      <4>2. u \in Nat /\ t \in Nat /\ u < j.before /\ j.before \in Nat /\ j.oldest \in Nat
        BY <1>2, <1>3, <1>4, SyncIs
      <4>3. t < j.before
        BY <4>1, <4>2
      <4>4. CASE t <= j.oldest
        BY <1>12, <2>1, <4>4 DEF HistoryInv
      <4>5. CASE ~ (t <= j.oldest)
        <5>1. t \in all
          BY <1>3, <2>1, <4>2, <4>3, <4>5
        <5> QED
          BY <1>13, <5>1
      <4> QED
        BY <4>4, <4>5
    <3> QED
      BY <1>8, <2>1, <3>1, <3>2 DEF Passed
  <2> QED
    BY <1>8, <1>10, <1>12, <2>1 DEF HistoryInv
<1>17. ThreadInv(j)'
  BY <1>8 DEF ThreadInv
<1>18. RepliesInv(j)'
  <2> SUFFICES ASSUME NEW r \in Posted, r <= j.since, root[r] # 0
               PROVE  \/ r \in Captured
                      \/ root[r] \in Captured /\ ~ captured[root[r]]
                      \/ root[r] \in j.roots
                      \/ Asks(j, root[r])'
                      \/ \E m \in Batch(j)' : m.ts = root[r] /\ m.replied
    BY <1>8, <1>10 DEF RepliesInv
  <2>1. CASE Asks(j, root[r])
    <3>1. root[r] \in Posted /\ root[root[r]] = 0
      BY DEF IInv, RootsInv
    <3>2. root[r] \in all
      BY <1>14, <2>1, <3>1
    <3>3. RepliesTo(root[r]) # {}
      BY DEF RepliesTo
    <3>4. CASE root[r] \in page
      BY <1>11, <3>3, <3>4
    <3>5. CASE root[r] \notin page
      BY <1>3, <1>6, <1>8, <1>10, <3>2, <3>5 DEF Asks, more
    <3> QED
      BY <3>4, <3>5
  <2>2. CASE ~ Asks(j, root[r])
    BY <1>1, <1>12, <2>2 DEF RepliesInv, j
  <2> QED
    BY <2>1, <2>2
<1>19. JobInv(job[w])'
  BY <1>15, <1>16, <1>17, <1>18 DEF JobInv, j
<1> QED
  BY <1>1, <1>9, <1>10, <1>19, WorkerStep DEF IInv, TypeInv

(* Ingest keeps what is captured, and how. *)
LEMMA IngestIs ==
  ASSUME NEW m \in Message, Ingest(m)
  PROVE  /\ Captured' = Captured \cup {m.ts}
         /\ \A t \in Captured : captured'[t] = captured[t]
         /\ m.ts \notin Captured => captured'[m.ts] = m.replied
BY DEF Ingest, Captured

LEMMA IngestMessageStep == ASSUME IInv, NEW w \in Worker, IngestMessage(w) PROVE IInv'
<1> DEFINE j == job[w]
           m == Head(j.batch)
           latest == Larger(j.latest, m.ts)
           roots == j.roots \cup ThreadRoot(m)
<1>1. /\ Ingest(m)
      /\ job' = [job EXCEPT ![w].batch = Tail(j.batch), ![w].latest = latest, ![w].roots = roots]
      /\ UNCHANGED <<slack, cursor, threadCursor>> /\ j.pc = "page" /\ j.batch # <<>>
  BY DEF IngestMessage
<1>2. j \in Syncs
  BY DEF IInv, TypeInv
<1>3. /\ m \in Message /\ Tail(j.batch) \in Seq(Message)
      /\ Batch(j) = {m} \cup {Tail(j.batch)[n] : n \in DOMAIN Tail(j.batch)}
  <2> DEFINE s == j.batch
  <2>1. s \in Seq(Message) /\ s # <<>> /\ Batch(j) = {s[n] : n \in DOMAIN s}
    BY <1>1, <1>2 DEF Syncs, Batch
  <2> HIDE DEF s
  <2>2. /\ Head(s) \in Message /\ Tail(s) \in Seq(Message)
        /\ Batch(j) = {Head(s)} \cup {Tail(s)[n] : n \in DOMAIN Tail(s)}
    BY <2>1, BatchIs
  <2> QED
    BY <2>2 DEF s
<1>4. /\ SeenInv(j) /\ HistoryInv(j) /\ RepliesInv(j)
      /\ Posted \subseteq Nat
  BY <1>1 DEF IInv, JobsInv, JobInv, Posted
<1> DEFINE rest == Tail(j.batch)
<1>5. j' = [pc |-> "page", oldest |-> j.oldest, latest |-> latest, before |-> j.before,
            batch |-> rest, more |-> j.more, roots |-> roots, thread |-> j.thread,
            threadLatest |-> j.threadLatest, since |-> j.since]
  BY <1>1, <1>2 DEF IInv, TypeInv, Syncs
<1>6. /\ m.ts \in Posted /\ m.ts \in Nat /\ m.replied \in BOOLEAN
      /\ ThreadRoot(m) = IF m.replied THEN {m.ts} ELSE {}
  BY <1>3, <1>4 DEF SeenInv, Message, ThreadRoot
<1>7. /\ latest \in Nat /\ latest <= clock /\ clock \in Nat
      /\ \A t \in Nat : t <= latest <=> t <= j.latest \/ t <= m.ts
  <2>1. j.latest \in Nat /\ j.latest <= clock /\ clock \in Nat /\ m.ts \in Nat /\ m.ts <= clock
    <3> HIDE DEF j, m
    <3> QED
      BY <1>2, <1>4, <1>6, SyncIs DEF SeenInv, Posted, IInv, TypeInv
  <2> HIDE DEF j, m
  <2> QED
    BY <2>1 DEF Larger
<1>8. /\ Captured' = Captured \cup {m.ts}
      /\ \A t \in Captured : captured'[t] = captured[t]
      /\ m.ts \notin Captured => captured'[m.ts] = m.replied
  <2> HIDE DEF m
  <2> QED
    BY <1>1, <1>3, IngestIs
<1>9. clock' = clock /\ root' = root /\ Posted' = Posted
  BY <1>1 DEF slack, Posted
<1> HIDE DEF m, latest, roots, rest
<1>10. job' \in [Worker -> Syncs] /\ \A v \in Worker \ {w} : job'[v] = job[v]
  <2>1. roots \subseteq Nat
    BY <1>2, <1>6, SyncIs DEF roots, Syncs
  <2>2. rest \in Seq(Message)
    BY <1>3 DEF rest
  <2>3. j' \in Syncs
    <3> HIDE DEF j
    <3> QED
      BY <1>2, <1>5, <1>7, <2>1, <2>2, SyncIs DEF Syncs
  <2> QED
    BY <1>1, <2>3 DEF IInv, TypeInv
<1> HIDE DEF j
<1>11. Batch(j) = {m} \cup Batch(j)'
  BY <1>3, <1>5 DEF Batch, rest
<1>12. SeenInv(j)'
  <2>1. roots \subseteq Posted
    BY <1>4, <1>6 DEF roots, SeenInv
  <2> QED
    BY <1>4, <1>5, <1>7, <1>9, <1>11, <2>1 DEF SeenInv
<1>13. HistoryInv(j)'
  <2>1. ASSUME NEW t \in Posted, root[t] = 0, Passed(j, t)'
        PROVE  t \in Captured' \/ Asks(j, t)' \/ InPage(j, t)'
    <3>1. Passed(j, t)
      <4>1. t <= latest \/ t <= j.since \/ \E n \in Batch(j)' : t <= n.ts
        BY <1>5, <2>1 DEF Passed
      <4>2. t <= latest => t <= j.latest \/ t <= m.ts
        BY <1>4, <1>7
      <4>3. j.pc = "page"
        BY <1>1 DEF j
      <4> QED
        BY <1>11, <4>1, <4>2, <4>3 DEF Passed
    <3>2. t \in Captured \/ Asks(j, t) \/ InPage(j, t)
      BY <1>4, <2>1, <3>1 DEF HistoryInv
    <3>3. Asks(j, t) => Asks(j, t)'
      BY <1>1, <1>5 DEF Asks, j
    <3>4. InPage(j, t) => InPage(j, t)' \/ t = m.ts
      BY <1>5, <1>11 DEF InPage
    <3> QED
      BY <1>8, <3>2, <3>3, <3>4
  <2> QED
    BY <1>4, <1>5, <1>8, <1>9, <2>1 DEF HistoryInv
<1>14. ThreadInv(j)'
  BY <1>5 DEF ThreadInv
<1>15. RepliesInv(j)'
  <2> SUFFICES ASSUME NEW r \in Posted, r <= j.since, root[r] # 0
               PROVE  \/ r \in Captured'
                      \/ root[r] \in Captured' /\ ~ captured'[root[r]]
                      \/ root[r] \in roots
                      \/ Asks(j, root[r])'
                      \/ \E n \in Batch(j)' : n.ts = root[r] /\ n.replied
    BY <1>5, <1>9 DEF RepliesInv
  <2>1. \/ r \in Captured
        \/ root[r] \in Captured /\ ~ captured[root[r]]
        \/ root[r] \in j.roots
        \/ Asks(j, root[r])
        \/ \E n \in Batch(j) : n.ts = root[r] /\ n.replied
    BY <1>1, <1>4 DEF RepliesInv, j
  <2>2. Asks(j, root[r]) => Asks(j, root[r])'
    BY <1>1, <1>5, <1>9 DEF Asks, j
  <2>3. m.replied => m.ts \in roots
    BY <1>6 DEF roots
  <2>4. j.roots \subseteq roots
    BY DEF roots
  <2> QED
    BY <1>8, <1>11, <2>1, <2>2, <2>3, <2>4
<1>16. JobInv(job[w])'
  BY <1>12, <1>13, <1>14, <1>15 DEF JobInv, j
<1>17. /\ DOMAIN captured' \subseteq Posted
       /\ \A t \in DOMAIN captured' : captured'[t] \in BOOLEAN
       /\ \A t \in Captured : t \in Captured' /\ captured'[t] = captured[t]
  BY <1>6, <1>8 DEF IInv, TypeInv, Captured
<1> QED
  BY <1>1, <1>10, <1>16, <1>17, WorkerStep

LEMMA EndPageStep == ASSUME IInv, NEW w \in Worker, EndPage(w) PROVE IInv'
<1> DEFINE j == job[w]
           pc == IF j.more THEN "fetch" ELSE "threads"
<1>1. /\ job' = [job EXCEPT ![w].pc = pc] /\ j.pc = "page" /\ j.batch = <<>>
      /\ UNCHANGED <<slack, captured, cursor, threadCursor>>
  BY DEF EndPage, state
<1>2. j \in Syncs
  BY DEF IInv, TypeInv
<1>3. SeenInv(j) /\ HistoryInv(j) /\ RepliesInv(j) /\ Batch(j) = {}
  BY <1>1 DEF IInv, JobsInv, JobInv, Batch
<1>4. j' = [pc |-> pc, oldest |-> j.oldest, latest |-> j.latest, before |-> j.before,
            batch |-> j.batch, more |-> j.more, roots |-> j.roots, thread |-> j.thread,
            threadLatest |-> j.threadLatest, since |-> j.since]
  BY <1>1, <1>2 DEF IInv, TypeInv, Syncs
<1>5. clock' = clock /\ root' = root /\ Posted' = Posted /\ Captured' = Captured /\ captured' = captured
  BY <1>1 DEF slack, Posted, Captured
<1>6. job' \in [Worker -> Syncs] /\ \A v \in Worker \ {w} : job'[v] = job[v]
  <2>1. j' \in Syncs
    <3> HIDE DEF j
    <3> QED
      BY <1>2, <1>4, SyncIs DEF Syncs
  <2> QED
    BY <1>1, <2>1 DEF IInv, TypeInv
<1>7. j.pc = "page" /\ (pc = "fetch" <=> j.more) /\ (pc = "threads" <=> ~ j.more)
  BY <1>1
<1> HIDE DEF j, pc
<1>8. Batch(j)' = {}
  BY <1>3, <1>4 DEF Batch
<1>9. \A t : Asks(j, t) => Asks(j, t)'
  BY <1>4, <1>7 DEF Asks
<1>10. pc \in {"fetch", "threads"}
  BY DEF pc
<1>11. SeenInv(j)'
  BY <1>3, <1>4, <1>5, <1>8, <1>10 DEF SeenInv
<1>12. HistoryInv(j)'
  BY <1>3, <1>4, <1>5, <1>8, <1>9, <1>10 DEF HistoryInv, Passed, InPage
<1>13. ThreadInv(j)'
  BY <1>4, <1>10 DEF ThreadInv
<1>14. RepliesInv(j)'
  <2>1. ASSUME NEW r \in Posted PROVE Asks(j, root[r]) => Asks(j, root[r])'
    BY <1>4, <1>5, <1>7 DEF Asks
  <2> QED
    BY <1>3, <1>4, <1>5, <1>7, <1>8, <2>1 DEF RepliesInv
<1>15. JobInv(job[w])'
  BY <1>11, <1>12, <1>13, <1>14 DEF JobInv, j
<1> QED
  BY <1>1, <1>5, <1>6, <1>15, WorkerStep DEF IInv, TypeInv

LEMMA FetchThreadStep == ASSUME IInv, NEW w \in Worker, FetchThread(w) PROVE IInv'
<1> DEFINE j == job[w]
           thread == Min(j.roots)
           oldest == IF threadCursor[thread] = 0 THEN thread ELSE threadCursor[thread]
           newer == {r \in RepliesTo(thread) : r > oldest}
           list == OldestFirst(newer)
           batch == [n \in DOMAIN list |-> [ts |-> list[n], replied |-> FALSE]]
           roots == j.roots \ {thread}
<1>1. /\ job' = [job EXCEPT ![w].pc = "thread", ![w].roots = roots, ![w].thread = thread,
                            ![w].threadLatest = oldest, ![w].batch = batch]
      /\ UNCHANGED <<slack, captured, cursor, threadCursor>> /\ j.pc = "threads" /\ j.roots # {}
  BY DEF FetchThread, state
<1>2. j \in Syncs
  BY DEF IInv, TypeInv
<1>3. SeenInv(j) /\ HistoryInv(j) /\ RepliesInv(j)
  BY <1>1 DEF IInv, JobsInv, JobInv
<1>4. thread \in j.roots /\ thread \in Posted /\ thread \in Nat
  <2>1. j.roots # {} /\ j.roots \subseteq Posted /\ j.roots \subseteq Nat
    BY <1>1, <1>2, <1>3 DEF SeenInv, Syncs
  <2> HIDE DEF j
  <2> QED
    BY <2>1, MinIs
<1> HIDE DEF thread
<1>5. /\ clock \in Nat /\ oldest \in Nat /\ oldest <= clock
      /\ oldest = thread \/ oldest = threadCursor[thread]
  <2>1. clock \in Nat /\ thread <= clock /\ clock <= MaxTs /\ MaxTs \in Nat /\ thread \in Ts
    BY <1>4, SyncAssumption DEF IInv, TypeInv, Posted, Ts
  <2>2. threadCursor[thread] \in Nat /\ threadCursor[thread] <= clock
    BY <2>1 DEF IInv, TypeInv
  <2> QED
    BY <1>4, <2>1, <2>2
<1> HIDE DEF oldest
<1>6. newer \subseteq Posted /\ Posted \subseteq Nat /\ IsFiniteSet(newer)
  <2>1. newer \subseteq Posted /\ Posted \subseteq Nat
    BY DEF RepliesTo, Posted
  <2>2. IsFiniteSet(Posted)
    BY <1>5, FS_Interval DEF Posted
  <2> QED
    BY <2>1, <2>2, FS_Subset
<1>7. \A r \in Posted : root[r] = thread => r \in Captured \/ r \in newer
  <2> SUFFICES ASSUME NEW r \in Posted, root[r] = thread, ~ (r > oldest) PROVE r \in Captured
    BY DEF RepliesTo
  <2>1. thread # 0
    BY <1>4, <1>5 DEF Posted
  <2>2. thread < r
    BY <2>1 DEF IInv, RootsInv
  <2>3. r \in Nat /\ r <= oldest
    BY <1>5, <1>6
  <2>4. oldest = threadCursor[thread]
    BY <1>4, <1>5, <2>2, <2>3
  <2> QED
    BY <1>4, <2>3, <2>4 DEF IInv, CursorsInv
<1>8. list \in Seq(newer) /\ \A t \in newer : \E n \in DOMAIN list : list[n] = t
  <2> HIDE DEF newer
  <2>1. newer \subseteq Nat
    BY <1>6
  <2> QED
    BY <1>6, <2>1, OldestFirstIs
<1> HIDE DEF newer, list
<1>9. /\ batch \in Seq(Message)
      /\ {batch[n] : n \in DOMAIN batch} = {[ts |-> t, replied |-> FALSE] : t \in newer}
  <2>1. DOMAIN list = 1..Len(list) /\ Len(list) \in Nat
        /\ \A n \in 1..Len(list) : list[n] \in newer /\ list[n] \in Nat
    <3>1. DOMAIN list = 1..Len(list) /\ Len(list) \in Nat /\ \A n \in 1..Len(list) : list[n] \in newer
      BY <1>8
    <3> QED
      BY <1>6, <3>1
  <2>2. batch \in [1..Len(list) -> Message]
    BY <2>1 DEF Message
  <2>3. batch \in Seq(Message)
    BY <2>1, <2>2
  <2> DEFINE message(t) == [ts |-> t, replied |-> FALSE]
  <2>4. \A t \in newer : \E n \in DOMAIN batch : batch[n] = message(t)
    BY <1>8
  <2>5. \A n \in DOMAIN batch : batch[n] = message(list[n]) /\ list[n] \in newer
    BY <2>1
  <2> HIDE DEF message, batch
  <2>6. {batch[n] : n \in DOMAIN batch} = {message(t) : t \in newer}
    BY <2>4, <2>5
  <2> QED
    BY <2>3, <2>6 DEF message
<1> HIDE DEF batch, roots
<1>10. j' = [pc |-> "thread", oldest |-> j.oldest, latest |-> j.latest, before |-> j.before,
            batch |-> batch, more |-> j.more, roots |-> roots, thread |-> thread,
            threadLatest |-> oldest, since |-> j.since]
  BY <1>1, <1>2 DEF IInv, TypeInv, Syncs
<1>11. clock' = clock /\ root' = root /\ Posted' = Posted /\ Captured' = Captured /\ captured' = captured
  BY <1>1 DEF slack, Posted, Captured
<1>12. j.pc = "threads" /\ roots \subseteq j.roots
         /\ \A q \in j.roots : q \in roots \/ q = thread
  BY <1>1 DEF roots
<1>13. job' \in [Worker -> Syncs] /\ \A v \in Worker \ {w} : job'[v] = job[v]
  <2>1. j' \in Syncs
    <3> HIDE DEF j
    <3> QED
      BY <1>2, <1>4, <1>5, <1>9, <1>10, <1>12, SyncIs DEF Syncs
  <2> QED
    BY <1>1, <2>1 DEF IInv, TypeInv
<1> HIDE DEF j
<1>14. /\ \A m \in Batch(j)' : m.ts \in newer
       /\ \A t \in newer : \E m \in Batch(j)' : m.ts = t
  <2> DEFINE message(t) == [ts |-> t, replied |-> FALSE]
  <2>1. Batch(j)' = {message(t) : t \in newer}
    BY <1>9, <1>10 DEF Batch
  <2>2. \A t \in newer : message(t).ts = t
    OBVIOUS
  <2> HIDE DEF message
  <2> QED
    BY <2>1, <2>2
<1>15. SeenInv(j)'
  BY <1>3, <1>4, <1>5, <1>6, <1>10, <1>11, <1>12, <1>14 DEF SeenInv
<1>16. HistoryInv(j)'
  BY <1>3, <1>10, <1>11, <1>12 DEF HistoryInv, Passed, InPage, Asks
<1>17. ThreadInv(j)'
  BY <1>7, <1>10, <1>11, <1>14 DEF ThreadInv
<1>18. RepliesInv(j)'
  BY <1>3, <1>7, <1>10, <1>11, <1>12, <1>14 DEF RepliesInv, Asks
<1>19. JobInv(job[w])'
  BY <1>15, <1>16, <1>17, <1>18 DEF JobInv, j
<1> QED
  BY <1>1, <1>11, <1>13, <1>19, WorkerStep DEF IInv, TypeInv

LEMMA IngestReplyStep == ASSUME IInv, NEW w \in Worker, IngestReply(w) PROVE IInv'
<1> DEFINE j == job[w]
           m == Head(j.batch)
           rest == Tail(j.batch)
           latest == Larger(j.threadLatest, m.ts)
<1>1. /\ Ingest(m)
      /\ job' = [job EXCEPT ![w].batch = rest, ![w].threadLatest = latest]
      /\ UNCHANGED <<slack, cursor, threadCursor>> /\ j.pc = "thread" /\ j.batch # <<>>
  BY DEF IngestReply
<1>2. j \in Syncs
  BY DEF IInv, TypeInv
<1>3. /\ m \in Message /\ rest \in Seq(Message)
      /\ Batch(j) = {m} \cup {rest[n] : n \in DOMAIN rest}
  <2> DEFINE s == j.batch
  <2>1. s \in Seq(Message) /\ s # <<>> /\ Batch(j) = {s[n] : n \in DOMAIN s}
    BY <1>1, <1>2 DEF Syncs, Batch
  <2> HIDE DEF s
  <2>2. /\ Head(s) \in Message /\ Tail(s) \in Seq(Message)
        /\ Batch(j) = {Head(s)} \cup {Tail(s)[n] : n \in DOMAIN Tail(s)}
    BY <2>1, BatchIs
  <2> QED
    BY <2>2 DEF s
<1>4. /\ SeenInv(j) /\ HistoryInv(j) /\ ThreadInv(j) /\ RepliesInv(j)
      /\ Posted \subseteq Nat
  BY <1>1 DEF IInv, JobsInv, JobInv, Posted
<1>5. j' = [pc |-> "thread", oldest |-> j.oldest, latest |-> j.latest, before |-> j.before,
            batch |-> rest, more |-> j.more, roots |-> j.roots, thread |-> j.thread,
            threadLatest |-> latest, since |-> j.since]
  BY <1>1, <1>2 DEF IInv, TypeInv, Syncs
<1>6. m.ts \in Posted /\ m.ts \in Nat /\ m.replied \in BOOLEAN
  BY <1>3, <1>4 DEF SeenInv, Message
<1>7. /\ latest \in Nat /\ latest <= clock
      /\ \A t \in Nat : t <= latest <=> t <= j.threadLatest \/ t <= m.ts
  <2>1. j.threadLatest \in Nat /\ j.threadLatest <= clock /\ clock \in Nat /\ m.ts \in Nat /\ m.ts <= clock
    <3> HIDE DEF j, m
    <3> QED
      BY <1>2, <1>4, <1>6, SyncIs DEF SeenInv, Posted, IInv, TypeInv
  <2> HIDE DEF j, m
  <2> QED
    BY <2>1 DEF Larger
<1>8. /\ Captured' = Captured \cup {m.ts}
      /\ \A t \in Captured : captured'[t] = captured[t]
      /\ m.ts \notin Captured => captured'[m.ts] = m.replied
  <2> HIDE DEF m
  <2> QED
    BY <1>1, <1>3, IngestIs
<1>9. clock' = clock /\ root' = root /\ Posted' = Posted
  BY <1>1 DEF slack, Posted
<1>10. j.pc = "thread"
  BY <1>1
<1> HIDE DEF m, latest, rest
<1>11. job' \in [Worker -> Syncs] /\ \A v \in Worker \ {w} : job'[v] = job[v]
  <2>1. j' \in Syncs
    <3> HIDE DEF j
    <3> QED
      BY <1>2, <1>3, <1>5, <1>7, SyncIs DEF Syncs
  <2> QED
    BY <1>1, <2>1 DEF IInv, TypeInv
<1> HIDE DEF j
<1>12. Batch(j) = {m} \cup Batch(j)'
  BY <1>3, <1>5 DEF Batch
<1>13. SeenInv(j)'
  BY <1>4, <1>5, <1>7, <1>9, <1>10, <1>12 DEF SeenInv
<1>14. HistoryInv(j)'
  BY <1>4, <1>5, <1>8, <1>9, <1>10 DEF HistoryInv, Passed, InPage, Asks
<1>15. ThreadInv(j)'
  <2> SUFFICES ASSUME NEW r \in Posted, root[r] = j.thread,
                      r <= latest \/ \E n \in Batch(j)' : r <= n.ts
               PROVE  r \in Captured' \/ \E n \in Batch(j)' : n.ts = r
    BY <1>5, <1>9 DEF ThreadInv
  <2>1. r <= j.threadLatest \/ \E n \in Batch(j) : r <= n.ts
    <3>1. r <= latest => r <= j.threadLatest \/ r <= m.ts
      BY <1>4, <1>7
    <3> QED
      BY <1>12, <3>1
  <2>2. r \in Captured \/ \E n \in Batch(j) : n.ts = r
    BY <1>4, <1>10, <2>1 DEF ThreadInv
  <2> QED
    BY <1>8, <1>12, <2>2
<1>16. RepliesInv(j)'
  <2> SUFFICES ASSUME NEW r \in Posted, r <= j.since, root[r] # 0
               PROVE  \/ r \in Captured'
                      \/ root[r] \in Captured' /\ ~ captured'[root[r]]
                      \/ root[r] \in j.roots
                      \/ j.thread = root[r] /\ \E n \in Batch(j)' : n.ts = r
    BY <1>5, <1>9 DEF RepliesInv
  <2>1. \/ r \in Captured
        \/ root[r] \in Captured /\ ~ captured[root[r]]
        \/ root[r] \in j.roots
        \/ j.thread = root[r] /\ \E n \in Batch(j) : n.ts = r
    BY <1>4, <1>10 DEF RepliesInv, Asks
  <2> QED
    BY <1>8, <1>12, <2>1
<1>17. JobInv(job[w])'
  BY <1>13, <1>14, <1>15, <1>16 DEF JobInv, j
<1>18. /\ DOMAIN captured' \subseteq Posted
       /\ \A t \in DOMAIN captured' : captured'[t] \in BOOLEAN
       /\ \A t \in Captured : t \in Captured' /\ captured'[t] = captured[t]
  BY <1>6, <1>8 DEF IInv, TypeInv, Captured
<1> QED
  BY <1>1, <1>11, <1>17, <1>18, WorkerStep

LEMMA EndThreadStep == ASSUME IInv, NEW w \in Worker, EndThread(w) PROVE IInv'
<1> DEFINE j == job[w]
<1>1. /\ job' = [job EXCEPT ![w].pc = "threads"] /\ j.pc = "thread" /\ j.batch = <<>>
      /\ threadCursor' = [threadCursor EXCEPT ![j.thread] = j.threadLatest]
      /\ UNCHANGED <<slack, captured, cursor>>
  BY DEF EndThread
<1>2. j \in Syncs
  BY DEF IInv, TypeInv
<1>3. SeenInv(j) /\ HistoryInv(j) /\ ThreadInv(j) /\ RepliesInv(j) /\ Batch(j) = {}
  BY <1>1 DEF IInv, JobsInv, JobInv, Batch
<1>4. j' = [pc |-> "threads", oldest |-> j.oldest, latest |-> j.latest, before |-> j.before,
            batch |-> j.batch, more |-> j.more, roots |-> j.roots, thread |-> j.thread,
            threadLatest |-> j.threadLatest, since |-> j.since]
  BY <1>1, <1>2 DEF IInv, TypeInv, Syncs
<1>5. clock' = clock /\ root' = root /\ Posted' = Posted /\ Captured' = Captured /\ captured' = captured
  BY <1>1 DEF slack, Posted, Captured
<1>6. job' \in [Worker -> Syncs] /\ \A v \in Worker \ {w} : job'[v] = job[v]
  <2>1. j' \in Syncs
    <3> HIDE DEF j
    <3> QED
      BY <1>2, <1>4, SyncIs DEF Syncs
  <2> QED
    BY <1>1, <2>1 DEF IInv, TypeInv
<1>7. j.pc = "thread"
  BY <1>1
<1> HIDE DEF j
<1>8. Batch(j)' = {}
  BY <1>3, <1>4 DEF Batch
<1>9. SeenInv(j)'
  BY <1>3, <1>4, <1>5, <1>8 DEF SeenInv
<1>10. HistoryInv(j)'
  BY <1>3, <1>4, <1>5, <1>7 DEF HistoryInv, Passed, InPage, Asks
<1>11. ThreadInv(j)'
  BY <1>4 DEF ThreadInv
<1>12. RepliesInv(j)'
  BY <1>3, <1>4, <1>5, <1>7 DEF RepliesInv, Asks
<1>13. JobInv(job[w])'
  BY <1>9, <1>10, <1>11, <1>12 DEF JobInv, j
<1>14. JobsInv'
  BY <1>1, <1>5, <1>6, <1>13, JobsKept
<1>15. TypeInv'
  <2>1. j.threadLatest \in Nat /\ j.threadLatest <= clock
    BY <1>2, <1>3, SyncIs DEF SeenInv
  <2> QED
    BY <1>1, <1>5, <1>6, <2>1 DEF IInv, TypeInv
<1>16. CursorsInv'
  <2>1. ASSUME NEW t \in Posted, NEW r \in Posted, root[r] = t, r <= threadCursor'[t]
        PROVE  r \in Captured
    <3>1. CASE t = j.thread
      <4>1. t \in Ts
        BY SyncAssumption DEF IInv, TypeInv, Posted, Ts
      <4>2. threadCursor'[t] = j.threadLatest
        BY <1>1, <3>1, <4>1 DEF IInv, TypeInv
      <4> QED
        BY <1>3, <1>7, <2>1, <3>1, <4>2 DEF ThreadInv
    <3>2. CASE t # j.thread
      <4>1. threadCursor'[t] = threadCursor[t]
        BY <1>1, <3>2 DEF IInv, TypeInv
      <4> QED
        BY <2>1, <4>1 DEF IInv, CursorsInv
    <3> QED
      BY <3>1, <3>2
  <2> QED
    BY <1>1, <1>5, <2>1 DEF IInv, CursorsInv
<1> QED
  BY <1>5, <1>14, <1>15, <1>16 DEF IInv, RootsInv

LEMMA FinishStep == ASSUME IInv, NEW w \in Worker, Finish(w) PROVE IInv'
<1> DEFINE j == job[w]
<1>1. /\ job' = [job EXCEPT ![w] = Idle] /\ j.pc = "threads"
      /\ cursor' = IF j.latest = 0 THEN cursor ELSE j.latest
      /\ UNCHANGED <<slack, captured, threadCursor>>
  BY DEF Finish
<1>2. j \in Syncs /\ SeenInv(j) /\ HistoryInv(j)
  BY <1>1 DEF IInv, TypeInv, JobsInv, JobInv
<1>3. clock' = clock /\ root' = root /\ Posted' = Posted /\ Captured' = Captured /\ captured' = captured
  BY <1>1 DEF slack, Posted, Captured
<1>4. Idle \in Syncs /\ Idle.pc = "idle"
  BY DEF Idle, Syncs
<1>5. job' \in [Worker -> Syncs] /\ job'[w] = Idle /\ \A v \in Worker \ {w} : job'[v] = job[v]
  BY <1>1, <1>4 DEF IInv, TypeInv
<1>6. JobInv(job[w])'
  BY <1>4, <1>5 DEF JobInv
<1>7. JobsInv'
  BY <1>1, <1>3, <1>5, <1>6, JobsKept
<1>8. j.latest \in Nat /\ j.latest <= clock
  <2> HIDE DEF j
  <2> QED
    BY <1>2, SyncIs DEF SeenInv
<1>9. TypeInv'
  BY <1>1, <1>3, <1>5, <1>8 DEF IInv, TypeInv
<1>10. \A t \in Posted : root[t] = 0 /\ t <= j.latest => t \in Captured
  BY <1>1, <1>2 DEF HistoryInv, Passed, Asks, InPage
<1>11. CursorsInv'
  BY <1>1, <1>3, <1>10 DEF IInv, CursorsInv
<1> QED
  BY <1>3, <1>7, <1>9, <1>11 DEF IInv, RootsInv

LEMMA FailStep == ASSUME IInv, NEW w \in Worker, Fail(w) PROVE IInv'
<1>1. job' = [job EXCEPT ![w] = Idle] /\ UNCHANGED <<slack, captured, cursor, threadCursor>>
  BY DEF Fail, state
<1>2. Captured' = Captured
  BY <1>1 DEF Captured
<1>3. Idle \in Syncs /\ Idle.pc = "idle"
  BY DEF Idle, Syncs
<1>4. job' \in [Worker -> Syncs] /\ job'[w] = Idle /\ \A v \in Worker \ {w} : job'[v] = job[v]
  BY <1>1, <1>3 DEF IInv, TypeInv
<1>5. JobInv(job[w])'
  BY <1>3, <1>4 DEF JobInv
<1> QED
  BY <1>1, <1>2, <1>4, <1>5, WorkerStep DEF IInv, TypeInv

LEMMA StepInv == IInv /\ [Next]_vars => IInv'
<1> SUFFICES ASSUME IInv, [Next]_vars PROVE IInv'
  OBVIOUS
<1>1. CASE UNCHANGED vars
  BY <1>1 DEF vars, slack, state, IInv, TypeInv, RootsInv, CursorsInv, JobsInv, JobInv, SeenInv,
     HistoryInv, ThreadInv, RepliesInv, Passed, InPage, Asks, Batch, Posted, Captured
<1>2. CASE Next
  BY <1>2, PostStep, StartSyncStep, FetchPageStep, IngestMessageStep, EndPageStep, FetchThreadStep,
     IngestReplyStep, EndThreadStep, FinishStep, FailStep DEF Next, Progress
<1> QED
  BY <1>1, <1>2

LEMMA Invariance == Spec => []IInv
BY InitInv, StepInv, PTL DEF Spec

-----------------------------------------------------------------------------
(* Whatever is older than a saved cursor is in the lake, top-level         *)
(* messages and replies alike: no failure, restart, page boundary, post    *)
(* during a sync or sync run by another thread makes the next skip one.    *)
THEOREM SlackCursorsCover == Spec => []CursorsCover
<1>1. IInv => CursorsCover
  BY DEF IInv, CursorsInv, CursorsCover, TopLevel, RepliesTo
<1> QED
  BY Invariance, <1>1, PTL

(* A sync that reaches the end of sync_all's loop for the channel has      *)
(* captured what was there when it began, whatever the others did.         *)
THEOREM SlackFinishedSyncIsComplete == Spec => FinishedSyncIsComplete
<1> DEFINE Complete ==
      \A w \in Worker : Finish(w) =>
        \A t \in 1..job[w].since :
          \/ t \in Captured
          \/ root[t] # 0 /\ root[t] \in Captured /\ ~captured[root[t]]
<1>1. IInv => Complete
  <2> SUFFICES ASSUME IInv, NEW w \in Worker, Finish(w), NEW t \in 1..job[w].since
               PROVE  \/ t \in Captured
                      \/ root[t] # 0 /\ root[t] \in Captured /\ ~captured[root[t]]
    OBVIOUS
  <2>1. job[w].pc = "threads" /\ job[w].roots = {}
    BY DEF Finish
  <2>2. SeenInv(job[w]) /\ HistoryInv(job[w]) /\ RepliesInv(job[w])
    BY <2>1 DEF IInv, JobsInv, JobInv
  <2>3. t \in Posted /\ t <= job[w].since
    <3>1. job[w].since \in Nat /\ job[w].since <= clock /\ clock \in Nat
      BY <2>2 DEF IInv, TypeInv, Syncs, SeenInv
    <3> QED
      BY <3>1 DEF Posted
  <2>4. CASE root[t] = 0
    BY <2>1, <2>2, <2>3, <2>4 DEF HistoryInv, Passed, Asks, InPage
  <2>5. CASE root[t] # 0
    BY <2>1, <2>2, <2>3, <2>5 DEF RepliesInv, Asks
  <2> QED
    BY <2>4, <2>5
<1>2. IInv /\ [Next]_vars => [Complete]_vars
  BY <1>1
<1> QED
  BY Invariance, <1>2, PTL DEF Spec, FinishedSyncIsComplete
=============================================================================
