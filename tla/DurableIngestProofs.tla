------------------------- MODULE DurableIngestProofs -------------------------
(***************************************************************************)
(* Safety of DurableIngest for any processes, threads, drafts and blobs,   *)
(* on top of what the operators of LakeStore preserve for lakes over any   *)
(* set Obs of observations.                                                *)
(***************************************************************************)
EXTENDS DurableIngest, SequenceTheorems, TLAPS

-----------------------------------------------------------------------------
(* The shape of a LakeStore value. *)
IsLake(store, Obs) ==
  /\ store.observations \in Seq(Obs)
  /\ store.dedup = [k \in DOMAIN store.dedup |-> store.dedup[k]]
  /\ store = [observations |-> store.observations, dedup |-> store.dedup]

(* A keyed position added at the end, or taken away there, is the only     *)
(* change append and rollback_last_append make to the keyed positions.     *)
LEMMA AppendKeyed ==
  ASSUME NEW Obs, NEW s \in Seq(Obs), NEW obs \in Obs
  PROVE  KeyedPositions(Append(s, obs)) =
           KeyedPositions(s) \cup (IF obs.key = NoKey THEN {} ELSE {Len(s) + 1})
  BY DEF KeyedPositions

LEMMA AppendKeys ==
  ASSUME NEW Obs, NEW s \in Seq(Obs), NEW obs \in Obs
  PROVE  KeysOf(Append(s, obs)) =
           KeysOf(s) \cup (IF obs.key = NoKey THEN {} ELSE {obs.key})
<1>1. \A n \in KeyedPositions(s) : n \in 1..Len(s) /\ Append(s, obs)[n] = s[n]
  BY DEF KeyedPositions
<1>2. Append(s, obs)[Len(s) + 1] = obs
  OBVIOUS
<1>3. QED
  BY <1>1, <1>2, AppendKeyed DEF KeysOf

(* append keeps the lake's shape and the exactness of its index. *)
LEMMA AppendWellFormed ==
  ASSUME NEW Obs, NEW store, NEW obs \in Obs,
         IsLake(store, Obs), WellFormed(store)
  PROVE  /\ IsLake(LakeAppend(store, obs).lake, Obs)
         /\ WellFormed(LakeAppend(store, obs).lake)
<1> DEFINE s == store.observations
           t == [observations |-> Append(s, obs), dedup |-> Indexed(store, obs)]
<1>1. s \in Seq(Obs) /\ Length(store) = Len(s)
  BY DEF IsLake, Length
<1>2. CASE obs.key \in DOMAIN store.dedup
  BY <1>2 DEF LakeAppend
<1>3. CASE obs.key \notin DOMAIN store.dedup
  <2>1. LakeAppend(store, obs).lake = t
    BY <1>3 DEF LakeAppend
  <2>2. IsLake(t, Obs)
    <3>1. Append(s, obs) \in Seq(Obs)
      BY <1>1
    <3>2. Indexed(store, obs) =
            [k \in DOMAIN Indexed(store, obs) |-> Indexed(store, obs)[k]]
      BY DEF Indexed, IsLake
    <3>3. QED
      BY <3>1, <3>2 DEF IsLake
  <2>3. obs.key \notin KeysOf(s)
    BY <1>3 DEF WellFormed
  <2>4. DOMAIN t.dedup = KeysOf(t.observations)
    <3>1. DOMAIN Indexed(store, obs) =
            DOMAIN store.dedup \cup (IF obs.key = NoKey THEN {} ELSE {obs.key})
      BY DEF Indexed
    <3>2. KeysOf(Append(s, obs)) =
            KeysOf(s) \cup (IF obs.key = NoKey THEN {} ELSE {obs.key})
      BY <1>1, AppendKeys
    <3>3. QED
      BY <3>1, <3>2 DEF WellFormed
  <2>5. ASSUME NEW n \in KeyedPositions(t.observations)
        PROVE  t.dedup[t.observations[n].key] = n
    <3>1. CASE n \in KeyedPositions(s)
      <4>1. n \in 1..Len(s) /\ t.observations[n] = s[n]
        BY <3>1, <1>1 DEF KeyedPositions
      <4>2. s[n].key \in KeysOf(s) /\ store.dedup[s[n].key] = n
        BY <3>1 DEF KeysOf, WellFormed
      <4>3. QED
        BY <4>1, <4>2, <2>3, <2>4, AppendKeys, <1>1 DEF Indexed, WellFormed
    <3>2. CASE n \notin KeyedPositions(s)
      <4>1. obs.key # NoKey /\ n = Len(s) + 1
        BY <3>2, <1>1, AppendKeyed
      <4>2. t.observations[n] = obs
        BY <4>1, <1>1
      <4>3. QED
        BY <4>1, <4>2, <1>1 DEF Indexed
    <3>3. QED
      BY <3>1, <3>2
  <2>6. QED
    BY <2>1, <2>2, <2>4, <2>5 DEF WellFormed
<1>4. QED
  BY <1>2, <1>3

(* append adds the observation when it is accepted, and only then. *)
LEMMA AppendContents ==
  ASSUME NEW Obs, NEW store, NEW obs \in Obs, IsLake(store, Obs)
  PROVE  Contents(LakeAppend(store, obs).lake) =
           Contents(store) \cup (IF LakeAppend(store, obs).appended THEN {obs} ELSE {})
<1> DEFINE s == store.observations
<1>1. s \in Seq(Obs)
  BY DEF IsLake
<1>2. CASE obs.key \in DOMAIN store.dedup
  BY <1>2 DEF LakeAppend
<1>3. CASE obs.key \notin DOMAIN store.dedup
  <2>1. LakeAppend(store, obs).lake.observations = Append(s, obs)
    BY <1>3 DEF LakeAppend
  <2>2. Len(Append(s, obs)) = Len(s) + 1 /\ Append(s, obs)[Len(s) + 1] = obs
    BY <1>1
  <2>3. \A n \in 1..Len(s) : Append(s, obs)[n] = s[n]
    BY <1>1
  <2>4. 1..(Len(s) + 1) = (1..Len(s)) \cup {Len(s) + 1}
    BY <1>1
  <2>5. {Append(s, obs)[n] : n \in 1..(Len(s) + 1)} = {s[n] : n \in 1..Len(s)} \cup {obs}
    BY <2>2, <2>3, <2>4
  <2>6. LakeAppend(store, obs).appended
    BY <1>3 DEF LakeAppend
  <2>7. QED
    BY <2>1, <2>2, <2>5, <2>6 DEF Contents, Length
<1>4. QED
  BY <1>2, <1>3

(* rollback_last_append keeps the lake's shape and its index's exactness.  *)
LEMMA RollbackWellFormed ==
  ASSUME NEW Obs, NEW store, NEW id, IsLake(store, Obs), WellFormed(store)
  PROVE  /\ IsLake(RollbackLastAppend(store, id), Obs)
         /\ WellFormed(RollbackLastAppend(store, id))
<1> DEFINE s == store.observations
           L == Len(s)
           p == SubSeq(s, 1, L - 1)
           t == [observations |-> p, dedup |-> Unindexed(store.dedup, s[L].key)]
<1>1. s \in Seq(Obs) /\ Length(store) = L /\ L \in Nat
  BY DEF IsLake, Length
<1>2. CASE L = 0 \/ s[L].id # id
  BY <1>1, <1>2 DEF RollbackLastAppend
<1>3. CASE ~(L = 0 \/ s[L].id # id)
  <2>1. RollbackLastAppend(store, id) = t
    BY <1>1, <1>3 DEF RollbackLastAppend
  <2>2. /\ p \in Seq(Obs) /\ Len(p) = L - 1
        /\ \A n \in 1..(L - 1) : p[n] = s[n]
    BY <1>1, <1>3
  <2>3. IsLake(t, Obs)
    BY <2>2 DEF IsLake, Unindexed
  <2>4. KeyedPositions(p) = KeyedPositions(s) \ {L}
    BY <1>1, <1>3, <2>2 DEF KeyedPositions
  <2>5. \A n \in KeyedPositions(p) : p[n] = s[n] /\ s[n].key \in KeysOf(s) /\ store.dedup[s[n].key] = n
    BY <2>2, <2>4 DEF KeyedPositions, KeysOf, WellFormed
  <2>6. L \in KeyedPositions(s) => store.dedup[s[L].key] = L
    BY DEF WellFormed
  <2>7. \A n \in KeyedPositions(p) : s[n].key # s[L].key
    <3> SUFFICES ASSUME NEW n \in KeyedPositions(p), s[n].key = s[L].key
                 PROVE  FALSE
      OBVIOUS
    <3>1. n # L /\ n \in KeyedPositions(s)
      BY <2>4
    <3>2. L \in KeyedPositions(s)
      BY <3>1, <1>1, <1>3 DEF KeyedPositions
    <3>3. QED
      BY <3>1, <3>2, <2>5, <2>6
  <2>8. KeysOf(p) = {s[n].key : n \in KeyedPositions(s) \ {L}}
    <3>1. \A n \in KeyedPositions(p) : p[n].key = s[n].key
      BY <2>5
    <3>2. KeysOf(p) = {s[n].key : n \in KeyedPositions(p)}
      BY <3>1 DEF KeysOf
    <3>3. QED
      BY <3>2, <2>4
  <2>9. KeysOf(p) = KeysOf(s) \ {s[L].key}
    <3>1. \A k \in KeysOf(p) : k \in KeysOf(s) /\ k # s[L].key
      BY <2>8, <2>7, <2>4 DEF KeysOf
    <3>2. \A k \in KeysOf(s) : k # s[L].key => k \in KeysOf(p)
      BY <2>8 DEF KeysOf
    <3>3. QED
      BY <3>1, <3>2
  <2>10. DOMAIN t.dedup = KeysOf(t.observations)
    BY <2>9 DEF Unindexed, WellFormed
  <2>11. \A n \in KeyedPositions(p) : t.dedup[p[n].key] = n
    BY <2>5, <2>7 DEF Unindexed, WellFormed
  <2>12. t.observations = p
    OBVIOUS
  <2>13. WellFormed(t)
    BY <2>10, <2>11, <2>12 DEF WellFormed
  <2>14. QED
    BY <2>1, <2>3, <2>13
<1>4. QED
  BY <1>2, <1>3

(* Rolling back an accepted append restores the store, its index included:  *)
(* what lets ingest_draft undo an append whose persistence failed.         *)
LEMMA RollbackUndoesAppend ==
  ASSUME NEW Obs, NEW store, NEW obs \in Obs, IsLake(store, Obs), WellFormed(store),
         LakeAppend(store, obs).appended
  PROVE  RollbackLastAppend(LakeAppend(store, obs).lake, obs.id) = store
<1> DEFINE s == store.observations
           t == [observations |-> Append(s, obs), dedup |-> Indexed(store, obs)]
<1>1. s \in Seq(Obs) /\ Length(store) = Len(s) /\ Len(s) \in Nat
  BY DEF IsLake, Length
<1>2. obs.key \notin DOMAIN store.dedup /\ LakeAppend(store, obs).lake = t
  BY DEF LakeAppend
<1>3. /\ Length(t) = Len(s) + 1 /\ t.observations[Length(t)] = obs
      /\ SubSeq(t.observations, 1, Length(t) - 1) = s
  BY <1>1 DEF Length
<1>4. RollbackLastAppend(t, obs.id) =
        [observations |-> s, dedup |-> Unindexed(t.dedup, obs.key)]
  <2>1. \A u : Length(u) # 0 /\ u.observations[Length(u)] = obs =>
          RollbackLastAppend(u, obs.id) =
            [observations |-> SubSeq(u.observations, 1, Length(u) - 1),
             dedup |-> Unindexed(u.dedup, obs.key)]
    BY DEF RollbackLastAppend
  <2>2. Length(t) # 0
    BY <1>1, <1>3
  <2>3. QED
    BY <2>1, <2>2, <1>3
<1>5. DOMAIN t.dedup \ {obs.key} = DOMAIN store.dedup
  <2>1. CASE obs.key = NoKey
    BY <2>1, <1>2 DEF Indexed
  <2>2. CASE obs.key # NoKey
    BY <2>2, <1>2 DEF Indexed
  <2>3. QED
    BY <2>1, <2>2
<1>6. \A k \in DOMAIN store.dedup : t.dedup[k] = store.dedup[k]
  BY <1>2 DEF Indexed
<1>7. Unindexed(t.dedup, obs.key) = store.dedup
  BY <1>5, <1>6 DEF Unindexed, IsLake
<1>8. QED
  BY <1>2, <1>4, <1>7 DEF IsLake

(* A store replayed from a table without repeated keys has an exact index:  *)
(* the store a bootstrap builds, whatever crashes came before it.           *)
LEMMA ReplayedWellFormed ==
  ASSUME NEW Obs, NEW s \in Seq(Obs),
         \A m, n \in KeyedPositions(s) : s[m].key = s[n].key => m = n
  PROVE  /\ IsLake(Replayed(s), Obs)
         /\ WellFormed(Replayed(s))
         /\ Contents(Replayed(s)) = {s[n] : n \in 1..Len(s)}
<1>1. IsLake(Replayed(s), Obs)
  BY DEF IsLake, Replayed
<1>2. Contents(Replayed(s)) = {s[n] : n \in 1..Len(s)}
  BY DEF Contents, Length, Replayed
<1>3. ASSUME NEW n \in KeyedPositions(s)
      PROVE  Replayed(s).dedup[s[n].key] = n
  <2>1. s[n].key \in KeysOf(s)
    BY DEF KeysOf
  <2>2. Replayed(s).dedup[s[n].key] =
          CHOOSE m \in KeyedPositions(s) : s[m].key = s[n].key
    BY <2>1 DEF Replayed
  <2>3. QED
    BY <2>2
<1>4. QED
  BY <1>1, <1>2, <1>3 DEF WellFormed, Replayed

-----------------------------------------------------------------------------

Newest(i) == lake[i].observations[Length(lake[i])]

(* Types, with lakes as IsLake describes them. *)
Typed ==
  /\ up \subseteq Instance
  /\ lake = [i \in Instance |-> lake[i]]
  /\ \A i \in Instance : IsLake(lake[i], Observation)
  /\ blobs \in [Instance -> SUBSET Blob]
  /\ rows \in Seq(Observation)
  /\ file \in [Blob -> {"none", "torn", "whole"}]
  /\ blobRows \subseteq Blob
  /\ job \in [Worker -> Job]
  /\ told \subseteq Key
  /\ clock \in 1..MaxClock

(* A process that is down holds nothing; ids are below the clock and name  *)
(* one observation of a lake.                                              *)
LakesInv ==
  \A i \in Instance :
    /\ WellFormed(lake[i])
    /\ i \notin up => lake[i] = EmptyLake
    /\ \A m, n \in 1..Length(lake[i]) :
         lake[i].observations[m].id = lake[i].observations[n].id => m = n
    /\ \A o \in Contents(lake[i]) : o.id \in 1 .. clock - 1

(* Ids and keys in the table are unique. *)
RowsInv ==
  /\ \A m, n \in 1..Len(rows) : rows[m].key = rows[n].key => m = n
  /\ \A o \in RowSet : o.id \in 1 .. clock - 1

(* A pending observation is the newest of its lake, not yet durable, and   *)
(* its id is no other worker's; at most one is pending in a process.       *)
PendingInv ==
  \A w \in Worker : Pending(w) =>
    /\ InstanceOf[w] \in up
    /\ job[w].draft \in Draft
    /\ Length(lake[InstanceOf[w]]) # 0
    /\ Newest(InstanceOf[w]).id = job[w].pending
    /\ Newest(InstanceOf[w]).key = job[w].draft.key
    /\ Newest(InstanceOf[w]).route = job[w].draft.route
    /\ \A o \in RowSet : o.id # job[w].pending
    /\ \A v \in Worker : v # w /\ Pending(v) =>
         InstanceOf[v] # InstanceOf[w] /\ job[v].pending # job[w].pending

IInv ==
  /\ Typed
  /\ LakesInv
  /\ RowsInv
  /\ PendingInv
  /\ CapturedIsDurable

-----------------------------------------------------------------------------
LEMMA DraftType ==
  ASSUME NEW d \in Draft
  PROVE  /\ d.key \in Key /\ d.blobs \in SUBSET Blob /\ d.published \in Nat
         /\ d.route \in Route /\ d # NoDraft
  BY DraftAssumption

LEMMA NewestInContents ==
  ASSUME NEW i, NEW lk, IsLake(lk, Observation), Length(lk) # 0
  PROVE  lk.observations[Length(lk)] \in Contents(lk)
  BY DEF IsLake, Length, Contents

LEMMA ContentsType ==
  ASSUME NEW lk, IsLake(lk, Observation)
  PROVE  Contents(lk) \subseteq Observation
  BY DEF IsLake, Length, Contents

(* The observation in hand is the newest of its lake. *)
LEMMA InHandIsNewest ==
  ASSUME IInv, NEW w \in Worker, Pending(w)
  PROVE  /\ InHand(w) = Newest(InstanceOf[w])
         /\ InHand(w) \in Contents(lake[InstanceOf[w]])
         /\ InHand(w) \in Observation
         /\ InHand(w).id = job[w].pending
<1> DEFINE i == InstanceOf[w]
<1>1. i \in Instance /\ IsLake(lake[i], Observation)
  BY InstanceOfAssumption DEF IInv, Typed
<1>2. Length(lake[i]) # 0 /\ Newest(i).id = job[w].pending
  BY DEF IInv, PendingInv
<1>3. Newest(i) \in Contents(lake[i])
  BY <1>1, <1>2, NewestInContents DEF Newest
<1>4. ASSUME NEW o \in Contents(lake[i]), o.id = job[w].pending
      PROVE  o = Newest(i)
  <2>1. PICK n \in 1..Length(lake[i]) : lake[i].observations[n] = o
    BY DEF Contents
  <2>2. Length(lake[i]) \in 1..Length(lake[i])
    BY <1>1, <1>2 DEF IsLake, Length
  <2>3. n = Length(lake[i])
    BY <1>1, <1>2, <1>4, <2>1, <2>2 DEF IInv, LakesInv, Newest
  <2>4. QED
    BY <2>1, <2>3 DEF Newest
<1>5. InHand(w) = Newest(i)
  BY <1>2, <1>3, <1>4 DEF InHand
<1>6. QED
  BY <1>1, <1>2, <1>3, <1>5, ContentsType

-----------------------------------------------------------------------------
LEMMA InitIInv == Init => IInv
<1> SUFFICES ASSUME Init
             PROVE  IInv
  OBVIOUS
<1>1. IsLake(EmptyLake, Observation) /\ WellFormed(EmptyLake)
  BY DEF EmptyLake, IsLake, WellFormed, KeysOf, KeyedPositions
<1>2. Length(EmptyLake) = 0 /\ Contents(EmptyLake) = {}
  BY DEF EmptyLake, Length, Contents
<1>3. Idle \in Job
  BY DEF Idle, Job
<1>4. Typed
  BY <1>1, <1>3, ClockAssumption DEF Init, Typed
<1>5. LakesInv
  BY <1>1, <1>2 DEF Init, LakesInv
<1>6. RowsInv /\ RowSet = {}
  BY DEF Init, RowsInv, RowSet
<1>7. PendingInv
  BY DEF Init, PendingInv, Pending, Idle
<1>8. CapturedIsDurable
  BY <1>2 DEF Init, CapturedIsDurable
<1>9. QED
  BY <1>4, <1>5, <1>6, <1>7, <1>8 DEF IInv

(* A step that touches neither lakes nor rows nor what is pending.         *)
LEMMA QuietStep ==
  ASSUME IInv, Typed',
         UNCHANGED <<up, lake, rows>>, clock' >= clock,
         \A w \in Worker : /\ job'[w].pending = job[w].pending
                           /\ Pending(w) => job'[w] = job[w]
  PROVE  IInv'
<1>1. clock \in Nat /\ clock' \in Nat
  BY DEF IInv, Typed
<1>2. \A i \in Instance : Contents(lake[i]) \subseteq Observation
  BY ContentsType DEF IInv, Typed
<1>3. RowSet \subseteq Observation /\ RowSet' = RowSet
  BY DEF IInv, Typed, RowSet
<1>4. LakesInv'
  BY <1>1, <1>2 DEF IInv, LakesInv, Observation
<1>5. RowsInv'
  BY <1>1, <1>3 DEF IInv, RowsInv, Observation
<1>6. \A w \in Worker : Pending(w)' <=> Pending(w)
  BY DEF Pending
<1>7. PendingInv'
  BY <1>3, <1>6 DEF IInv, PendingInv, Newest, Pending
<1>8. CapturedIsDurable'
  BY <1>3 DEF IInv, CapturedIsDurable
<1>9. QED
  BY <1>4, <1>5, <1>7, <1>8 DEF IInv

(* An action of a worker that holds no pending observation, in a process   *)
(* whose core mutex is free, and that leaves it without one, is quiet.     *)
LEMMA WorkerStepQuiet ==
  ASSUME IInv, NEW w \in Worker, NEW j \in Job, j.pending = 0, ~Pending(w),
         job' = [job EXCEPT ![w] = j]
  PROVE  \A v \in Worker : /\ job'[v].pending = job[v].pending
                           /\ Pending(v) => job'[v] = job[v]
  BY DEF IInv, Typed, Pending

LEMMA NextQuiet ==
  ASSUME IInv,
         \/ \E w \in Worker :
              \/ \E d \in Draft : Begin(w, d)
              \/ \E b \in Blob : StoreBlob(w, b) \/ StoreBlobFails(w, b)
              \/ RefuseDraft(w)
              \/ IngestDuplicate(w)
         \/ Tick
         \/ UNCHANGED vars
  PROVE  IInv'
<1> USE DEF memory, disk
<1>0. Typed /\ clock \in Nat
  BY DEF IInv, Typed
<1>1. ASSUME NEW w \in Worker, NEW d \in Draft, Begin(w, d)
      PROVE  IInv'
  <2> DEFINE j == [draft |-> d, todo |-> d.blobs, pending |-> 0]
  <2>1. j \in Job
    BY DraftType DEF Job
  <2>2. ~Pending(w)
    BY <1>1 DEF Begin, Pending, Idle
  <2>3. Typed'
    BY <1>0, <1>1, <2>1 DEF Typed, Begin
  <2>4. job' = [job EXCEPT ![w] = j]
    BY <1>1 DEF Begin
  <2>5. \A v \in Worker : /\ job'[v].pending = job[v].pending
                          /\ Pending(v) => job'[v] = job[v]
    BY <2>1, <2>2, <2>4, WorkerStepQuiet
  <2>6. UNCHANGED <<up, lake, rows>> /\ clock' >= clock
    BY <1>0, <1>1 DEF Begin
  <2>7. QED
    BY <2>3, <2>5, <2>6, QuietStep
<1>2. ASSUME NEW w \in Worker, Busy(w)
      PROVE  ~Pending(w)
  BY <1>2 DEF Busy, CoreFree
<1>3. Idle \in Job /\ Idle.pending = 0
  BY DEF Idle, Job
<1>4. ASSUME NEW w \in Worker, NEW b \in Blob, StoreBlob(w, b)
      PROVE  IInv'
  <2> DEFINE j == [job[w] EXCEPT !.todo = @ \ {b}]
  <2>1. ~Pending(w)
    BY <1>2, <1>4 DEF StoreBlob, PutInMemory
  <2>2. j \in Job /\ j.pending = 0
    BY <1>0, <2>1 DEF Typed, Job, Pending
  <2>3. job' = [job EXCEPT ![w] = j]
    BY <1>4 DEF StoreBlob
  <2>4. UNCHANGED <<up, lake, rows, told, clock>>
    BY <1>4 DEF StoreBlob, PutInMemory
  <2>5. file' \in [Blob -> {"none", "torn", "whole"}] /\ blobRows' \subseteq Blob
    BY <1>0, <1>4 DEF StoreBlob, WriteFile, Typed
  <2>6. blobs' \in [Instance -> SUBSET Blob]
    BY <1>0, <1>4, InstanceOfAssumption DEF StoreBlob, PutInMemory, Typed
  <2>7. Typed'
    BY <1>0, <2>2, <2>3, <2>4, <2>5, <2>6 DEF Typed
  <2>8. \A v \in Worker : /\ job'[v].pending = job[v].pending
                          /\ Pending(v) => job'[v] = job[v]
    BY <2>1, <2>2, <2>3, WorkerStepQuiet
  <2>9. QED
    BY <1>0, <2>4, <2>7, <2>8, QuietStep
<1>5. ASSUME NEW w \in Worker, NEW b \in Blob, StoreBlobFails(w, b)
      PROVE  IInv'
  <2>1. ~Pending(w)
    BY <1>2, <1>5 DEF StoreBlobFails, PutInMemory
  <2>2. job' = [job EXCEPT ![w] = Idle]
    BY <1>5 DEF StoreBlobFails, Done
  <2>3. UNCHANGED <<up, lake, rows, told, clock, blobRows>>
    BY <1>5 DEF StoreBlobFails, PutInMemory
  <2>4. file' \in [Blob -> {"none", "torn", "whole"}]
    BY <1>0, <1>5 DEF StoreBlobFails, WriteFile, Typed
  <2>5. blobs' \in [Instance -> SUBSET Blob]
    BY <1>0, <1>5, InstanceOfAssumption DEF StoreBlobFails, PutInMemory, Typed
  <2>6. Typed'
    BY <1>0, <1>3, <2>2, <2>3, <2>4, <2>5 DEF Typed
  <2>7. \A v \in Worker : /\ job'[v].pending = job[v].pending
                          /\ Pending(v) => job'[v] = job[v]
    BY <1>3, <2>1, <2>2, WorkerStepQuiet
  <2>8. QED
    BY <1>0, <2>3, <2>6, <2>7, QuietStep
<1>6. ASSUME NEW w \in Worker, RefuseDraft(w) \/ IngestDuplicate(w)
      PROVE  IInv'
  <2>1. ~Pending(w) /\ job[w].draft # NoDraft
    BY <1>2, <1>6 DEF RefuseDraft, IngestDuplicate, Ready, Busy
  <2>2. job' = [job EXCEPT ![w] = Idle]
    BY <1>6 DEF RefuseDraft, IngestDuplicate, Done
  <2>3. UNCHANGED <<memory, disk, clock>>
    BY <1>6 DEF RefuseDraft, IngestDuplicate
  <2>4. job[w].draft.key \in Key
    BY <1>0, <2>1, DraftType DEF Typed, Job
  <2>5. told' \subseteq Key
    BY <1>0, <1>6, <2>4 DEF Typed, RefuseDraft, IngestDuplicate
  <2>6. Typed'
    BY <1>0, <1>3, <2>2, <2>3, <2>5 DEF Typed
  <2>7. \A v \in Worker : /\ job'[v].pending = job[v].pending
                          /\ Pending(v) => job'[v] = job[v]
    BY <1>3, <2>1, <2>2, WorkerStepQuiet
  <2>8. QED
    BY <1>0, <2>3, <2>6, <2>7, QuietStep
<1>7. CASE Tick
  <2>1. Typed' /\ clock' >= clock
    BY <1>0, <1>7, ClockAssumption DEF Tick, Typed
  <2>2. QED
    BY <1>7, <2>1, QuietStep DEF Tick
<1>8. CASE UNCHANGED vars
  BY <1>0, <1>8, QuietStep DEF vars, Typed
<1>9. QED
  BY <1>1, <1>4, <1>5, <1>6, <1>7, <1>8

-----------------------------------------------------------------------------
LEMMA AppendIInv ==
  ASSUME IInv, NEW w \in Worker, AppendToLake(w)
  PROVE  IInv'
<1> USE DEF memory, disk
<1> DEFINE i == InstanceOf[w]
           obs == Built(job[w].draft)
           s == lake[i].observations
<1>1. /\ i \in up /\ i \in Instance /\ job[w].draft \in Draft /\ CoreFree(i)
      /\ clock \in 1..MaxClock /\ clock < MaxClock /\ clock' = clock + 1
      /\ \A j \in Instance : IsLake(lake[j], Observation)
      /\ job \in [Worker -> Job]
      /\ lake' = [lake EXCEPT ![i] = Appended(w).lake]
      /\ job' = [job EXCEPT ![w].pending = clock]
      /\ UNCHANGED <<up, blobs, rows, file, blobRows, told>>
  BY InstanceOfAssumption DEF IInv, Typed, AppendToLake, Ready, Busy, Job
<1>2. obs \in Observation /\ obs.id = clock /\ obs.key = job[w].draft.key
      /\ obs.route = job[w].draft.route
  BY <1>1, DraftType, ClockAssumption DEF Built, Observation, Route
<1>3. lake'[i] = LakeAppend(lake[i], obs).lake /\ Appended(w).appended
      /\ \A j \in Instance : j # i => lake'[j] = lake[j]
  BY <1>1 DEF IInv, Typed, Appended, AppendToLake
<1>4. IsLake(lake'[i], Observation) /\ WellFormed(lake'[i])
  BY <1>1, <1>2, <1>3, AppendWellFormed DEF IInv, LakesInv
<1>5. Contents(lake'[i]) = Contents(lake[i]) \cup {obs}
  BY <1>1, <1>2, <1>3, AppendContents DEF Appended
<1>6. lake'[i].observations = Append(s, obs)
  BY <1>3 DEF LakeAppend, Appended
<1>7. /\ s \in Seq(Observation) /\ Length(lake[i]) = Len(s) /\ Len(s) \in Nat
      /\ Length(lake'[i]) = Len(s) + 1
      /\ lake'[i].observations[Len(s) + 1] = obs
      /\ \A n \in 1..Len(s) : lake'[i].observations[n] = s[n] /\ s[n].id < clock
  <2>1. s \in Seq(Observation)
    BY <1>1 DEF IsLake
  <2>2. \A n \in 1..Len(s) : s[n].id \in 1 .. clock - 1
    BY <1>1 DEF IInv, LakesInv, Contents, Length
  <2>3. Len(s) \in Nat
    BY <2>1
  <2>4. /\ Len(Append(s, obs)) = Len(s) + 1
        /\ Append(s, obs)[Len(s) + 1] = obs
        /\ \A n \in 1..Len(s) : Append(s, obs)[n] = s[n]
    BY <1>2, <2>1
  <2>5. \A n \in 1..Len(s) : s[n].id < clock
    BY <1>1, <2>2
  <2>6. QED
    BY <1>6, <2>1, <2>3, <2>4, <2>5 DEF Length
<1>8. \A v \in Worker : v # w => job'[v] = job[v]
  BY <1>1
<1>9. job'[w].pending = clock /\ job'[w].draft = job[w].draft /\ job' \in [Worker -> Job]
  BY <1>1 DEF Job
<1>10. ~Pending(w) /\ \A v \in Worker : InstanceOf[v] = i => ~Pending(v)
  BY <1>1 DEF CoreFree
<1>11. Typed'
  <2>1. lake' = [j \in Instance |-> lake'[j]]
    BY <1>1 DEF IInv, Typed
  <2>2. \A j \in Instance : IsLake(lake'[j], Observation)
    BY <1>1, <1>3, <1>4
  <2>3. clock' \in 1..MaxClock
    BY <1>1, ClockAssumption
  <2>4. QED
    BY <1>1, <1>9, <2>1, <2>2, <2>3 DEF IInv, Typed
<1>12. LakesInv'
  <2> SUFFICES ASSUME NEW j \in Instance
               PROVE  /\ WellFormed(lake'[j])
                      /\ j \notin up' => lake'[j] = EmptyLake
                      /\ \A m, n \in 1..Length(lake'[j]) :
                           lake'[j].observations[m].id = lake'[j].observations[n].id
                             => m = n
                      /\ \A o \in Contents(lake'[j]) : o.id \in 1 .. clock' - 1
    BY DEF LakesInv
  <2>1. CASE j = i
    <3>1. \A m, n \in 1..Len(s) : s[m].id = s[n].id => m = n
      BY <1>1, <1>7 DEF IInv, LakesInv
    <3>2. ASSUME NEW m \in 1..(Len(s) + 1), NEW n \in 1..(Len(s) + 1),
                 lake'[i].observations[m].id = lake'[i].observations[n].id
          PROVE  m = n
      <4> DEFINE L == Len(s)
      <4>0. L \in Nat /\ clock \in Nat
        BY <1>1, <1>7
      <4> HIDE DEF s, L
      <4>1. (m = L + 1 \/ m \in 1..L) /\ (n = L + 1 \/ n \in 1..L)
        BY <4>0, <3>2 DEF L
      <4>2. \A k \in 1..L : lake'[i].observations[k].id = s[k].id /\ s[k].id < clock
        BY <1>7 DEF L
      <4>3. \A k \in 1..L : lake'[i].observations[k].id # clock
        BY <4>0, <4>2, <1>1 DEF L
      <4>4. lake'[i].observations[L + 1].id = clock
        BY <1>2, <1>7 DEF L
      <4>5. m \in 1..L /\ n \in 1..L => m = n
        BY <3>1, <3>2, <4>2 DEF L
      <4>6. QED
        BY <4>1, <4>3, <4>4, <4>5, <3>2
    <3>3. \A o \in Contents(lake[i]) : o.id \in 1 .. clock - 1
      BY <1>1 DEF IInv, LakesInv
    <3>4. \A o \in Contents(lake'[i]) : o.id \in 1 .. clock' - 1
      BY <1>1, <1>2, <1>5, <3>3
    <3>5. QED
      BY <1>1, <1>4, <1>7, <2>1, <3>2, <3>4
  <2>2. CASE j # i
    <3>1. \A o \in Contents(lake[j]) : o.id \in 1 .. clock - 1
      BY DEF IInv, LakesInv
    <3>2. \A o \in Contents(lake[j]) : o.id \in 1 .. clock' - 1
      BY <1>1, <3>1
    <3>3. QED
      BY <1>1, <1>3, <2>2, <3>2 DEF IInv, LakesInv
  <2>3. QED
    BY <2>1, <2>2
<1>13. RowSet' = RowSet /\ \A o \in RowSet : o.id \in 1 .. clock - 1
  BY <1>1 DEF IInv, RowsInv, RowSet
<1>14. RowsInv'
  <2>1. \A o \in RowSet : o.id \in 1 .. clock' - 1
    BY <1>1, <1>13
  <2>2. QED
    BY <1>1, <1>13, <2>1 DEF IInv, RowsInv
<1>15. \A v \in Worker : Pending(v) =>
         /\ v # w /\ InstanceOf[v] \in Instance /\ InstanceOf[v] # i
         /\ job[v].pending # clock
  <2> SUFFICES ASSUME NEW v \in Worker, Pending(v)
               PROVE  /\ v # w /\ InstanceOf[v] \in Instance /\ InstanceOf[v] # i
                      /\ job[v].pending # clock
    OBVIOUS
  <2>1. v # w /\ InstanceOf[v] \in Instance /\ InstanceOf[v] # i
    BY <1>10, InstanceOfAssumption
  <2>2. InHand(v) \in Contents(lake[InstanceOf[v]]) /\ InHand(v).id = job[v].pending
    BY InHandIsNewest
  <2>3. job[v].pending \in 1 .. clock - 1
    BY <2>1, <2>2 DEF IInv, LakesInv
  <2>4. QED
    BY <1>1, <2>1, <2>3
<1>16. PendingInv'
  <2> SUFFICES ASSUME NEW v \in Worker, Pending(v)'
               PROVE  /\ InstanceOf[v] \in up'
                      /\ job'[v].draft \in Draft
                      /\ Length(lake'[InstanceOf[v]]) # 0
                      /\ Newest(InstanceOf[v])'.id = job'[v].pending
                      /\ Newest(InstanceOf[v])'.key = job'[v].draft.key
                      /\ Newest(InstanceOf[v])'.route = job'[v].draft.route
                      /\ \A o \in RowSet' : o.id # job'[v].pending
                      /\ \A u \in Worker : u # v /\ Pending(u)' =>
                           InstanceOf[u] # InstanceOf[v] /\ job'[u].pending # job'[v].pending
    BY DEF PendingInv
  <2>1. \A u \in Worker : u # w => (Pending(u)' <=> Pending(u))
    BY <1>8 DEF Pending
  <2>2. CASE v = w
    <3>1. Newest(i)' = obs /\ Length(lake'[i]) # 0
      BY <1>7 DEF Newest
    <3>2. \A o \in RowSet' : o.id # clock
      BY <1>1, <1>13
    <3>3. QED
      BY <1>1, <1>2, <1>8, <1>9, <1>15, <2>1, <2>2, <3>1, <3>2
  <2>3. CASE v # w
    <3>1. Pending(v) /\ job'[v] = job[v] /\ InstanceOf[v] # i
          /\ lake'[InstanceOf[v]] = lake[InstanceOf[v]] /\ job[v].pending # clock
      BY <1>3, <1>8, <1>15, <2>1, <2>3
    <3>2. \A u \in Worker : u # v /\ Pending(u)' =>
             InstanceOf[u] # InstanceOf[v] /\ job'[u].pending # job'[v].pending
      BY <1>8, <1>9, <2>1, <3>1 DEF IInv, PendingInv
    <3>3. QED
      BY <1>1, <1>13, <3>1, <3>2 DEF IInv, PendingInv, Newest
  <2>4. QED
    BY <2>2, <2>3
<1>17. CapturedIsDurable'
  <2> SUFFICES ASSUME NEW j \in Instance, NEW o \in Contents(lake'[j])
               PROVE  \/ o.route = "analysis"
                      \/ o \in RowSet'
                      \/ \E v \in Worker : InstanceOf[v] = j /\ job'[v].pending = o.id
    BY DEF CapturedIsDurable
  <2>1. CASE j = i /\ o = obs
    BY <1>2, <1>9, <2>1
  <2>2. CASE ~(j = i /\ o = obs)
    <3>1. o \in Contents(lake[j])
      BY <1>3, <1>5, <2>2
    <3>2. o.id # 0
      BY <1>1, <3>1 DEF IInv, LakesInv
    <3>3. \A v \in Worker : job[v].pending = o.id => job'[v].pending = o.id
      BY <1>8, <1>10, <3>2 DEF Pending
    <3>4. QED
      BY <1>13, <3>1, <3>3 DEF IInv, CapturedIsDurable
  <2>3. QED
    BY <2>1, <2>2
<1>18. QED
  BY <1>11, <1>12, <1>14, <1>16, <1>17 DEF IInv

-----------------------------------------------------------------------------
(* An observation of a lake that waits for its row waits in w's hand, when *)
(* w has one in its process: any other worker there has none.              *)
LEMMA OnlyOneInHand ==
  ASSUME IInv, NEW w \in Worker, Pending(w), NEW v \in Worker,
         InstanceOf[v] = InstanceOf[w], NEW o \in Contents(lake[InstanceOf[w]]),
         job[v].pending = o.id
  PROVE  v = w /\ o = InHand(w)
<1> DEFINE i == InstanceOf[w]
<1>1. i \in Instance /\ IsLake(lake[i], Observation)
  BY InstanceOfAssumption DEF IInv, Typed
<1>2. o.id # 0
  BY <1>1 DEF IInv, LakesInv
<1>3. v = w
  BY <1>2 DEF Pending, IInv, PendingInv
<1>4. PICK m \in 1..Length(lake[i]) : lake[i].observations[m] = o
  BY DEF Contents
<1>5. PICK n \in 1..Length(lake[i]) : lake[i].observations[n] = InHand(w)
  BY InHandIsNewest DEF Contents
<1>6. InHand(w).id = o.id
  BY <1>3, InHandIsNewest
<1>7. QED
  BY <1>1, <1>3, <1>4, <1>5, <1>6 DEF IInv, LakesInv

(* Inserting the row in hand keeps the keys of the table apart, and leaves *)
(* every other worker's observation without a row.                         *)
LEMMA InsertRowsInv ==
  ASSUME IInv, NEW w \in Worker, InsertRow(w)
  PROVE  /\ rows' \in Seq(Observation)
         /\ RowSet' = RowSet \cup {InHand(w)}
         /\ RowsInv'
         /\ \A v \in Worker : v # w /\ Pending(v) =>
              \A o \in RowSet' : o.id # job[v].pending
<1> DEFINE obs == InHand(w)
           L == Len(rows)
<1>1. /\ Pending(w) /\ KeyFree(obs.key) /\ rows' = Append(rows, obs) /\ clock' = clock
      /\ rows \in Seq(Observation) /\ L \in Nat /\ InstanceOf[w] \in Instance
  BY InstanceOfAssumption DEF InsertRow, IInv, Typed
<1>2. /\ obs \in Observation /\ obs.id = job[w].pending
      /\ obs \in Contents(lake[InstanceOf[w]])
  BY <1>1, InHandIsNewest
<1> HIDE DEF obs
<1>3. /\ rows' \in Seq(Observation) /\ Len(rows') = L + 1 /\ rows'[L + 1] = obs
      /\ \A n \in 1..L : rows'[n] = rows[n]
  BY <1>1, <1>2
<1>4. 1..(L + 1) = (1..L) \cup {L + 1}
  BY <1>1
<1>5. RowSet' = RowSet \cup {obs}
  <2>1. RowSet' = {rows'[n] : n \in 1..(L + 1)}
    BY <1>3 DEF RowSet
  <2>2. QED
    BY <1>3, <1>4, <2>1 DEF RowSet
<1>6. obs.id \in 1 .. clock - 1
  BY <1>1, <1>2 DEF IInv, LakesInv
<1>7. \A m, n \in 1..Len(rows') : rows'[m].key = rows'[n].key => m = n
  <2> SUFFICES ASSUME NEW m \in 1..Len(rows'), NEW n \in 1..Len(rows'),
                      rows'[m].key = rows'[n].key
               PROVE  m = n
    OBVIOUS
  <2>1. (m = L + 1 \/ m \in 1..L) /\ (n = L + 1 \/ n \in 1..L)
    BY <1>3, <1>4
  <2>2. \A k \in 1..L : rows'[k].key # obs.key
    BY <1>1, <1>3 DEF KeyFree
  <2>3. m \in 1..L /\ n \in 1..L => m = n
    BY <1>3 DEF IInv, RowsInv
  <2>4. QED
    BY <1>3, <2>1, <2>2, <2>3
<1>8. RowsInv'
  BY <1>1, <1>5, <1>6, <1>7 DEF RowsInv, IInv
<1>9. \A v \in Worker : v # w /\ Pending(v) =>
        \A o \in RowSet' : o.id # job[v].pending
  BY <1>1, <1>2, <1>5 DEF IInv, PendingInv
<1>10. QED
  BY <1>3, <1>5, <1>8, <1>9 DEF obs

LEMMA PersistIInv ==
  ASSUME IInv, NEW w \in Worker, Persist(w)
  PROVE  IInv'
<1> USE DEF memory
<1>1. /\ Pending(w) /\ UNCHANGED <<up, lake, blobs, file, blobRows, clock>>
      /\ told' = told \cup {job[w].draft.key} /\ job' = [job EXCEPT ![w] = Idle]
      /\ InsertRow(w)
  BY DEF Persist, InsertRow, Done
<1>2. /\ rows' \in Seq(Observation) /\ RowSet' = RowSet \cup {InHand(w)} /\ RowsInv'
      /\ \A v \in Worker : v # w /\ Pending(v) =>
           \A o \in RowSet' : o.id # job[v].pending
  BY <1>1, InsertRowsInv
<1>3. Idle \in Job /\ Idle.pending = 0
  BY DEF Idle, Job
<1>4. job[w].draft \in Draft
  BY <1>1 DEF IInv, PendingInv
<1>5. Typed'
  BY <1>1, <1>2, <1>3, <1>4, DraftType DEF IInv, Typed
<1>6. LakesInv'
  BY <1>1 DEF IInv, LakesInv
<1>7. \A v \in Worker : /\ Pending(v)' => v # w /\ Pending(v) /\ job'[v] = job[v]
                        /\ v # w => job'[v] = job[v]
  BY <1>1, <1>3 DEF IInv, Typed, Pending
<1>8. PendingInv'
  BY <1>1, <1>2, <1>7 DEF IInv, PendingInv, Newest
<1>9. CapturedIsDurable'
  <2> SUFFICES ASSUME NEW j \in Instance, NEW o \in Contents(lake[j]),
                      o.route # "analysis", o \notin RowSet'
               PROVE  \E v \in Worker : InstanceOf[v] = j /\ job'[v].pending = o.id
    BY <1>1 DEF CapturedIsDurable
  <2>1. PICK v \in Worker : InstanceOf[v] = j /\ job[v].pending = o.id
    BY <1>2 DEF IInv, CapturedIsDurable
  <2>2. v # w
    BY <1>1, <1>2, <2>1, OnlyOneInHand
  <2>3. QED
    BY <1>7, <2>1, <2>2
<1>10. QED
  BY <1>2, <1>5, <1>6, <1>8, <1>9 DEF IInv

LEMMA LeaveIInv ==
  ASSUME IInv, NEW w \in Worker, LeaveAppended(w)
  PROVE  IInv'
<1> USE DEF memory, disk
<1>1. /\ Pending(w) /\ job[w].draft.route = "analysis"
      /\ UNCHANGED <<up, lake, blobs, rows, file, blobRows, told, clock>>
      /\ job' = [job EXCEPT ![w] = Idle]
  BY DEF LeaveAppended, Done
<1>2. Idle \in Job /\ Idle.pending = 0
  BY DEF Idle, Job
<1>3. Typed' /\ LakesInv' /\ RowsInv' /\ RowSet' = RowSet
  BY <1>1, <1>2 DEF IInv, Typed, LakesInv, RowsInv, RowSet
<1>4. \A v \in Worker : /\ Pending(v)' => v # w /\ Pending(v) /\ job'[v] = job[v]
                        /\ v # w => job'[v] = job[v]
  BY <1>1, <1>2 DEF IInv, Typed, Pending
<1>5. PendingInv'
  BY <1>1, <1>3, <1>4 DEF IInv, PendingInv, Newest
<1>6. InHand(w).route = "analysis"
  BY <1>1, InHandIsNewest DEF IInv, PendingInv
<1>7. CapturedIsDurable'
  <2> SUFFICES ASSUME NEW j \in Instance, NEW o \in Contents(lake[j]),
                      o.route # "analysis", o \notin RowSet
               PROVE  \E v \in Worker : InstanceOf[v] = j /\ job'[v].pending = o.id
    BY <1>1, <1>3 DEF CapturedIsDurable
  <2>1. PICK v \in Worker : InstanceOf[v] = j /\ job[v].pending = o.id
    BY DEF IInv, CapturedIsDurable
  <2>2. v # w
    BY <1>1, <1>6, <2>1, OnlyOneInHand
  <2>3. QED
    BY <1>4, <2>1, <2>2
<1>8. QED
  BY <1>3, <1>5, <1>7 DEF IInv

(* rollback_last_append takes the newest observation away, and no other.   *)
LEMMA RollbackContents ==
  ASSUME NEW lk, IsLake(lk, Observation), Length(lk) # 0, NEW id,
         lk.observations[Length(lk)].id = id,
         \A m, n \in 1..Length(lk) : lk.observations[m].id = lk.observations[n].id => m = n
  PROVE  /\ Length(RollbackLastAppend(lk, id)) = Length(lk) - 1
         /\ \A n \in 1 .. Length(lk) - 1 :
              RollbackLastAppend(lk, id).observations[n] = lk.observations[n]
         /\ Contents(RollbackLastAppend(lk, id)) =
              Contents(lk) \ {lk.observations[Length(lk)]}
<1> DEFINE s == lk.observations
           L == Length(lk)
           p == SubSeq(s, 1, L - 1)
           after == RollbackLastAppend(lk, id)
<1>1. s \in Seq(Observation) /\ L = Len(s) /\ L \in Nat \ {0}
  BY DEF IsLake, Length
<1>2. after.observations = p
  BY DEF RollbackLastAppend
<1>3. Len(p) = L - 1 /\ \A n \in 1 .. L - 1 : p[n] = s[n]
  BY <1>1
<1>4. 1..L = (1 .. L - 1) \cup {L}
  BY <1>1
<1>5. \A n \in 1 .. L - 1 : s[n] # s[L]
  BY <1>1
<1>6. Contents(after) = {s[n] : n \in 1 .. L - 1}
  BY <1>2, <1>3 DEF Contents, Length
<1>7. Contents(lk) = {s[n] : n \in 1 .. L - 1} \cup {s[L]}
  BY <1>4 DEF Contents
<1>8. Contents(after) = Contents(lk) \ {s[L]}
  BY <1>5, <1>6, <1>7
<1>9. QED
  BY <1>2, <1>3, <1>8 DEF Length

LEMMA RollBackIInv ==
  ASSUME IInv, NEW w \in Worker, RollBack(w)
  PROVE  IInv'
<1> USE DEF memory, disk
<1> DEFINE i == InstanceOf[w]
<1>1. /\ Pending(w) /\ UNCHANGED <<up, blobs, rows, file, blobRows, told, clock>>
      /\ job' = [job EXCEPT ![w] = Idle]
      /\ lake' = [lake EXCEPT ![i] = RollbackLastAppend(@, job[w].pending)]
      /\ i \in Instance /\ IsLake(lake[i], Observation) /\ WellFormed(lake[i])
  BY InstanceOfAssumption DEF RollBack, Done, IInv, Typed, LakesInv
<1>2. Idle \in Job /\ Idle.pending = 0
  BY DEF Idle, Job
<1>3. /\ lake'[i] = RollbackLastAppend(lake[i], job[w].pending)
      /\ \A j \in Instance : j # i => lake'[j] = lake[j]
      /\ lake' = [j \in Instance |-> lake'[j]]
  BY <1>1 DEF IInv, Typed
<1>4. IsLake(lake'[i], Observation) /\ WellFormed(lake'[i])
  BY <1>1, <1>3, RollbackWellFormed
<1>5. Length(lake[i]) # 0 /\ Newest(i).id = job[w].pending /\ i \in up
  BY <1>1 DEF IInv, PendingInv
<1>6. /\ Length(lake'[i]) = Length(lake[i]) - 1
      /\ \A n \in 1 .. Length(lake[i]) - 1 :
           lake'[i].observations[n] = lake[i].observations[n]
      /\ Contents(lake'[i]) = Contents(lake[i]) \ {InHand(w)}
  <2>1. \A m, n \in 1..Length(lake[i]) :
          lake[i].observations[m].id = lake[i].observations[n].id => m = n
    BY <1>1 DEF IInv, LakesInv
  <2>2. InHand(w) = Newest(i)
    BY <1>1, InHandIsNewest
  <2>3. IsLake(lake[i], Observation) /\ Length(lake[i]) # 0
        /\ lake[i].observations[Length(lake[i])].id = job[w].pending
    BY <1>1, <1>5 DEF Newest
  <2>4. /\ Length(lake'[i]) = Length(lake[i]) - 1
        /\ \A n \in 1 .. Length(lake[i]) - 1 :
             lake'[i].observations[n] = lake[i].observations[n]
        /\ Contents(lake'[i]) = Contents(lake[i]) \ {lake[i].observations[Length(lake[i])]}
    <3>1. /\ Length(RollbackLastAppend(lake[i], job[w].pending)) = Length(lake[i]) - 1
          /\ \A n \in 1 .. Length(lake[i]) - 1 :
               RollbackLastAppend(lake[i], job[w].pending).observations[n]
                 = lake[i].observations[n]
          /\ Contents(RollbackLastAppend(lake[i], job[w].pending)) =
               Contents(lake[i]) \ {lake[i].observations[Length(lake[i])]}
      BY ONLY <2>1, <2>3, RollbackContents
    <3>2. QED
      BY ONLY <1>3, <3>1
  <2>5. QED
    BY ONLY <2>2, <2>4 DEF Newest
<1>7. \A j \in Instance : IsLake(lake'[j], Observation)
  BY <1>3, <1>4 DEF IInv, Typed
<1>8. Typed'
  BY <1>1, <1>2, <1>3, <1>7 DEF IInv, Typed
<1>9. LakesInv'
  <2> SUFFICES ASSUME NEW j \in Instance
               PROVE  /\ WellFormed(lake'[j])
                      /\ j \notin up' => lake'[j] = EmptyLake
                      /\ \A m, n \in 1..Length(lake'[j]) :
                           lake'[j].observations[m].id = lake'[j].observations[n].id
                             => m = n
                      /\ \A o \in Contents(lake'[j]) : o.id \in 1 .. clock' - 1
    BY DEF LakesInv
  <2>1. CASE j = i
    <3>1. Length(lake[i]) \in Nat
      BY <1>1 DEF IsLake, Length
    <3>2. \A m \in 1..Length(lake'[i]) :
            m \in 1 .. Length(lake[i]) - 1 /\ m \in 1..Length(lake[i])
      BY <1>6, <3>1
    <3>3. \A m, n \in 1..Length(lake'[i]) :
            lake'[i].observations[m].id = lake'[i].observations[n].id => m = n
      BY <1>1, <1>6, <3>2 DEF IInv, LakesInv
    <3>4. \A o \in Contents(lake'[i]) : o.id \in 1 .. clock' - 1
      BY <1>1, <1>6 DEF IInv, LakesInv
    <3>5. QED
      BY <1>1, <1>4, <1>5, <2>1, <3>3, <3>4
  <2>2. CASE j # i
    BY <1>1, <1>3, <2>2 DEF IInv, LakesInv
  <2>3. QED
    BY <2>1, <2>2
<1>10. RowsInv' /\ RowSet' = RowSet
  BY <1>1 DEF IInv, RowsInv, RowSet
<1>11. \A v \in Worker : /\ Pending(v)' => v # w /\ Pending(v) /\ job'[v] = job[v]
                         /\ v # w => job'[v] = job[v]
  BY <1>1, <1>2 DEF IInv, Typed, Pending
<1>12. PendingInv'
  <2>1. \A v \in Worker : Pending(v)' =>
          lake'[InstanceOf[v]] = lake[InstanceOf[v]] /\ InstanceOf[v] # i
    BY <1>1, <1>3, <1>11, InstanceOfAssumption DEF IInv, PendingInv
  <2>2. QED
    BY <1>1, <1>10, <1>11, <2>1 DEF IInv, PendingInv, Newest
<1>13. CapturedIsDurable'
  <2> SUFFICES ASSUME NEW j \in Instance, NEW o \in Contents(lake'[j]),
                      o.route # "analysis", o \notin RowSet
               PROVE  \E v \in Worker : InstanceOf[v] = j /\ job'[v].pending = o.id
    BY <1>10 DEF CapturedIsDurable
  <2>1. o \in Contents(lake[j]) /\ (j = i => o # InHand(w))
    BY <1>3, <1>6
  <2>2. PICK v \in Worker : InstanceOf[v] = j /\ job[v].pending = o.id
    BY <2>1 DEF IInv, CapturedIsDurable
  <2>3. v # w
    BY <1>1, <2>1, <2>2, OnlyOneInHand
  <2>4. QED
    BY <1>11, <2>2, <2>3
<1>14. QED
  BY <1>8, <1>9, <1>10, <1>12, <1>13 DEF IInv

-----------------------------------------------------------------------------
(* A process dies, with at most the row it was inserting committed.        *)
LEMMA DownIInv ==
  ASSUME IInv, NEW i \in Instance, Down(i), UNCHANGED <<told, clock>>,
         rows' \in Seq(Observation), RowsInv', RowSet \subseteq RowSet',
         file' \in [Blob -> {"none", "torn", "whole"}], blobRows' \subseteq Blob,
         \A v \in Worker : InstanceOf[v] # i /\ Pending(v) =>
           \A o \in RowSet' : o.id # job[v].pending
  PROVE  IInv'
<1>1. /\ up' = up \ {i}
      /\ lake' = [lake EXCEPT ![i] = EmptyLake]
      /\ blobs' = [blobs EXCEPT ![i] = {}]
      /\ job' = [w \in Worker |-> IF InstanceOf[w] = i THEN Idle ELSE job[w]]
      /\ clock' = clock /\ told' = told
  BY DEF Down
<1>2. IsLake(EmptyLake, Observation) /\ WellFormed(EmptyLake)
  BY DEF EmptyLake, IsLake, WellFormed, KeysOf, KeyedPositions
<1>3. Length(EmptyLake) = 0 /\ Contents(EmptyLake) = {}
  BY DEF EmptyLake, Length, Contents
<1>4. Idle \in Job /\ Idle.pending = 0
  BY DEF Idle, Job
<1>5. /\ lake'[i] = EmptyLake /\ \A j \in Instance : j # i => lake'[j] = lake[j]
      /\ lake' = [j \in Instance |-> lake'[j]]
  BY <1>1 DEF IInv, Typed
<1>6. Typed'
  <2>1. \A j \in Instance : IsLake(lake'[j], Observation)
    BY <1>2, <1>5 DEF IInv, Typed
  <2>2. job' \in [Worker -> Job]
    BY <1>1, <1>4 DEF IInv, Typed
  <2>3. blobs' \in [Instance -> SUBSET Blob]
    BY <1>1 DEF IInv, Typed
  <2>4. QED
    BY <1>1, <1>5, <2>1, <2>2, <2>3 DEF IInv, Typed
<1>7. LakesInv'
  <2> SUFFICES ASSUME NEW j \in Instance
               PROVE  /\ WellFormed(lake'[j])
                      /\ j \notin up' => lake'[j] = EmptyLake
                      /\ \A m, n \in 1..Length(lake'[j]) :
                           lake'[j].observations[m].id = lake'[j].observations[n].id
                             => m = n
                      /\ \A o \in Contents(lake'[j]) : o.id \in 1 .. clock' - 1
    BY DEF LakesInv
  <2>1. CASE j = i
    BY <1>2, <1>3, <1>5, <2>1
  <2>2. CASE j # i
    BY <1>1, <1>5, <2>2 DEF IInv, LakesInv
  <2>3. QED
    BY <2>1, <2>2
<1>8. \A v \in Worker : /\ Pending(v)' => InstanceOf[v] # i
                        /\ InstanceOf[v] # i => job'[v] = job[v]
  BY <1>1, <1>4 DEF Pending
<1>9. PendingInv'
  BY <1>1, <1>5, <1>8, InstanceOfAssumption DEF IInv, PendingInv, Newest, Pending
<1>10. CapturedIsDurable'
  BY <1>1, <1>3, <1>5, <1>8 DEF IInv, CapturedIsDurable
<1>11. QED
  BY <1>6, <1>7, <1>9, <1>10 DEF IInv

LEMMA CrashIInv ==
  ASSUME IInv,
         \/ \E i \in Instance : Crash(i)
         \/ \E w \in Worker :
              CrashAfterCommit(w) \/ \E b \in Blob : CrashInStoreBlob(w, b)
  PROVE  IInv'
<1> USE DEF disk
<1>1. ASSUME NEW i \in Instance, Crash(i)
      PROVE  IInv'
  <2>1. Down(i) /\ UNCHANGED <<rows, file, blobRows, told, clock>>
    BY <1>1 DEF Crash
  <2>2. RowsInv' /\ RowSet' = RowSet
    BY <2>1 DEF IInv, RowsInv, RowSet
  <2>3. QED
    BY <2>1, <2>2, DownIInv DEF IInv, Typed, PendingInv
<1>2. ASSUME NEW w \in Worker, CrashAfterCommit(w)
      PROVE  IInv'
  <2>1. /\ Down(InstanceOf[w]) /\ UNCHANGED <<file, blobRows, told, clock>>
        /\ InsertRow(w) /\ InstanceOf[w] \in Instance
    BY <1>2, InstanceOfAssumption DEF CrashAfterCommit, InsertRow
  <2>2. /\ rows' \in Seq(Observation) /\ RowSet \subseteq RowSet' /\ RowsInv'
        /\ \A v \in Worker : v # w /\ Pending(v) =>
             \A o \in RowSet' : o.id # job[v].pending
    BY <2>1, InsertRowsInv
  <2>3. QED
    BY <2>1, <2>2, DownIInv DEF IInv, Typed
<1>3. ASSUME NEW w \in Worker, NEW b \in Blob, CrashInStoreBlob(w, b)
      PROVE  IInv'
  <2>1. /\ Down(InstanceOf[w]) /\ UNCHANGED <<rows, blobRows, told, clock>>
        /\ InstanceOf[w] \in Instance
    BY <1>3, InstanceOfAssumption DEF CrashInStoreBlob
  <2>2. file' \in [Blob -> {"none", "torn", "whole"}]
    BY <1>3 DEF CrashInStoreBlob, WriteFile, IInv, Typed
  <2>3. RowsInv' /\ RowSet' = RowSet
    BY <2>1 DEF IInv, RowsInv, RowSet
  <2>4. QED
    BY <2>1, <2>2, <2>3, DownIInv DEF IInv, Typed, PendingInv
<1>4. QED
  BY <1>1, <1>2, <1>3

(* A bootstrap builds its lake from the table alone, in the order of ids.  *)
LEMMA RestartIInv ==
  ASSUME IInv, NEW i \in Instance, Restart(i)
  PROVE  IInv'
<1> USE DEF disk
<1>1. PICK s \in [1..Len(rows) -> RowSet] :
        IsListing(s) /\ lake' = [lake EXCEPT ![i] = Replayed(s)]
  BY DEF Restart
<1>2. /\ i \notin up /\ up' = up \cup {i} /\ blobs' = [blobs EXCEPT ![i] = Readable]
      /\ UNCHANGED <<rows, file, blobRows, job, told, clock>>
  BY DEF Restart
<1>3. /\ rows \in Seq(Observation) /\ Len(rows) \in Nat /\ RowSet' = RowSet
      /\ RowSet \subseteq Observation
  BY <1>2 DEF IInv, Typed, RowSet
<1>4. s \in Seq(Observation) /\ Len(s) = Len(rows) /\ \A n \in 1..Len(s) : s[n] \in RowSet
  BY <1>1, <1>3
<1>5. \A m, n \in 1..Len(s) : s[m].id = s[n].id => m = n
  <2>1. \A m, n \in 1..Len(s) : m < n => s[m].id < s[n].id
    BY <1>1, <1>4 DEF IsListing
  <2>2. \A n \in 1..Len(s) : s[n].id \in Nat /\ n \in Nat
    BY <1>3, <1>4 DEF Observation
  <2>3. QED
    BY <2>1, <2>2
<1>6. \A m, n \in 1..Len(s) : s[m].key = s[n].key => m = n
  <2> SUFFICES ASSUME NEW m \in 1..Len(s), NEW n \in 1..Len(s), s[m].key = s[n].key
               PROVE  m = n
    OBVIOUS
  <2>1. PICK a \in 1..Len(rows) : s[m] = rows[a]
    BY <1>4 DEF RowSet
  <2>2. PICK b \in 1..Len(rows) : s[n] = rows[b]
    BY <1>4 DEF RowSet
  <2>3. a = b
    BY <2>1, <2>2 DEF IInv, RowsInv
  <2>4. QED
    BY <1>5, <2>1, <2>2, <2>3
<1>7. /\ IsLake(Replayed(s), Observation) /\ WellFormed(Replayed(s))
      /\ Contents(Replayed(s)) = RowSet
  <2>1. \A m, n \in KeyedPositions(s) : s[m].key = s[n].key => m = n
    BY <1>6 DEF KeyedPositions
  <2>2. {s[n] : n \in 1..Len(s)} = RowSet
    BY <1>1, <1>4 DEF IsListing
  <2>3. s \in Seq(Observation)
    BY <1>4
  <2>4. /\ IsLake(Replayed(s), Observation) /\ WellFormed(Replayed(s))
        /\ Contents(Replayed(s)) = {s[n] : n \in 1..Len(s)}
    BY ONLY <2>1, <2>3, ReplayedWellFormed
  <2>5. QED
    BY <2>2, <2>4
<1>8. Length(Replayed(s)) = Len(s) /\ Replayed(s).observations = s
  BY DEF Replayed, Length
<1>9. /\ lake'[i] = Replayed(s) /\ \A j \in Instance : j # i => lake'[j] = lake[j]
      /\ lake' = [j \in Instance |-> lake'[j]]
  BY <1>1 DEF IInv, Typed
<1>10. Typed'
  <2>1. \A j \in Instance : IsLake(lake'[j], Observation)
    BY <1>7, <1>9 DEF IInv, Typed
  <2>2. blobs' \in [Instance -> SUBSET Blob]
    BY <1>2 DEF IInv, Typed, Readable
  <2>3. QED
    BY <1>2, <1>9, <2>1, <2>2 DEF IInv, Typed
<1>11. LakesInv'
  <2> SUFFICES ASSUME NEW j \in Instance
               PROVE  /\ WellFormed(lake'[j])
                      /\ j \notin up' => lake'[j] = EmptyLake
                      /\ \A m, n \in 1..Length(lake'[j]) :
                           lake'[j].observations[m].id = lake'[j].observations[n].id
                             => m = n
                      /\ \A o \in Contents(lake'[j]) : o.id \in 1 .. clock' - 1
    BY DEF LakesInv
  <2>1. CASE j = i
    BY <1>2, <1>5, <1>7, <1>8, <1>9, <2>1 DEF IInv, RowsInv
  <2>2. CASE j # i
    BY <1>2, <1>9, <2>2 DEF IInv, LakesInv
  <2>3. QED
    BY <2>1, <2>2
<1>12. RowsInv'
  BY <1>2, <1>3 DEF IInv, RowsInv
<1>13. PendingInv'
  BY <1>2, <1>3, <1>9, InstanceOfAssumption DEF IInv, PendingInv, Newest, Pending
<1>14. CapturedIsDurable'
  BY <1>2, <1>3, <1>7, <1>9 DEF IInv, CapturedIsDurable
<1>15. QED
  BY <1>10, <1>11, <1>12, <1>13, <1>14 DEF IInv

LEMMA NextIInv == IInv /\ [Next]_vars => IInv'
<1> SUFFICES ASSUME IInv, [Next]_vars
             PROVE  IInv'
  OBVIOUS
<1>1. CASE UNCHANGED vars
  BY <1>1, NextQuiet
<1>2. CASE Tick
  BY <1>2, NextQuiet
<1>3. ASSUME NEW w \in Worker, WorkerStep(w)
      PROVE  IInv'
  BY <1>3, NextQuiet, AppendIInv, PersistIInv, RollBackIInv, LeaveIInv, CrashIInv
     DEF WorkerStep
<1>4. ASSUME NEW i \in Instance, Crash(i) \/ Restart(i)
      PROVE  IInv'
  BY <1>4, CrashIInv, RestartIInv
<1>5. QED
  BY <1>1, <1>2, <1>3, <1>4 DEF Next

LEMMA Invariance == Spec => []IInv
  BY InitIInv, NextIInv, PTL DEF Spec

-----------------------------------------------------------------------------
(* What has been stored of the attachments: a registered blob has a file,  *)
(* and the blobs of whatever is past its store_blob calls are registered.  *)
BlobsInv ==
  /\ \A b \in blobRows : file[b] # "none"
  /\ \A w \in Worker : job[w].draft # NoDraft =>
       job[w].draft.blobs \subseteq job[w].todo \cup blobRows
  /\ \A i \in Instance : \A o \in Contents(lake[i]) : o.blobs \subseteq blobRows
  /\ AttachmentsKept

(* Files are written once and blob rows are never deleted.                 *)
LEMMA FilesKept ==
  ASSUME IInv, [Next]_vars
  PROVE  /\ blobRows \subseteq blobRows'
         /\ \A b \in Blob : file[b] # "none" => file'[b] = file[b]
         /\ (\A b \in blobRows : file[b] # "none") =>
              \A b \in blobRows' : file'[b] # "none"
<1> USE DEF disk
<1>1. /\ file \in [Blob -> {"none", "torn", "whole"}] /\ blobRows \subseteq Blob
  BY DEF IInv, Typed
<1>2. ASSUME NEW w \in Worker, NEW b \in Blob, StoreBlob(w, b)
      PROVE  /\ blobRows' = blobRows \cup {b} /\ file'[b] # "none"
             /\ \A c \in Blob : file[c] # "none" => file'[c] = file[c]
  BY <1>1, <1>2 DEF StoreBlob, WriteFile
<1>3. ASSUME NEW w \in Worker, NEW b \in Blob,
             StoreBlobFails(w, b) \/ CrashInStoreBlob(w, b)
      PROVE  /\ blobRows' = blobRows
             /\ \A c \in Blob : file[c] # "none" => file'[c] = file[c]
  <2>1. blobRows' = blobRows /\ \E outcomes : WriteFile(b, outcomes)
    BY <1>3 DEF StoreBlobFails, CrashInStoreBlob
  <2>2. QED
    BY <1>1, <2>1 DEF WriteFile
<1>4. \/ UNCHANGED <<file, blobRows>>
      \/ \E w \in Worker, b \in Blob :
           StoreBlob(w, b) \/ StoreBlobFails(w, b) \/ CrashInStoreBlob(w, b)
  BY DEF Next, WorkerStep, vars, Begin, RefuseDraft, IngestDuplicate, AppendToLake,
         Persist, InsertRow, RollBack, LeaveAppended, CrashAfterCommit, Crash, Restart, Tick
<1>5. QED
  BY <1>1, <1>2, <1>3, <1>4

(* What a step can do to a process's lake: keep it while blobs are added,  *)
(* append the observation built from a worker's draft, drop one that is    *)
(* not durable, empty it as the process dies, or replay the table.         *)
LEMMA LakeStep ==
  ASSUME IInv, [Next]_vars, NEW i \in Instance
  PROVE  \/ Contents(lake'[i]) = Contents(lake[i]) /\ blobs[i] \subseteq blobs'[i]
         \/ \E w \in Worker : /\ InstanceOf[w] = i /\ AppendToLake(w) /\ UNCHANGED blobs
                              /\ Contents(lake'[i]) =
                                   Contents(lake[i]) \cup {Built(job[w].draft)}
         \/ /\ Contents(lake'[i]) \subseteq Contents(lake[i])
            /\ Contents(lake[i]) \cap RowSet \subseteq Contents(lake'[i])
            /\ UNCHANGED blobs
         \/ i \notin up' /\ Contents(lake'[i]) = {}
         \/ i \notin up /\ Restart(i) /\ Contents(lake'[i]) = RowSet
<1> USE DEF memory, disk
<1>1. /\ lake = [j \in Instance |-> lake[j]] /\ IsLake(lake[i], Observation)
      /\ WellFormed(lake[i]) /\ blobs \in [Instance -> SUBSET Blob]
      /\ \A w \in Worker : InstanceOf[w] \in Instance
  BY InstanceOfAssumption DEF IInv, Typed, LakesInv
<1>2. ASSUME NEW w \in Worker, NEW b \in Blob, PutInMemory(w, b)
      PROVE  Contents(lake'[i]) = Contents(lake[i]) /\ blobs[i] \subseteq blobs'[i]
  BY <1>1, <1>2 DEF PutInMemory
<1>3. ASSUME NEW w \in Worker, AppendToLake(w)
      PROVE  /\ UNCHANGED blobs
             /\ \/ UNCHANGED lake[i]
                \/ /\ InstanceOf[w] = i
                   /\ Contents(lake'[i]) = Contents(lake[i]) \cup {Built(job[w].draft)}
  <2> SUFFICES ASSUME ~ UNCHANGED lake[i]
               PROVE  /\ InstanceOf[w] = i
                      /\ Contents(lake'[i]) = Contents(lake[i]) \cup {Built(job[w].draft)}
    BY <1>3 DEF AppendToLake
  <2>1. lake' = [lake EXCEPT ![InstanceOf[w]] = Appended(w).lake] /\ Appended(w).appended
    BY <1>3 DEF AppendToLake
  <2>2. InstanceOf[w] = i
    BY <1>1, <2>1
  <2>3. lake'[i] = LakeAppend(lake[i], Built(job[w].draft)).lake
    BY <1>1, <2>1, <2>2 DEF Appended
  <2>4. job[w].draft \in Draft /\ clock \in Nat
    BY <1>3 DEF AppendToLake, Ready, Busy, IInv, Typed, Job
  <2>5. Built(job[w].draft) \in Observation
    BY <2>4, DraftType DEF Built, Observation
  <2>6. QED
    BY <1>1, <2>1, <2>2, <2>3, <2>5, AppendContents DEF Appended
<1>4. ASSUME NEW w \in Worker, RollBack(w)
      PROVE  /\ Contents(lake'[i]) \subseteq Contents(lake[i])
             /\ Contents(lake[i]) \cap RowSet \subseteq Contents(lake'[i])
             /\ UNCHANGED blobs
  <2>1. /\ lake' = [lake EXCEPT ![InstanceOf[w]] = RollbackLastAppend(@, job[w].pending)]
        /\ Pending(w) /\ UNCHANGED blobs
    BY <1>4 DEF RollBack
  <2>2. CASE InstanceOf[w] # i
    BY <1>1, <2>1, <2>2
  <2>3. CASE InstanceOf[w] = i
    <3>1. lake'[i] = RollbackLastAppend(lake[i], job[w].pending)
      BY <1>1, <2>1, <2>3
    <3>2. /\ Length(lake[i]) # 0 /\ Newest(i).id = job[w].pending
          /\ \A o \in RowSet : o.id # job[w].pending
      BY <2>1, <2>3 DEF IInv, PendingInv
    <3>3. \A m, n \in 1..Length(lake[i]) :
            lake[i].observations[m].id = lake[i].observations[n].id => m = n
      BY DEF IInv, LakesInv
    <3>4. Contents(lake'[i]) = Contents(lake[i]) \ {Newest(i)}
      BY <1>1, <3>1, <3>2, <3>3, RollbackContents DEF Newest
    <3>5. QED
      BY <2>1, <3>2, <3>4
  <2>4. QED
    BY <2>2, <2>3
<1>5. ASSUME NEW j \in Instance, Down(j)
      PROVE  \/ UNCHANGED <<lake[i], blobs[i]>>
             \/ i \notin up' /\ Contents(lake'[i]) = {}
  <2>1. CASE j # i
    BY <1>1, <1>5, <2>1 DEF Down
  <2>2. CASE j = i
    <3>1. lake'[i] = EmptyLake /\ i \notin up'
      BY <1>1, <1>5, <2>2 DEF Down
    <3>2. QED
      BY <3>1 DEF EmptyLake, Contents, Length
  <2>3. QED
    BY <2>1, <2>2
<1>6. ASSUME NEW j \in Instance, Restart(j)
      PROVE  \/ UNCHANGED <<lake[i], blobs[i]>>
             \/ i \notin up /\ Restart(i) /\ Contents(lake'[i]) = RowSet
  <2>1. PICK s \in [1..Len(rows) -> RowSet] :
          IsListing(s) /\ lake' = [lake EXCEPT ![j] = Replayed(s)]
    BY <1>6 DEF Restart
  <2>2. CASE j # i
    BY <1>1, <1>6, <2>1, <2>2 DEF Restart
  <2>3. CASE j = i
    <3>1. lake'[i] = Replayed(s) /\ i \notin up
      BY <1>1, <1>6, <2>1, <2>3 DEF Restart
    <3>2. Len(rows) \in Nat /\ s \in Seq(RowSet) /\ Len(s) = Len(rows)
      BY <2>1 DEF IInv, Typed
    <3>3. Contents(Replayed(s)) = RowSet
      BY <2>1, <3>2 DEF Contents, Length, Replayed, IsListing
    <3>4. QED
      BY <1>6, <2>3, <3>1, <3>3
  <2>4. QED
    BY <2>2, <2>3
<1>7. \/ UNCHANGED <<lake, blobs>>
      \/ \E w \in Worker : \/ AppendToLake(w) \/ RollBack(w) \/ Down(InstanceOf[w])
                           \/ \E b \in Blob : PutInMemory(w, b)
      \/ \E j \in Instance : Down(j) \/ Restart(j)
  BY DEF Next, WorkerStep, vars, Begin, StoreBlob, StoreBlobFails,
         CrashInStoreBlob, RefuseDraft, IngestDuplicate, Persist, LeaveAppended,
         CrashAfterCommit, Crash, Tick
<1>8. QED
  BY <1>1, <1>2, <1>3, <1>4, <1>5, <1>6, <1>7

(* The table only grows, and only by an observation a worker has in hand.  *)
LEMMA RowsStep ==
  ASSUME IInv, [Next]_vars
  PROVE  \/ UNCHANGED rows
         \/ \E w \in Worker :
              InsertRow(w) /\ RowSet' = RowSet \cup {InHand(w)}
<1>1. \/ UNCHANGED rows
      \/ \E w \in Worker : InsertRow(w)
  BY DEF Next, WorkerStep, vars, memory, disk, Begin, StoreBlob, StoreBlobFails,
         PutInMemory, CrashInStoreBlob, RefuseDraft, IngestDuplicate, AppendToLake,
         Persist, RollBack, LeaveAppended, CrashAfterCommit, Crash, Restart, Tick
<1>2. QED
  BY <1>1, InsertRowsInv

(* A worker with a draft in hand began it, or still has it, with at most   *)
(* one blob stored since.                                                  *)
LEMMA JobStep ==
  ASSUME IInv, [Next]_vars, NEW w \in Worker, job'[w].draft # NoDraft
  PROVE  \/ job'[w].draft.blobs = job'[w].todo
         \/ /\ job'[w].draft = job[w].draft
            /\ job[w].todo \subseteq job'[w].todo \cup blobRows'
<1> USE DEF memory, disk
<1>1. job \in [Worker -> Job] /\ Idle.draft = NoDraft
  BY DEF IInv, Typed, Idle
<1>2. ASSUME NEW v \in Worker, NEW d \in Draft, Begin(v, d)
      PROVE  job'[w].draft.blobs = job'[w].todo \/ job'[w] = job[w]
  BY <1>1, <1>2 DEF Begin
<1>3. ASSUME NEW v \in Worker, NEW b \in Blob, StoreBlob(v, b)
      PROVE  /\ job'[w].draft = job[w].draft
             /\ job[w].todo \subseteq job'[w].todo \cup blobRows'
  BY <1>1, <1>3 DEF StoreBlob, Job
<1>4. ASSUME NEW v \in Worker, AppendToLake(v)
      PROVE  job'[w].draft = job[w].draft /\ job'[w].todo = job[w].todo
  BY <1>1, <1>4 DEF AppendToLake, Job
<1>5. ASSUME NEW v \in Worker, Done(v)
      PROVE  job'[w] = job[w]
  BY <1>1, <1>5 DEF Done
<1>6. ASSUME NEW j \in Instance, Down(j)
      PROVE  job'[w] = job[w]
  BY <1>1, <1>6 DEF Down
<1>7. \/ UNCHANGED job
      \/ \E v \in Worker : \/ \E d \in Draft : Begin(v, d)
                           \/ \E b \in Blob : StoreBlob(v, b)
                           \/ AppendToLake(v) \/ Done(v) \/ Down(InstanceOf[v])
      \/ \E j \in Instance : Down(j)
  BY DEF Next, WorkerStep, vars, StoreBlobFails, CrashInStoreBlob, RefuseDraft,
         IngestDuplicate, Persist, RollBack, LeaveAppended, CrashAfterCommit,
         Crash, Restart, Tick
<1>8. QED
  BY <1>2, <1>3, <1>4, <1>5, <1>6, <1>7, InstanceOfAssumption

LEMMA NextBlobsInv == IInv /\ BlobsInv /\ [Next]_vars => BlobsInv'
<1> SUFFICES ASSUME IInv, BlobsInv, [Next]_vars
             PROVE  BlobsInv'
  OBVIOUS
<1>1. /\ blobRows \subseteq blobRows'
      /\ \A b \in Blob : file[b] # "none" => file'[b] = file[b]
      /\ \A b \in blobRows' : file'[b] # "none"
      /\ blobRows \subseteq Blob /\ file \in [Blob -> {"none", "torn", "whole"}]
  BY FilesKept DEF BlobsInv, IInv, Typed
<1>2. \A w \in Worker : job'[w].draft # NoDraft =>
        job'[w].draft.blobs \subseteq job'[w].todo \cup blobRows'
  BY <1>1, JobStep DEF BlobsInv
<1>3. ASSUME NEW w \in Worker, AppendToLake(w)
      PROVE  /\ Built(job[w].draft).blobs \subseteq blobRows'
             /\ Built(job[w].draft).blobs \subseteq blobs[InstanceOf[w]]
  BY <1>1, <1>3 DEF AppendToLake, Ready, Busy, Admits, Built, BlobsInv
<1>4. \A o \in RowSet : o.blobs \subseteq blobRows
  BY DEF BlobsInv, AttachmentsKept
<1>5. \A i \in Instance : \A o \in Contents(lake'[i]) : o.blobs \subseteq blobRows'
  BY <1>1, <1>3, <1>4, LakeStep DEF BlobsInv
<1>6. \A o \in RowSet' : o.blobs \subseteq blobRows'
  <2>1. CASE UNCHANGED rows
    BY <1>1, <1>4, <2>1 DEF RowSet
  <2>2. ASSUME NEW w \in Worker, InsertRow(w), RowSet' = RowSet \cup {InHand(w)}
        PROVE  \A o \in RowSet' : o.blobs \subseteq blobRows'
    <3>1. InHand(w) \in Contents(lake[InstanceOf[w]]) /\ InstanceOf[w] \in Instance
      BY <2>2, InHandIsNewest, InstanceOfAssumption DEF InsertRow
    <3>2. QED
      BY <1>1, <1>4, <2>2, <3>1 DEF BlobsInv
  <2>3. QED
    BY <2>1, <2>2, RowsStep
<1>7. ASSUME NEW i \in Instance, NEW o \in Contents(lake'[i]), NEW b \in o.blobs
      PROVE  b \in blobs'[i] \/ (b \in blobRows' /\ file'[b] = "torn")
  <2>1. ASSUME o \in Contents(lake[i]), blobs[i] \subseteq blobs'[i]
        PROVE  b \in blobs'[i] \/ (b \in blobRows' /\ file'[b] = "torn")
    BY <1>1, <2>1 DEF BlobsInv, AttachmentsKept
  <2>2. ASSUME Restart(i), o \in RowSet
        PROVE  b \in blobs'[i] \/ (b \in blobRows' /\ file'[b] = "torn")
    <3>1. blobs'[i] = Readable /\ UNCHANGED <<file, blobRows>>
      BY <2>2 DEF Restart, disk, IInv, Typed
    <3>2. b \in blobRows /\ file[b] \in {"torn", "whole"}
      BY <1>1, <1>4, <2>2 DEF BlobsInv
    <3>3. QED
      BY <3>1, <3>2 DEF Readable
  <2>3. QED
    BY <1>3, <2>1, <2>2, LakeStep
<1>8. AttachmentsKept'
  BY <1>6, <1>7 DEF AttachmentsKept
<1>9. QED
  BY <1>1, <1>2, <1>5, <1>8 DEF BlobsInv

LEMMA BlobsInvariance == Spec => []BlobsInv
<1>1. Init => BlobsInv
  BY DEF Init, BlobsInv, AttachmentsKept, Idle, RowSet, Contents, Length, EmptyLake
<1>2. QED
  BY <1>1, NextBlobsInv, Invariance, PTL DEF Spec

-----------------------------------------------------------------------------
(* A process's memory and jobs end with it: its threads put and append     *)
(* only while it is up, and whatever takes it down takes all of them.      *)
LEMMA NextDownIsEmpty == IInv /\ DownIsEmpty /\ [Next]_vars => DownIsEmpty'
<1> SUFFICES ASSUME IInv, DownIsEmpty, [Next]_vars
             PROVE  DownIsEmpty'
  OBVIOUS
<1> USE DEF memory, disk
<1>1. /\ lake = [j \in Instance |-> lake[j]] /\ blobs \in [Instance -> SUBSET Blob]
      /\ job \in [Worker -> Job] /\ \A w \in Worker : InstanceOf[w] \in Instance
  BY InstanceOfAssumption DEF IInv, Typed
<1>2. ASSUME NEW w \in Worker, UNCHANGED up, InstanceOf[w] \in up,
             \A v \in Worker : v # w => job'[v] = job[v],
             \A i \in Instance : i # InstanceOf[w] =>
               lake'[i] = lake[i] /\ blobs'[i] = blobs[i]
      PROVE  DownIsEmpty'
  BY <1>2 DEF DownIsEmpty
<1>3. ASSUME NEW i \in Instance, Down(i)
      PROVE  DownIsEmpty'
  BY <1>1, <1>3 DEF Down, DownIsEmpty
<1>4. CASE UNCHANGED vars \/ Tick
  BY <1>4 DEF vars, Tick, DownIsEmpty
<1>5. ASSUME NEW w \in Worker, WorkerStep(w)
      PROVE  DownIsEmpty'
  <2>1. CASE CrashAfterCommit(w) \/ \E b \in Blob : CrashInStoreBlob(w, b)
    BY <1>1, <1>3, <2>1 DEF CrashAfterCommit, CrashInStoreBlob
  <2>2. CASE \E d \in Draft : Begin(w, d)
    BY <1>1, <1>2, <2>2 DEF Begin
  <2>3. ASSUME job[w] # Idle PROVE InstanceOf[w] \in up
    BY <2>3 DEF DownIsEmpty
  <2>4. ASSUME NEW b \in Blob, StoreBlob(w, b) \/ StoreBlobFails(w, b)
        PROVE  DownIsEmpty'
    <3>1. PutInMemory(w, b) /\ InstanceOf[w] \in up
      BY <2>3, <2>4 DEF StoreBlob, StoreBlobFails, PutInMemory, Busy, Idle
    <3>2. \A v \in Worker : v # w => job'[v] = job[v]
      BY <1>1, <2>4 DEF StoreBlob, StoreBlobFails, Done
    <3>3. QED
      BY <1>1, <1>2, <3>1, <3>2 DEF PutInMemory
  <2>5. CASE RefuseDraft(w) \/ IngestDuplicate(w) \/ AppendToLake(w)
    <3>1. Ready(w) /\ InstanceOf[w] \in up
      BY <2>3, <2>5 DEF RefuseDraft, IngestDuplicate, AppendToLake, Ready, Busy, Idle
    <3>2. QED
      BY <1>1, <1>2, <2>5, <3>1 DEF RefuseDraft, IngestDuplicate, AppendToLake, Done
  <2>6. CASE Persist(w) \/ RollBack(w) \/ LeaveAppended(w)
    <3>1. Pending(w) /\ InstanceOf[w] \in up
      BY <2>3, <2>6 DEF Persist, InsertRow, RollBack, LeaveAppended, Pending, Idle
    <3>2. QED
      BY <1>1, <1>2, <2>6, <3>1 DEF Persist, InsertRow, RollBack, LeaveAppended, Done
  <2>7. QED
    BY <1>5, <2>1, <2>2, <2>4, <2>5, <2>6 DEF WorkerStep
<1>6. ASSUME NEW i \in Instance, Crash(i) \/ Restart(i)
      PROVE  DownIsEmpty'
  <2>1. CASE Crash(i)
    BY <1>3, <2>1 DEF Crash
  <2>2. CASE Restart(i)
    BY <1>1, <2>2 DEF Restart, DownIsEmpty
  <2>3. QED
    BY <1>6, <2>1, <2>2
<1>7. QED
  BY <1>4, <1>5, <1>6 DEF Next

LEMMA DownInvariance == Spec => []DownIsEmpty
<1>1. Init => DownIsEmpty
  BY DEF Init, DownIsEmpty
<1>2. QED
  BY <1>1, NextDownIsEmpty, Invariance, PTL DEF Spec

-----------------------------------------------------------------------------
(* Variables keep their types: an observation is built only from a draft,  *)
(* and the clock stays within its bound.                                   *)
THEOREM IngestTypeCorrect == Spec => []TypeOK
<1>1. IInv /\ DownIsEmpty => TypeOK
  BY DEF IInv, Typed, TypeOK, IsLake
<1>2. QED
  BY <1>1, Invariance, DownInvariance, PTL

(* The dedup index of every process's lake is exact whatever interleaving  *)
(* of appends, failed persists, crashes and restarts: ingest's in-memory   *)
(* deduplication in app.rs can be trusted.                                 *)
THEOREM IngestLakesWellFormed == Spec => []LakesWellFormed
<1>1. IInv => LakesWellFormed
  BY DEF IInv, LakesInv, LakesWellFormed
<1>2. QED
  BY <1>1, Invariance, PTL

(* What ingest_draft put in any process's lake is in the table, except the *)
(* observation a live thread holds between its append and the answer.      *)
THEOREM IngestCapturedIsDurable == Spec => []CapturedIsDurable
<1>1. IInv => CapturedIsDurable
  BY DEF IInv
<1>2. QED
  BY <1>1, Invariance, PTL

(* However many processes and crashes, AppCore::new and load_blobs accept  *)
(* what they find on disk.                                                 *)
THEOREM IngestCanRestart == Spec => []CanRestart
<1>1. IInv /\ BlobsInv => CanRestart
  BY DEF IInv, RowsInv, BlobsInv, CanRestart, BootstrapAccepts
<1>2. QED
  BY <1>1, Invariance, BlobsInvariance, PTL

(* An attachment of an observation is lost only to a torn file.            *)
THEOREM IngestAttachmentsKept == Spec => []AttachmentsKept
<1>1. BlobsInv => AttachmentsKept
  BY DEF BlobsInv
<1>2. QED
  BY <1>1, BlobsInvariance, PTL

(* No step removes a durable observation from the table, or from the lake  *)
(* of a process that survives the step.                                    *)
THEOREM IngestNoDurableLoss == Spec => NoDurableLoss
<1> DEFINE Kept ==
      /\ RowSet \subseteq RowSet'
      /\ \A i \in up \cap up' : Contents(lake[i]) \cap RowSet \subseteq Contents(lake'[i])
<1>1. IInv /\ [Next]_vars => Kept
  <2> SUFFICES ASSUME IInv, [Next]_vars
               PROVE  Kept
    OBVIOUS
  <2>1. RowSet \subseteq RowSet'
    BY RowsStep DEF RowSet
  <2>2. up \subseteq Instance
    BY DEF IInv, Typed
  <2>3. \A i \in up \cap up' : Contents(lake[i]) \cap RowSet \subseteq Contents(lake'[i])
    BY <2>2, LakeStep
  <2>4. QED
    BY <2>1, <2>3
<1>2. QED
  BY <1>1, Invariance, PTL DEF Spec, NoDurableLoss
-----------------------------------------------------------------------------
(* What a lake or the table holds was built from a draft of its route.     *)
FromDraft(o) == \E d \in Draft : d.key = o.key /\ d.route = o.route

RoutesInv ==
  /\ \A i \in Instance : \A o \in Contents(lake[i]) : FromDraft(o)
  /\ \A o \in RowSet : FromDraft(o)

LEMMA RoutesInvariance == Spec => []RoutesInv
<1>1. Init => RoutesInv
  BY DEF Init, RoutesInv, RowSet, Contents, Length, EmptyLake
<1>2. ASSUME IInv, RoutesInv, [Next]_vars
      PROVE  RoutesInv'
  <2>1. ASSUME NEW w \in Worker, AppendToLake(w)
        PROVE  FromDraft(Built(job[w].draft))
    <3>1. job[w].draft \in Draft
      BY <1>2, <2>1 DEF AppendToLake, Ready, Busy, IInv, Typed, Job
    <3>2. QED
      BY <3>1 DEF Built, FromDraft
  <2>2. \A i \in Instance : \A o \in Contents(lake'[i]) : FromDraft(o)
    BY <1>2, <2>1, LakeStep DEF RoutesInv
  <2>3. \A w \in Worker : InsertRow(w) => FromDraft(InHand(w))
    BY <1>2, InHandIsNewest, InstanceOfAssumption DEF InsertRow, RoutesInv
  <2>4. \A o \in RowSet' : FromDraft(o)
    BY <1>2, <2>3, RowsStep DEF RoutesInv, RowSet
  <2>5. QED
    BY <2>2, <2>4 DEF RoutesInv
<1>3. QED
  BY <1>1, <1>2, Invariance, PTL DEF Spec

log == [n \in 1..Len(rows) |-> rows[n].key]
toldCrawler == told \cap KeysOfRoute("crawler")

(* An ingest answered Duplicate without a row would be a lost message: the *)
(* crawler's key it names is in the table.                                 *)
LEMMA DuplicateIsDurable ==
  ASSUME IInv, RoutesInv, NEW w \in Worker, IngestDuplicate(w),
         job[w].draft.key \in KeysOfRoute("crawler")
  PROVE  \E o \in RowSet : o.key = job[w].draft.key
<1> DEFINE i == InstanceOf[w]
           d == job[w].draft
<1>1. /\ i \in Instance /\ d \in Draft /\ CoreFree(i) /\ WellFormed(lake[i])
      /\ d.key \in DOMAIN lake[i].dedup
  BY InstanceOfAssumption
     DEF IngestDuplicate, Ready, Busy, Appended, LakeAppend, Built, IInv, Typed, Job, LakesInv
<1>2. PICK o \in Contents(lake[i]) : o.key = d.key
  BY <1>1 DEF WellFormed, KeysOf, KeyedPositions, Contents, Length
<1>3. d.route = "crawler"
  BY <1>1, RouteAssumption DEF KeysOfRoute
<1>4. o.route # "analysis"
  BY <1>1, <1>2, <1>3, RouteAssumption DEF RoutesInv, FromDraft
<1>5. o.id # 0
  BY <1>1, <1>2 DEF IInv, LakesInv
<1>6. \A v \in Worker : InstanceOf[v] = i => job[v].pending # o.id
  BY <1>1, <1>5 DEF CoreFree, Pending
<1>7. o \in RowSet
  BY <1>1, <1>2, <1>4, <1>6 DEF IInv, CapturedIsDurable
<1>8. QED
  BY <1>2, <1>7

LEMMA LogInsert ==
  ASSUME IInv, NEW w \in Worker, InsertRow(w)
  PROVE  /\ log' = Append(log, job[w].draft.key)
         /\ job[w].draft.key \in Key
         /\ \A n \in 1..Len(log) : log[n] # job[w].draft.key
<1> DEFINE k == job[w].draft.key
           L == Len(rows)
<1>1. /\ Pending(w) /\ rows' = Append(rows, InHand(w)) /\ KeyFree(InHand(w).key)
      /\ rows \in Seq(Observation) /\ L \in Nat /\ InHand(w) \in Observation
  BY InHandIsNewest DEF InsertRow, IInv, Typed
<1>2. InHand(w).key = k /\ k \in Key
  <2>1. job[w].draft \in Draft /\ InHand(w).key = k
    BY <1>1, InHandIsNewest DEF IInv, PendingInv
  <2>2. QED
    BY <2>1, DraftType
<1> HIDE DEF k
<1>3. log \in Seq(Key) /\ Len(log) = L /\ \A n \in 1..L : log[n] = rows[n].key
  <2>1. \A n \in 1..L : rows[n] \in Observation
    BY <1>1
  <2>2. \A n \in 1..L : rows[n].key \in Key
    BY <2>1 DEF Observation
  <2>3. QED
    BY <1>1, <2>2 DEF log
<1>4. Len(rows') = L + 1 /\ rows'[L + 1] = InHand(w) /\ \A n \in 1..L : rows'[n] = rows[n]
  BY <1>1
<1>5. log' = [n \in 1..(L + 1) |-> rows'[n].key]
  BY <1>4 DEF log
<1>6. /\ Append(log, k) \in Seq(Key) /\ Len(Append(log, k)) = L + 1
      /\ Append(log, k)[L + 1] = k /\ \A n \in 1..L : Append(log, k)[n] = log[n]
  BY <1>2, <1>3
<1>7. \A n \in 1..(L + 1) : rows'[n].key = Append(log, k)[n]
  <2>1. \A n \in 1..(L + 1) : n \in 1..L \/ n = L + 1
    BY <1>1
  <2>2. QED
    BY <1>2, <1>3, <1>4, <1>6, <2>1
<1>8. log' = Append(log, k)
  <2>1. \A n \in 1..(L + 1) : rows'[n].key \in Key
    BY <1>6, <1>7
  <2>2. log' \in Seq(Key) /\ Len(log') = L + 1
    BY <1>1, <1>5, <2>1
  <2>3. \A n \in 1..Len(log') : log'[n] = Append(log, k)[n]
    BY <1>5, <1>7, <2>2
  <2>4. QED
    BY <1>6, <2>2, <2>3, SeqEqual
<1>9. QED
  BY <1>1, <1>2, <1>3, <1>8 DEF KeyFree, k

(* With all its processes, failures and crashes the system is an append-   *)
(* only log of distinct keys, which tells a crawler that a key is captured *)
(* only when the log holds it.                                             *)
THEOREM IngestImplementsCaptureLog == Spec => ImplementsCaptureLog
<1>1. Init => Capture!Init
  BY DEF Init, Capture!Init
<1>2. ASSUME IInv, RoutesInv, [Next]_vars
      PROVE  [Capture!Next]_<<log, toldCrawler>>
  <2> USE DEF memory, disk
  <2>1. ASSUME NEW w \in Worker, Persist(w)
        PROVE  Capture!Next
    <3>1. InsertRow(w) /\ told' = told \cup {job[w].draft.key}
      BY <2>1 DEF Persist
    <3>2. PICK k \in Key : k = job[w].draft.key
      BY <1>2, <3>1, LogInsert
    <3>3. toldCrawler' \in {toldCrawler, toldCrawler \cup {k}}
      BY <3>1, <3>2 DEF toldCrawler
    <3>4. Capture!Capture(k)
      BY <1>2, <3>1, <3>2, <3>3, LogInsert DEF Capture!Capture, Capture!Held, log, toldCrawler
    <3>5. QED
      BY <3>4 DEF Capture!Next
  <2>2. ASSUME NEW w \in Worker, CrashAfterCommit(w)
        PROVE  Capture!Next
    <3>1. InsertRow(w) /\ told' = told
      BY <2>2 DEF CrashAfterCommit
    <3>2. PICK k \in Key : k = job[w].draft.key
      BY <1>2, <3>1, LogInsert
    <3>3. toldCrawler' \in {toldCrawler, toldCrawler \cup {k}}
      BY <3>1, <3>2 DEF toldCrawler
    <3>4. Capture!Capture(k)
      BY <1>2, <3>1, <3>2, <3>3, LogInsert DEF Capture!Capture, Capture!Held, log, toldCrawler
    <3>5. QED
      BY <3>4 DEF Capture!Next
  <2>3. ASSUME NEW w \in Worker, IngestDuplicate(w)
        PROVE  [Capture!Next]_<<log, toldCrawler>>
    <3> DEFINE k == job[w].draft.key
    <3>1. UNCHANGED rows /\ told' = told \cup {k}
      BY <2>3 DEF IngestDuplicate
    <3>2. k \in Key
      BY <1>2, <2>3, DraftType DEF IngestDuplicate, Ready, Busy, IInv, Typed, Job
    <3>3. UNCHANGED log
      BY <3>1 DEF log
    <3>4. CASE k \notin KeysOfRoute("crawler")
      BY <3>1, <3>3, <3>4 DEF toldCrawler
    <3>5. CASE k \in KeysOfRoute("crawler")
      <4>1. PICK n \in 1..Len(rows) : rows[n].key = k
        BY <1>2, <2>3, <3>5, DuplicateIsDurable DEF RowSet
      <4>2. rows \in Seq(Observation)
        BY <1>2 DEF IInv, Typed
      <4>3. Len(log) = Len(rows) /\ log[n] = k
        BY <4>1, <4>2 DEF log
      <4>4. toldCrawler' = toldCrawler \cup {k}
        BY <3>1, <3>5 DEF toldCrawler
      <4>5. Capture!Tell(k)
        BY <3>3, <4>1, <4>3, <4>4 DEF Capture!Tell, Capture!Held, log, toldCrawler
      <4>6. QED
        BY <3>2, <4>5 DEF Capture!Next
    <3>6. QED
      BY <3>4, <3>5
  <2>4. \/ UNCHANGED <<rows, told>>
        \/ \E w \in Worker : Persist(w) \/ CrashAfterCommit(w) \/ IngestDuplicate(w)
    BY <1>2 DEF Next, WorkerStep, vars, Begin, StoreBlob, StoreBlobFails, PutInMemory,
         CrashInStoreBlob, RefuseDraft, AppendToLake, RollBack, LeaveAppended,
         Crash, Restart, Tick
  <2>5. UNCHANGED <<rows, told>> => UNCHANGED <<log, toldCrawler>>
    BY DEF log, toldCrawler
  <2>6. QED
    BY <2>1, <2>2, <2>3, <2>4, <2>5
<1>3. QED
  BY <1>1, <1>2, Invariance, RoutesInvariance, PTL
     DEF Spec, ImplementsCaptureLog, Capture!Spec, log, toldCrawler
=============================================================================
