------------------------- MODULE SupplementalProofs --------------------------
(***************************************************************************)
(* Safety of the supplemental store, for any ids, records and calls, and   *)
(* of the analysis records that the server keeps in it, for any decks.     *)
(*                                                                         *)
(* The store: everything follows from two facts about it as a value.       *)
(* Pushing the next version of an id keeps the history complete, and a     *)
(* roll-back gives exactly the store from before the upsert.  The          *)
(* inductive invariant therefore says of a token in hand that rolling back *)
(* with it leads to a store with a complete history, one entry shorter.    *)
(*                                                                         *)
(* The analysis records: rolling back the upsert in hand leads to the rows *)
(* of the table (CacheInv), and every slide worth reading in the decks as  *)
(* last seen is settled or still awaited in the batch (AnalysisInv).       *)
(***************************************************************************)
EXTENDS SupplementalRecords, SupplementalCache, SequenceTheorems,
        FiniteSetTheorems, FunctionTheorems, WellFoundedInduction, TLAPS

Entry == [version : Nat \ {0}, record : Record]

Store == [records : UNION {[K -> Entry] : K \in SUBSET Id}, history : Seq(Entry)]

(* A store as the methods build it. *)
Good(s) ==
  /\ s \in Store
  /\ \A id \in Known(s) : s.records[id].record.id = id
  /\ HistoryComplete(s)

(* The last entry of the history is the one the token stands for. *)
TokenInv ==
  token # NoToken =>
    /\ token.id \in Known(store)
    /\ Good(RolledBack(store, token))
    /\ token.historyLen \in Nat /\ Len(store.history) = token.historyLen + 1
    /\ LET last == store.history[Len(store.history)]
       IN  last.record.id = token.id /\ last.version = store.records[token.id].version

IInv == Good(store) /\ TokenInv

USE RecordsAssumption

-----------------------------------------------------------------------------
(* What has a version is not None. *)
LEMMA NoneIsNone ==
  ASSUME NEW version, NEW record
  PROVE  [version |-> version, record |-> record] # None
<1> DEFINE e == [version |-> version, record |-> record]
<1>1. "version" \in DOMAIN e /\ DOMAIN None = {"none"}
  BY DEF None
<1> QED
  BY <1>1

LEMMA StoreType ==
  ASSUME NEW s \in Store
  PROVE  /\ s = [records |-> s.records, history |-> s.history]
         /\ Known(s) \subseteq Id /\ s.records \in [Known(s) -> Entry]
         /\ \A id \in Known(s) : s.records[id] \in Entry
         /\ s.history \in Seq(Entry) /\ Len(s.history) \in Nat
         /\ DOMAIN s.history = 1..Len(s.history)
         /\ \A n \in DOMAIN s.history : s.history[n] \in Entry
<1>1. PICK K \in SUBSET Id : s.records \in [K -> Entry]
  BY DEF Store
<1> QED
  BY <1>1 DEF Store, Known

LEMMA PutType ==
  ASSUME NEW s \in Store, NEW id \in Id, NEW e \in Entry
  PROVE  /\ Put(s.records, id, e) \in [Known(s) \cup {id} -> Entry]
         /\ Put(s.records, id, e) \in UNION {[K -> Entry] : K \in SUBSET Id}
<1>1. Known(s) \subseteq Id /\ \A k \in Known(s) : s.records[k] \in Entry
  BY StoreType
<1>2. Put(s.records, id, e) \in [Known(s) \cup {id} -> Entry]
  BY <1>1 DEF Put, Known
<1>3. Known(s) \cup {id} \in SUBSET Id
  BY <1>1
<1> QED
  BY <1>2, <1>3

(* The entry a push adds is the last of the history; the others stay. *)
LEMMA PushedHistory ==
  ASSUME NEW s \in Store, NEW e \in Entry, e.record.id \in Id
  PROVE  LET p == Pushed(s, e)
         IN  /\ p \in Store
             /\ Known(p) = Known(s) \cup {e.record.id}
             /\ p.records[e.record.id] = e
             /\ \A id \in Known(s) : id # e.record.id => p.records[id] = s.records[id]
             /\ Len(p.history) = Len(s.history) + 1
             /\ p.history[Len(s.history) + 1] = e
             /\ \A n \in DOMAIN s.history : n \in DOMAIN p.history /\ p.history[n] = s.history[n]
             /\ \A id : VersionsOf(p, id) =
                  VersionsOf(s, id) \cup (IF id = e.record.id THEN {Len(s.history) + 1} ELSE {})
<1> DEFINE p == Pushed(s, e)
<1>1. p.records = Put(s.records, e.record.id, e) /\ p.history = Append(s.history, e)
        /\ p = [records |-> p.records, history |-> p.history]
  BY DEF Pushed
<1>2. s.history \in Seq(Entry) /\ Len(s.history) \in Nat /\ DOMAIN s.history = 1..Len(s.history)
  BY StoreType
<1>3. /\ p.history \in Seq(Entry) /\ Len(p.history) = Len(s.history) + 1
      /\ p.history[Len(s.history) + 1] = e
      /\ \A n \in 1..Len(s.history) : p.history[n] = s.history[n]
      /\ DOMAIN p.history = 1..(Len(s.history) + 1)
  BY <1>1, <1>2
<1>4. p \in Store
  <2> HIDE DEF p
  <2>1. Put(s.records, e.record.id, e) \in UNION {[K -> Entry] : K \in SUBSET Id}
    BY PutType
  <2> QED
    BY <1>1, <1>3, <2>1 DEF Store
<1>5. /\ Known(p) = Known(s) \cup {e.record.id} /\ p.records[e.record.id] = e
      /\ \A id \in Known(s) : id # e.record.id => p.records[id] = s.records[id]
  BY <1>1 DEF Put, Known
<1> HIDE DEF p
<1>6. ASSUME NEW id
      PROVE  VersionsOf(p, id) =
               VersionsOf(s, id) \cup (IF id = e.record.id THEN {Len(s.history) + 1} ELSE {})
  BY <1>2, <1>3 DEF VersionsOf
<1> QED
  BY <1>2, <1>3, <1>4, <1>5, <1>6 DEF p

(* Pushing the next version of an id keeps the history complete. *)
LEMMA PushedGood ==
  ASSUME NEW s, Good(s), NEW e \in Entry, e.record.id \in Id,
         e.version = IF e.record.id \in Known(s) THEN s.records[e.record.id].version + 1 ELSE 1
  PROVE  Good(Pushed(s, e))
<1> DEFINE p == Pushed(s, e)
           last == Len(s.history) + 1
           new == e.record.id
<1>1. s \in Store /\ Len(s.history) \in Nat /\ DOMAIN s.history = 1..Len(s.history)
        /\ \A n \in DOMAIN s.history : s.history[n] \in Entry
  BY StoreType DEF Good
<1>0. ASSUME NEW id \in Known(s) PROVE s.records[id] \in Entry
  BY StoreType DEF Good
<1>2. /\ p \in Store
      /\ Known(p) = Known(s) \cup {new}
      /\ p.records[new] = e
      /\ \A id \in Known(s) : id # new => p.records[id] = s.records[id]
      /\ p.history[last] = e
      /\ \A n \in DOMAIN s.history : p.history[n] = s.history[n]
      /\ \A id : VersionsOf(p, id) = VersionsOf(s, id) \cup (IF id = new THEN {last} ELSE {})
  BY <1>1, PushedHistory
<1> HIDE DEF p
<1>3. \A id \in Known(p) : p.records[id].record.id = id
  BY <1>2 DEF Good
<1>4. \A id : VersionsOf(s, id) \subseteq DOMAIN s.history /\ last \notin VersionsOf(s, id)
  BY <1>1 DEF VersionsOf
<1>5. \A id \in Id \ Known(p) : VersionsOf(p, id) = {}
  BY <1>2 DEF Good, HistoryComplete
<1>6. ASSUME NEW id \in Known(s), id # new
      PROVE  /\ \A m, n \in VersionsOf(p, id) :
                  m < n => p.history[m].version < p.history[n].version
             /\ {p.history[n].version : n \in VersionsOf(p, id)} = 1..p.records[id].version
             /\ \A n \in VersionsOf(p, id) :
                  p.history[n].version = p.records[id].version
                    => p.records[id].record = [p.history[n].record EXCEPT
                                                 !.consent = p.records[id].record.consent]
  <2>1. VersionsOf(p, id) = VersionsOf(s, id) /\ p.records[id] = s.records[id]
    BY <1>2, <1>6
  <2>2. \A n \in VersionsOf(s, id) : p.history[n] = s.history[n]
    BY <1>2, <1>4
  <2>3. {p.history[n].version : n \in VersionsOf(p, id)}
          = {s.history[n].version : n \in VersionsOf(s, id)}
    BY <2>1, <2>2
  <2> QED
    BY <2>1, <2>2, <2>3 DEF Good, HistoryComplete
<1>7. ASSUME TRUE
      PROVE  /\ \A m, n \in VersionsOf(p, new) :
                  m < n => p.history[m].version < p.history[n].version
             /\ {p.history[n].version : n \in VersionsOf(p, new)} = 1..e.version
             /\ \A n \in VersionsOf(p, new) :
                  p.history[n].version = e.version
                    => e.record = [p.history[n].record EXCEPT !.consent = e.record.consent]
  <2> DEFINE before == VersionsOf(s, new)
             V == e.version
  <2>1. VersionsOf(p, new) = before \cup {last} /\ last \notin before
    BY <1>2, <1>4
  <2>2. \A n \in before : p.history[n] = s.history[n] /\ n \in 1..Len(s.history)
    BY <1>1, <1>2, <1>4
  <2>3. V \in Nat \ {0} /\ {s.history[n].version : n \in before} = 1..(V - 1)
    <3>1. CASE new \in Known(s)
      <4>0. s.records[e.record.id] \in Entry
        BY <1>0, <3>1
      <4>1. s.records[new].version \in Nat \ {0} /\ V = s.records[new].version + 1
        BY <3>1, <4>0 DEF Entry
      <4>2. V - 1 = s.records[new].version
        BY <4>1
      <4>3. {s.history[n].version : n \in before} = 1..s.records[new].version
        BY <3>1 DEF Good, HistoryComplete
      <4> QED
        BY <4>1, <4>2, <4>3
    <3>2. CASE new \notin Known(s)
      <4>1. V = 1 /\ before = {}
        BY <3>2 DEF Good, HistoryComplete
      <4> QED
        BY <4>1
    <3> QED
      BY <3>1, <3>2
  <2>4. \A m, n \in before : m < n => s.history[m].version < s.history[n].version
    <3>1. CASE new \in Known(s)
      BY <3>1 DEF Good, HistoryComplete
    <3>2. CASE new \notin Known(s)
      BY <3>2 DEF Good, HistoryComplete
    <3> QED
      BY <3>1, <3>2
  <2>5. \A n \in before : s.history[n].version \in 1..(V - 1)
    BY <2>3
  <2> HIDE DEF before, V
  <2>6. {p.history[n].version : n \in VersionsOf(p, new)}
          = {s.history[n].version : n \in before} \cup {V}
    BY <1>2, <2>1, <2>2 DEF V
  <2>7. \A m, n \in before \cup {last} : m < n => p.history[m].version < p.history[n].version
    <3> SUFFICES ASSUME NEW m \in before \cup {last}, NEW n \in before \cup {last}, m < n
                 PROVE  p.history[m].version < p.history[n].version
      OBVIOUS
    <3>1. m \in before
      BY <1>1, <2>2
    <3>2. CASE n \in before
      BY <2>2, <2>4, <3>1, <3>2
    <3>3. CASE n = last
      <4>1. p.history[n].version = V /\ p.history[m].version \in 1..(V - 1)
        BY <1>2, <2>2, <2>5, <3>1, <3>3 DEF V
      <4> QED
        BY <2>3, <4>1
    <3> QED
      BY <3>2, <3>3
  <2>8. {p.history[n].version : n \in VersionsOf(p, new)} = 1..V
    <3>1. 1..(V - 1) \cup {V} = 1..V
      BY <2>3
    <3> QED
      BY <2>3, <2>6, <3>1
  <2>9. \A n \in before \cup {last} : p.history[n].version = V => n = last
    BY <2>2, <2>3, <2>5
  <2>10. e.record = [e.record EXCEPT !.consent = e.record.consent]
    BY DEF Entry, Record
  <2> QED
    BY <1>2, <2>1, <2>7, <2>8, <2>9, <2>10 DEF V
<1>8. HistoryComplete(p)
  <2>1. ASSUME NEW id \in Known(p)
        PROVE  /\ \A m, n \in VersionsOf(p, id) :
                    m < n => p.history[m].version < p.history[n].version
               /\ {p.history[n].version : n \in VersionsOf(p, id)} = 1..p.records[id].version
               /\ \A n \in VersionsOf(p, id) :
                    p.history[n].version = p.records[id].version
                      => p.records[id].record = [p.history[n].record EXCEPT
                                                   !.consent = p.records[id].record.consent]
    <3>1. CASE id = new
      BY <1>2, <1>7, <3>1
    <3>2. CASE id # new
      BY <1>2, <1>6, <3>2
    <3> QED
      BY <3>1, <3>2
  <2> QED
    BY <1>5, <2>1 DEF HistoryComplete
<1> QED
  BY <1>2, <1>3, <1>8 DEF Good, p

(* A consent update changes the current record in place, in its consent only. *)
LEMMA ConsentGood ==
  ASSUME NEW s, Good(s), NEW id \in Known(s), NEW consent \in Consent
  PROVE  LET c == ConsentUpdated(s, id, consent)
         IN  /\ Good(c) /\ c.history = s.history /\ Known(c) = Known(s)
             /\ \A k \in Known(s) : k # id => c.records[k] = s.records[k]
             /\ c.records[id].version = s.records[id].version
             /\ c.records[id].record = [s.records[id].record EXCEPT !.consent = consent]
<1> DEFINE c == ConsentUpdated(s, id, consent)
<1>1. s \in Store /\ Known(s) \subseteq Id /\ s.history \in Seq(Entry)
        /\ s = [records |-> s.records, history |-> s.history]
        /\ s.records \in [Known(s) -> Entry]
  BY StoreType DEF Good
<1>2. s.records[id] \in Entry
  BY <1>1
<1>3. /\ c.history = s.history
      /\ c.records = [s.records EXCEPT ![id].record.consent = consent]
      /\ c = [records |-> c.records, history |-> c.history]
  BY <1>1 DEF ConsentUpdated
<1> HIDE DEF c
<1>4. /\ Known(c) = Known(s)
      /\ \A k \in Known(s) : k # id => c.records[k] = s.records[k]
      /\ c.records[id] = [s.records[id] EXCEPT !.record.consent = consent]
  BY <1>1, <1>3 DEF Known
<1>5. /\ c.records[id] \in Entry
      /\ c.records[id].version = s.records[id].version
      /\ c.records[id].record = [s.records[id].record EXCEPT !.consent = consent]
      /\ c.records[id].record.consent = consent
      /\ c.records[id].record.id = s.records[id].record.id
  BY <1>2, <1>4 DEF Entry, Record
<1>6. c \in Store
  <2>1. \A k \in Known(s) : c.records[k] \in Entry
    BY <1>1, <1>4, <1>5
  <2>2. c.records \in [Known(s) -> Entry]
    BY <1>1, <1>3, <1>4, <2>1 DEF Known
  <2> QED
    BY <1>1, <1>3, <2>2 DEF Store
<1>7. \A k : VersionsOf(c, k) = VersionsOf(s, k)
  BY <1>3 DEF VersionsOf
<1>8. ASSUME NEW k \in Known(c)
      PROVE  /\ c.records[k].record.id = k
             /\ c.records[k].version = s.records[k].version
             /\ \A n \in VersionsOf(c, k) :
                  c.history[n].version = c.records[k].version
                    => c.records[k].record = [c.history[n].record EXCEPT
                                                !.consent = c.records[k].record.consent]
  <2>1. CASE k # id
    BY <1>3, <1>4, <1>7, <1>8, <2>1 DEF Good, HistoryComplete
  <2>2. CASE k = id
    <3> SUFFICES ASSUME NEW n \in VersionsOf(s, id), s.history[n].version = s.records[id].version
                 PROVE  c.records[id].record = [s.history[n].record EXCEPT !.consent = consent]
      BY <1>3, <1>5, <1>7, <2>2 DEF Good
    <3>1. s.records[id].record = [s.history[n].record EXCEPT !.consent = s.records[id].record.consent]
      BY DEF Good, HistoryComplete
    <3>2. s.history[n] \in Entry
      BY <1>1 DEF VersionsOf
    <3> QED
      BY <1>5, <3>1, <3>2 DEF Entry, Record
  <2> QED
    BY <2>1, <2>2
<1>9. HistoryComplete(c)
  BY <1>3, <1>4, <1>7, <1>8 DEF Good, HistoryComplete
<1> QED
  BY <1>3, <1>4, <1>5, <1>6, <1>8, <1>9 DEF Good, c

(* Every method that makes a version pushes the next one of its id. *)
LEMMA UpsertPushes ==
  ASSUME NEW s, Good(s), NEW rec \in Record
  PROVE  \E e \in Entry :
           /\ e.record.id = rec.id
           /\ e.version = IF rec.id \in Known(s) THEN s.records[rec.id].version + 1 ELSE 1
           /\ Upserted(s, rec) = Pushed(s, e)
<1>1. CASE rec.id \in Known(s)
  <2> DEFINE version == s.records[rec.id].version + 1
             e == [version |-> version, record |-> [rec EXCEPT !.recordVersion = version]]
  <2>1. s.records[rec.id] \in Entry
    BY <1>1, StoreType DEF Good
  <2>2. version \in Nat \ {0}
    BY <2>1 DEF Entry
  <2>3. Upserted(s, rec) = Pushed(s, e)
    BY <1>1 DEF Upserted, Successor
  <2>4. e.version = version
    OBVIOUS
  <2> HIDE DEF version
  <2>5. e \in Entry /\ e.record.id = rec.id
    BY <2>2 DEF Entry, Record
  <2> HIDE DEF e
  <2> QED
    BY <1>1, <2>3, <2>4, <2>5 DEF version
<1>2. CASE rec.id \notin Known(s)
  <2> DEFINE e == [version |-> 1, record |-> rec]
  <2>1. e \in Entry /\ e.record.id = rec.id /\ e.version = 1
    BY DEF Entry
  <2>2. Upserted(s, rec) = Pushed(s, e)
    BY <1>2 DEF Upserted, Added
  <2> HIDE DEF e
  <2> QED
    BY <1>2, <2>1, <2>2
<1> QED
  BY <1>1, <1>2

(* Rolling back with the token taken before an upsert undoes exactly it. *)
LEMMA UpsertUndone ==
  ASSUME NEW s, Good(s), NEW e \in Entry, NEW id \in Id, e.record.id = id
  PROVE  RolledBack(Pushed(s, e), RollbackToken(s, id)) = s
<1> DEFINE p == Pushed(s, e)
           t == RollbackToken(s, id)
           r == RolledBack(p, t)
<1>1. s \in Store /\ s = [records |-> s.records, history |-> s.history]
        /\ s.records \in [Known(s) -> Entry] /\ s.history \in Seq(Entry)
  BY StoreType DEF Good
<1>2. p.records = Put(s.records, id, e) /\ p.history = Append(s.history, e)
  BY DEF Pushed
<1>3. t.id = id /\ t.historyLen = Len(s.history)
        /\ t.previous = IF id \in Known(s) THEN s.records[id] ELSE NoVersion
  BY DEF RollbackToken
<1>4. /\ r = [records |-> r.records, history |-> r.history]
      /\ r.history = SubSeq(p.history, 1, t.historyLen)
      /\ r.records = IF t.previous = NoVersion
                     THEN [k \in Known(p) \ {t.id} |-> p.records[k]]
                     ELSE Put(p.records, t.id, t.previous)
  BY DEF RolledBack
<1> HIDE DEF p, t, r
<1>5. r.history = s.history
  BY <1>1, <1>2, <1>3, <1>4
<1>6. r.records = s.records
  <2>1. CASE id \in Known(s)
    <3>1. s.records[id] \in Entry
      BY <1>1, <2>1
    <3>2. t.previous = s.records[id] /\ t.previous # NoVersion
      BY <1>3, <2>1, <3>1, NoneIsNone DEF Entry, NoVersion
    <3> QED
      BY <1>1, <1>2, <1>3, <1>4, <2>1, <3>2 DEF Put, Known
  <2>2. CASE id \notin Known(s)
    <3>1. t.previous = NoVersion
      BY <1>3, <2>2
    <3> QED
      BY <1>1, <1>2, <1>3, <1>4, <2>2, <3>1 DEF Put, Known
  <2> QED
    BY <2>1, <2>2
<1> QED
  BY <1>1, <1>4, <1>5, <1>6 DEF r, p, t

-----------------------------------------------------------------------------
(* get_version finds the one entry with the version asked for. *)
LEMMA PinnedIs ==
  ASSUME NEW s, Good(s), NEW id, NEW n \in VersionsOf(s, id)
  PROVE  Pinned(s, id, s.history[n].version) = s.history[n]
<1> DEFINE found == {m \in VersionsOf(s, id) : s.history[m].version = s.history[n].version}
<1>1. /\ \A m \in VersionsOf(s, id) : m \in Nat /\ s.history[m] \in Entry
      /\ id \in Id
  BY StoreType DEF Good, VersionsOf, Entry, Record
<1>2. id \in Known(s)
  BY <1>1 DEF Good, HistoryComplete
<1>3. \A k, m \in VersionsOf(s, id) : k < m => s.history[k].version < s.history[m].version
  BY <1>2 DEF Good, HistoryComplete
<1>4. \A m \in found : m = n
  <2> SUFFICES ASSUME NEW m \in VersionsOf(s, id), s.history[m].version = s.history[n].version, m # n
               PROVE  FALSE
    OBVIOUS
  <2>1. m \in Nat /\ n \in Nat /\ s.history[n].version \in Nat
    BY <1>1 DEF Entry
  <2>2. m < n \/ n < m
    BY <2>1
  <2> QED
    BY <1>3, <2>1, <2>2
<1>5. n \in found /\ n <= n
  BY <1>1
<1>6. (CHOOSE k \in found : \A m \in found : k <= m) = n
  BY <1>4, <1>5
<1> QED
  BY <1>5, <1>6 DEF Pinned

LEMMA PinnedFound ==
  ASSUME NEW s, Good(s), NEW id, NEW version, Pinned(s, id, version) # NoVersion
  PROVE  \E n \in VersionsOf(s, id) :
           s.history[n].version = version /\ Pinned(s, id, version) = s.history[n]
<1>1. PICK n \in VersionsOf(s, id) : s.history[n].version = version
  BY DEF Pinned
<1> QED
  BY <1>1, PinnedIs

(* A read of one store is the same in another that holds the entry read at *)
(* the same place.                                                         *)
LEMMA PinnedKept ==
  ASSUME NEW s, Good(s), NEW t, Good(t), NEW id, NEW version,
         Pinned(s, id, version) # NoVersion,
         \A n \in VersionsOf(s, id) :
           s.history[n].version = version => n \in VersionsOf(t, id) /\ t.history[n] = s.history[n]
  PROVE  Pinned(t, id, version) = Pinned(s, id, version)
<1>1. PICK n \in VersionsOf(s, id) :
        s.history[n].version = version /\ Pinned(s, id, version) = s.history[n]
  BY PinnedFound
<1> QED
  BY <1>1, PinnedIs

-----------------------------------------------------------------------------
(* What the properties say of a step from one store to the next. *)
PinnedStep ==
  \A id \in Id, version \in 1..MaxHistory :
    (~ Pending(id, version) /\ Pinned(store, id, version) # NoVersion) =>
      Pinned(store', id, version) = Pinned(store, id, version)

FrozenStep ==
  \A id \in Known(store) :
    (~ Pending(id, store.records[id].version)
       /\ store.records[id].record.mutability = "AppendOnly") =>
      /\ id \in Known(store')
      /\ store'.records[id].version = store.records[id].version
      /\ store'.records[id].record =
           [store.records[id].record EXCEPT !.consent = store'.records[id].record.consent]

LEMMA InitInv == RecordsInit => IInv
<1> SUFFICES ASSUME RecordsInit PROVE IInv
  OBVIOUS
<1>1. store.records = [k \in {} |-> NoVersion] /\ store.history = <<>>
        /\ store = [records |-> store.records, history |-> store.history]
  BY DEF RecordsInit, EmptyStore
<1>2. store \in Store /\ Known(store) = {}
  <2>1. store.records \in [{} -> Entry] /\ {} \in SUBSET Id
    BY <1>1
  <2>2. store.history \in Seq(Entry)
    BY <1>1
  <2> QED
    BY <1>1, <2>1, <2>2 DEF Store, Known
<1>3. \A id : VersionsOf(store, id) = {}
  BY <1>1 DEF VersionsOf
<1> QED
  BY <1>2, <1>3 DEF RecordsInit, IInv, Good, HistoryComplete, TokenInv

(* An upsert, of a record that may be upserted. *)
LEMMA UpsertStep ==
  ASSUME IInv, NEW rec \in Record, UpsertAccepts(store, rec),
         store' = Upserted(store, rec), token = NoToken
  PROVE  /\ Good(store')
         /\ token' \in {NoToken, RollbackToken(store, rec.id)} => TokenInv'
         /\ PinnedStep /\ FrozenStep
<1> DEFINE last == Len(store.history) + 1
<1>0. Good(store) /\ store \in Store /\ Len(store.history) \in Nat /\ rec.id \in Id
        /\ DOMAIN store.history = 1..Len(store.history)
  BY StoreType DEF IInv, Good, Record
<1>1. PICK e \in Entry :
        /\ e.record.id = rec.id
        /\ e.version = IF rec.id \in Known(store) THEN store.records[rec.id].version + 1 ELSE 1
        /\ store' = Pushed(store, e)
  BY <1>0, UpsertPushes
<1>2. /\ Known(store') = Known(store) \cup {rec.id}
      /\ store'.records[rec.id] = e
      /\ \A id \in Known(store) : id # rec.id => store'.records[id] = store.records[id]
      /\ Len(store'.history) = last
      /\ store'.history[last] = e
      /\ \A n \in DOMAIN store.history : n \in DOMAIN store'.history /\ store'.history[n] = store.history[n]
      /\ \A id : VersionsOf(store', id) =
           VersionsOf(store, id) \cup (IF id = rec.id THEN {last} ELSE {})
  BY <1>0, <1>1, PushedHistory
<1>3. Good(store')
  BY <1>0, <1>1, PushedGood
<1>4. ASSUME token' \in {NoToken, RollbackToken(store, rec.id)}, token' # NoToken
      PROVE  /\ token'.id \in Known(store')
             /\ Good(RolledBack(store', token'))
             /\ token'.historyLen \in Nat /\ Len(store'.history) = token'.historyLen + 1
             /\ store'.history[Len(store'.history)].record.id = token'.id
             /\ store'.history[Len(store'.history)].version = store'.records[token'.id].version
  <2>1. token'.id = rec.id /\ token'.historyLen = Len(store.history)
    BY <1>4 DEF RollbackToken
  <2>2. RolledBack(store', token') = store
    BY <1>0, <1>1, <1>4, UpsertUndone
  <2> QED
    BY <1>0, <1>1, <1>2, <2>1, <2>2
<1>5. token' \in {NoToken, RollbackToken(store, rec.id)} => TokenInv'
  BY <1>4 DEF TokenInv
<1>6. PinnedStep
  <2> SUFFICES ASSUME NEW id \in Id, NEW version \in 1..MaxHistory,
                      Pinned(store, id, version) # NoVersion
               PROVE  Pinned(store', id, version) = Pinned(store, id, version)
    BY DEF PinnedStep
  <2>1. \A n \in VersionsOf(store, id) :
          n \in VersionsOf(store', id) /\ store'.history[n] = store.history[n]
    BY <1>2 DEF VersionsOf
  <2> QED
    BY <1>0, <1>3, <2>1, PinnedKept
<1>7. FrozenStep
  <2> SUFFICES ASSUME NEW id \in Known(store), store.records[id].record.mutability = "AppendOnly"
               PROVE  /\ id \in Known(store') /\ store'.records[id].version = store.records[id].version
                      /\ store'.records[id].record =
                           [store.records[id].record EXCEPT !.consent = store'.records[id].record.consent]
    BY DEF FrozenStep
  <2>1. id # rec.id
    BY DEF UpsertAccepts, Overwritable
  <2>2. id \in Known(store') /\ store'.records[id] = store.records[id]
    BY <1>2, <2>1
  <2>3. store.records[id] \in Entry
    BY <1>0, StoreType
  <2> QED
    BY <2>2, <2>3 DEF Entry, Record
<1> QED
  BY <1>3, <1>5, <1>6, <1>7

LEMMA AddStep ==
  ASSUME IInv, NEW rec \in Records, Add(rec)
  PROVE  IInv' /\ PinnedStep /\ FrozenStep
<1>1. rec \in Record /\ token = NoToken /\ token' = NoToken
        /\ UpsertAccepts(store, rec) /\ store' = Upserted(store, rec)
  BY DEF Add, Callable, UpsertAccepts, Upserted
<1> QED
  BY <1>1, UpsertStep DEF IInv

LEMMA UpsertWithRollbackStep ==
  ASSUME IInv, NEW rec \in Records, UpsertWithRollback(rec)
  PROVE  IInv' /\ PinnedStep /\ FrozenStep
<1>1. rec \in Record /\ token = NoToken /\ token' = RollbackToken(store, rec.id)
        /\ UpsertAccepts(store, rec) /\ store' = Upserted(store, rec)
  BY DEF UpsertWithRollback, Callable
<1> QED
  BY <1>1, UpsertStep DEF IInv

LEMMA UpdateStep ==
  ASSUME IInv, NEW id \in Id, NEW payload \in Payload, Update(id, payload)
  PROVE  IInv' /\ PinnedStep /\ FrozenStep
<1> DEFINE rec == [store.records[id].record EXCEPT !.payload = payload]
<1>1. /\ id \in Known(store) /\ Overwritable(store, id) /\ token = NoToken /\ token' = NoToken
      /\ store' = Successor(store, rec)
  BY DEF Update, Callable, Overwritable, Updated
<1>2. store.records[id] \in Entry /\ store.records[id].record.id = id
  BY <1>1, StoreType DEF IInv, Good
<1>3. rec \in Record /\ rec.id = id
  BY <1>2 DEF Entry, Record
<1> HIDE DEF rec
<1>4. UpsertAccepts(store, rec) /\ store' = Upserted(store, rec)
  BY <1>1, <1>3 DEF UpsertAccepts, Upserted
<1> QED
  BY <1>1, <1>3, <1>4, UpsertStep DEF IInv

LEMMA KeepStep ==
  ASSUME IInv, Keep
  PROVE  IInv' /\ PinnedStep /\ FrozenStep
<1>1. store' = store /\ token' = NoToken
  BY DEF Keep
<1>2. \A id \in Known(store) : store.records[id] \in Entry
  BY StoreType DEF IInv, Good
<1>3. FrozenStep
  BY <1>1, <1>2 DEF FrozenStep, Entry, Record
<1> QED
  BY <1>1, <1>3 DEF IInv, TokenInv, PinnedStep

(* The version taken back was pending; every other one is still there. *)
LEMMA RollbackUpsertStep ==
  ASSUME IInv, RollbackUpsert
  PROVE  IInv' /\ PinnedStep /\ FrozenStep
<1> DEFINE last == Len(store.history)
<1>1. store' = RolledBack(store, token) /\ token # NoToken /\ token' = NoToken
  BY DEF RollbackUpsert
<1>2. /\ token.id \in Known(store) /\ token.historyLen \in Nat
      /\ last = token.historyLen + 1
      /\ store.history[last].record.id = token.id
      /\ store.history[last].version = store.records[token.id].version
  BY <1>1 DEF IInv, TokenInv
<1>3. Good(store) /\ Good(store') /\ TokenInv'
  BY <1>1 DEF IInv, TokenInv
<1>4. /\ store.history \in Seq(Entry) /\ DOMAIN store.history = 1..last
      /\ \A id \in Known(store) : store.records[id] \in Entry
  BY <1>3, StoreType DEF Good
<1>5. store'.history = SubSeq(store.history, 1, token.historyLen)
      /\ store'.records = IF token.previous = NoVersion
                          THEN [k \in Known(store) \ {token.id} |-> store.records[k]]
                          ELSE Put(store.records, token.id, token.previous)
  BY <1>1 DEF RolledBack
<1>6. /\ DOMAIN store'.history = 1..token.historyLen
      /\ \A n \in 1..token.historyLen : store'.history[n] = store.history[n]
  BY <1>2, <1>4, <1>5
<1>7. PinnedStep
  <2> SUFFICES ASSUME NEW id \in Id, NEW version \in 1..MaxHistory,
                      ~ Pending(id, version), Pinned(store, id, version) # NoVersion
               PROVE  Pinned(store', id, version) = Pinned(store, id, version)
    BY DEF PinnedStep
  <2> SUFFICES ASSUME NEW n \in VersionsOf(store, id), store.history[n].version = version
               PROVE  n \in VersionsOf(store', id) /\ store'.history[n] = store.history[n]
    BY <1>3, PinnedKept
  <2>1. n \in 1..last /\ store.history[n].record.id = id
    BY <1>4 DEF VersionsOf
  <2>2. n # last
    BY <1>1, <1>2, <2>1 DEF Pending
  <2>3. n \in 1..token.historyLen
    BY <1>2, <2>1, <2>2
  <2> QED
    BY <1>6, <2>1, <2>3 DEF VersionsOf
<1>8. FrozenStep
  <2> SUFFICES ASSUME NEW id \in Known(store), ~ Pending(id, store.records[id].version)
               PROVE  /\ id \in Known(store') /\ store'.records[id].version = store.records[id].version
                      /\ store'.records[id].record =
                           [store.records[id].record EXCEPT !.consent = store'.records[id].record.consent]
    BY DEF FrozenStep
  <2>1. id # token.id
    BY <1>1 DEF Pending
  <2>2. id \in Known(store') /\ store'.records[id] = store.records[id]
    BY <1>5, <2>1 DEF Known, Put
  <2>3. store.records[id] \in Entry
    BY <1>4
  <2> QED
    BY <2>2, <2>3 DEF Entry, Record
<1> QED
  BY <1>3, <1>7, <1>8 DEF IInv

LEMMA UpdateConsentStep ==
  ASSUME IInv, NEW id \in Id, NEW consent \in Consent, UpdateConsent(id, consent)
  PROVE  IInv' /\ PinnedStep /\ FrozenStep
<1>1. id \in Known(store) /\ store' = ConsentUpdated(store, id, consent)
        /\ token = NoToken /\ token' = NoToken /\ Good(store)
  BY DEF UpdateConsent, IInv
<1>2. /\ Good(store') /\ store'.history = store.history /\ Known(store') = Known(store)
      /\ \A k \in Known(store) : k # id => store'.records[k] = store.records[k]
      /\ store'.records[id].version = store.records[id].version
      /\ store'.records[id].record = [store.records[id].record EXCEPT !.consent = consent]
  BY <1>1, ConsentGood
<1>3. PinnedStep
  BY <1>2 DEF PinnedStep, Pinned, VersionsOf
<1>4. \A k \in Known(store) : store.records[k] \in Entry
  BY <1>1, StoreType DEF Good
<1>5. FrozenStep
  BY <1>2, <1>4 DEF FrozenStep, Entry, Record
<1> QED
  BY <1>1, <1>2, <1>3, <1>5 DEF IInv, TokenInv

LEMMA StepInv ==
  ASSUME IInv, [RecordsNext]_recordsVars
  PROVE  IInv' /\ (PinnedStep \/ UNCHANGED recordsVars) /\ (FrozenStep \/ UNCHANGED recordsVars)
<1>1. CASE UNCHANGED recordsVars
  BY <1>1 DEF recordsVars, IInv, TokenInv
<1>2. CASE RecordsNext
  BY <1>2, AddStep, UpsertWithRollbackStep, KeepStep, RollbackUpsertStep, UpdateStep,
     UpdateConsentStep DEF RecordsNext
<1> QED
  BY <1>1, <1>2

LEMMA Invariance == RecordsSpec => []IInv
<1>1. IInv /\ [RecordsNext]_recordsVars => IInv'
  BY StepInv
<1> QED
  BY InitInv, <1>1, PTL DEF RecordsSpec

-----------------------------------------------------------------------------
(* The history of every id is its versions without gap or repetition, up to *)
(* the current one: upsert, update and rollback_upsert of                   *)
(* supplemental/store.rs never lose or repeat one.                          *)
THEOREM SupplementalHistoryMatchesRecords == RecordsSpec => []HistoryMatchesRecords
<1>1. IInv => HistoryMatchesRecords
  BY DEF IInv, Good, HistoryMatchesRecords
<1> QED
  BY Invariance, <1>1, PTL

(* get_version of a kept version answers the same after every later call,  *)
(* roll-backs and consent updates included.                                *)
THEOREM SupplementalPinnedReadsStable == RecordsSpec => PinnedReadsStable
<1>1. IInv /\ [RecordsNext]_recordsVars =>
        [\A id \in Id, version \in 1..MaxHistory :
           (~ Pending(id, version) /\ Pinned(store, id, version) # NoVersion) =>
             Pinned(store', id, version) = Pinned(store, id, version)]_recordsVars
  BY StepInv DEF PinnedStep
<1> QED
  BY Invariance, <1>1, PTL DEF RecordsSpec, PinnedReadsStable

(* A kept AppendOnly record changes in nothing but its consent: neither     *)
(* upsert nor update touch it, and no roll-back takes it away.              *)
THEOREM SupplementalAppendOnlyFrozen == RecordsSpec => AppendOnlyFrozen
<1>1. IInv /\ [RecordsNext]_recordsVars =>
        [\A id \in Known(store) :
           (~ Pending(id, store.records[id].version)
              /\ store.records[id].record.mutability = "AppendOnly") =>
             /\ id \in Known(store')
             /\ store'.records[id].version = store.records[id].version
             /\ store'.records[id].record =
                  [store.records[id].record EXCEPT !.consent = store'.records[id].record.consent]]_recordsVars
  BY StepInv DEF FrozenStep
<1> QED
  BY Invariance, <1>1, PTL DEF RecordsSpec, AppendOnlyFrozen

-----------------------------------------------------------------------------
(***************************************************************************)
(* The slide-analysis records: a store of this kind beside its table.      *)
(***************************************************************************)
(* The records of a store that agrees with the table. *)
Matches(records) ==
  /\ DOMAIN records = DOMAIN table
  /\ \A id \in DOMAIN records : records[id].record = table[id] /\ records[id] # None

(* Only the record whose upsert waits for the database may differ from the table, and
   rolling it back takes the difference away. *)
CacheInv ==
  /\ observed \subseteq durable
  /\ ~ up => batch = <<>> /\ token = NoToken
  /\ up /\ token = NoToken => Matches(store.records)
  /\ token # NoToken =>
       /\ token.id \in DOMAIN store.records /\ store.records[token.id] # None
       /\ Valid(store.records[token.id].record, durable)
       /\ Matches(RolledBack(store, token).records)
  /\ \A id \in DOMAIN table : Valid(table[id], durable)

LEMMA CacheInit == Init => CacheInv
  BY DEF Init, EmptyStore, NoToken, None, CacheInv, Matches

LEMMA CacheCaptureStep ==
  ASSUME CacheInv, NEW source, CaptureSource(source)
  PROVE  CacheInv'
<1>1. /\ up' = up /\ store' = store /\ batch' = batch /\ token' = token /\ table' = table
      /\ observed' = observed \cup {source} /\ durable' = durable \cup {source}
  BY DEF CaptureSource
<1> QED
  BY <1>1 DEF CacheInv, Matches, Valid, RolledBack, Put, Known

LEMMA CacheAnalyseStep ==
  ASSUME CacheInv, AnalyseSlides
  PROVE  CacheInv'
<1>1. up /\ UNCHANGED <<up, store, observed, token, table, durable>>
  BY DEF AnalyseSlides, CoreFree
<1> QED
  BY <1>1 DEF CacheInv, Matches, Valid, RolledBack, Put, Known

(* Rolling back an upsert gives the records from before it. *)
LEMMA CacheUpsertStep ==
  ASSUME CacheInv, UpsertAnalysis
  PROVE  CacheInv'
<1> DEFINE rec == Built(Head(batch))
           id == rec.id
           records == store.records
           successor == [version |-> records[id].version + 1,
                         record |-> [rec EXCEPT !.recordVersion = records[id].version + 1]]
           entry == IF id \in DOMAIN records THEN successor ELSE [version |-> 1, record |-> rec]
           later == Put(records, id, entry)
           previous == IF id \in DOMAIN records THEN records[id] ELSE None
<1>1. /\ batch # <<>> /\ token = NoToken
      /\ Valid(rec, observed)
      /\ store' = Upserted(store, rec) /\ token' = RollbackToken(store, id)
      /\ UNCHANGED <<up, observed, table, durable>>
  BY DEF UpsertAnalysis
<1>2. rec = [id |-> id, mutability |-> rec.mutability, derivedFrom |-> rec.derivedFrom,
             payload |-> rec.payload, recordVersion |-> rec.recordVersion, consent |-> rec.consent]
  BY DEF Built
<1>3. up /\ Matches(records)
  BY <1>1 DEF CacheInv
<1> HIDE DEF rec
<1>4. entry.record.id = id /\ entry.record.derivedFrom = rec.derivedFrom /\ entry # None
  BY <1>2, NoneIsNone
<1>5. store'.records = later
  <2>1. CASE id \in DOMAIN records
    <3>1. store' = Successor(store, rec)
      BY <1>1, <2>1 DEF Upserted, Known
    <3> QED
      BY <1>4, <2>1, <3>1 DEF Successor, Pushed
  <2>2. CASE id \notin DOMAIN records
    <3>1. store' = Added(store, rec)
      BY <1>1, <2>2 DEF Upserted, Known
    <3> QED
      BY <1>4, <2>2, <3>1 DEF Added, Pushed
  <2> QED
    BY <2>1, <2>2
<1>6. token'.id = id /\ token'.previous = previous /\ token' # NoToken
  <2>1. token' = [id |-> id, previous |-> previous, historyLen |-> Len(store.history)]
    BY <1>1 DEF RollbackToken, Known, NoVersion, None, None
  <2>2. "id" \in DOMAIN token' /\ DOMAIN NoToken = {"none"}
    BY <2>1 DEF NoToken, None
  <2> HIDE DEF previous
  <2> QED
    BY <2>1, <2>2
<1> HIDE DEF entry, id, records
<1>7. DOMAIN later = DOMAIN records \cup {id} /\ \A k \in DOMAIN later : later[k] = IF k = id THEN entry ELSE records[k]
  BY DEF Put
<1> HIDE DEF later
<1>8. RolledBack(store', token').records =
        IF previous = None
        THEN [k \in DOMAIN later \ {id} |-> later[k]]
        ELSE [k \in DOMAIN later \cup {id} |-> IF k = id THEN previous ELSE later[k]]
  BY <1>5, <1>6 DEF RolledBack, Put, Known, NoVersion, None, None
<1>9. Matches(RolledBack(store', token').records)
  <2>1. CASE id \in DOMAIN records
    <3>1. previous = records[id] /\ previous # None
      BY <1>3, <2>1 DEF Matches
    <3> QED
      BY <1>3, <1>7, <1>8, <2>1, <3>1 DEF Matches
  <2>2. CASE id \notin DOMAIN records
    <3>1. previous = None
      BY <2>2
    <3> QED
      BY <1>3, <1>7, <1>8, <2>2, <3>1 DEF Matches
  <2> QED
    BY <2>1, <2>2
<1>10. Matches(RolledBack(store, token).records)'
  BY <1>1, <1>9 DEF Matches
<1>11. Valid(entry.record, durable)
  BY <1>1, <1>4 DEF Valid, CacheInv
<1>12. id \in DOMAIN later /\ later[id] = entry
  BY <1>7
<1> QED
  BY <1>1, <1>3, <1>4, <1>5, <1>6, <1>10, <1>11, <1>12 DEF CacheInv, Valid

(* The row written is the difference between the store and the table. *)
LEMMA CacheWriteRow ==
  ASSUME CacheInv, WriteRow
  PROVE  /\ DOMAIN store.records = DOMAIN table'
         /\ \A id \in DOMAIN store.records :
              store.records[id].record = table'[id] /\ store.records[id] # None
         /\ durable' = durable /\ \A id \in DOMAIN table' : Valid(table'[id], durable)
<1> DEFINE id == token.id
           records == store.records
           back == RolledBack(store, token).records
<1>1. /\ token # NoToken /\ durable' = durable
      /\ table' = Put(table, id, records[id].record)
  BY DEF WriteRow
<1>2. /\ id \in DOMAIN records /\ records[id] # None /\ Valid(records[id].record, durable)
      /\ Matches(back) /\ \A k \in DOMAIN table : Valid(table[k], durable)
  BY <1>1 DEF CacheInv
<1>3. \/ back = [k \in DOMAIN records \ {id} |-> records[k]]
      \/ back = [k \in DOMAIN records \cup {id} |-> IF k = id THEN token.previous ELSE records[k]]
  BY DEF RolledBack, Put, Known
<1>4. /\ DOMAIN table' = DOMAIN table \cup {id}
      /\ \A k \in DOMAIN table' : table'[k] = IF k = id THEN records[id].record ELSE table[k]
  BY <1>1 DEF Put
<1> HIDE DEF id, records, back
<1>5. /\ DOMAIN table \cup {id} = DOMAIN records
      /\ \A k \in DOMAIN records : k # id => records[k].record = table[k] /\ records[k] # None
  BY <1>2, <1>3 DEF Matches
<1>6. /\ DOMAIN records = DOMAIN table'
      /\ \A k \in DOMAIN records : records[k].record = table'[k] /\ records[k] # None
  BY <1>2, <1>4, <1>5
<1>7. \A k \in DOMAIN table' : Valid(table'[k], durable)
  BY <1>2, <1>4
<1> QED
  BY <1>1, <1>6, <1>7 DEF records

LEMMA CachePersistStep ==
  ASSUME CacheInv, PersistSupplemental
  PROVE  CacheInv'
<1>1. /\ WriteRow /\ token # NoToken /\ token' = NoToken
      /\ UNCHANGED <<up, store, observed, batch>>
  BY DEF PersistSupplemental, WriteRow
<1>2. up /\ observed \subseteq durable
  BY <1>1 DEF CacheInv
<1>3. Matches(store.records)'
  BY <1>1, CacheWriteRow DEF Matches
<1>4. durable' = durable /\ \A id \in DOMAIN table' : Valid(table'[id], durable)
  BY <1>1, CacheWriteRow
<1> QED
  BY <1>1, <1>2, <1>3, <1>4 DEF CacheInv, Valid

LEMMA CachePersistFailsStep ==
  ASSUME CacheInv, PersistFails
  PROVE  CacheInv'
<1>1. /\ token # NoToken /\ token' = NoToken /\ batch' = <<>>
      /\ store' = RolledBack(store, token) /\ UNCHANGED <<up, observed, table, durable>>
  BY DEF PersistFails
<1>2. Matches(store'.records)
  BY <1>1 DEF CacheInv
<1>3. Matches(store.records)'
  BY <1>1, <1>2 DEF Matches
<1> QED
  BY <1>1, <1>3 DEF CacheInv, Valid

LEMMA CacheDownStep ==
  ASSUME CacheInv, Crash \/ CrashAfterWrite
  PROVE  CacheInv'
<1>1. ~ up' /\ observed' = {} /\ batch' = <<>> /\ token' = NoToken
  BY DEF Crash, CrashAfterWrite, Down
<1>2. \A id \in DOMAIN table' : Valid(table'[id], durable')
  <2>1. CASE Crash
    BY <2>1 DEF Crash, CacheInv, Valid
  <2>2. CASE CrashAfterWrite
    BY <2>2, CacheWriteRow DEF CrashAfterWrite
  <2> QED
    BY <2>1, <2>2
<1> QED
  BY <1>1, <1>2 DEF CacheInv, Valid

LEMMA CacheRestartStep ==
  ASSUME CacheInv, Restart
  PROVE  CacheInv'
<1>1. /\ ~ up /\ up' /\ observed' = durable /\ UNCHANGED <<batch, token, table, durable>>
      /\ store'.records = [id \in DOMAIN table |-> [version |-> 1, record |-> table[id]]]
  BY DEF Restart, Stored
<1>2. Matches(store.records)'
  BY <1>1, NoneIsNone DEF Matches
<1>3. token = NoToken
  BY <1>1 DEF CacheInv
<1> QED
  BY <1>1, <1>2, <1>3 DEF CacheInv, Valid

LEMMA CacheInvariance == Spec => []CacheInv
<1>1. ASSUME CacheInv, [Next]_(vars) PROVE CacheInv'
  <2>1. CASE \E source \in Observation : CaptureSource(source)
    BY <1>1, <2>1, CacheCaptureStep
  <2>2. CASE AnalyseSlides
    BY <1>1, <2>2, CacheAnalyseStep
  <2>3. CASE UpsertAnalysis
    BY <1>1, <2>3, CacheUpsertStep
  <2>4. CASE PersistSupplemental
    BY <1>1, <2>4, CachePersistStep
  <2>5. CASE PersistFails
    BY <1>1, <2>5, CachePersistFailsStep
  <2>6. CASE Crash \/ CrashAfterWrite
    BY <1>1, <2>6, CacheDownStep
  <2>7. CASE Restart
    BY <1>1, <2>7, CacheRestartStep
  <2>8. CASE UNCHANGED vars
    BY <1>1, <2>8 DEF vars, CacheInv, Matches, Valid, RolledBack, Put, Known
  <2> QED
    BY <1>1, <2>1, <2>2, <2>3, <2>4, <2>5, <2>6, <2>7, <2>8 DEF Next
<1> QED
  BY CacheInit, <1>1, PTL DEF Spec

(* Between two tails of sync_all the records in memory are the rows of the
   supplementals table, whichever upserts failed to be persisted, whatever a
   batch consists of and wherever the process died. *)
THEOREM SupplementalCacheMatchesTable == Spec => []CacheMatchesTable
<1>1. CacheInv => CacheMatchesTable
  BY DEF CacheInv, Matches, CacheMatchesTable, CoreFree, Known, Stored
<1> QED
  BY <1>1, CacheInvariance, PTL

(* Every row of the table derives from observations that are durable, so that
   AppCore::new never refuses one. *)
THEOREM SupplementalCanRestart == Spec => []CanRestart
<1>1. CacheInv => CanRestart
  BY DEF CacheInv, CanRestart, BootstrapAccepts, Stored
<1> QED
  BY <1>1, CacheInvariance, PTL

-----------------------------------------------------------------------------
(***************************************************************************)
(* What reading the slides of a deck results in.                           *)
(***************************************************************************)
(* Recursive functions have no induction principle at hand: a claim about one is
   refuted, or not, at the least place where it would fail. *)
LEMMA LeastIs ==
  ASSUME NEW S, S \subseteq Nat, S # {}
  PROVE  \E m \in S : \A t \in S : m <= t
<1> DEFINE R == OpToRel(<, Nat)
<1>1. IsWellFoundedOn(R, Nat)
  BY NatLessThanWellFounded
<1>2. \A x, y \in Nat : x < y => <<x, y>> \in R
  BY DEF OpToRel
<1> HIDE DEF R
<1>3. PICK x \in S : \A y \in S : ~ (<<y, x>> \in R)
  BY <1>1, WFMin
<1>4. \A y \in S : x \in Nat /\ y \in Nat /\ ~ (y < x)
  BY <1>2, <1>3
<1>5. \A y \in S : x <= y
  BY <1>4
<1> QED
  BY <1>3, <1>5

LEMMA LesserIs ==
  ASSUME NEW a \in Int, NEW b \in Int
  PROVE  Min({a, b}) = IF a <= b THEN a ELSE b
<1> DEFINE m == IF a <= b THEN a ELSE b
           Least(x) == \A y \in {a, b} : x <= y
<1>1. m \in {a, b} /\ Least(m)
  OBVIOUS
<1>2. Min({a, b}) = CHOOSE x \in {a, b} : Least(x)
  BY DEF Min
<1> HIDE DEF Least
<1>3. Min({a, b}) \in {a, b} /\ Least(Min({a, b}))
  BY <1>1, <1>2
<1> QED
  BY <1>3 DEF Least

(* The slides of a deck as SlideAssumption says they are. *)
IsSlide(deck, slide) ==
  /\ [deck |-> deck, slide |-> slide.id] \in Id
  /\ slide.id \notin Placeholders \cup {Unset}
  /\ slide.keywords \in Int
  /\ IsProfile(GeminiReads[slide.content])

IsDeck(deck, slides) ==
  /\ Len(slides) \in Nat /\ DOMAIN slides = 1..Len(slides)
  /\ \A i \in DOMAIN slides : IsSlide(deck, slides[i])

LEMMA ScoreIs ==
  ASSUME NEW deck, NEW slides, IsDeck(deck, slides), NEW i \in DOMAIN slides
  PROVE  Score(slides, i) \in Int
<1>1. Len(slides) \in Nat /\ i \in 1..Len(slides) /\ slides[i].keywords \in Int
  BY DEF IsDeck, IsSlide
<1>2. Len(slides) - i + 1 \in Int
  BY <1>1
<1>3. Min({Len(slides) - i + 1, 3}) \in Int
  BY <1>2, LesserIs
<1> DEFINE texts == Fragments(slides[i])
           address == IF FirstEmail(texts) # Unset THEN 8 ELSE 0
           length == IF Len(texts) >= 3 THEN 2 ELSE 0
           picture == IF slides[i].image THEN 2 ELSE 0
           early == Min({Len(slides) - i + 1, 3})
<1>4. Score(slides, i) = IF texts = <<>> THEN 0
                         ELSE address + slides[i].keywords + length + picture + early
  BY DEF Score
<1>5. address \in Int /\ length \in Int /\ picture \in Int /\ early \in Int
  BY <1>3
<1> HIDE DEF address, length, picture, early, texts
<1> QED
  BY <1>1, <1>4, <1>5

(* Every place of the ranking has its slide. *)
LEMMA RankedIs ==
  ASSUME NEW deck, NEW slides, IsDeck(deck, slides), NEW limit \in Nat
  PROVE  LET ranked == RankedSlides(slides, limit)
         IN  Len(ranked) \in Nat /\ DOMAIN ranked = 1..Len(ranked)
               /\ \A n \in DOMAIN ranked : ranked[n] \in DOMAIN slides
<1> DEFINE N == Len(slides)
           D == DOMAIN slides
           scored == {<<Score(slides, i), i>> : i \in DOMAIN slides}
           Better(a, b) == a[1] > b[1] \/ (a[1] = b[1] /\ a[2] < b[2])
           Ahead(s) == {t \in scored : Better(t, s)}
           At(n) == CHOOSE s \in scored : Cardinality(Ahead(s)) = n - 1
           best == [n \in DOMAIN slides |-> At(n)[2]]
           positive == Cardinality({s \in scored : s[1] > 0})
           worth == IF positive = 0 THEN Len(slides) ELSE positive
           Pair(i) == <<Score(slides, i), i>>
           rank == [i \in D |-> Cardinality(Ahead(Pair(i))) + 1]
<1>1. N \in Nat /\ D = 1..N
  BY DEF IsDeck
<1>2. \A i \in D : Score(slides, i) \in Int
  BY ScoreIs
<1>3. IsFiniteSet(1..N) /\ Cardinality(1..N) = N /\ IsFiniteSet(D) /\ Cardinality(D) = N
  <2> HIDE DEF N, D
  <2>1. IsFiniteSet(1..N) /\ Cardinality(1..N) = N
    BY <1>1, FS_Interval
  <2> QED
    BY <1>1, <2>1
<1>4. IsFiniteSet(scored) /\ Cardinality(scored) \in Nat /\ Cardinality(scored) <= N
  <2> HIDE DEF N
  <2> DEFINE f == [i \in D |-> Pair(i)]
  <2>1. scored = {f[i] : i \in D}
    OBVIOUS
  <2>2. f \in Surjection(D, scored)
    <3>1. f = [i \in D |-> f[i]] /\ (\A i \in D : f[i] \in scored)
            /\ \A t \in scored : \E i \in D : f[i] = t
      OBVIOUS
    <3> HIDE DEF scored, f, D
    <3> QED
      BY <3>1 DEF Surjection
  <2> HIDE DEF scored, f, D, N
  <2>3. IsFiniteSet(scored) /\ Cardinality(scored) <= N
    BY <1>3, <2>2, FS_Surjection
  <2> QED
    BY <2>3, FS_CardinalityType
<1>5. ASSUME NEW i \in D
      PROVE  Pair(i) \in scored /\ Pair(i) \notin Ahead(Pair(i)) /\ Ahead(Pair(i)) \subseteq scored
  <2>1. Pair(i) \in scored /\ Ahead(Pair(i)) \subseteq scored
    OBVIOUS
  <2>2. ~ Better(Pair(i), Pair(i))
    <3>1. Pair(i)[1] = Score(slides, i) /\ Pair(i)[2] = i /\ Score(slides, i) \in Int /\ i \in Int
      BY <1>1, <1>2
    <3> HIDE DEF Pair
    <3> QED
      BY <3>1
  <2> HIDE DEF Pair, scored, Better
  <2> QED
    BY <2>1, <2>2
<1>6. ASSUME NEW i \in D
      PROVE  IsFiniteSet(Ahead(Pair(i))) /\ Cardinality(Ahead(Pair(i))) \in 0..(N - 1)
  <2> DEFINE A == Ahead(Pair(i))
  <2>1. A \subseteq scored /\ A # scored
    BY <1>5
  <2> HIDE DEF A, scored, N, D
  <2>2. /\ IsFiniteSet(A) /\ Cardinality(A) <= Cardinality(scored)
        /\ Cardinality(A) = Cardinality(scored) => A = scored
    BY <1>4, <2>1, FS_Subset
  <2>3. Cardinality(A) \in Nat
    BY <2>2, FS_CardinalityType
  <2>4. Cardinality(A) \in 0..(N - 1)
    BY <1>1, <1>4, <2>1, <2>2, <2>3
  <2> QED
    BY <2>2, <2>4 DEF A
<1>7. ASSUME NEW i \in D, NEW j \in D, i # j, Better(Pair(i), Pair(j))
      PROVE  rank[i] < rank[j]
  <2> DEFINE A == Ahead(Pair(i))
             B == Ahead(Pair(j))
  <2>1. \A t \in scored : t[1] \in Int /\ t[2] \in Int
    BY <1>1, <1>2
  <2>2. \A t \in scored : Better(t, Pair(i)) => Better(t, Pair(j))
    <3> DEFINE p == Pair(i)
               q == Pair(j)
    <3>1. p[1] \in Int /\ p[2] \in Int /\ q[1] \in Int /\ q[2] \in Int
      BY <1>1, <1>2
    <3>2. Better(p, q)
      BY <1>7
    <3> HIDE DEF p, q, scored
    <3>3. \A t \in scored : Better(t, p) => Better(t, q)
      BY <2>1, <3>1, <3>2
    <3> QED
      BY <3>3 DEF p, q
  <2>3. A \subseteq B /\ A # B
    <3>1. Pair(i) \in B /\ Pair(i) \notin A
      BY <1>5, <1>7
    <3> QED
      BY <2>2, <3>1
  <2>4. IsFiniteSet(B) /\ Cardinality(A) \in Int /\ Cardinality(B) \in Int
    <3> HIDE DEF Ahead, N
    <3> QED
      BY <1>1, <1>6
  <2> HIDE DEF A, B
  <2>5. Cardinality(A) < Cardinality(B)
    BY <2>3, <2>4, FS_Subset
  <2>6. rank[i] = Cardinality(A) + 1 /\ rank[j] = Cardinality(B) + 1
    BY DEF A, B
  <2> QED
    BY <2>4, <2>5, <2>6
<1>8. rank \in [D -> 1..N]
  <2> HIDE DEF Ahead, Pair, scored, D
  <2>1. \A i \in D : Cardinality(Ahead(Pair(i))) + 1 \in 1..N
    BY <1>1, <1>6
  <2> QED
    BY <2>1
<1> HIDE DEF rank
<1>9. ASSUME NEW i \in D, NEW j \in D, i # j
      PROVE  rank[i] # rank[j]
  <2>1. Better(Pair(i), Pair(j)) \/ Better(Pair(j), Pair(i))
    BY <1>1, <1>2, <1>9
  <2>2. rank[i] \in Int /\ rank[j] \in Int
    BY <1>8
  <2>3. rank[i] < rank[j] \/ rank[j] < rank[i]
    BY <1>7, <1>9, <2>1
  <2> QED
    BY <2>2, <2>3
<1>10. rank \in Surjection(D, 1..N)
  <2>1. rank \in Injection(D, 1..N)
    BY <1>8, <1>9, Fun_IsInj
  <2> HIDE DEF N, D
  <2> QED
    BY <1>3, <2>1, FS_Injection
<1>11. ASSUME NEW n \in D
       PROVE  At(n) \in scored
  <2> DEFINE Is(s) == Cardinality(Ahead(s)) = n - 1
  <2>1. PICK i \in D : rank[i] = n
    <3>1. \A k \in 1..N : \E i \in D : rank[i] = k
      <4> HIDE DEF D, N
      <4> QED
        BY <1>10, Fun_SurjectionProperties
    <3>2. n \in 1..N
      BY <1>1
    <3> HIDE DEF D, N
    <3> QED
      BY <3>1, <3>2
  <2>2. Is(Pair(i))
    <3>1. rank[i] = Cardinality(Ahead(Pair(i))) + 1
      BY DEF rank
    <3>2. Cardinality(Ahead(Pair(i))) \in Int
      <4> HIDE DEF Ahead, N
      <4> QED
        BY <1>1, <1>6
    <3> HIDE DEF Ahead, Pair
    <3> QED
      BY <1>1, <2>1, <3>1, <3>2
  <2>3. Pair(i) \in scored
    BY <1>5
  <2>4. At(n) = CHOOSE s \in scored : Is(s)
    OBVIOUS
  <2> HIDE DEF Is, scored, At, Pair
  <2> QED
    BY <2>2, <2>3, <2>4
<1>12. ASSUME NEW n \in D
       PROVE  best[n] \in D
  <2>1. best[n] = At(n)[2] /\ At(n) \in scored
    BY <1>11
  <2> HIDE DEF At, best
  <2> QED
    BY <2>1
<1>13. positive \in 0..N
  <2> DEFINE P == {s \in scored : s[1] > 0}
  <2>1. P \subseteq scored
    OBVIOUS
  <2> HIDE DEF P, scored, N
  <2>2. IsFiniteSet(P) /\ Cardinality(P) <= Cardinality(scored)
    BY <1>4, <2>1, FS_Subset
  <2>3. Cardinality(P) \in Nat
    BY <2>2, FS_CardinalityType
  <2> QED
    BY <1>1, <1>4, <2>2, <2>3 DEF P
<1> DEFINE m == Min({limit, worth})
<1>14. m \in 0..N
  <2>1. worth \in 0..N
    <3> HIDE DEF positive
    <3> QED
      BY <1>1, <1>13
  <2> HIDE DEF worth, N
  <2>2. m = IF limit <= worth THEN limit ELSE worth
    BY <2>1, LesserIs
  <2> QED
    BY <1>1, <2>1, <2>2
<1>15. RankedSlides(slides, limit) = SubSeq(best, 1, m)
  BY DEF RankedSlides
<1>16. best \in Seq(D) /\ Len(best) = N
  <2>1. best = [n \in 1..N |-> best[n]] /\ \A n \in 1..N : best[n] \in D
    <3>1. best = [n \in D |-> best[n]]
      OBVIOUS
    <3> HIDE DEF best, D, N
    <3> QED
      BY <1>1, <1>12, <3>1
  <2> HIDE DEF best, D
  <2> QED
    BY <1>1, <2>1
<1> HIDE DEF best, m, D, N
<1>17. SubSeq(best, 1, m) \in Seq(D)
  BY <1>1, <1>14, <1>16, SubSeqProperties
<1> QED
  BY <1>15, <1>17, LenProperties DEF D

-----------------------------------------------------------------------------
(* What a profile must have to count as read: then NeedsRefresh looks at the
   model alone. *)
Rich(p) == Richness(Normalized(p)) # 0

LEMMA NoProfileIs ==
  DOMAIN NoProfile = {"email", "generated", "name", "bio", "pic", "gallery", "property", "tags",
                      "url", "slide", "companionTo"}
  BY DEF NoProfile

LEMMA RichnessIs ==
  ASSUME NEW p, IsProfile(p), p.email # Unset \/ p.generated # Unset
  PROVE  Richness(p) # 0
<1> DEFINE email == IF p.email # Unset THEN 10 ELSE 0
           generated == IF p.generated # Unset THEN 4 ELSE 0
           name == IF p.name # Unnamed THEN 4 ELSE 0
           bio == IF p.bio # {} THEN 12 ELSE 0
           pic == IF p.pic # Unset THEN 6 ELSE 0
           property == IF p.property # Unset THEN 3 ELSE 0
           gallery == Cardinality(p.gallery)
           tags == Cardinality(p.tags)
<1>1. gallery \in Nat /\ tags \in Nat
  BY FS_CardinalityType DEF IsProfile
<1>2. /\ email \in Nat /\ generated \in Nat /\ name \in Nat
      /\ bio \in Nat /\ pic \in Nat /\ property \in Nat
      /\ email >= 4 \/ generated >= 4
  OBVIOUS
<1>3. Richness(p) = email + generated + name + bio + pic + 2 * gallery + tags + property
  BY DEF Richness
<1> HIDE DEF email, generated, name, bio, pic, property, gallery, tags
<1> QED
  BY <1>1, <1>2, <1>3

LEMMA TextTwice ==
  ASSUME NEW v
  PROVE  Text(Text(v)) = Text(v)
  BY DEF Text

LEMMA NormalizedIs ==
  ASSUME NEW p, IsProfile(p)
  PROVE  LET q == Normalized(p)
         IN  /\ IsProfile(q) /\ q.slide = p.slide
             /\ q.email = Text(p.email)
             /\ q.generated = IF Text(p.email) = Unset THEN Text(p.generated) ELSE Unset
<1> DEFINE q == Normalized(p)
<1>1. /\ DOMAIN q = DOMAIN p /\ q.slide = p.slide
      /\ q.gallery = p.gallery \ Placeholders /\ q.tags = p.tags \ Placeholders
      /\ q.email = Text(p.email)
      /\ q.generated = IF Text(p.email) = Unset THEN Text(p.generated) ELSE Unset
  BY NoProfileIs DEF Normalized, IsProfile
<1>2. IsFiniteSet(q.gallery) /\ IsFiniteSet(q.tags)
  <2> HIDE DEF q
  <2>1. IsFiniteSet(p.gallery) /\ IsFiniteSet(p.tags)
    BY DEF IsProfile
  <2>2. IsFiniteSet(p.gallery \ Placeholders)
    BY <2>1, FS_Difference
  <2>3. IsFiniteSet(p.tags \ Placeholders)
    BY <2>1, FS_Difference
  <2> QED
    BY <1>1, <2>2, <2>3
<1> HIDE DEF q
<1>3. IsProfile(q)
  BY <1>1, <1>2 DEF IsProfile
<1> QED
  BY <1>1, <1>3 DEF q

(* A profile as Extracted and MergedCompanion return it. *)
IsExtract(p, id) ==
  /\ IsProfile(p) /\ p.slide = id
  /\ p.email = Text(p.email) /\ p.generated = Text(p.generated)

LEMMA HeuristicIs ==
  ASSUME NEW title, NEW texts
  PROVE  IsProfile(Heuristically(title, texts))
<1> DEFINE p == Heuristically(title, texts)
<1>1. DOMAIN p = DOMAIN NoProfile /\ p.gallery = {} /\ p.tags = {}
  BY NoProfileIs DEF Heuristically, About, NoProfile
<1> HIDE DEF p
<1>2. IsProfile(p)
  BY <1>1, FS_EmptySet DEF IsProfile
<1> QED
  BY <1>2 DEF p

LEMMA ExtractedIs ==
  ASSUME NEW deck, NEW slide, IsSlide(deck, slide), NEW title, NEW answered
  PROVE  IsExtract(Extracted(title, slide, answered), slide.id)
<1> DEFINE read == IF answered THEN GeminiReads[slide.content]
                   ELSE Heuristically(title, Fragments(slide))
           p == Normalized(read)
           q == Extracted(title, slide, answered)
<1>1. IsProfile(read)
  <2>1. IsProfile(GeminiReads[slide.content])
    BY DEF IsSlide
  <2>2. IsProfile(Heuristically(title, Fragments(slide)))
    BY HeuristicIs
  <2> QED
    BY <2>1, <2>2
<1> HIDE DEF read
<1>2. /\ IsProfile(p)
      /\ p.email = Text(read.email)
      /\ p.generated = IF Text(read.email) = Unset THEN Text(read.generated) ELSE Unset
  BY <1>1, NormalizedIs
<1>3. q = [p EXCEPT !.slide = slide.id, !.url = slide.url]
  BY DEF Extracted, read
<1> HIDE DEF p, q
<1>4. /\ DOMAIN q = DOMAIN p /\ q.slide = slide.id
      /\ q.gallery = p.gallery /\ q.tags = p.tags
      /\ q.email = p.email /\ q.generated = p.generated
  BY <1>2, <1>3, NoProfileIs DEF IsProfile
<1>5. q.email = Text(q.email) /\ q.generated = Text(q.generated)
  BY <1>2, <1>4, TextTwice DEF Text
<1>6. IsProfile(q)
  BY <1>2, <1>4 DEF IsProfile
<1> QED
  BY <1>4, <1>5, <1>6 DEF IsExtract, q

LEMMA MergedIs ==
  ASSUME NEW p, NEW id, IsExtract(p, id), NEW c, IsProfile(c)
  PROVE  IsExtract(MergedCompanion(p, c), id)
<1> DEFINE q == MergedCompanion(p, c)
<1>1. /\ DOMAIN q = DOMAIN p /\ q.slide = p.slide
      /\ q.gallery = p.gallery \cup c.gallery \cup ({c.url} \ {Unset})
      /\ q.tags = p.tags \cup c.tags
      /\ q.email = p.email /\ q.generated = p.generated
  BY NoProfileIs DEF MergedCompanion, IsExtract, IsProfile
<1> HIDE DEF q
<1>2. /\ IsFiniteSet(p.gallery) /\ IsFiniteSet(p.tags)
      /\ IsFiniteSet(c.gallery) /\ IsFiniteSet(c.tags)
  BY DEF IsExtract, IsProfile
<1>3. IsFiniteSet(p.tags \cup c.tags)
  BY <1>2, FS_Union
<1>4. IsFiniteSet(p.gallery \cup c.gallery \cup ({c.url} \ {Unset}))
  <2>1. IsFiniteSet({c.url})
    BY FS_Singleton
  <2>2. IsFiniteSet({c.url} \ {Unset})
    BY <2>1, FS_Difference
  <2>3. IsFiniteSet(p.gallery \cup c.gallery)
    BY <1>2, FS_Union
  <2> QED
    BY <2>2, <2>3, FS_Union
<1> QED
  BY <1>1, <1>3, <1>4 DEF IsExtract, IsProfile, q

-----------------------------------------------------------------------------
(* A result is of the slide that its profile says it is of, and is not read
   again while the model stays the same. *)
IsResult(r) ==
  /\ r.id \in Id /\ r.profile.slide = r.id.slide
  /\ Rich(r.profile)

LEMMA ResultIs ==
  ASSUME NEW deck, NEW slide, IsSlide(deck, slide), NEW p, IsExtract(p, slide.id)
  PROVE  LET r == Result(deck, slide, p)
         IN  /\ IsResult(r) /\ r.profile.slide = slide.id
             /\ r = [id |-> [deck |-> deck, slide |-> slide.id], thumbnail |-> TRUE,
                     profile |-> r.profile]
             /\ IsProfile(r.profile)
             /\ Text(r.profile.email) # Unset \/ Text(r.profile.generated) # Unset
<1> DEFINE named == WithIdentifier(p)
           q == Normalized(named)
           r == Result(deck, slide, p)
<1>1. /\ IsProfile(named) /\ named.slide = slide.id /\ named.email = p.email
      /\ named.generated =
           IF p.email = Unset /\ p.generated = Unset THEN p.slide ELSE p.generated
  BY NoProfileIs DEF WithIdentifier, IsExtract, IsProfile
<1>2. Text(p.slide) # Unset /\ Text(Text(p.slide)) # Unset /\ p.slide # Unset
  BY DEF IsSlide, IsExtract, Text
<1> HIDE DEF named
<1>3. /\ IsProfile(q) /\ q.slide = slide.id
      /\ q.email = Text(p.email)
      /\ q.generated = IF Text(p.email) = Unset THEN Text(named.generated) ELSE Unset
  BY <1>1, NormalizedIs
<1>4. r = [id |-> [deck |-> deck, slide |-> slide.id], thumbnail |-> TRUE, profile |-> q]
  BY DEF Result, named
<1> HIDE DEF q, r
<1>5. Text(q.email) # Unset \/ Text(q.generated) # Unset
  BY <1>1, <1>2, <1>3, TextTwice DEF IsExtract
<1>6. Rich(q)
  <2> DEFINE n == Normalized(q)
  <2>1. IsProfile(n) /\ (n.email # Unset \/ n.generated # Unset)
    <3>1. IsProfile(n) /\ n.email = Text(q.email)
            /\ n.generated = IF Text(q.email) = Unset THEN Text(q.generated) ELSE Unset
      BY <1>3, NormalizedIs
    <3> HIDE DEF n
    <3> QED
      BY <1>5, <3>1
  <2> HIDE DEF n
  <2>2. Richness(n) # 0
    BY <2>1, RichnessIs
  <2> QED
    BY <2>2 DEF n, Rich
<1>7. IsResult(r) /\ r.profile = q
  BY <1>3, <1>4, <1>6 DEF IsResult, IsSlide
<1> QED
  BY <1>3, <1>4, <1>5, <1>7 DEF r

LEMMA CompanionIs ==
  ASSUME NEW deck, NEW slide, IsSlide(deck, slide), NEW p, IsExtract(p, slide.id),
         NEW next, IsSlide(deck, next)
  PROVE  LET r == CompanionResult(Result(deck, slide, p), next)
         IN  IsResult(r) /\ r.profile.slide = next.id
<1> DEFINE s == Result(deck, slide, p)
           r == CompanionResult(s, next)
<1>1. /\ s = [id |-> [deck |-> deck, slide |-> slide.id], thumbnail |-> TRUE, profile |-> s.profile]
      /\ IsProfile(s.profile)
      /\ Text(s.profile.email) # Unset \/ Text(s.profile.generated) # Unset
  BY ResultIs
<1> HIDE DEF s
<1> DEFINE q == [s.profile EXCEPT !.slide = next.id, !.companionTo = s.profile.slide, !.pic = Unset]
<1>2. r.id = [deck |-> deck, slide |-> next.id] /\ r.profile = q
  <2>1. r = [s EXCEPT !.id.slide = next.id, !.profile.slide = next.id,
                      !.profile.companionTo = s.profile.slide,
                      !.profile.pic = Unset, !.thumbnail = FALSE]
    BY DEF CompanionResult
  <2> QED
    BY <1>1, <2>1
<1> HIDE DEF r
<1>3. /\ IsProfile(q) /\ q.slide = next.id
      /\ q.email = s.profile.email /\ q.generated = s.profile.generated
  BY <1>1, NoProfileIs DEF IsProfile
<1> HIDE DEF q
<1>4. Rich(q)
  <2> DEFINE n == Normalized(q)
  <2>1. IsProfile(n) /\ (n.email # Unset \/ n.generated # Unset)
    <3>1. IsProfile(n) /\ n.email = Text(q.email)
            /\ n.generated = IF Text(q.email) = Unset THEN Text(q.generated) ELSE Unset
      BY <1>3, NormalizedIs
    <3> HIDE DEF n
    <3> QED
      BY <1>1, <1>3, <3>1
  <2> HIDE DEF n
  <2>2. Richness(n) # 0
    BY <2>1, RichnessIs
  <2> QED
    BY <2>2 DEF n, Rich
<1>5. IsResult(r) /\ r.profile.slide = next.id
  BY <1>2, <1>3, <1>4 DEF IsResult, IsSlide
<1> QED
  BY <1>5 DEF r, s

(* Reading a slide results in a record of it, and of the next one if it goes on there. *)
LEMMA ResultsAre ==
  ASSUME NEW deck, NEW slides, IsDeck(deck, slides), NEW title, NEW answered,
         NEW i \in DOMAIN slides
  PROVE  LET read == Results(deck, title, slides, i, answered)
         IN  /\ Len(read) \in {1, 2} /\ read = [n \in 1..Len(read) |-> read[n]]
             /\ \A n \in 1..Len(read) :
                  /\ i + n - 1 \in DOMAIN slides
                  /\ IsResult(read[n]) /\ read[n].profile.slide = slides[i + n - 1].id
<1> DEFINE Profile(n, as) == Extracted(title, slides[n], <<n, as>> \in answered)
           read == Results(deck, title, slides, i, answered)
           own == Profile(i, "own")
           next == Profile(i + 1, "next")
<1>1. Len(slides) \in Nat /\ i \in 1..Len(slides) /\ IsSlide(deck, slides[i])
  BY DEF IsDeck
<1>2. IsExtract(own, slides[i].id)
  BY <1>1, ExtractedIs
<1> HIDE DEF own
<1>3. CASE i = Len(slides) \/ ~ ShouldMerge(own, next, title)
  <2> DEFINE r == Result(deck, slides[i], own)
  <2>1. read = <<r>>
    BY <1>3 DEF Results, Joined, own
  <2>2. IsResult(r) /\ r.profile.slide = slides[i].id
    BY <1>1, <1>2, ResultIs
  <2> HIDE DEF r, read
  <2>3. Len(read) = 1 /\ read = [n \in 1..Len(read) |-> read[n]] /\ read[1] = r
    BY <2>1
  <2>4. i + 1 - 1 = i
    BY <1>1
  <2> QED
    BY <2>2, <2>3, <2>4 DEF read
<1>4. CASE i # Len(slides) /\ ShouldMerge(own, next, title)
  <2> DEFINE p == MergedCompanion(own, next)
             r == Result(deck, slides[i], p)
             c == CompanionResult(r, slides[i + 1])
  <2>1. read = <<r, c>>
    BY <1>4 DEF Results, Joined, WithContinuation, own
  <2>2. i + 1 \in DOMAIN slides /\ IsSlide(deck, slides[i + 1])
    BY <1>1, <1>4 DEF IsDeck
  <2>3. IsExtract(next, slides[i + 1].id)
    BY <2>2, ExtractedIs
  <2> HIDE DEF next
  <2>4. IsProfile(next)
    BY <2>3 DEF IsExtract
  <2>5. IsExtract(p, slides[i].id)
    BY <1>2, <2>4, MergedIs
  <2> HIDE DEF p
  <2>6. IsResult(r) /\ r.profile.slide = slides[i].id
    BY <1>1, <2>5, ResultIs
  <2>7. IsResult(c) /\ c.profile.slide = slides[i + 1].id
    BY <1>1, <2>2, <2>5, CompanionIs
  <2> HIDE DEF r, c, read
  <2>8. Len(read) = 2 /\ read = [n \in 1..Len(read) |-> read[n]] /\ read[1] = r /\ read[2] = c
    BY <2>1
  <2>9. i + 1 - 1 = i /\ i + 2 - 1 = i + 1
    BY <1>1
  <2> QED
    BY <2>2, <2>6, <2>7, <2>8, <2>9 DEF read
<1> QED
  BY <1>3, <1>4

-----------------------------------------------------------------------------
(* A sequence, of whatever its elements are. *)
IsList(s) == s \in Seq(Range(s))

LEMMA ListIs ==
  ASSUME NEW s, IsList(s)
  PROVE  Len(s) \in Nat /\ DOMAIN s = 1..Len(s) /\ \A n \in 1..Len(s) : s[n] \in Range(s)
  BY LenProperties DEF IsList, Range

LEMMA ListOf ==
  ASSUME NEW S, NEW s \in Seq(S)
  PROVE  IsList(s) /\ Range(s) \subseteq S
<1>1. Len(s) \in Nat /\ DOMAIN s = 1..Len(s) /\ \A n \in 1..Len(s) : s[n] \in S
  BY LenProperties
<1>2. s \in Seq(Range(s))
  <2>1. \A n \in 1..Len(s) : s[n] \in Range(s)
    BY <1>1 DEF Range
  <2> QED
    BY <1>1, <2>1, SeqDef
<1> QED
  BY <1>1, <1>2 DEF IsList, Range

(* What comes after one another has what both have, and nothing else. *)
LEMMA ConcatIs ==
  ASSUME NEW a, IsList(a), NEW b, IsList(b)
  PROVE  /\ IsList(a \o b)
         /\ Range(a \o b) = Range(a) \cup Range(b)
<1> DEFINE S == Range(a) \cup Range(b)
           c == a \o b
<1>1. a \in Seq(S) /\ b \in Seq(S)
  <2>1. Range(a) \subseteq S /\ Range(b) \subseteq S
    OBVIOUS
  <2> HIDE DEF S
  <2> QED
    BY <2>1 DEF IsList
<1>2. /\ c \in Seq(S) /\ Len(c) = Len(a) + Len(b)
      /\ \A i \in 1..Len(a) + Len(b) : c[i] = IF i <= Len(a) THEN a[i] ELSE b[i - Len(a)]
  <2> HIDE DEF S
  <2> QED
    BY <1>1, ConcatProperties
<1>3. /\ Len(a) \in Nat /\ DOMAIN a = 1..Len(a)
      /\ Len(b) \in Nat /\ DOMAIN b = 1..Len(b)
  BY ListIs
<1>4. IsList(c) /\ Range(c) \subseteq S
  <2> HIDE DEF S, c
  <2> QED
    BY <1>2, ListOf
<1>5. DOMAIN c = 1..Len(c)
  BY <1>4, ListIs
<1> HIDE DEF c
<1>6. Range(a) \subseteq Range(c)
  <2>1. \A i \in DOMAIN a : i \in DOMAIN c /\ c[i] = a[i]
    BY <1>2, <1>3, <1>5
  <2> QED
    BY <2>1 DEF Range
<1>7. Range(b) \subseteq Range(c)
  <2>1. \A i \in DOMAIN b : Len(a) + i \in DOMAIN c /\ c[Len(a) + i] = b[i]
    BY <1>2, <1>3, <1>5
  <2> QED
    BY <2>1 DEF Range
<1> QED
  BY <1>4, <1>6, <1>7 DEF c

(* AnalysesOf goes through the ranking and reads what is needed: every slide of the
   ranking ends among those consumed, each of which has a result, or was passed over. *)
LEMMA AnalysesOfIs ==
  ASSUME NEW deck, NEW title, NEW slides, IsDeck(deck, slides), NEW limit \in Nat,
         NEW records, NEW m, NEW analyser, NEW answered
  PROVE  LET results == AnalysesOf(deck, title, slides, limit, records, m, analyser, answered)
         IN  /\ IsList(results)
             /\ \A r \in Range(results) : IsResult(r)
             /\ \A i \in Range(RankedSlides(slides, limit)) :
                  \/ \E r \in Range(results) : r.profile.slide = slides[i].id
                  \/ ~ NeedsAnalysis(records, slides[i].id, m, analyser)
<1> DEFINE ranked == RankedSlides(slides, limit)
           N == Len(ranked)
           nothing == [consumed |-> {}, results |-> <<>>]
           Joins(soFar, i, results) ==
             [consumed |-> soFar.consumed \cup (i..(i + Len(results) - 1)),
              results |-> soFar.results \o results]
           Needed(i) == NeedsAnalysis(records, slides[i].id, m, analyser)
           Of(i) == Results(deck, title, slides, i, answered)
           Read(soFar, i) ==
             IF i \in soFar.consumed \/ ~ Needed(i) THEN soFar ELSE Joins(soFar, i, Of(i))
           Reads(read, k) ==
             read = [n \in 0..k |-> IF n = 0 THEN nothing ELSE Read(read[n - 1], ranked[n])]
           f == CHOOSE read : Reads(read, N)
           all == AnalysesOf(deck, title, slides, limit, records, m, analyser, answered)
<1>1. N \in Nat /\ DOMAIN ranked = 1..N /\ \A n \in 1..N : ranked[n] \in DOMAIN slides
  BY RankedIs
<1>2. all = f[N].results
  BY Zenon DEF AnalysesOf
<1> HIDE DEF Read, nothing, N, ranked, all
<1>3. \E read : Reads(read, N)
  <2> DEFINE Missing == {k \in Nat : ~ \E read : Reads(read, k)}
  <2> SUFFICES ASSUME Missing # {} PROVE FALSE
    BY <1>1
  <2>1. PICK k \in Missing : \A j \in Missing : k <= j
    <3>1. Missing \subseteq Nat
      OBVIOUS
    <3> HIDE DEF Missing
    <3> QED
      BY <3>1, LeastIs
  <2>2. k # 0
    <3>1. Reads([n \in 0..0 |-> nothing], 0)
      OBVIOUS
    <3> HIDE DEF Reads
    <3> QED
      BY <2>1, <3>1
  <2>3. k - 1 \in Nat /\ k \in Nat /\ k - 1 \notin Missing
    <3> HIDE DEF Reads
    <3> QED
      BY <2>1, <2>2
  <2>4. PICK g : Reads(g, k - 1)
    BY <2>3
  <2> DEFINE h == [n \in 0..k |-> IF n = k THEN Read(g[k - 1], ranked[k]) ELSE g[n]]
  <2>5. ASSUME NEW n \in 0..k
        PROVE  h[n] = IF n = 0 THEN nothing ELSE Read(h[n - 1], ranked[n])
    <3>1. CASE n = k
      <4>1. k - 1 \in 0..k /\ k - 1 # k
        BY <2>3
      <4>2. h[k - 1] = g[k - 1] /\ h[n] = Read(g[k - 1], ranked[k])
        BY <3>1, <4>1
      <4> HIDE DEF h
      <4> QED
        BY <2>2, <3>1, <4>2
    <3>2. CASE n # k
      <4>1. n \in 0..(k - 1) /\ (n # 0 => n - 1 \in 0..k /\ n - 1 # k)
        BY <2>3, <3>2
      <4>2. g[n] = IF n = 0 THEN nothing ELSE Read(g[n - 1], ranked[n])
        BY <2>4, <4>1
      <4>3. h[n] = g[n] /\ (n # 0 => h[n - 1] = g[n - 1])
        BY <3>2, <4>1
      <4> HIDE DEF h
      <4> QED
        BY <4>2, <4>3
    <3> QED
      BY <3>1, <3>2
  <2>6. h = [n \in 0..k |-> h[n]]
    OBVIOUS
  <2> HIDE DEF h
  <2>7. Reads(h, k)
    BY <2>5, <2>6
  <2> QED
    BY <2>1, <2>7
<1>4. Reads(f, N)
  <2> HIDE DEF Reads
  <2> QED
    BY <1>3
<1> HIDE DEF f
<1>5. f[0] = nothing /\ \A n \in 1..N : f[n] = Read(f[n - 1], ranked[n])
  <2>1. \A n \in 0..N : f[n] = IF n = 0 THEN nothing ELSE Read(f[n - 1], ranked[n])
    BY <1>4
  <2>2. 0 \in 0..N /\ \A n \in 1..N : n \in 0..N /\ n # 0
    BY <1>1
  <2> QED
    BY <2>1, <2>2
<1> DEFINE Has(n) ==
             /\ IsList(f[n].results) /\ \A r \in Range(f[n].results) : IsResult(r)
             /\ \A i \in f[n].consumed :
                  \E r \in Range(f[n].results) : r.profile.slide = slides[i].id
             /\ \A j \in 1..n : ranked[j] \in f[n].consumed \/ ~ Needed(ranked[j])
<1> HIDE DEF Needed
<1>6. Has(0)
  <2>1. f[0].consumed = {} /\ f[0].results = <<>>
    BY <1>5 DEF nothing
  <2>2. IsList(<<>>) /\ Range(<<>>) = {}
    BY DEF IsList, Range
  <2> QED
    BY <2>1, <2>2
<1>7. ASSUME NEW n \in 1..N, Has(n - 1)
      PROVE  Has(n)
  <2> DEFINE i == ranked[n]
             before == f[n - 1]
  <2>1. i \in DOMAIN slides /\ f[n] = Read(before, i)
    BY <1>1, <1>5
  <2>2. \A j \in 1..n : j = n \/ j \in 1..(n - 1)
    BY <1>1
  <2>3. CASE i \in before.consumed \/ ~ Needed(i)
    <3>1. f[n] = before
      BY <2>1, <2>3 DEF Read
    <3> QED
      BY <1>7, <2>2, <2>3, <3>1
  <2>4. CASE ~ (i \in before.consumed \/ ~ Needed(i))
    <3> DEFINE new == Of(i)
    <3>1. f[n] = Joins(before, i, new)
      BY <2>1, <2>4 DEF Read
    <3>2. /\ Len(new) \in {1, 2} /\ new = [k \in 1..Len(new) |-> new[k]]
          /\ \A k \in 1..Len(new) :
               /\ i + k - 1 \in DOMAIN slides
               /\ IsResult(new[k]) /\ new[k].profile.slide = slides[i + k - 1].id
      BY <2>1, ResultsAre
    <3>3. i \in Int
      BY <2>1 DEF IsDeck
    <3> HIDE DEF new, i, before
    <3>4. /\ f[n].consumed = before.consumed \cup (i..(i + Len(new) - 1))
          /\ f[n].results = before.results \o new
      BY <3>1
    <3>5. IsList(new) /\ Range(new) = {new[k] : k \in 1..Len(new)}
      <4>1. Range(new) = {new[k] : k \in 1..Len(new)}
        BY <3>2 DEF Range
      <4>2. new \in Seq(Range(new))
        BY <3>2, <4>1
      <4> QED
        BY <4>1, <4>2 DEF IsList
    <3>6. IsList(before.results) /\ \A r \in Range(before.results) : IsResult(r)
      BY <1>7 DEF before
    <3>7. IsList(f[n].results) /\ Range(f[n].results) = Range(before.results) \cup Range(new)
      BY <3>4, <3>5, <3>6, ConcatIs
    <3>8. \A r \in Range(f[n].results) : IsResult(r)
      BY <3>2, <3>5, <3>6, <3>7
    <3>9. ASSUME NEW k \in f[n].consumed
          PROVE  \E r \in Range(f[n].results) : r.profile.slide = slides[k].id
      <4>1. CASE k \in before.consumed
        BY <1>7, <3>7, <4>1 DEF before
      <4>2. CASE k \in i..(i + Len(new) - 1)
        <5>1. k - i + 1 \in 1..Len(new) /\ i + (k - i + 1) - 1 = k
          BY <3>2, <3>3, <4>2
        <5>2. new[k - i + 1] \in Range(new) /\ new[k - i + 1].profile.slide = slides[k].id
          BY <3>2, <3>5, <5>1
        <5> QED
          BY <3>7, <5>2
      <4> QED
        BY <3>4, <4>1, <4>2
    <3>10. i \in f[n].consumed
      BY <3>2, <3>3, <3>4
    <3>11. \A j \in 1..n : ranked[j] \in f[n].consumed \/ ~ Needed(ranked[j])
      BY <1>7, <2>2, <3>4, <3>10 DEF i, before
    <3> QED
      BY <3>7, <3>8, <3>9, <3>11
  <2> QED
    BY <2>3, <2>4
<1>8. Has(N)
  <2> DEFINE Wrong == {n \in 0..N : ~ Has(n)}
  <2> HIDE DEF Has
  <2>1. Wrong = {}
    <3> SUFFICES ASSUME Wrong # {} PROVE FALSE
      OBVIOUS
    <3>1. PICK n \in Wrong : \A k \in Wrong : n <= k
      <4>1. Wrong \subseteq Nat
        BY <1>1
      <4> HIDE DEF Wrong
      <4> QED
        BY <4>1, LeastIs
    <3>2. n \in 1..N /\ n - 1 \in 0..N /\ n - 1 \notin Wrong
      BY <1>1, <1>6, <3>1
    <3> QED
      BY <1>7, <3>1, <3>2
  <2> QED
    BY <1>1, <2>1
<1>9. ASSUME NEW i \in Range(ranked)
      PROVE  (\E r \in Range(all) : r.profile.slide = slides[i].id) \/ ~ Needed(i)
  <2>1. PICK j \in 1..N : i = ranked[j]
    BY <1>1 DEF Range
  <2> QED
    BY <1>2, <1>8, <2>1
<1>10. IsList(all) /\ \A r \in Range(all) : IsResult(r)
  BY <1>2, <1>8
<1> QED
  BY <1>9, <1>10 DEF all, ranked, Needed

-----------------------------------------------------------------------------
(* FlattenSeq has what its sequences have, and nothing else. *)
Flattens(ss, n, f) ==
  f = [i \in 1..n |-> IF i = 1 THEN ss[i] ELSE f[i - 1] \o ss[i]]

LEMMA FlatteningExists ==
  ASSUME NEW ss, NEW n \in Nat
  PROVE  \E f : Flattens(ss, n, f)
<1> DEFINE Missing == {k \in Nat : ~ \E f : Flattens(ss, k, f)}
<1> SUFFICES ASSUME Missing # {} PROVE FALSE
  OBVIOUS
<1>1. PICK m \in Missing : \A k \in Missing : m <= k
  BY LeastIs
<1>2. m # 0
  <2>1. Flattens(ss, 0, [i \in 1..0 |-> 0])
    BY DEF Flattens
  <2> QED
    BY <1>1, <2>1
<1>3. m - 1 \in Nat /\ m \in Nat /\ m - 1 \notin Missing
  BY <1>1, <1>2
<1>4. PICK f : Flattens(ss, m - 1, f)
  BY <1>3
<1> DEFINE last == IF m = 1 THEN ss[m] ELSE f[m - 1] \o ss[m]
           g == [i \in 1..m |-> IF i = m THEN last ELSE f[i]]
<1>5. ASSUME NEW i \in 1..m
      PROVE  g[i] = IF i = 1 THEN ss[i] ELSE g[i - 1] \o ss[i]
  <2>1. CASE i = m
    BY <1>3, <2>1
  <2>2. CASE i # m
    <3>1. i \in 1..(m - 1) /\ (i # 1 => i - 1 \in 1..m /\ i - 1 # m)
      BY <1>3, <2>2
    <3>2. f[i] = IF i = 1 THEN ss[i] ELSE f[i - 1] \o ss[i]
      BY <1>4, <3>1 DEF Flattens
    <3> QED
      BY <2>2, <3>1, <3>2
  <2> QED
    BY <2>1, <2>2
<1>6. g = [i \in 1..m |-> g[i]]
  OBVIOUS
<1> HIDE DEF g
<1>7. g = [i \in 1..m |-> IF i = 1 THEN ss[i] ELSE g[i - 1] \o ss[i]]
  BY <1>5, <1>6
<1> QED
  BY <1>1, <1>7 DEF Flattens

LEMMA FlattenIs ==
  ASSUME NEW ss, IsList(ss), \A i \in DOMAIN ss : IsList(ss[i])
  PROVE  /\ IsList(FlattenSeq(ss))
         /\ Range(FlattenSeq(ss)) = UNION {Range(ss[i]) : i \in DOMAIN ss}
<1> DEFINE n == Len(ss)
<1>1. n \in Nat /\ DOMAIN ss = 1..n
  BY ListIs
<1>2. CASE n = 0
  <2>1. FlattenSeq(ss) = ss /\ DOMAIN ss = {}
    BY <1>1, <1>2 DEF FlattenSeq
  <2> QED
    BY <2>1 DEF Range
<1>3. CASE n # 0
  <2> DEFINE f == CHOOSE f : Flattens(ss, n, f)
  <2>1. Flattens(ss, n, f)
    BY <1>1, FlatteningExists
  <2>2. FlattenSeq(ss) = f[n]
    BY <1>3, Zenon DEF FlattenSeq, Flattens
  <2> HIDE DEF f, n
  <2>3. \A i \in 1..n : f[i] = IF i = 1 THEN ss[i] ELSE f[i - 1] \o ss[i]
    BY <2>1 DEF Flattens
  <2> DEFINE Has(i) == IsList(f[i]) /\ Range(f[i]) = UNION {Range(ss[k]) : k \in 1..i}
             Wrong == {i \in 1..n : ~ Has(i)}
  <2>4. Wrong = {}
    <3> SUFFICES ASSUME Wrong # {} PROVE FALSE
      OBVIOUS
    <3>1. PICK m \in Wrong : \A k \in Wrong : m <= k
      <4>1. Wrong \subseteq Nat
        BY <1>1
      <4> HIDE DEF Wrong
      <4> QED
        BY <4>1, LeastIs
    <3> HIDE DEF Has
    <3>2. m \in 1..n /\ ~ Has(m)
      BY <3>1
    <3>3. CASE m = 1
      <4>1. f[m] = ss[1] /\ IsList(ss[1])
        BY <1>1, <2>3, <3>2, <3>3
      <4>2. 1..m = {1}
        BY <3>3
      <4>3. Has(m)
        BY <4>1, <4>2 DEF Has
      <4> QED
        BY <3>2, <4>3
    <3>4. CASE m # 1
      <4>1. m - 1 \in 1..n /\ m - 1 \notin Wrong /\ 1..m = (1..(m - 1)) \cup {m}
        BY <1>1, <3>1, <3>2, <3>4
      <4>2. Has(m - 1)
        BY <4>1
      <4>3. f[m] = f[m - 1] \o ss[m] /\ IsList(f[m - 1]) /\ IsList(ss[m])
        BY <1>1, <2>3, <3>2, <3>4, <4>2 DEF Has
      <4>4. IsList(f[m]) /\ Range(f[m]) = Range(f[m - 1]) \cup Range(ss[m])
        BY <4>3, ConcatIs
      <4>5. Has(m)
        BY <4>1, <4>2, <4>4 DEF Has
      <4> QED
        BY <3>2, <4>5
    <3> QED
      BY <3>3, <3>4
  <2>5. n \in 1..n
    BY <1>1, <1>3 DEF n
  <2>6. Has(n)
    <3> HIDE DEF Has
    <3> QED
      BY <2>4, <2>5
  <2> QED
    BY <1>1, <2>2, <2>6
<1> QED
  BY <1>2, <1>3

-----------------------------------------------------------------------------
(* What the tail of sync_all gets from the decks: a record for every slide worth
   reading, unless the store lists one that will do. *)
LEMMA AnalysesAre ==
  ASSUME NEW slides, DOMAIN slides \subseteq Range(Decks),
         \A deck \in DOMAIN slides : slides[deck] \in Slides[deck],
         NEW listed, NEW answered
  PROVE  LET all == Analyses(slides, listed, answered)
         IN  /\ IsList(all)
             /\ \A a \in Range(all) : IsResult(a.result)
             /\ \A deck \in DOMAIN slides : \A i \in Range(RankedSlides(slides[deck], Limit)) :
                  \/ \E a \in Range(all) : a.result.profile.slide = slides[deck][i].id
                  \/ ~ NeedsAnalysis(Payloads(listed), slides[deck][i].id, model, model # Heuristic)
<1> DEFINE Read(deck) == AnalysesOf(deck, Titles[deck], slides[deck], Limit, Payloads(listed),
                                    model, model # Heuristic, answered)
           Of(deck) == IF deck \notin DOMAIN slides THEN <<>>
                       ELSE Sourced(Newest(deck), Read(deck))
           each == [n \in DOMAIN Decks |-> Of(Decks[n])]
           all == Analyses(slides, listed, answered)
           Needed(deck, i) ==
             NeedsAnalysis(Payloads(listed), slides[deck][i].id, model, model # Heuristic)
<1>1. /\ Limit \in Nat /\ Len(Decks) \in Nat /\ DOMAIN Decks = 1..Len(Decks)
      /\ \A n \in DOMAIN Decks : Decks[n] \in DOMAIN Slides
  BY LenProperties, SlideAssumption
<1>2. ASSUME NEW deck \in DOMAIN slides
      PROVE  IsDeck(deck, slides[deck])
  <2>1. deck \in DOMAIN Slides
    BY <1>1 DEF Range
  <2>2. /\ slides[deck] \in Seq(Range(slides[deck]))
        /\ \A i \in DOMAIN slides[deck] : IsSlide(deck, slides[deck][i])
    BY <2>1, SlideAssumption DEF IsSlide
  <2> QED
    BY <2>2, LenProperties DEF IsDeck
<1>3. ASSUME NEW deck \in DOMAIN slides
      PROVE  /\ IsList(Read(deck)) /\ \A r \in Range(Read(deck)) : IsResult(r)
             /\ \A i \in Range(RankedSlides(slides[deck], Limit)) :
                  \/ \E r \in Range(Read(deck)) : r.profile.slide = slides[deck][i].id
                  \/ ~ Needed(deck, i)
  <2> DEFINE d == slides[deck]
             title == Titles[deck]
             records == Payloads(listed)
             analyser == model # Heuristic
             read == AnalysesOf(deck, title, d, Limit, records, model, analyser, answered)
  <2>1. IsDeck(deck, d) /\ Limit \in Nat
    BY <1>1, <1>2
  <2> HIDE DEF d, title, records, analyser
  <2>2. /\ IsList(read)
        /\ \A r \in Range(read) : IsResult(r)
        /\ \A i \in Range(RankedSlides(d, Limit)) :
             \/ \E r \in Range(read) : r.profile.slide = d[i].id
             \/ ~ NeedsAnalysis(records, d[i].id, model, analyser)
    BY <2>1, AnalysesOfIs
  <2> QED
    BY <2>2 DEF d, title, records, analyser
<1> HIDE DEF Read, Needed
<1>4. ASSUME NEW deck \in DOMAIN slides
      PROVE  /\ IsList(Of(deck)) /\ \A a \in Range(Of(deck)) : IsResult(a.result)
             /\ \A r \in Range(Read(deck)) : \E a \in Range(Of(deck)) : a.result = r
  <2> DEFINE read == Read(deck)
             of == Of(deck)
             source == Newest(deck)
  <2>1. IsList(read) /\ \A r \in Range(read) : IsResult(r)
    BY <1>3
  <2>2. of = [n \in DOMAIN read |-> [source |-> source, result |-> read[n]]]
    BY DEF Sourced
  <2> HIDE DEF read, of, source
  <2>3. Len(read) \in Nat /\ DOMAIN read = 1..Len(read)
    BY <2>1, ListIs
  <2>4. \A n \in DOMAIN read : of[n].result = read[n] /\ of[n] \in Range(of)
    BY <2>2 DEF Range
  <2>5. of \in Seq(Range(of))
    BY <2>2, <2>3, <2>4
  <2>6. \A a \in Range(of) : \E n \in DOMAIN read : a.result = read[n]
    BY <2>2 DEF Range
  <2>7. \A r \in Range(read) : \E a \in Range(of) : a.result = r
    BY <2>4 DEF Range
  <2>8. \A a \in Range(of) : IsResult(a.result)
    BY <2>1, <2>6 DEF Range
  <2> QED
    BY <2>5, <2>7, <2>8 DEF IsList, read, of
<1>5. IsList(each) /\ \A n \in DOMAIN each : IsList(each[n])
  <2>1. each \in Seq(Range(each))
    <3>1. each = [n \in 1..Len(Decks) |-> each[n]] /\ DOMAIN each = 1..Len(Decks)
      BY <1>1
    <3> HIDE DEF each
    <3> QED
      BY <1>1, <3>1 DEF Range
  <2>2. IsList(<<>>)
    BY DEF IsList
  <2>3. \A n \in DOMAIN each : each[n] = Of(Decks[n])
    OBVIOUS
  <2> HIDE DEF each
  <2>4. \A n \in DOMAIN each : IsList(each[n])
    BY <1>4, <2>2, <2>3
  <2> QED
    BY <2>1, <2>4 DEF IsList
<1>6. all = FlattenSeq(each)
  BY DEF Analyses, Read
<1> HIDE DEF all
<1>7. IsList(all) /\ Range(all) = UNION {Range(each[n]) : n \in DOMAIN each}
  <2> HIDE DEF each
  <2> QED
    BY <1>5, <1>6, FlattenIs
<1>8. \A a \in Range(all) : \E n \in DOMAIN Decks : a \in Range(Of(Decks[n]))
  BY <1>7
<1>9. \A a \in Range(all) : \E deck \in DOMAIN slides : a \in Range(Of(deck))
  <2>1. Range(<<>>) = {}
    BY DEF Range
  <2> QED
    BY <1>8, <2>1
<1>10. \A deck \in DOMAIN slides : Range(Of(deck)) \subseteq Range(all)
  <2>1. \A deck \in DOMAIN slides : \E n \in DOMAIN Decks : Decks[n] = deck
    BY DEF Range
  <2>2. \A n \in DOMAIN Decks : Range(each[n]) \subseteq Range(all) /\ each[n] = Of(Decks[n])
    BY <1>7
  <2> QED
    BY <2>1, <2>2
<1> HIDE DEF Of
<1>11. \A a \in Range(all) : IsResult(a.result)
  BY <1>4, <1>9
<1>12. ASSUME NEW deck \in DOMAIN slides, NEW i \in Range(RankedSlides(slides[deck], Limit))
       PROVE  \/ \E a \in Range(all) : a.result.profile.slide = slides[deck][i].id
              \/ ~ Needed(deck, i)
  BY <1>3, <1>4, <1>10
<1> QED
  BY <1>7, <1>11, <1>12 DEF all, Needed
-----------------------------------------------------------------------------
(* The slide has a record; if it has no other, that is of the model in use. *)
Settled(slide) ==
  /\ Claims(slide) # {}
  /\ \A id : Claims(slide) = {id} =>
       ~ (model # Heuristic /\ NeedsRefresh(store.records[id].record.payload, model))

SettledSlides == {slide \in {id.slide : id \in Id} : Settled(slide)}
AwaitedSlides == {a.result.profile.slide : a \in Range(batch)}

(* A record is of the slide its id names, so that the next upsert of a batch settles
   its own slide and leaves the others as they are. *)
AnalysisInv ==
  /\ ~ up => seen = <<>>
  /\ IsFiniteSet(DOMAIN store.records) /\ DOMAIN store.records \subseteq Id
  /\ \A id \in DOMAIN store.records : store.records[id].record.payload.profile.slide = id.slide
  /\ IsFiniteSet(DOMAIN table) /\ DOMAIN table \subseteq Id
  /\ \A id \in DOMAIN table : table[id].payload.profile.slide = id.slide
  /\ IsList(batch) /\ \A a \in Range(batch) : IsResult(a.result)
  /\ \A deck \in DOMAIN seen : \A i \in Range(RankedSlides(seen[deck], Limit)) :
       seen[deck][i].id \in SettledSlides \cup AwaitedSlides

LEMMA EmptyBatch == IsList(<<>>) /\ Range(<<>>) = {}
  BY DEF IsList, Range

LEMMA AnalysisInit == Init => AnalysisInv
<1> SUFFICES ASSUME Init PROVE AnalysisInv
  OBVIOUS
<1>1. /\ DOMAIN store.records = {} /\ DOMAIN table = {} /\ batch = <<>> /\ DOMAIN seen = {}
      /\ up
  BY DEF Init, EmptyStore
<1> QED
  BY <1>1, EmptyBatch, FS_EmptySet DEF AnalysisInv

LEMMA SettledSame ==
  ASSUME UNCHANGED <<model, store>>
  PROVE  SettledSlides' = SettledSlides
<1>1. \A slide : Claims(slide)' = Claims(slide)
  BY DEF Claims, Known
<1>2. \A slide : Settled(slide)' <=> Settled(slide)
  BY <1>1 DEF Settled
<1> QED
  BY <1>2 DEF SettledSlides

LEMMA AnalysisCaptureStep ==
  ASSUME AnalysisInv, NEW source, CaptureSource(source)
  PROVE  AnalysisInv'
<1>1. UNCHANGED <<up, model, store, batch, seen, table>>
  BY DEF CaptureSource
<1> QED
  BY <1>1, SettledSame DEF AnalysisInv, AwaitedSlides

(* A slide that the tail passes over, for the record that is listed of it, is settled. *)
LEMMA ListedSettles ==
  ASSUME NEW listed \in Listings, NEW slide,
         ~ NeedsAnalysis(Payloads(listed), slide, model, model # Heuristic)
  PROVE  Settled(slide) /\ \E id \in Known(store) : id \in Claims(slide)
<1> DEFINE payload(id) == store.records[id].record.payload
           found == FindRecord(Payloads(listed), slide)
<1>1. listed \subseteq Known(store)
  BY DEF Listings
<1>2. /\ found # {}
      /\ \A r \in found : ~ (model # Heuristic /\ NeedsRefresh(r, model))
  BY DEF NeedsAnalysis
<1>3. \A r \in found : \E id \in listed : r = payload(id) /\ id \in Claims(slide)
  BY <1>1 DEF FindRecord, Payloads, Claims
<1> HIDE DEF found
<1>4. \E id \in Known(store) : id \in Claims(slide)
  BY <1>1, <1>2, <1>3
<1>5. ASSUME NEW id, Claims(slide) = {id}
      PROVE  ~ (model # Heuristic /\ NeedsRefresh(payload(id), model))
  BY <1>2, <1>3, <1>5
<1> QED
  BY <1>4, <1>5 DEF Settled

LEMMA AnalysisAnalyseStep ==
  ASSUME CacheInv, AnalysisInv, AnalyseSlides
  PROVE  AnalysisInv'
<1>1. /\ up /\ UNCHANGED <<up, model, store, table>>
  BY DEF AnalyseSlides, CoreFree
<1>2. PICK listed \in Listings, answered \in Answers :
        /\ DOMAIN seen' \subseteq Range(Decks)
        /\ \A deck \in DOMAIN seen' : seen'[deck] \in Slides[deck]
        /\ batch' = Analyses(seen', listed, answered)
  BY DEF AnalyseSlides
<1> DEFINE slides == seen'
           all == batch'
<1>3. /\ IsList(all) /\ \A a \in Range(all) : IsResult(a.result)
      /\ \A deck \in DOMAIN slides : \A i \in Range(RankedSlides(slides[deck], Limit)) :
           \/ \E a \in Range(all) : a.result.profile.slide = slides[deck][i].id
           \/ ~ NeedsAnalysis(Payloads(listed), slides[deck][i].id, model, model # Heuristic)
  <2> DEFINE some == slides
  <2>1. DOMAIN some \subseteq Range(Decks) /\ \A deck \in DOMAIN some : some[deck] \in Slides[deck]
    BY <1>2
  <2>2. all = Analyses(some, listed, answered)
    BY <1>2
  <2> HIDE DEF some, all
  <2> QED
    BY <2>1, <2>2, AnalysesAre DEF some
<1>4. SettledSlides' = SettledSlides
  BY <1>1, SettledSame
<1>5. ASSUME NEW slide, ~ NeedsAnalysis(Payloads(listed), slide, model, model # Heuristic)
      PROVE  slide \in SettledSlides
  <2>1. Settled(slide) /\ \E id \in Known(store) : id \in Claims(slide)
    BY <1>5, ListedSettles
  <2> QED
    BY <2>1 DEF SettledSlides, Claims, Known, AnalysisInv
<1>6. \A deck \in DOMAIN slides : \A i \in Range(RankedSlides(slides[deck], Limit)) :
        slides[deck][i].id \in SettledSlides' \cup AwaitedSlides'
  BY <1>3, <1>4, <1>5 DEF AwaitedSlides
<1> QED
  BY <1>1, <1>3, <1>6 DEF AnalysisInv

(* The record upserted is the one of the result, and the others stay. *)
LEMMA UpsertRecords ==
  ASSUME UpsertAnalysis
  PROVE  LET result == Head(batch).result
             later == store'.records
         IN  /\ DOMAIN later = DOMAIN store.records \cup {result.id}
             /\ later[result.id].record.payload = [model |-> model, profile |-> result.profile]
             /\ \A id \in DOMAIN store.records : id # result.id => later[id] = store.records[id]
<1> DEFINE rec == Built(Head(batch))
           id == rec.id
           records == store.records
           successor == [version |-> records[id].version + 1,
                         record |-> [rec EXCEPT !.recordVersion = records[id].version + 1]]
           entry == IF id \in DOMAIN records THEN successor ELSE [version |-> 1, record |-> rec]
<1>1. store' = Upserted(store, rec)
  BY DEF UpsertAnalysis
<1>2. rec = [id |-> id, mutability |-> rec.mutability, derivedFrom |-> rec.derivedFrom,
             payload |-> rec.payload, recordVersion |-> rec.recordVersion, consent |-> rec.consent]
  BY DEF Built
<1>3. /\ id = Head(batch).result.id
      /\ rec.payload = [model |-> model, profile |-> Head(batch).result.profile]
  BY DEF Built
<1> HIDE DEF rec
<1>4. entry.record.id = id /\ entry.record.payload = rec.payload
  BY <1>2
<1>5. store'.records = Put(records, id, entry)
  <2>1. CASE id \in DOMAIN records
    <3>1. store' = Successor(store, rec)
      BY <1>1, <2>1 DEF Upserted, Known
    <3> QED
      BY <1>4, <2>1, <3>1 DEF Successor, Pushed
  <2>2. CASE id \notin DOMAIN records
    <3>1. store' = Added(store, rec)
      BY <1>1, <2>2 DEF Upserted, Known
    <3> QED
      BY <1>4, <2>2, <3>1 DEF Added, Pushed
  <2> QED
    BY <2>1, <2>2
<1> HIDE DEF entry
<1> QED
  BY <1>3, <1>4, <1>5 DEF Put

LEMMA AnalysisUpsertStep ==
  ASSUME AnalysisInv, CacheInv, UpsertAnalysis
  PROVE  AnalysisInv'
<1> DEFINE result == Head(batch).result
           records == store.records
           later == store'.records
<1>1. /\ batch # <<>> /\ batch' = Tail(batch) /\ up
      /\ UNCHANGED <<up, model, seen, table>>
  BY DEF UpsertAnalysis, CacheInv
<1>2. /\ DOMAIN later = DOMAIN records \cup {result.id}
      /\ later[result.id].record.payload = [model |-> model, profile |-> result.profile]
      /\ \A id \in DOMAIN records : id # result.id => later[id] = records[id]
  BY UpsertRecords
<1>3. /\ IsList(batch') /\ Range(batch') \subseteq Range(batch)
      /\ Head(batch) \in Range(batch) /\ Range(batch) \subseteq {Head(batch)} \cup Range(batch')
  <2>1. batch \in Seq(Range(batch)) /\ Len(batch) \in Nat /\ DOMAIN batch = 1..Len(batch)
    BY LenProperties DEF AnalysisInv, IsList
  <2>2. batch' \in Seq(Range(batch)) /\ Len(batch) # 0
          /\ Len(batch') = Len(batch) - 1 /\ \A n \in 1..(Len(batch) - 1) : batch'[n] = batch[n + 1]
    BY <1>1, <2>1, EmptySeq, HeadTailProperties
  <2>3. IsList(batch') /\ Range(batch') \subseteq Range(batch)
    BY <2>2, ListOf
  <2>4. Head(batch) = batch[1] /\ 1 \in DOMAIN batch
    BY <2>1, <2>2
  <2>5. DOMAIN batch' = 1..(Len(batch) - 1)
    BY <2>2, LenProperties
  <2>6. \A n \in DOMAIN batch : n = 1 \/ (n - 1 \in DOMAIN batch' /\ batch'[n - 1] = batch[n])
    BY <2>1, <2>2, <2>5
  <2>7. Head(batch) \in Range(batch)
    BY <2>4 DEF Range
  <2>8. Range(batch) \subseteq {Head(batch)} \cup Range(batch')
    BY <2>4, <2>6 DEF Range
  <2> QED
    BY <2>3, <2>7, <2>8
<1>4. IsResult(result) /\ \A a \in Range(batch') : IsResult(a.result)
  BY <1>3 DEF AnalysisInv
<1>0. PICK slide : slide = result.profile.slide
  OBVIOUS
<1>5. /\ result.id \in Id /\ result.id.slide = slide /\ Rich(result.profile)
  BY <1>0, <1>4 DEF IsResult
<1> HIDE DEF result, later
<1>6. /\ IsFiniteSet(DOMAIN later) /\ DOMAIN later \subseteq Id
      /\ \A id \in DOMAIN later : later[id].record.payload.profile.slide = id.slide
  <2>1. IsFiniteSet(DOMAIN records) /\ DOMAIN records \subseteq Id
    BY DEF AnalysisInv
  <2>2. IsFiniteSet(DOMAIN later)
    BY <1>2, <2>1, FS_AddElement
  <2>3. \A id \in DOMAIN later : later[id].record.payload.profile.slide = id.slide
    <3>1. \A id \in DOMAIN records : records[id].record.payload.profile.slide = id.slide
      BY DEF AnalysisInv
    <3>2. later[result.id].record.payload.profile.slide = result.id.slide
      BY <1>0, <1>2, <1>5
    <3> QED
      BY <1>2, <3>1, <3>2
  <2> QED
    BY <1>2, <1>5, <2>1, <2>2, <2>3
<1>7. \A s : Claims(s) = {id \in DOMAIN records : id.slide = s}
  BY DEF Claims, Known, AnalysisInv
<1>8. \A s : Claims(s)' = {id \in DOMAIN later : id.slide = s}
  BY <1>6 DEF Claims, Known, later
<1>9. Settled(slide)'
  <2>1. result.id \in Claims(slide)'
    BY <1>2, <1>5, <1>8
  <2>2. ~ NeedsRefresh(later[result.id].record.payload, model)
    BY <1>2, <1>5 DEF NeedsRefresh, Rich
  <2>3. \A id : Claims(slide)' = {id} => id = result.id
    BY <2>1
  <2> QED
    BY <1>1, <2>1, <2>2, <2>3 DEF Settled, later
<1>10. ASSUME NEW s, s # slide, Settled(s)
       PROVE  Settled(s)'
  <2>1. Claims(s)' = Claims(s) /\ result.id \notin Claims(s)
    BY <1>2, <1>5, <1>7, <1>8, <1>10
  <2>2. \A id \in Claims(s) : later[id] = records[id]
    BY <1>2, <1>7, <2>1
  <2> QED
    BY <1>1, <1>10, <2>1, <2>2 DEF Settled, later
<1>11. ASSUME NEW s \in SettledSlides \cup AwaitedSlides
       PROVE  s \in SettledSlides' \cup AwaitedSlides'
  <2>1. CASE s = slide
    BY <1>5, <1>9, <2>1 DEF SettledSlides
  <2>2. CASE s # slide /\ s \in SettledSlides
    BY <1>10, <2>2 DEF SettledSlides
  <2>3. CASE s # slide /\ s \in AwaitedSlides
    BY <1>0, <1>3, <2>3 DEF AwaitedSlides, result
  <2> QED
    BY <2>1, <2>2, <2>3
<1>12. \A deck \in DOMAIN seen : \A i \in Range(RankedSlides(seen[deck], Limit)) :
         seen[deck][i].id \in SettledSlides' \cup AwaitedSlides'
  BY <1>11 DEF AnalysisInv
<1> QED
  BY <1>1, <1>3, <1>4, <1>6, <1>12 DEF AnalysisInv, later

LEMMA AnalysisWriteRow ==
  ASSUME CacheInv, AnalysisInv, WriteRow
  PROVE  /\ IsFiniteSet(DOMAIN table') /\ DOMAIN table' \subseteq Id
         /\ \A id \in DOMAIN table' : table'[id].payload.profile.slide = id.slide
<1>1. /\ DOMAIN store.records = DOMAIN table'
      /\ \A id \in DOMAIN store.records : store.records[id].record = table'[id]
  BY CacheWriteRow
<1> QED
  BY <1>1 DEF AnalysisInv

LEMMA AnalysisPersistStep ==
  ASSUME CacheInv, AnalysisInv, PersistSupplemental
  PROVE  AnalysisInv'
<1>1. WriteRow /\ UNCHANGED <<up, model, store, batch, seen>>
  BY DEF PersistSupplemental
<1>2. /\ IsFiniteSet(DOMAIN table') /\ DOMAIN table' \subseteq Id
      /\ \A id \in DOMAIN table' : table'[id].payload.profile.slide = id.slide
  BY <1>1, AnalysisWriteRow
<1> QED
  BY <1>1, <1>2, SettledSame DEF AnalysisInv, AwaitedSlides

LEMMA AnalysisPersistFailsStep ==
  ASSUME CacheInv, AnalysisInv, PersistFails
  PROVE  AnalysisInv'
<1>1. /\ token # NoToken /\ store' = RolledBack(store, token)
      /\ batch' = <<>> /\ seen' = <<>> /\ table' = table
  BY DEF PersistFails
<1>2. /\ DOMAIN store'.records = DOMAIN table
      /\ \A id \in DOMAIN table : store'.records[id].record = table[id]
  BY <1>1 DEF CacheInv, Matches
<1>3. DOMAIN seen' = {}
  BY <1>1
<1> QED
  BY <1>1, <1>2, <1>3, EmptyBatch DEF AnalysisInv

LEMMA AnalysisDownStep ==
  ASSUME CacheInv, AnalysisInv, Crash \/ CrashAfterWrite
  PROVE  AnalysisInv'
<1>1. /\ ~ up' /\ DOMAIN store'.records = {} /\ batch' = <<>> /\ seen' = <<>> /\ DOMAIN seen' = {}
  BY DEF Crash, CrashAfterWrite, Down, EmptyStore
<1>2. /\ IsFiniteSet(DOMAIN table') /\ DOMAIN table' \subseteq Id
      /\ \A id \in DOMAIN table' : table'[id].payload.profile.slide = id.slide
  <2>1. CASE Crash
    BY <2>1 DEF Crash, AnalysisInv
  <2>2. CASE CrashAfterWrite
    BY <2>2, AnalysisWriteRow DEF CrashAfterWrite
  <2> QED
    BY <2>1, <2>2
<1> QED
  BY <1>1, <1>2, EmptyBatch, FS_EmptySet DEF AnalysisInv

LEMMA AnalysisRestartStep ==
  ASSUME CacheInv, AnalysisInv, Restart
  PROVE  AnalysisInv'
<1>1. /\ ~ up /\ up' /\ UNCHANGED <<batch, seen, table>>
      /\ store'.records = [id \in DOMAIN table |-> [version |-> 1, record |-> table[id]]]
  BY DEF Restart, Stored
<1>2. /\ DOMAIN store'.records = DOMAIN table
      /\ \A id \in DOMAIN table : store'.records[id].record = table[id]
  BY <1>1
<1>3. DOMAIN seen' = {}
  BY <1>1 DEF AnalysisInv
<1> QED
  BY <1>1, <1>2, <1>3 DEF AnalysisInv

LEMMA AnalysisInvariance == Spec => []AnalysisInv
<1>1. ASSUME CacheInv, AnalysisInv, [Next]_(vars) PROVE AnalysisInv'
  <2>1. CASE \E source \in Observation : CaptureSource(source)
    BY <1>1, <2>1, AnalysisCaptureStep
  <2>2. CASE AnalyseSlides
    BY <1>1, <2>2, AnalysisAnalyseStep
  <2>3. CASE UpsertAnalysis
    BY <1>1, <2>3, AnalysisUpsertStep
  <2>4. CASE PersistSupplemental
    BY <1>1, <2>4, AnalysisPersistStep
  <2>5. CASE PersistFails
    BY <1>1, <2>5, AnalysisPersistFailsStep
  <2>6. CASE Crash \/ CrashAfterWrite
    BY <1>1, <2>6, AnalysisDownStep
  <2>7. CASE Restart
    BY <1>1, <2>7, AnalysisRestartStep
  <2>8. CASE UNCHANGED vars
    BY <1>1, <2>8, SettledSame DEF vars, AnalysisInv, AwaitedSlides
  <2> QED
    BY <1>1, <2>1, <2>2, <2>3, <2>4, <2>5, <2>6, <2>7, <2>8 DEF Next
<1> QED
  BY CacheInvariance, AnalysisInit, <1>1, PTL DEF Spec

(* After a tail of sync_all that got through, every slide worth reading in the decks
   as it saw them has a record, of the model in use unless records of several decks
   claim the slide; so the next tail reads nothing again, whatever Gemini answered
   or missed and whichever record of a slide the store lists. *)
THEOREM SupplementalAnalysesSettle == Spec => []AnalysesSettle
<1>1. ASSUME AnalysisInv, CoreFree,
             NEW deck \in DOMAIN seen, NEW i \in Range(RankedSlides(seen[deck], Limit)),
             NEW listed \in Listings, ~ (Cardinality(Claims(seen[deck][i].id)) > 1)
      PROVE  ~ NeedsAnalysis(Payloads(listed), seen[deck][i].id, model, model # Heuristic)
  <2> DEFINE slide == seen[deck][i].id
             payload(id) == store.records[id].record.payload
  <2>1. Settled(slide)
    <3>1. AwaitedSlides = {}
      BY <1>1, EmptyBatch DEF CoreFree, AwaitedSlides
    <3> QED
      BY <1>1, <3>1 DEF AnalysisInv, SettledSlides
  <2> HIDE DEF slide
  <2>2. PICK id : id \in Claims(slide)
    BY <2>1 DEF Settled
  <2>3. Claims(slide) \subseteq Known(store) /\ IsFiniteSet(Known(store)) /\ Known(store) \subseteq Id
    BY <1>1 DEF Claims, AnalysisInv, Known
  <2>4. Claims(slide) = {id}
    <3> SUFFICES ASSUME Claims(slide) # {id} PROVE FALSE
      OBVIOUS
    <3>1. {id} \subseteq Claims(slide) /\ {id} # Claims(slide)
      BY <2>2
    <3>2. IsFiniteSet(Claims(slide)) /\ Cardinality(Claims(slide)) \in Nat
      BY <2>3, FS_Subset, FS_CardinalityType
    <3>3. IsFiniteSet({id}) /\ Cardinality({id}) = 1
      BY FS_Singleton
    <3>4. Cardinality({id}) <= Cardinality(Claims(slide)) /\ Cardinality({id}) # Cardinality(Claims(slide))
      BY <3>1, <3>2, FS_Subset
    <3> QED
      BY <1>1, <3>2, <3>3, <3>4 DEF slide
  <2>5. slide \in Claimed
    <3>1. id \in Id /\ id.slide = slide
      BY <1>1, <2>2, <2>3 DEF Claims, AnalysisInv, Known
    <3> QED
      BY <2>2, <3>1 DEF Claimed
  <2>6. id \in listed /\ listed \subseteq Known(store)
    <3>1. Cardinality(listed \cap {id}) = 1 /\ listed \subseteq Known(store)
      BY <2>4, <2>5 DEF Listings
    <3>2. id \notin listed => listed \cap {id} = {}
      OBVIOUS
    <3> QED
      BY <3>1, <3>2, FS_EmptySet
  <2>7. FindRecord(Payloads(listed), slide) = {payload(id)}
    <3>1. \A j \in listed : payload(j).profile.slide = slide <=> j = id
      BY <2>4, <2>6 DEF Claims
    <3> QED
      BY <2>6, <3>1 DEF FindRecord, Payloads
  <2>8. ~ (model # Heuristic /\ NeedsRefresh(payload(id), model))
    BY <2>1, <2>4 DEF Settled
  <2>9. ~ NeedsAnalysis(Payloads(listed), slide, model, model # Heuristic)
    BY <2>7, <2>8 DEF NeedsAnalysis
  <2> QED
    BY <2>9 DEF slide
<1>2. AnalysisInv => AnalysesSettle
  BY <1>1 DEF AnalysesSettle
<1> QED
  BY <1>2, AnalysisInvariance, PTL
=============================================================================
