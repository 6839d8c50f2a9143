-------------------------- MODULE SupplementalStore --------------------------
(***************************************************************************)
(* The value of the in-memory supplemental store                           *)
(* (src/supplemental/store.rs) and its methods, as operators from a store  *)
(* to a store: the current record of every id with its version number, and *)
(* the history of all versions.  A record is an id, its mutability, the    *)
(* inputs it derives from, a payload, its own record_version (0: None) and *)
(* its consent metadata.                                                   *)
(***************************************************************************)
EXTENDS Naturals, Sequences

CONSTANTS Id,           \* supplemental ids
          Payload,
          Observation,  \* ids of observations
          OtherInput,   \* blobs and supplementals a record may derive from
          Consent,      \* consent metadata
          NoConsent

Record ==
  [id : Id, mutability : {"AppendOnly", "ManagedCache"},
   derivedFrom : SUBSET (Observation \cup OtherInput), payload : Payload,
   recordVersion : Nat, consent : Consent \cup {NoConsent}]

(* The None of Option<VersionedRecord>, and of what a caller holds to roll back. *)
None == [none |-> TRUE]
NoVersion == None
NoToken == None

EmptyStore == [records |-> [k \in {} |-> NoVersion], history |-> <<>>]

Known(store) == DOMAIN store.records

(* records.insert *)
Put(records, id, entry) ==
  [k \in DOMAIN records \cup {id} |-> IF k = id THEN entry ELSE records[k]]

(* records.insert of the next version, and history.push *)
Pushed(store, entry) ==
  [records |-> Put(store.records, entry.record.id, entry),
   history |-> Append(store.history, entry)]

-----------------------------------------------------------------------------
(* Plausible faults, swapped in one at a time by the mutant runs. *)
AnyOverwritable(store, id) == id \in Known(store)
KeepHistory(store, token) ==
  [records |-> IF token.previous = NoVersion
               THEN [k \in Known(store) \ {token.id} |-> store.records[k]]
               ELSE Put(store.records, token.id, token.previous),
   history |-> store.history]
KeepRecord(store, token) ==
  [store EXCEPT !.history = SubSeq(@, 1, token.historyLen)]
ConsentInHistoryToo(store, id, consent) ==
  [records |-> [store.records EXCEPT ![id].record.consent = consent],
   history |-> [n \in DOMAIN store.history |->
                  IF store.history[n].record.id = id
                  THEN [store.history[n] EXCEPT !.record.consent = consent]
                  ELSE store.history[n]]]

-----------------------------------------------------------------------------
(* validate_record, against the observations in the lake. *)
Valid(rec, observed) ==
  /\ rec.derivedFrom # {}
  /\ rec.derivedFrom \cap Observation \subseteq observed

(* AppendOnly records cannot be overwritten. *)
Overwritable(store, id) ==
  id \in Known(store) /\ store.records[id].record.mutability = "ManagedCache"

(* add, of a record with a new id *)
Added(store, rec) == Pushed(store, [version |-> 1, record |-> rec])

(* the overwriting branch of upsert, and update *)
Successor(store, rec) ==
  LET version == store.records[rec.id].version + 1
  IN  Pushed(store, [version |-> version, record |-> [rec EXCEPT !.recordVersion = version]])

(* upsert accepts a new id, or an overwritable one. *)
UpsertAccepts(store, rec) == rec.id \in Known(store) => Overwritable(store, rec.id)

Upserted(store, rec) ==
  IF rec.id \in Known(store) THEN Successor(store, rec) ELSE Added(store, rec)

(* update: only the payload of the record changes. *)
Updated(store, id, payload) ==
  Successor(store, [store.records[id].record EXCEPT !.payload = payload])

(* update_consent: in place, neither a version nor a history entry. *)
ConsentUpdated(store, id, consent) ==
  [store EXCEPT !.records[id].record.consent = consent]

(* upsert_with_rollback captures this before the upsert ... *)
RollbackToken(store, id) ==
  [id |-> id,
   previous |-> IF id \in Known(store) THEN store.records[id] ELSE NoVersion,
   historyLen |-> Len(store.history)]

(* ... and rollback_upsert restores it. *)
RolledBack(store, token) ==
  [records |-> IF token.previous = NoVersion
               THEN [k \in Known(store) \ {token.id} |-> store.records[k]]
               ELSE Put(store.records, token.id, token.previous),
   history |-> SubSeq(store.history, 1, token.historyLen)]

(* versions: the places of an id in the history, in its order *)
VersionsOf(store, id) == {n \in DOMAIN store.history : store.history[n].record.id = id}

(* get_version: the first match in the history *)
Pinned(store, id, version) ==
  LET found == {n \in VersionsOf(store, id) : store.history[n].version = version}
  IN  IF found = {} THEN NoVersion
      ELSE store.history[CHOOSE n \in found : \A m \in found : n <= m]

(* The history has of an unknown id nothing, and of a known one its versions
   1, 2, ... in this order, each once, up to the current one. *)
HistoryComplete(store) ==
  /\ \A id \in Id \ Known(store) : VersionsOf(store, id) = {}
  /\ \A id \in Known(store) :
       LET current == store.records[id]
       IN  /\ \A m, n \in VersionsOf(store, id) :
                m < n => store.history[m].version < store.history[n].version
           /\ {store.history[n].version : n \in VersionsOf(store, id)} = 1..current.version
           /\ \A n \in VersionsOf(store, id) :
                store.history[n].version = current.version
                  => current.record = [store.history[n].record EXCEPT
                                         !.consent = current.record.consent]
=============================================================================
