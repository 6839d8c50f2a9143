------------------------- MODULE SupplementalRecords -------------------------
(***************************************************************************)
(* One supplemental store under any sequence of calls of its methods.  The *)
(* caller of upsert_with_rollback holds the store (the core mutex) until   *)
(* it has kept the new version or rolled it back, so no other call comes   *)
(* in between.  Refused calls change nothing and are left out.             *)
(***************************************************************************)
EXTENDS StoreInHand

CONSTANTS Observed,    \* the observations the lake holds
          Records      \* the records callers build

ASSUME RecordsAssumption == Records \subseteq Record /\ MaxHistory \in Nat

recordsVars == <<store, token>>

RecordsInit == store = EmptyStore /\ token = NoToken

(* Nobody holds a token, and the bound leaves room for another version. *)
Callable == token = NoToken /\ Len(store.history) < MaxHistory

Add(rec) ==
  /\ Callable
  /\ Valid(rec, Observed)
  /\ rec.id \notin Known(store)
  /\ store' = Added(store, rec)
  /\ UNCHANGED token

UpsertWithRollback(rec) ==
  /\ Callable
  /\ Valid(rec, Observed)
  /\ UpsertAccepts(store, rec)
  /\ token' = RollbackToken(store, rec.id)
  /\ store' = Upserted(store, rec)

Keep ==
  /\ token # NoToken
  /\ token' = NoToken
  /\ UNCHANGED store

RollbackUpsert ==
  /\ token # NoToken
  /\ store' = RolledBack(store, token)
  /\ token' = NoToken

Update(id, payload) ==
  /\ Callable
  /\ Overwritable(store, id)
  /\ store' = Updated(store, id, payload)
  /\ UNCHANGED token

UpdateConsent(id, consent) ==
  /\ token = NoToken
  /\ id \in Known(store)
  /\ store' = ConsentUpdated(store, id, consent)
  /\ UNCHANGED token

RecordsNext ==
  \/ \E rec \in Records : Add(rec) \/ UpsertWithRollback(rec)
  \/ Keep
  \/ RollbackUpsert
  \/ \E id \in Id :
       \/ \E payload \in Payload : Update(id, payload)
       \/ \E consent \in Consent : UpdateConsent(id, consent)

RecordsSpec == RecordsInit /\ [][RecordsNext]_recordsVars

-----------------------------------------------------------------------------
(* The history of an id is its versions without gap or repetition, ending  *)
(* in the current one, whatever was overwritten and rolled back before:    *)
(* an upsert that was rolled back leaves neither a version nor a hole.     *)
HistoryMatchesRecords == HistoryComplete(store)

(* Version of id is one that a caller may still roll back. *)
Pending(id, version) == token # NoToken /\ token.id = id /\ version = store.records[id].version

(* A version that was kept reads the same for ever: academic-pinned reads  *)
(* (get_version) never change, not when consent is withdrawn, not when a   *)
(* later version is rolled back.                                           *)
PinnedReadsStable ==
  [][\A id \in Id, version \in 1..MaxHistory :
       (~ Pending(id, version) /\ Pinned(store, id, version) # NoVersion) =>
         Pinned(store', id, version) = Pinned(store, id, version)]_recordsVars

(* A kept AppendOnly record never changes, in anything but its consent.    *)
AppendOnlyFrozen ==
  [][\A id \in Known(store) :
       (~ Pending(id, store.records[id].version)
          /\ store.records[id].record.mutability = "AppendOnly") =>
         /\ id \in Known(store')
         /\ store'.records[id].version = store.records[id].version
         /\ store'.records[id].record =
              [store.records[id].record EXCEPT !.consent = store'.records[id].record.consent]]_recordsVars
=============================================================================
