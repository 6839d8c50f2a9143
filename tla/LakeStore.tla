------------------------------ MODULE LakeStore ------------------------------
(***************************************************************************)
(* The value of an in-memory observation lake (src/lake/store.rs) and its  *)
(* methods, as operators from a lake to a lake.  A lake is the vector of   *)
(* observations together with the index from idempotency key to position   *)
(* (one-based here, zero-based in the code).  The store itself looks only  *)
(* at an observation's id and key; modules that EXTEND this one add more.  *)
(***************************************************************************)
EXTENDS Naturals, Sequences

CONSTANTS Key,      \* idempotency keys
          NoKey     \* the None of Option<IdempotencyKey>

ASSUME NoKeyAssumption == NoKey \notin Key

EmptyLake == [observations |-> <<>>, dedup |-> [k \in {} |-> 0]]

Length(lake) == Len(lake.observations)

Contents(lake) == {lake.observations[n] : n \in 1..Length(lake)}

KeyedPositions(observations) ==
  {n \in 1..Len(observations) : observations[n].key # NoKey}

KeysOf(observations) == {observations[n].key : n \in KeyedPositions(observations)}

-----------------------------------------------------------------------------
(* Plausible faults, swapped in one at a time by the mutant runs. *)
ForgetToUnindex(dedup, key) == dedup

-----------------------------------------------------------------------------
(* dedup_index.insert, for the observation about to be pushed. *)
Indexed(lake, obs) ==
  IF obs.key = NoKey
  THEN lake.dedup
  ELSE [k \in DOMAIN lake.dedup \cup {obs.key} |->
          IF k = obs.key THEN Length(lake) + 1 ELSE lake.dedup[k]]

(* dedup_index.remove *)
Unindexed(dedup, key) == [k \in DOMAIN dedup \ {key} |-> dedup[k]]

(* append: Ok(id) of the new observation, or Err(id) of the holder of its key. *)
LakeAppend(lake, obs) ==
  IF obs.key \in DOMAIN lake.dedup
  THEN [appended |-> FALSE,
        id |-> lake.observations[lake.dedup[obs.key]].id,
        lake |-> lake]
  ELSE [appended |-> TRUE,
        id |-> obs.id,
        lake |-> [observations |-> Append(lake.observations, obs),
                  dedup |-> Indexed(lake, obs)]]

(* rollback_last_append: pops the newest observation if it has this id. *)
RollbackLastAppend(lake, id) ==
  LET last == lake.observations[Length(lake)]
  IN  IF Length(lake) = 0 \/ last.id # id
      THEN lake
      ELSE [observations |-> SubSeq(lake.observations, 1, Length(lake) - 1),
            dedup |-> Unindexed(lake.dedup, last.key)]

(* The lake that appending these observations one by one into an empty     *)
(* store builds, when no key repeats: what AppCore::new does at bootstrap. *)
Replayed(observations) ==
  [observations |-> observations,
   dedup |-> [k \in KeysOf(observations) |->
                CHOOSE n \in KeyedPositions(observations) : observations[n].key = k]]

(* The index has an entry for every key held, and the entry of every keyed *)
(* observation is its own position: so no key is held by two of them.      *)
WellFormed(lake) ==
  /\ DOMAIN lake.dedup = KeysOf(lake.observations)
  /\ \A n \in KeyedPositions(lake.observations) :
       lake.dedup[lake.observations[n].key] = n
=============================================================================
