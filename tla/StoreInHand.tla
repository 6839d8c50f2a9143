------------------------------ MODULE StoreInHand ------------------------------
(***************************************************************************)
(* A supplemental store in use: its value, and the token of an             *)
(* upsert_with_rollback that its caller has neither kept nor rolled back.  *)
(***************************************************************************)
EXTENDS SupplementalStore

CONSTANT MaxHistory  \* bound on the history

VARIABLES store,     \* AppCore.supplemental
          token      \* the UpsertRollback in hand
=============================================================================
