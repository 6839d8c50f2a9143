----------------------- MODULE MCSupplementalRecords -----------------------
(***************************************************************************)
(* An instance of SupplementalRecords for TLC: callers build managed and   *)
(* append-only records of the same ids, some with no or unknown inputs.    *)
(***************************************************************************)
EXTENDS SupplementalRecords

CONSTANTS a, b, p, q, o, missing, blob

MCId == {a, b}
MCPayload == {p, q}
MCObservation == {o, missing}
MCOtherInput == {blob}
MCObserved == {o}

Rec(id, mutability, derivedFrom) ==
  [id |-> id, mutability |-> mutability, derivedFrom |-> derivedFrom,
   payload |-> p, recordVersion |-> 1, consent |-> NoConsent]

MCRecords ==
  {Rec(a, "ManagedCache", {o}), Rec(a, "AppendOnly", {o}),
   Rec(b, "ManagedCache", {blob}), Rec(b, "AppendOnly", {o, blob}),
   Rec(b, "ManagedCache", {missing}), Rec(b, "AppendOnly", {})}
=============================================================================
