------------------------------- MODULE Governance -------------------------------
(***************************************************************************)
(* What stands between a snapshot and a reader: the policy decision        *)
(* (src/governance/engine.rs) and the masking of restricted fields         *)
(* (src/governance/filter.rs), as operators.                               *)
(***************************************************************************)
EXTENDS Naturals, Sequences, FiniteSets

Scopes == <<"public", "internal", "restricted", "highly-sensitive">>
ScopeRank(scope) == CHOOSE i \in DOMAIN Scopes : Scopes[i] = scope

Capabilities(role) ==
  CASE role = "system-admin" ->
         {"read-registry", "search-catalog", "read-own", "read-shared", "run-draft",
          "request-preview", "submit-proposal", "approve-proposal", "canonical-write",
          "export-data", "read-audit"}
    [] role = "researcher" ->
         {"read-registry", "search-catalog", "read-own", "read-shared", "run-draft",
          "request-preview", "submit-proposal"}
    [] role = "resident" -> {"read-own", "search-catalog"}
    [] role = "external" -> {"search-catalog"}
    [] role = "agent" ->
         {"read-registry", "search-catalog", "run-draft", "request-preview", "submit-proposal"}

Required(op) ==
  CASE op.kind \in {"read", "read-restricted"} -> "read-shared"
    [] op.kind = "write" -> IF op.mode = "canonical" THEN "canonical-write" ELSE "submit-proposal"
    [] op.kind = "export" -> "export-data"
    [] op.kind = "publish" -> "approve-proposal"
    [] op.kind = "run-build" -> "run-draft"

NeedsReview(req) ==
  \/ req.op.kind = "export" /\ req.scope = "highly-sensitive"
  \/ req.op.kind = "write" /\ req.op.mode = "canonical" /\ req.op.authority = "dual-reference"
  \/ req.environment = "export" /\ req.scope = "restricted"
  \/ req.op.kind = "publish"

(* Consent first, then the role's capabilities, then what a person must look at. *)
Evaluate(req) ==
  IF \/ req.consent = "opted-out" \/ Required(req.op) \notin Capabilities(req.role) THEN "deny"
  ELSE IF NeedsReview(req) THEN "review"
  ELSE "allow"

-----------------------------------------------------------------------------
(* Plausible faults, swapped in one at a time by the mutant runs. *)
OnlyAbove(level, viewer) == ScopeRank(level) > ScopeRank(viewer) + 1

-----------------------------------------------------------------------------
(* A field above the reader's scope is taken out where it is found; an object
   that does not have it is searched through its children, here the items of a
   page of a list. *)
ShouldMask(level, viewer) == ScopeRank(level) > ScopeRank(viewer)

Without(object, field) == [f \in DOMAIN object \ {field} |-> object[f]]

Excluded(payload, field) ==
  IF field \in DOMAIN payload THEN Without(payload, field)
  ELSE IF "data" \in DOMAIN payload
       THEN [payload EXCEPT !.data = [i \in DOMAIN payload.data |-> Without(payload.data[i], field)]]
       ELSE payload

Filtered(payload, viewer, spec) ==
  IF ShouldMask(spec.level, viewer) THEN Excluded(payload, spec.field) ELSE payload
=============================================================================
