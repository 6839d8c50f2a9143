------------------------------- MODULE Registry -------------------------------
(***************************************************************************)
(* The registry (src/registry/store.rs) as a value: a record of the        *)
(* entity types, source systems, schemas with their versions, observers    *)
(* and projections registered so far, and what each registration does to   *)
(* it.  A refused registration (Conflict, Validation, NotFound) leaves it  *)
(* as it is.  Names, owners and descriptions are left out.                 *)
(***************************************************************************)
EXTENDS Integers, FiniteSets

AnyType == "et:*"
AnySchema == "*"
Heartbeats == "schema:observer-heartbeat"

BaseEntityTypes ==
  {"et:person", "et:space", "et:artifact", "et:document", "et:message", "et:observer"}

EntityType(id, parent) == [id |-> id, parent |-> parent]
Schema(id, subjectType, contracts) ==
  [id |-> id, subjectType |-> subjectType, contracts |-> contracts, version |-> 1]
IsSchema(s) ==
  s = [id |-> s.id, subjectType |-> s.subjectType, contracts |-> s.contracts, version |-> s.version]
Observer(id, system, schemas, authority, capture) ==
  [id |-> id, system |-> system, schemas |-> schemas, authority |-> authority, capture |-> capture]

NewRegistry ==
  [entityTypes |-> [t \in BaseEntityTypes |-> EntityType(t, "none")],
   systems     |-> {},
   schemas     |-> [s \in {} |-> Schema(s, AnyType, {})],
   versions    |-> {},
   observers   |-> [o \in {} |-> Observer(o, "none", {}, "none", "none")],
   projections |-> [p \in {} |-> "building"]]

With(f, key, value) == [k \in DOMAIN f \cup {key} |-> IF k = key THEN value ELSE f[k]]

-----------------------------------------------------------------------------
(* Plausible faults, swapped in one at a time by the mutant runs. *)
OrReplacesSchema(r, s) == s.subjectType \in DOMAIN r.entityTypes \cup {AnyType}
AnySystem(r, o) == o.id \notin DOMAIN r.observers

-----------------------------------------------------------------------------
MayRegisterEntityType(r, t) ==
  /\ t.id \notin DOMAIN r.entityTypes
  /\ t.parent # "none" => t.parent \in DOMAIN r.entityTypes
EntityTypeRegistered(r, t) == [r EXCEPT !.entityTypes = With(@, t.id, t)]

MayRegisterSystem(r, system) == system \notin r.systems
SystemRegistered(r, system) == [r EXCEPT !.systems = @ \cup {system}]

MayRegisterSchema(r, s) ==
  /\ s.id \notin DOMAIN r.schemas
  /\ s.subjectType = AnyType \/ s.subjectType \in DOMAIN r.entityTypes
SchemaRegistered(r, s) ==
  [r EXCEPT !.schemas = With(@, s.id, s), !.versions = @ \cup {<<s.id, s.version>>}]

(* Any version is taken, a known or a lower one as well, and becomes the latest. *)
SchemaVersionAdded(r, id, version) ==
  [r EXCEPT !.versions = @ \cup {<<id, version>>}, !.schemas[id].version = version]

MayRegisterObserver(r, o) == o.id \notin DOMAIN r.observers /\ o.system \in r.systems
ObserverRegistered(r, o) == [r EXCEPT !.observers = With(@, o.id, o)]

MayRegisterProjection(r, p) == p \notin DOMAIN r.projections
ProjectionRegistered(r, p) == [r EXCEPT !.projections = With(@, p, "building")]
ProjectionStatusUpdated(r, p, status) == [r EXCEPT !.projections[p] = status]

-----------------------------------------------------------------------------
(* seed_registry (src/self_host/registry.rs): what every start of the server registers. *)
SeedSystems == {"sys:slack", "sys:google-slides", "sys:lethe-internal"}

SeedObservers ==
  {Observer("obs:slack-crawler", "sys:slack",
            {"schema:slack-message", "schema:slack-channel-snapshot", Heartbeats},
            "lake-authoritative", "event"),
   Observer("obs:gslides-crawler", "sys:google-slides",
            {"schema:workspace-object-snapshot", Heartbeats},
            "source-authoritative", "snapshot"),
   Observer("obs:slide-analysis-projector", "sys:lethe-internal",
            {"schema:slide-analysis-result"},
            "lake-authoritative", "event")}

SeedSchemas ==
  {Schema("schema:slack-message", "et:message", {}),
   Schema("schema:slack-channel-snapshot", AnyType, {}),
   Schema("schema:workspace-object-snapshot", "et:document", {}),
   Schema(Heartbeats, "et:observer", {}),
   Schema("schema:slide-analysis-result", "et:person", {})}

ById(entries) ==
  [id \in {e.id : e \in entries} |-> CHOOSE e \in entries : e.id = id]

SeedRegistry ==
  [NewRegistry EXCEPT !.systems = SeedSystems,
                      !.observers = ById(SeedObservers),
                      !.schemas = ById(SeedSchemas),
                      !.versions = {<<s.id, s.version>> : s \in SeedSchemas}]
=============================================================================
