------------------------- MODULE IngestionGateProofs -------------------------
(***************************************************************************)
(* Safety of IngestionGate for any messages, revisions and slides, and for *)
(* whatever others register and hand in.                                   *)
(*                                                                         *)
(* The registry only grows: no registration replaces an observer or takes  *)
(* an entity type, a source system or the contracts of a schema away.  So  *)
(* a draft that was authorised stays so, and what seed_registry registered *)
(* for the adapters is still there as it was.  Of the lake the invariant   *)
(* keeps that it holds drafts and requests only, no two of one key, and of *)
(* the key of whatever was told one; and a key is as good as what its      *)
(* draft reports.                                                          *)
(***************************************************************************)
EXTENDS IngestionGate, TLAPS

(* A registry as its methods build it: what it refers to is registered. *)
IsRegistry(r) ==
  r = [entityTypes |-> r.entityTypes, systems |-> r.systems, schemas |-> r.schemas,
       versions |-> r.versions, observers |-> r.observers, projections |-> r.projections]

RegistryInv(r) ==
  /\ IsRegistry(r)
  /\ \A t \in DOMAIN r.entityTypes :
       r.entityTypes[t].parent \in DOMAIN r.entityTypes \cup {"none"}
  /\ \A s \in DOMAIN r.schemas :
       /\ IsSchema(r.schemas[s])
       /\ r.schemas[s].subjectType \in DOMAIN r.entityTypes \cup {AnyType}
       /\ <<s, r.schemas[s].version>> \in r.versions
  /\ \A o \in DOMAIN r.observers : r.observers[o].system \in r.systems

(* q is r with more registered. *)
Extends(q, r) ==
  /\ \A s \in DOMAIN r.schemas :
       s \in DOMAIN q.schemas /\ q.schemas[s].contracts = r.schemas[s].contracts
  /\ \A o \in DOMAIN r.observers :
       o \in DOMAIN q.observers /\ q.observers[o] = r.observers[o]

(* What the adapters rely on. *)
Seeded(r) ==
  /\ \A s \in SeedSchemas : s.id \in DOMAIN r.schemas /\ r.schemas[s.id].contracts = {}
  /\ \A o \in SeedObservers : o.id \in DOMAIN r.observers /\ r.observers[o.id] = o

(* Whatever is handed in, at any time. *)
Said == (UNION {Drafts(t) : t \in Int}) \cup Requests

LakeInv ==
  /\ lake \subseteq Said /\ told \subseteq Said
  /\ \A o, p \in lake : o.key = p.key => o = p
  /\ \A req \in told : \E o \in lake : o.key = req.key

IInv == RegistryInv(registry) /\ Seeded(registry) /\ clock \in Int /\ LakeInv

-----------------------------------------------------------------------------
LEMMA EntityTypeKeeps ==
  ASSUME NEW r, RegistryInv(r), NEW t, MayRegisterEntityType(r, t)
  PROVE  RegistryInv(EntityTypeRegistered(r, t)) /\ Extends(EntityTypeRegistered(r, t), r)
<1> DEFINE q == EntityTypeRegistered(r, t)
<1>0. IsRegistry(r)
  BY DEF RegistryInv
<1>1. /\ IsRegistry(q)
      /\ q.entityTypes = With(r.entityTypes, t.id, t)
      /\ q.schemas = r.schemas /\ q.versions = r.versions
      /\ q.observers = r.observers /\ q.systems = r.systems
  BY <1>0 DEF EntityTypeRegistered, IsRegistry
<1> HIDE DEF q
<1>2. /\ DOMAIN q.entityTypes = DOMAIN r.entityTypes \cup {t.id}
      /\ q.entityTypes[t.id] = t
      /\ \A k \in DOMAIN r.entityTypes : k # t.id => q.entityTypes[k] = r.entityTypes[k]
  BY <1>1 DEF With
<1>3. \A k \in DOMAIN q.entityTypes :
        q.entityTypes[k].parent \in DOMAIN q.entityTypes \cup {"none"}
  BY <1>2 DEF RegistryInv, MayRegisterEntityType
<1> QED
  BY <1>1, <1>2, <1>3 DEF RegistryInv, Extends, q

LEMMA SystemKeeps ==
  ASSUME NEW r, RegistryInv(r), NEW system
  PROVE  RegistryInv(SystemRegistered(r, system)) /\ Extends(SystemRegistered(r, system), r)
<1> DEFINE q == SystemRegistered(r, system)
<1>0. IsRegistry(r)
  BY DEF RegistryInv
<1>1. /\ IsRegistry(q)
      /\ q.systems = r.systems \cup {system}
      /\ q.schemas = r.schemas /\ q.versions = r.versions
      /\ q.observers = r.observers /\ q.entityTypes = r.entityTypes
  BY <1>0 DEF SystemRegistered, IsRegistry
<1> HIDE DEF q
<1> QED
  BY <1>1 DEF RegistryInv, Extends, q

LEMMA SchemaKeeps ==
  ASSUME NEW r, RegistryInv(r), NEW s \in Schemas, MayRegisterSchema(r, s)
  PROVE  RegistryInv(SchemaRegistered(r, s)) /\ Extends(SchemaRegistered(r, s), r)
<1> DEFINE q == SchemaRegistered(r, s)
           schemas == With(r.schemas, s.id, s)
           versions == r.versions \cup {<<s.id, s.version>>}
<1>0. IsRegistry(r)
  BY DEF RegistryInv
<1>a. q = [r EXCEPT !.schemas = schemas, !.versions = versions]
  BY DEF SchemaRegistered
<1> HIDE DEF q, schemas, versions
<1>b. q = [entityTypes |-> r.entityTypes, systems |-> r.systems, schemas |-> schemas,
           versions |-> versions, observers |-> r.observers, projections |-> r.projections]
  BY <1>0, <1>a DEF IsRegistry
<1>1. /\ IsRegistry(q)
      /\ q.schemas = schemas /\ q.versions = versions
      /\ q.entityTypes = r.entityTypes
      /\ q.observers = r.observers /\ q.systems = r.systems
  BY <1>b DEF IsRegistry
<1>2. /\ DOMAIN q.schemas = DOMAIN r.schemas \cup {s.id}
      /\ q.schemas[s.id] = s
      /\ \A k \in DOMAIN r.schemas : k # s.id => q.schemas[k] = r.schemas[k]
  BY <1>1 DEF With, schemas
<1>3. IsSchema(s) /\ s.subjectType \in DOMAIN r.entityTypes \cup {AnyType}
        /\ s.id \notin DOMAIN r.schemas
  BY GateAssumption DEF MayRegisterSchema
<1>4. \A k \in DOMAIN q.schemas :
        /\ IsSchema(q.schemas[k])
        /\ q.schemas[k].subjectType \in DOMAIN q.entityTypes \cup {AnyType}
        /\ <<k, q.schemas[k].version>> \in q.versions
  BY <1>1, <1>2, <1>3 DEF RegistryInv, versions
<1> QED
  BY <1>1, <1>2, <1>3, <1>4 DEF RegistryInv, Extends, q

LEMMA VersionKeeps ==
  ASSUME NEW r, RegistryInv(r), NEW id \in DOMAIN r.schemas, NEW version
  PROVE  /\ RegistryInv(SchemaVersionAdded(r, id, version))
         /\ Extends(SchemaVersionAdded(r, id, version), r)
<1> DEFINE q == SchemaVersionAdded(r, id, version)
           schemas == [r.schemas EXCEPT ![id].version = version]
           versions == r.versions \cup {<<id, version>>}
<1>0. IsRegistry(r)
  BY DEF RegistryInv
<1>a. q = [r EXCEPT !.schemas = schemas, !.versions = versions]
  BY DEF SchemaVersionAdded
<1> HIDE DEF q, schemas, versions
<1>b. q = [entityTypes |-> r.entityTypes, systems |-> r.systems, schemas |-> schemas,
           versions |-> versions, observers |-> r.observers, projections |-> r.projections]
  BY <1>0, <1>a DEF IsRegistry
<1>1. /\ IsRegistry(q)
      /\ q.schemas = schemas /\ q.versions = versions
      /\ q.entityTypes = r.entityTypes
      /\ q.observers = r.observers /\ q.systems = r.systems
  BY <1>b DEF IsRegistry
<1>2. /\ DOMAIN q.schemas = DOMAIN r.schemas
      /\ \A k \in DOMAIN r.schemas : k # id => q.schemas[k] = r.schemas[k]
      /\ q.schemas[id] = [r.schemas[id] EXCEPT !.version = version]
  BY <1>1 DEF schemas
<1>3. IsSchema(r.schemas[id])
  BY DEF RegistryInv
<1>4. /\ IsSchema(q.schemas[id]) /\ q.schemas[id].version = version
      /\ q.schemas[id].subjectType = r.schemas[id].subjectType
      /\ q.schemas[id].contracts = r.schemas[id].contracts
  BY <1>2, <1>3 DEF IsSchema
<1>5. \A k \in DOMAIN q.schemas :
        /\ IsSchema(q.schemas[k])
        /\ q.schemas[k].subjectType \in DOMAIN q.entityTypes \cup {AnyType}
        /\ <<k, q.schemas[k].version>> \in q.versions
  BY <1>1, <1>2, <1>4 DEF RegistryInv, versions
<1> QED
  BY <1>1, <1>2, <1>4, <1>5 DEF RegistryInv, Extends, q

LEMMA ObserverKeeps ==
  ASSUME NEW r, RegistryInv(r), NEW o, MayRegisterObserver(r, o)
  PROVE  RegistryInv(ObserverRegistered(r, o)) /\ Extends(ObserverRegistered(r, o), r)
<1> DEFINE q == ObserverRegistered(r, o)
<1>0. IsRegistry(r)
  BY DEF RegistryInv
<1>1. /\ IsRegistry(q)
      /\ q.observers = With(r.observers, o.id, o)
      /\ q.schemas = r.schemas /\ q.versions = r.versions
      /\ q.entityTypes = r.entityTypes /\ q.systems = r.systems
  BY <1>0 DEF ObserverRegistered, IsRegistry
<1> HIDE DEF q
<1>2. /\ DOMAIN q.observers = DOMAIN r.observers \cup {o.id}
      /\ q.observers[o.id] = o
      /\ \A k \in DOMAIN r.observers : k # o.id => q.observers[k] = r.observers[k]
  BY <1>1 DEF With
<1>3. o.id \notin DOMAIN r.observers /\ o.system \in r.systems
  BY DEF MayRegisterObserver
<1>4. \A k \in DOMAIN q.observers : q.observers[k].system \in q.systems
  BY <1>1, <1>2, <1>3 DEF RegistryInv
<1> QED
  BY <1>1, <1>2, <1>3, <1>4 DEF RegistryInv, Extends, q

LEMMA ProjectionKeeps ==
  ASSUME NEW r, RegistryInv(r), NEW p, NEW status
  PROVE  /\ RegistryInv(ProjectionRegistered(r, p)) /\ Extends(ProjectionRegistered(r, p), r)
         /\ RegistryInv(ProjectionStatusUpdated(r, p, status))
         /\ Extends(ProjectionStatusUpdated(r, p, status), r)
<1>1. ASSUME NEW f
      PROVE  RegistryInv([r EXCEPT !.projections = f]) /\ Extends([r EXCEPT !.projections = f], r)
  <2> DEFINE q == [r EXCEPT !.projections = f]
  <2>0. IsRegistry(r)
    BY DEF RegistryInv
  <2>1. /\ IsRegistry(q)
        /\ q.schemas = r.schemas /\ q.versions = r.versions /\ q.observers = r.observers
        /\ q.entityTypes = r.entityTypes /\ q.systems = r.systems
    BY <2>0 DEF IsRegistry
  <2> HIDE DEF q
  <2> QED
    BY <2>1 DEF RegistryInv, Extends, q
<1>2. ProjectionRegistered(r, p) = [r EXCEPT !.projections = With(r.projections, p, "building")]
  BY DEF ProjectionRegistered
<1>3. ProjectionStatusUpdated(r, p, status)
        = [r EXCEPT !.projections = [r.projections EXCEPT ![p] = status]]
  BY DEF ProjectionStatusUpdated
<1> QED
  BY <1>1, <1>2, <1>3

(* Whatever is registered, nothing registered before changes. *)
LEMMA RegisterKeeps ==
  ASSUME RegistryInv(registry), Register
  PROVE  /\ RegistryInv(registry') /\ Extends(registry', registry)
         /\ UNCHANGED <<lake, blobs, clock, told>>
<1>1. CASE RegisterEntityType
  BY <1>1, EntityTypeKeeps DEF RegisterEntityType, Becomes
<1>2. CASE RegisterSourceSystem
  BY <1>2, SystemKeeps DEF RegisterSourceSystem, Becomes
<1>3. CASE RegisterSchema
  BY <1>3, SchemaKeeps DEF RegisterSchema, Becomes
<1>4. CASE AddSchemaVersion
  BY <1>4, VersionKeeps DEF AddSchemaVersion, Becomes
<1>5. CASE RegisterObserver
  BY <1>5, ObserverKeeps DEF RegisterObserver, Becomes
<1>6. CASE RegisterProjection
  BY <1>6, ProjectionKeeps DEF RegisterProjection, Becomes
<1>7. CASE UpdateProjectionStatus
  BY <1>7, ProjectionKeeps DEF UpdateProjectionStatus, Becomes
<1> QED
  BY <1>1, <1>2, <1>3, <1>4, <1>5, <1>6, <1>7 DEF Register

LEMMA ExtendsSelf == ASSUME NEW r PROVE Extends(r, r)
BY DEF Extends

LEMMA SeedsStay ==
  ASSUME NEW r, NEW q, Seeded(r), Extends(q, r)
  PROVE  Seeded(q)
BY DEF Seeded, Extends

-----------------------------------------------------------------------------
(* What an adapter maps is what its observer was seeded for. *)
LEMMA DraftAuthorised ==
  ASSUME NEW r, Seeded(r), NEW t, NEW d \in Drafts(t)
  PROVE  Authorised(r, d) /\ d.object
<1> DEFINE Fits(o, s) ==
             /\ o.id \in DOMAIN r.observers /\ r.observers[o.id] = o
             /\ s \in DOMAIN r.schemas /\ r.schemas[s].contracts = {}
<1>1. /\ Fits(Observer("obs:slack-crawler", "sys:slack",
                       {"schema:slack-message", "schema:slack-channel-snapshot", Heartbeats},
                       "lake-authoritative", "event"), "schema:slack-message")
      /\ Fits(Observer("obs:slack-crawler", "sys:slack",
                       {"schema:slack-message", "schema:slack-channel-snapshot", Heartbeats},
                       "lake-authoritative", "event"), "schema:slack-channel-snapshot")
      /\ Fits(Observer("obs:slack-crawler", "sys:slack",
                       {"schema:slack-message", "schema:slack-channel-snapshot", Heartbeats},
                       "lake-authoritative", "event"), Heartbeats)
      /\ Fits(Observer("obs:gslides-crawler", "sys:google-slides",
                       {"schema:workspace-object-snapshot", Heartbeats},
                       "source-authoritative", "snapshot"), "schema:workspace-object-snapshot")
      /\ Fits(Observer("obs:gslides-crawler", "sys:google-slides",
                       {"schema:workspace-object-snapshot", Heartbeats},
                       "source-authoritative", "snapshot"), Heartbeats)
      /\ Fits(Observer("obs:slide-analysis-projector", "sys:lethe-internal",
                       {"schema:slide-analysis-result"},
                       "lake-authoritative", "event"), "schema:slide-analysis-result")
  <2>1. \A o \in SeedObservers : o.id \in DOMAIN r.observers /\ r.observers[o.id] = o
    BY DEF Seeded
  <2>2. \A s \in {"schema:slack-message", "schema:slack-channel-snapshot",
                  "schema:workspace-object-snapshot", Heartbeats, "schema:slide-analysis-result"} :
          s \in DOMAIN r.schemas /\ r.schemas[s].contracts = {}
    BY DEF Seeded, SeedSchemas, Schema
  <2> QED
    BY <2>1, <2>2 DEF SeedObservers
<1>2. CASE \E m \in Message : d = MapMessage(SlackMessage(m))
  BY <1>1, <1>2 DEF MapMessage, Draft, SlackConfig, Config, Authorised, Bound, Expected, Observer, Heartbeats
<1>3. CASE \E rev \in Revision : d = MapRevision(rev)
  BY <1>1, <1>3 DEF MapRevision, Draft, GoogleConfig, Config, Authorised, Bound, Expected, Observer, Heartbeats
<1>4. CASE \E detail \in Detail : d = MapChannelSnapshot(detail, t)
  BY <1>1, <1>4 DEF MapChannelSnapshot, Draft, SlackConfig, Config, Authorised, Bound, Expected, Observer, Heartbeats
<1>5. ASSUME NEW detail \in Detail, d = HeartbeatDraft(SlackConfig, detail, t)
      PROVE  Authorised(r, d) /\ d.object
  BY <1>1, <1>5 DEF HeartbeatDraft, Draft, SlackConfig, Config, Authorised, Bound, Expected, Observer, Heartbeats
<1>6. ASSUME NEW detail \in Detail, d = HeartbeatDraft(GoogleConfig, detail, t)
      PROVE  Authorised(r, d) /\ d.object
  BY <1>1, <1>6 DEF HeartbeatDraft, Draft, GoogleConfig, Config, Authorised, Bound, Expected, Observer, Heartbeats
<1>7. CASE \E s \in Slide : d = AnalysisDraft(s, t)
  BY <1>1, <1>7 DEF AnalysisDraft, Draft, ProjectorConfig, Config, Authorised, Bound, Expected, Observer, Heartbeats
<1> QED
  BY <1>2, <1>3, <1>4, <1>5, <1>6, <1>7 DEF Drafts

(* Time passes, blobs and definitions come, and what was accepted still is. *)
LEMMA VerdictStays ==
  ASSUME NEW r, NEW q, Extends(q, r), NEW stored, NEW later, stored \subseteq later,
         NEW now \in Int, NEW then \in Int, now <= then,
         NEW req, req.published \in Int, Verdict(r, stored, now, req) = "accepted"
  PROVE  Verdict(q, later, then, req) = "accepted"
<1>1. /\ Authorised(r, req) /\ req.object /\ req.attachments \subseteq stored
      /\ req.published <= now + MaxClockSkew
  BY GateAssumption DEF Verdict
<1>2. Authorised(q, req)
  BY <1>1 DEF Authorised, Bound, Extends
<1>3. req.published <= then + MaxClockSkew
  BY <1>1, GateAssumption
<1> QED
  BY <1>1, <1>2, <1>3, GateAssumption DEF Verdict

LEMMA PublishedInt ==
  ASSUME NEW t \in Int, NEW req \in Drafts(t) \cup Requests
  PROVE  req.published \in Int
<1>1. ASSUME NEW m \in Message PROVE MapMessage(SlackMessage(m)).published \in Int
  BY GateAssumption DEF MapMessage, SlackMessage, Draft
<1>2. ASSUME NEW rev \in Revision PROVE MapRevision(rev).published \in Int
  BY GateAssumption DEF MapRevision, Draft
<1>3. \A c, detail : HeartbeatDraft(c, detail, t).published = t
  BY DEF HeartbeatDraft, Draft
<1>4. /\ \A detail : MapChannelSnapshot(detail, t).published = t
      /\ \A s : AnalysisDraft(s, t).published = t
  BY DEF MapChannelSnapshot, AnalysisDraft, Draft
<1> QED
  BY <1>1, <1>2, <1>3, <1>4, GateAssumption DEF Drafts

-----------------------------------------------------------------------------
(* The key of whatever is handed in, and what it reports. *)
Names(d, tag, what, x) == d.key = <<tag, x>> /\ Reported(d) = <<what, x>>
NamesBy(d, tag, what, x, y) == d.key = <<tag, x, y>> /\ Reported(d) = <<what, x, y>>

IsPosted(d) == \E ts : Names(d, "slack", "posted", ts)
IsEdited(d) == \E ts, edited : NamesBy(d, "slack-edit", "edited", ts, edited)
IsDeleted(d) == \E ts : Names(d, "slack-delete", "deleted", ts)
IsRevision(d) == \E revision : Names(d, "gslides", "revision", revision)
IsChannel(d) == \E t : Names(d, "slack-channel", "channel", t)
IsHeartbeat(d) == \E observer, t : NamesBy(d, "heartbeat", "alive", observer, t)
IsAnalysis(d) == \E source, slide : NamesBy(d, "slide-analysis", "slide", source, slide)

Tags == {"slack", "slack-edit", "slack-delete", "slack-channel", "gslides", "heartbeat",
         "slide-analysis"}

(* The adapters' keys are in their namespaces, which others keep out of. *)
LEMMA NotRequested ==
  ASSUME NEW d, d.key[1] \in Tags
  PROVE  d \notin Requests
BY OwnKeysAssumption DEF Tags

LEMMA MessageIs ==
  ASSUME NEW m \in Message, NEW d, d = MapMessage(SlackMessage(m))
  PROVE  IsPosted(d) \/ IsEdited(d) \/ IsDeleted(d)
<1> DEFINE n == SlackMessage(m)
<1>1. d.key = MessageKey(n) /\ d.content = <<"message", n>>
  BY DEF MapMessage, Draft
<1> HIDE DEF n
<1>2. d.content[1] = "message" /\ d.content[2] = n
  BY <1>1
<1>3. CASE n.type = "edit"
  <2>1. d.key = <<"slack-edit", n.ts, n.edited>>
    BY <1>1, <1>3 DEF MessageKey
  <2>2. d \notin Requests
    BY <2>1, NotRequested DEF Tags
  <2>3. Reported(d) = <<"edited", n.ts, n.edited>>
    BY <1>2, <1>3, <2>2 DEF Reported
  <2> QED
    BY <2>1, <2>3 DEF IsEdited, NamesBy
<1>4. CASE n.type = "delete"
  <2>1. d.key = <<"slack-delete", n.ts>>
    BY <1>1, <1>4 DEF MessageKey
  <2>2. d \notin Requests
    BY <2>1, NotRequested DEF Tags
  <2>3. Reported(d) = <<"deleted", n.ts>>
    BY <1>2, <1>4, <2>2 DEF Reported
  <2> QED
    BY <2>1, <2>3 DEF IsDeleted, Names
<1>5. CASE n.type \notin {"edit", "delete"}
  <2>1. d.key = <<"slack", n.ts>>
    BY <1>1, <1>5 DEF MessageKey
  <2>2. d \notin Requests
    BY <2>1, NotRequested DEF Tags
  <2>3. Reported(d) = <<"posted", n.ts>>
    BY <1>2, <1>5, <2>2 DEF Reported
  <2> QED
    BY <2>1, <2>3 DEF IsPosted, Names
<1> QED
  BY <1>3, <1>4, <1>5

LEMMA DraftIs ==
  ASSUME NEW t, NEW d \in Drafts(t)
  PROVE  \/ IsPosted(d) \/ IsEdited(d) \/ IsDeleted(d) \/ IsRevision(d)
         \/ IsChannel(d) \/ IsHeartbeat(d) \/ IsAnalysis(d)
<1>1. ASSUME NEW m \in Message, d = MapMessage(SlackMessage(m))
      PROVE  IsPosted(d) \/ IsEdited(d) \/ IsDeleted(d)
  BY <1>1, MessageIs
<1>2. ASSUME NEW rev \in Revision, d = MapRevision(rev) PROVE IsRevision(d)
  <2>1. d.key = <<"gslides", rev.revision>> /\ d.content = <<"revision", rev>>
    BY <1>2 DEF MapRevision, RevisionKey, Draft
  <2>2. d \notin Requests
    BY <2>1, NotRequested DEF Tags
  <2>3. Reported(d) = <<"revision", rev.revision>>
    BY <2>1, <2>2 DEF Reported
  <2> QED
    BY <2>1, <2>3 DEF IsRevision, Names
<1>3. ASSUME NEW detail, d = MapChannelSnapshot(detail, t) PROVE IsChannel(d)
  <2>1. d.key = <<"slack-channel", t>> /\ d.content = <<"channel", detail, t>>
    BY <1>3 DEF MapChannelSnapshot, Draft
  <2>2. d \notin Requests
    BY <2>1, NotRequested DEF Tags
  <2>3. Reported(d) = <<"channel", t>>
    BY <2>1, <2>2 DEF Reported
  <2> QED
    BY <2>1, <2>3 DEF IsChannel, Names
<1>4. ASSUME NEW c, NEW detail, d = HeartbeatDraft(c, detail, t) PROVE IsHeartbeat(d)
  <2>1. d.key = <<"heartbeat", c.observer, t>> /\ d.content = <<"alive", c.observer, detail, t>>
    BY <1>4 DEF HeartbeatDraft, HeartbeatKey, Draft
  <2>2. d \notin Requests
    BY <2>1, NotRequested DEF Tags
  <2>3. Reported(d) = <<"alive", c.observer, t>>
    BY <2>1, <2>2 DEF Reported
  <2> QED
    BY <2>1, <2>3 DEF IsHeartbeat, NamesBy
<1>5. ASSUME NEW s \in Slide, d = AnalysisDraft(s, t) PROVE IsAnalysis(d)
  <2>1. d.key = <<"slide-analysis", s.source, s.slide>> /\ d.content = <<"slide", s, t>>
    BY <1>5 DEF AnalysisDraft, Draft
  <2>2. d \notin Requests
    BY <2>1, NotRequested DEF Tags
  <2>3. Reported(d) = <<"slide", s.source, s.slide>>
    BY <2>1, <2>2 DEF Reported
  <2> QED
    BY <2>1, <2>3 DEF IsAnalysis, NamesBy
<1> QED
  BY <1>1, <1>2, <1>3, <1>4, <1>5 DEF Drafts

(* The first components of a key and of what it reports go together. *)
LEMMA TagsAre ==
  ASSUME NEW d
  PROVE  /\ IsPosted(d) => d.key[1] = "slack" /\ Reported(d)[1] = "posted"
         /\ IsEdited(d) => d.key[1] = "slack-edit" /\ Reported(d)[1] = "edited"
         /\ IsDeleted(d) => d.key[1] = "slack-delete" /\ Reported(d)[1] = "deleted"
         /\ IsRevision(d) => d.key[1] = "gslides" /\ Reported(d)[1] = "revision"
         /\ IsChannel(d) => d.key[1] = "slack-channel" /\ Reported(d)[1] = "channel"
         /\ IsHeartbeat(d) => d.key[1] = "heartbeat" /\ Reported(d)[1] = "alive"
         /\ IsAnalysis(d) => d.key[1] = "slide-analysis" /\ Reported(d)[1] = "slide"
         /\ d \in Requests => d.key[1] \notin Tags /\ Reported(d)[1] = "request"
<1>1. \A tag, what, x : Names(d, tag, what, x) => d.key[1] = tag /\ Reported(d)[1] = what
  BY DEF Names
<1>2. \A tag, what, x, y : NamesBy(d, tag, what, x, y) => d.key[1] = tag /\ Reported(d)[1] = what
  BY DEF NamesBy
<1>3. d \in Requests => d.key[1] \notin Tags /\ Reported(d)[1] = "request"
  BY OwnKeysAssumption DEF Tags, Reported
<1> QED
  BY <1>1, <1>2, <1>3
     DEF IsPosted, IsEdited, IsDeleted, IsRevision, IsChannel, IsHeartbeat, IsAnalysis

(* Two keys of one tag are the same when what they report is. *)
LEMMA NamesAgree ==
  ASSUME NEW d, NEW e, NEW tag, NEW what, NEW x, NEW y,
         Names(d, tag, what, x), Names(e, tag, what, y)
  PROVE  d.key = e.key <=> Reported(d) = Reported(e)
<1>1. \A a, v, w : (<<a, v>> = <<a, w>>) <=> (v = w)
  OBVIOUS
<1>2. d.key = e.key <=> x = y
  BY <1>1 DEF Names
<1>3. Reported(d) = Reported(e) <=> x = y
  BY <1>1 DEF Names
<1> QED
  BY <1>2, <1>3

LEMMA NamesByAgree ==
  ASSUME NEW d, NEW e, NEW tag, NEW what, NEW x, NEW y, NEW v, NEW w,
         NamesBy(d, tag, what, x, v), NamesBy(e, tag, what, y, w)
  PROVE  d.key = e.key <=> Reported(d) = Reported(e)
<1>1. \A a, i, j, k, l : (<<a, i, j>> = <<a, k, l>>) <=> (i = k /\ j = l)
  OBVIOUS
<1>2. d.key = e.key <=> x = y /\ v = w
  BY <1>1 DEF NamesBy
<1>3. Reported(d) = Reported(e) <=> x = y /\ v = w
  BY <1>1 DEF NamesBy
<1> QED
  BY <1>2, <1>3

(* What is handed in has the key of something else exactly if it reports it. *)
LEMMA KeysAreReports ==
  ASSUME NEW d \in Said, NEW e \in Said
  PROVE  d.key = e.key <=> Reported(d) = Reported(e)
<1>1. \A x \in Said :
        \/ IsPosted(x) \/ IsEdited(x) \/ IsDeleted(x) \/ IsRevision(x)
        \/ IsChannel(x) \/ IsHeartbeat(x) \/ IsAnalysis(x) \/ x \in Requests
  BY DraftIs DEF Said
<1>2. CASE IsPosted(d) /\ IsPosted(e)
  BY <1>2, NamesAgree DEF IsPosted
<1>3. CASE IsEdited(d) /\ IsEdited(e)
  BY <1>3, NamesByAgree DEF IsEdited
<1>4. CASE IsDeleted(d) /\ IsDeleted(e)
  BY <1>4, NamesAgree DEF IsDeleted
<1>5. CASE IsRevision(d) /\ IsRevision(e)
  BY <1>5, NamesAgree DEF IsRevision
<1>6. CASE IsChannel(d) /\ IsChannel(e)
  BY <1>6, NamesAgree DEF IsChannel
<1>7. CASE IsHeartbeat(d) /\ IsHeartbeat(e)
  BY <1>7, NamesByAgree DEF IsHeartbeat
<1>8. CASE IsAnalysis(d) /\ IsAnalysis(e)
  BY <1>8, NamesByAgree DEF IsAnalysis
<1>9. CASE d \in Requests /\ e \in Requests
  <2>1. Reported(d) = <<"request", d.key>> /\ Reported(e) = <<"request", e.key>>
    BY <1>9 DEF Reported
  <2>2. \A v, w : (<<"request", v>> = <<"request", w>>) <=> (v = w)
    OBVIOUS
  <2> QED
    BY <2>1, <2>2
<1>10. CASE /\ ~ (IsPosted(d) /\ IsPosted(e)) /\ ~ (IsEdited(d) /\ IsEdited(e))
            /\ ~ (IsDeleted(d) /\ IsDeleted(e)) /\ ~ (IsRevision(d) /\ IsRevision(e))
            /\ ~ (IsChannel(d) /\ IsChannel(e)) /\ ~ (IsHeartbeat(d) /\ IsHeartbeat(e))
            /\ ~ (IsAnalysis(d) /\ IsAnalysis(e)) /\ ~ (d \in Requests /\ e \in Requests)
  <2>1. d.key[1] # e.key[1]
    BY <1>1, <1>10, TagsAre DEF Tags
  <2>2. Reported(d)[1] # Reported(e)[1]
    BY <1>1, <1>10, TagsAre
  <2> QED
    BY <2>1, <2>2
<1> QED
  BY <1>2, <1>3, <1>4, <1>5, <1>6, <1>7, <1>8, <1>9, <1>10

-----------------------------------------------------------------------------
LEMMA InitInv == Init => IInv
<1> SUFFICES ASSUME Init PROVE IInv
  OBVIOUS
<1>1. /\ registry.schemas = ById(SeedSchemas) /\ registry.observers = ById(SeedObservers)
      /\ registry.systems = SeedSystems /\ IsRegistry(registry)
      /\ registry.versions = {<<s.id, s.version>> : s \in SeedSchemas}
      /\ registry.entityTypes = [t \in BaseEntityTypes |-> EntityType(t, "none")]
  BY DEF Init, SeedRegistry, NewRegistry, IsRegistry
<1>2. \A s, t \in SeedSchemas : s.id = t.id => s = t
  BY DEF SeedSchemas, Schema, Heartbeats
<1>3. \A o, p \in SeedObservers : o.id = p.id => o = p
  BY DEF SeedObservers, Observer
<1>4. ASSUME NEW entries, \A x, y \in entries : x.id = y.id => x = y
      PROVE  /\ DOMAIN ById(entries) = {x.id : x \in entries}
             /\ \A x \in entries : ById(entries)[x.id] = x
  BY <1>4 DEF ById
<1>5. /\ DOMAIN registry.schemas = {s.id : s \in SeedSchemas}
      /\ \A s \in SeedSchemas : registry.schemas[s.id] = s
  BY <1>1, <1>2, <1>4
<1>6. /\ DOMAIN registry.observers = {o.id : o \in SeedObservers}
      /\ \A o \in SeedObservers : registry.observers[o.id] = o
  BY <1>1, <1>3, <1>4
<1>7. \A s \in SeedSchemas :
        IsSchema(s) /\ s.contracts = {} /\ s.subjectType \in BaseEntityTypes \cup {AnyType}
  <2>1. \A id, subjectType, contracts : IsSchema(Schema(id, subjectType, contracts))
    BY DEF Schema, IsSchema
  <2>2. \A s \in SeedSchemas : IsSchema(s)
    BY <2>1 DEF SeedSchemas
  <2>3. \A s \in SeedSchemas :
          s.contracts = {} /\ s.subjectType \in BaseEntityTypes \cup {AnyType}
    BY DEF SeedSchemas, Schema, BaseEntityTypes
  <2> QED
    BY <2>2, <2>3
<1>8. \A o \in SeedObservers : o.system \in SeedSystems
  BY DEF SeedObservers, Observer, SeedSystems
<1>9. Seeded(registry)
  BY <1>5, <1>6, <1>7 DEF Seeded
<1>10. \A t \in DOMAIN registry.entityTypes : registry.entityTypes[t].parent = "none"
  BY <1>1 DEF EntityType
<1>11. RegistryInv(registry)
  BY <1>1, <1>5, <1>6, <1>7, <1>8, <1>10 DEF RegistryInv
<1> QED
  BY <1>9, <1>11 DEF Init, IInv, LakeInv

(* No step takes anything away that a verdict rests on. *)
Grows == Extends(registry', registry) /\ blobs \subseteq blobs' /\ clock <= clock'

LEMMA IngestStep ==
  ASSUME IInv, NEW req \in Drafts(clock) \cup Requests, Ingest(req)
  PROVE  IInv' /\ Grows
<1>1. /\ UNCHANGED <<registry, blobs, clock>>
      /\ told' = told \cup {req}
      /\ lake' = IF req.key \in Keys(lake) THEN lake ELSE lake \cup {req}
  BY DEF Ingest, Append
<1>2. req \in Said /\ LakeInv
  BY DEF IInv, Said
<1>3. LakeInv'
  <2>1. CASE req.key \in Keys(lake)
    <3>1. \E o \in lake : o.key = req.key
      BY <2>1 DEF Keys
    <3> QED
      BY <1>1, <1>2, <2>1, <3>1 DEF LakeInv
  <2>2. CASE req.key \notin Keys(lake)
    <3>1. \A o \in lake : o.key # req.key
      BY <2>2 DEF Keys
    <3> QED
      BY <1>1, <1>2, <2>2, <3>1 DEF LakeInv
  <2> QED
    BY <2>1, <2>2
<1> QED
  BY <1>1, <1>3, ExtendsSelf DEF IInv, Grows

LEMMA StepInv ==
  ASSUME IInv, [Next]_vars
  PROVE  IInv' /\ Grows
<1>1. CASE Register
  <2>1. /\ RegistryInv(registry') /\ Extends(registry', registry)
        /\ UNCHANGED <<lake, blobs, clock, told>>
    BY <1>1, RegisterKeeps DEF IInv
  <2>2. Seeded(registry')
    BY <2>1, SeedsStay DEF IInv
  <2> QED
    BY <2>1, <2>2 DEF IInv, LakeInv, Grows
<1>2. CASE StoreBlob
  BY <1>2, ExtendsSelf DEF StoreBlob, IInv, LakeInv, Grows
<1>3. CASE Tick
  BY <1>3, ExtendsSelf DEF Tick, IInv, LakeInv, Grows
<1>4. ASSUME NEW req \in Drafts(clock) \cup Requests, Ingest(req)
      PROVE  IInv' /\ Grows
  BY <1>4, IngestStep
<1>5. CASE UNCHANGED vars
  BY <1>5, ExtendsSelf DEF vars, IInv, LakeInv, Grows
<1> QED
  BY <1>1, <1>2, <1>3, <1>4, <1>5 DEF Next

LEMMA Invariance == Spec => []IInv
<1>1. IInv /\ [Next]_vars => IInv'
  BY StepInv
<1> QED
  BY InitInv, <1>1, PTL DEF Spec

-----------------------------------------------------------------------------
(* Whatever is registered, the parent of an entity type, the subject type and  *)
(* latest version of a schema and the source system of an observer are         *)
(* registered too (registry/store.rs).                                         *)
THEOREM GateDefinitionsResolve == Spec => []DefinitionsResolve
<1>1. IInv => DefinitionsResolve
  BY DEF IInv, RegistryInv, DefinitionsResolve
<1> QED
  BY Invariance, <1>1, PTL

(* The gate never refuses what an adapter maps of a source, whatever others    *)
(* registered: what seed_registry registered cannot be replaced.               *)
THEOREM GateCrawlersAdmitted == Spec => []CrawlersAdmitted
<1>1. IInv => CrawlersAdmitted
  <2> SUFFICES ASSUME IInv, NEW d \in Drafts(clock), d.attachments \subseteq blobs
               PROVE  Verdict(registry, blobs, clock, d) # "rejected"
    BY DEF CrawlersAdmitted
  <2>1. Authorised(registry, d) /\ d.object
    BY DraftAuthorised DEF IInv
  <2> QED
    BY <2>1 DEF Verdict
<1> QED
  BY Invariance, <1>1, PTL

(* Of what ingest answered Ingested or Duplicate the lake has exactly one      *)
(* observation that reports the same posting, event of an edit or a deletion,  *)
(* revision, slide or minute, whichever way the source listed it: the          *)
(* idempotency keys of the adapters take apart what happened, and no more.     *)
THEOREM GateToldIsKept == Spec => []ToldIsKept
<1>1. IInv => ToldIsKept
  <2> SUFFICES ASSUME IInv, NEW req \in told
               PROVE  \E o \in lake : {p \in lake : Reported(p) = Reported(req)} = {o}
    BY DEF ToldIsKept
  <2>1. LakeInv /\ req \in Said /\ lake \subseteq Said
    BY DEF IInv, LakeInv
  <2>2. PICK o \in lake : o.key = req.key
    BY <2>1 DEF LakeInv
  <2>3. Reported(o) = Reported(req)
    BY <2>1, <2>2, KeysAreReports
  <2>4. ASSUME NEW p \in lake, Reported(p) = Reported(req) PROVE p = o
    <3>1. p.key = req.key
      BY <2>1, <2>4, KeysAreReports
    <3> QED
      BY <2>1, <2>2, <3>1 DEF LakeInv
  <2> QED
    BY <2>3, <2>4
<1> QED
  BY Invariance, <1>1, PTL

(* No registration, blob or tick makes ingest refuse what it would have        *)
(* accepted.                                                                   *)
THEOREM GateAcceptedStaysAccepted == Spec => AcceptedStaysAccepted
<1>1. IInv /\ [Next]_vars =>
        [\A req \in Drafts(clock) \cup Requests :
           Verdict(registry, blobs, clock, req) = "accepted"
             => Verdict(registry, blobs, clock, req)' = "accepted"]_vars
  <2> SUFFICES ASSUME IInv, [Next]_vars, NEW req \in Drafts(clock) \cup Requests,
                      Verdict(registry, blobs, clock, req) = "accepted"
               PROVE  Verdict(registry', blobs', clock', req) = "accepted"
    OBVIOUS
  <2>1. IInv' /\ Grows /\ clock \in Int /\ clock' \in Int
    BY StepInv DEF IInv
  <2>2. req.published \in Int
    BY <2>1, PublishedInt
  <2> QED
    BY <2>1, <2>2, VerdictStays DEF Grows
<1> QED
  BY Invariance, <1>1, PTL DEF Spec, AcceptedStaysAccepted
=============================================================================
