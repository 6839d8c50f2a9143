----------------------------- MODULE IngestionGate -----------------------------
(***************************************************************************)
(* The contract between the registry, the ingestion gate                   *)
(* (src/lake/ingestion.rs) and the adapters that map what a source has to  *)
(* drafts (src/adapter/slack/mapper.rs, gslides/mapper.rs, heartbeat.rs,   *)
(* slide_analysis/projector.rs).                                           *)
(*                                                                         *)
(* The server starts with seed_registry; others may register definitions   *)
(* and hand in requests of their own.  An idempotency key is a tuple of    *)
(* the parts its string is put together from.  content is what a draft     *)
(* says, object whether its payload is a JSON object.  One thing may be    *)
(* listed in several ways: a message with other replies, or with its text  *)
(* edited and no event of the edit; a revision with what people have typed *)
(* since; a slide as another model reads it.                               *)
(***************************************************************************)
EXTENDS Registry

CONSTANTS Message,      \* what Slack lists: [subtype, ts, edited, replies, file]
          Revision,     \* fetched revisions of a presentation: [revision, modified, native]
          Slide,        \* analyses of slides: [source, slide, model]
          Detail,       \* what else a channel snapshot or a heartbeat says
          Requests,     \* requests of others
          EntityTypes, Systems, Schemas, Observers, Projections, Versions, \* registered later
          MaxClockSkew, \* how far ahead published may be
          MaxClock,     \* bound on the clock, in minutes
          MaxLake       \* bound on observations

ASSUME GateAssumption ==
  /\ MaxClockSkew \in Nat /\ MaxClock \in Nat /\ MaxLake \in Nat
  /\ \A s \in Schemas : IsSchema(s)
  /\ \A m \in Message : m.ts \in Int
  /\ \A rev \in Revision : rev.modified \in Int
  /\ \A req \in Requests : req.published \in Int

VARIABLES registry, lake, blobs, clock,
          told  \* what was answered Ingested or Duplicate (history)

vars == <<registry, lake, blobs, clock, told>>

Draft(schema, config, key, content) ==
  [schema |-> schema, version |-> 1, observer |-> config.observer, system |-> config.system,
   authority |-> config.authority, capture |-> config.capture, object |-> TRUE,
   attachments |-> {}, published |-> 0, key |-> key, content |-> content]

Config(observer, system, authority, capture) ==
  [observer |-> observer, system |-> system, authority |-> authority, capture |-> capture]

-----------------------------------------------------------------------------
(* Plausible faults, swapped in one at a time by the mutant runs. *)
KeyOfMessage(m) == <<"slack", m.ts>>
NoExemption(schema, model, exempt) == model

-----------------------------------------------------------------------------
(* The adapters, as the server configures them. *)
SlackConfig == Config("obs:slack-crawler", "sys:slack", "lake-authoritative", "event")
GoogleConfig == Config("obs:gslides-crawler", "sys:google-slides", "source-authoritative", "snapshot")
ProjectorConfig ==
  Config("obs:slide-analysis-projector", "sys:lethe-internal", "lake-authoritative", "event")

MessageType(subtype) ==
  CASE subtype = "message_changed" -> "edit"
    [] subtype = "message_deleted" -> "delete"
    [] subtype \in {"file_share", "channel_join", "channel_leave"} -> subtype
    [] OTHER -> "message"

(* A message of any subtype may carry the time of its last edit; 0: it does not, which
   the key of an edit then calls unknown. *)
SlackMessage(raw) ==
  [type |-> MessageType(raw.subtype), ts |-> raw.ts, edited |-> raw.edited, replies |-> raw.replies,
   files |-> IF raw.file = "none" THEN {} ELSE {raw.file}]

MessageKey(m) ==
  CASE m.type = "edit"   -> <<"slack-edit", m.ts, m.edited>>
    [] m.type = "delete" -> <<"slack-delete", m.ts>>
    [] OTHER             -> <<"slack", m.ts>>

MapMessage(m) ==
  [Draft("schema:slack-message", SlackConfig, MessageKey(m), <<"message", m>>)
   EXCEPT !.published = m.ts, !.attachments = m.files]

MapChannelSnapshot(members, now) ==
  [Draft("schema:slack-channel-snapshot", SlackConfig, <<"slack-channel", now>>,
         <<"channel", members, now>>)
   EXCEPT !.published = now]

RevisionKey(revision) == <<"gslides", revision>>

MapRevision(rev) ==
  [Draft("schema:workspace-object-snapshot", GoogleConfig, RevisionKey(rev.revision),
         <<"revision", rev>>)
   EXCEPT !.published = rev.modified, !.attachments = {rev.native}]

(* One a minute of each observer. *)
HeartbeatKey(observer, now) == <<"heartbeat", observer, now>>

HeartbeatDraft(config, health, now) ==
  LET alive == [config EXCEPT !.authority = "lake-authoritative", !.capture = "event"]
  IN  [Draft(Heartbeats, alive, HeartbeatKey(config.observer, now),
             <<"alive", config.observer, health, now>>)
       EXCEPT !.published = now]

AnalysisDraft(s, now) ==
  [Draft("schema:slide-analysis-result", ProjectorConfig, <<"slide-analysis", s.source, s.slide>>,
         <<"slide", s, now>>)
   EXCEPT !.published = now]

Drafts(now) ==
  {MapMessage(SlackMessage(m)) : m \in Message} \cup {MapRevision(rev) : rev \in Revision}
    \cup {MapChannelSnapshot(members, now) : members \in Detail}
    \cup {HeartbeatDraft(c, health, now) : c \in {SlackConfig, GoogleConfig}, health \in Detail}
    \cup {AnalysisDraft(s, now) : s \in Slide}

(* Others keep their keys out of the adapters' namespaces. *)
ASSUME OwnKeysAssumption ==
  \A req \in Requests :
    req.key[1] \notin {"slack", "slack-edit", "slack-delete", "slack-channel", "gslides",
                       "heartbeat", "slide-analysis"}

-----------------------------------------------------------------------------
(* The gate: who may say what (steps 1 and 2), then the draft itself. *)
Expected(schema, model, exempt) == IF schema = Heartbeats THEN exempt ELSE model

Bound(r, req) ==
  LET o == r.observers[req.observer]
  IN  /\ req.system = o.system
      /\ o.schemas = {} \/ {AnySchema, req.schema} \cap o.schemas # {}
      /\ req.authority = Expected(req.schema, o.authority, "lake-authoritative")
      /\ req.capture = Expected(req.schema, o.capture, "event")

Authorised(r, req) ==
  /\ req.observer \in DOMAIN r.observers /\ req.schema \in DOMAIN r.schemas
  /\ Bound(r, req)
  /\ LET contracts == r.schemas[req.schema].contracts
     IN  contracts = {} \/ req.observer \in contracts

Verdict(r, stored, now, req) ==
  IF ~ (Authorised(r, req) /\ req.object /\ req.attachments \subseteq stored) THEN "rejected"
  ELSE IF req.published > now + MaxClockSkew THEN "quarantined"
  ELSE "accepted"

Keys(log) == {o.key : o \in log}
Append(log, o) == IF o.key \in Keys(log) THEN log ELSE log \cup {o}

-----------------------------------------------------------------------------
Init ==
  /\ registry = SeedRegistry
  /\ lake = {} /\ blobs = {} /\ clock = 0 /\ told = {}

Becomes(r) == registry' = r /\ UNCHANGED <<lake, blobs, clock, told>>

RegisterEntityType ==
  \E t \in EntityTypes :
    MayRegisterEntityType(registry, t) /\ Becomes(EntityTypeRegistered(registry, t))
RegisterSourceSystem ==
  \E system \in Systems :
    MayRegisterSystem(registry, system) /\ Becomes(SystemRegistered(registry, system))
RegisterSchema ==
  \E s \in Schemas : MayRegisterSchema(registry, s) /\ Becomes(SchemaRegistered(registry, s))
AddSchemaVersion ==
  \E v \in Versions :
    v.id \in DOMAIN registry.schemas /\ Becomes(SchemaVersionAdded(registry, v.id, v.version))
RegisterObserver ==
  \E o \in Observers :
    MayRegisterObserver(registry, o) /\ Becomes(ObserverRegistered(registry, o))
RegisterProjection ==
  \E p \in Projections :
    MayRegisterProjection(registry, p) /\ Becomes(ProjectionRegistered(registry, p))
UpdateProjectionStatus ==
  \E p \in DOMAIN registry.projections :
    Becomes(ProjectionStatusUpdated(registry, p, "archived"))

Register ==
  RegisterEntityType \/ RegisterSourceSystem \/ RegisterSchema \/ AddSchemaVersion
    \/ RegisterObserver \/ RegisterProjection \/ UpdateProjectionStatus

(* A sync stores what a draft attaches before it hands the draft in. *)
StoreBlob ==
  \E d \in Drafts(clock) :
    /\ d.attachments # {}
    /\ blobs' = blobs \cup d.attachments
    /\ UNCHANGED <<registry, lake, clock, told>>

Ingest(req) ==
  /\ Cardinality(lake) < MaxLake
  /\ Verdict(registry, blobs, clock, req) = "accepted"
  /\ lake' = Append(lake, req)
  /\ told' = told \cup {req}
  /\ UNCHANGED <<registry, blobs, clock>>

Tick ==
  /\ clock < MaxClock
  /\ clock' = clock + 1
  /\ UNCHANGED <<registry, lake, blobs, told>>

Next ==
  \/ Register \/ StoreBlob \/ Tick
  \/ \E req \in Drafts(clock) \cup Requests : Ingest(req)

Spec == Init /\ [][Next]_vars

-----------------------------------------------------------------------------
(* What a registered definition refers to is registered: the parent of an
   entity type, the subject type of a schema, the source system of an observer,
   the version a schema calls its latest. *)
DefinitionsResolve ==
  /\ \A t \in DOMAIN registry.entityTypes :
       registry.entityTypes[t].parent \in DOMAIN registry.entityTypes \cup {"none"}
  /\ \A s \in DOMAIN registry.schemas :
       /\ registry.schemas[s].subjectType \in DOMAIN registry.entityTypes \cup {AnyType}
       /\ <<s, registry.schemas[s].version>> \in registry.versions
  /\ \A o \in DOMAIN registry.observers : registry.observers[o].system \in registry.systems

(* No registration makes the gate refuse what an adapter maps: a crawler whose
   draft is rejected fails its whole sync, and every sync after it. *)
CrawlersAdmitted ==
  \A d \in Drafts(clock) :
    d.attachments \subseteq blobs => Verdict(registry, blobs, clock, d) # "rejected"

(* What the gate would accept it accepts ever after: a retry is never refused. *)
AcceptedStaysAccepted ==
  [][\A req \in Drafts(clock) \cup Requests :
       Verdict(registry, blobs, clock, req) = "accepted"
         => Verdict(registry, blobs, clock, req)' = "accepted"]_vars

(* What a request reports, whichever way the source lists it: a message posted, an event
   of its edit at some time or of its deletion; a revision of the presentation; a slide
   analysed as some capture has it; a minute of a channel or of an observer; of others
   what they give a key. *)
Reported(req) ==
  LET c == req.content
  IN  IF req \in Requests THEN <<"request", req.key>>
      ELSE CASE c[1] = "message"  -> CASE c[2].type = "edit"   -> <<"edited", c[2].ts, c[2].edited>>
                                       [] c[2].type = "delete" -> <<"deleted", c[2].ts>>
                                       [] OTHER                -> <<"posted", c[2].ts>>
             [] c[1] = "revision" -> <<"revision", c[2].revision>>
             [] c[1] = "channel"  -> <<"channel", c[3]>>
             [] c[1] = "alive"    -> <<"alive", c[2], c[4]>>
             [] OTHER             -> <<"slide", c[2].source, c[2].slide>>

(* What a caller was told is in the lake is there, and once: a Duplicate reports what an
   observation reports, never an event of an edit or a deletion taken for the posting,
   and nothing listed in two ways is captured twice.  It need not say the same: an edit
   listed without an event, replies and another model's reading are answered Duplicate. *)
ToldIsKept ==
  \A req \in told :
    \E o \in lake : {p \in lake : Reported(p) = Reported(req)} = {o}
=============================================================================
