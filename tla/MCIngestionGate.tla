---------------------------- MODULE MCIngestionGate ----------------------------
(* The seeded registry with a second team's definitions, and a day of drafts. *)
EXTENDS IngestionGate

Posted(subtype, ts, edited, replies, file) ==
  [subtype |-> subtype, ts |-> ts, edited |-> edited, replies |-> replies, file |-> file]

(* A message, the same with replies and an edit no event told of, two events of edits,
   its deletion, and a file, the presentation itself. *)
MCMessage ==
  {Posted("none", 0, 0, 0, "none"), Posted("none", 0, 1, 2, "none"),
   Posted("message_changed", 0, 1, 0, "none"), Posted("message_changed", 0, 2, 0, "none"),
   Posted("message_deleted", 0, 0, 0, "none"), Posted("file_share", 2, 0, 0, "slides")}
(* One revision, fetched before and after people typed; one slide, read by two models. *)
MCRevision == {[revision |-> 1, modified |-> 0, native |-> n] : n \in {"slides", "later slides"}}
MCSlide == {[source |-> 1, slide |-> "s1", model |-> m] : m \in {"heuristic", "gemini"}}

MCEntityTypes == {EntityType("et:room", "et:space")}
MCSchemas ==
  {Schema("schema:room-entry", "et:room", {"obs:gate"}),
   Schema("schema:slack-message", "et:message", {"obs:gate"})}
MCVersions == {[id |-> "schema:slack-message", version |-> 2]}
MCObservers ==
  {Observer("obs:gate", "sys:gate", {AnySchema}, "lake-authoritative", "event"),
   Observer("obs:slack-crawler", "sys:gate", {}, "lake-authoritative", "event")}

Entry(observer, system, schema) ==
  Draft(schema, Config(observer, system, "lake-authoritative", "event"), <<"gate", observer, schema>>,
        <<"entry", observer, schema>>)
MCRequests ==
  {Entry("obs:gate", "sys:gate", "schema:room-entry"),
   Entry("obs:gate", "sys:gate", "schema:slack-message"),
   Entry("obs:slack-crawler", "sys:slack", "schema:room-entry"),
   Entry("obs:slack-crawler", "sys:gate", "schema:slack-message")}
=============================================================================
