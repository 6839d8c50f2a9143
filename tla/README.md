# LETHE: a TLA+ verification project

LETHE captures what a community writes in Slack and presents in Google Slides
as immutable *observations* in a lake, derives analyses and projections from
them, and writes person pages to Notion. This directory models the parts of the
program in `src/src/` whose behaviour depends on interleaving, failure, crash
and order; TLC checks them on small instances and TLAPS proves what matters
most for every instance.

## 1. Inventory

| Component | State it keeps | Operations | Hard because | Correct when |
|---|---|---|---|---|
| Lake store (`lake/store.rs`) | vector of observations, key index | append, rollback_last_append, queries | the index must survive roll-backs | index exact; a roll-back is the inverse of an append |
| Ingestion gate (`lake/ingestion.rs`) | none of its own | ingest: registry, blob, clock checks, append | order of checks | nothing against the registry's contract enters the lake |
| App service and persistence (`self_host/app.rs`, `persistence.rs`, `lake/blob.rs`) | `AppCore` under a mutex; SQLite tables; blob directory | store_blob, ingest_draft, sync_all, bootstrap | RAM before disk, failures and crashes between, two programs on one database | captured is durable, once; bootstrap always succeeds; attachments stay readable |
| Slack crawler (`self_host/app.rs`, `self_host/slack.rs`, `adapter/slack`) | channel and thread cursors in `sync_state` | history pages, threads, snapshots | posts arrive during a sync; several syncs at once; a sync fails half-way | no message is ever skipped; what was posted gets captured |
| Google Slides crawler (`self_host/google.rs`, `adapter/gslides`) | revision cursor, token cache | latest revision, blobs, snapshot | content newer than its revision; reset cursor | latest revision captured, never older content under a newer revision |
| Supplemental store (`supplemental/store.rs`) | current records, history of versions | add, upsert (+ roll-back), update, update_consent, pinned reads | roll-back truncates a shared history | versions gap-free, pinned reads stable, append-only frozen |
| Slide analysis (`slide_analysis`, tail of `sync_all`) | supplementals table | analyse, upsert, persist, ingest analysis | partial batches, failures, restarts | RAM = table; versions monotone |
| Notion write-back (`adapter/writeback/notion`) | pages of an external database | find, delete, write | no lock between find and write; block-by-block replacement fails half-way | one page per person; people's notes kept; pages catch up |
| Registry (`registry`, `self_host/registry.rs`) | entity types, source systems, schemas and versions, observers, projections | one registration each, status update, the seed | the gate judges by it, later registrations change it | references resolve; what was admitted stays admitted |
| Projection catalogue (`projection`) | specs, build graph, health | validate, register, get_mut, set_health, topological order, dependents | several versions of one source; specs edited after the cycle check | the order is right whenever there is one |
| Propagation (`propagation`, `runtime/health.rs`) | watermarks, health of projections | prepare, commit success or failure, upstream failure, propagate_all, aggregate | builds that overlap, fail or panic | no observation skipped; a failure is visible |
| Identity (`identity`) | none (pure) | candidates, matches, union-find, persons | a HashMap gives the matches in any order | same partition in any order |
| Person page (`person_page`) | none (pure) | project, list item, detail | addresses in several spellings and from several sources | nothing captured of a person is lost; the richest slide introduces them |
| Governance (`governance`) | audit log (never filled) | evaluate, filter, emit | decision table, masking at any depth | what is restricted is never shown |
| Read API (`api`, `self_host/app.rs`) | projection snapshot | persons, detail, slides, messages, timeline; read modes; pages | the snapshot changes between pages | a reader sees everybody or can tell |
| Adapter runtime (`adapter/retry.rs`, `runtime/heartbeat.rs`) | attempt counters, heartbeats | backoff, check | numeric edges, silence | not called by the server |

How they interact: `bin/lethe-selfhost` starts a first sync, a polling task and
an HTTP server (`POST /admin/sync` starts another sync) on one `AppService`.
All share `AppCore` through one mutex and the database through another; a sync
takes them per message during crawling and holds the core mutex through its
tail (slide analysis, rebuild of the projections). `bin/lethe-notion-review` is
a second process with an `AppCore` of its own on the same database and blob
directory. Everything in memory is rebuilt from the database at start.

## 2. Modules

| Module | Models | State and actions |
|---|---|---|
| `LakeStore` | `LakeStore` as a value | `LakeAppend`, `RollbackLastAppend`, `Replayed` (the replay at bootstrap), `WellFormed` |
| `CaptureLog` | abstract: an append-only log of keys and who was told of them | `Capture`, `Tell` |
| `DurableIngest` | `store_blob`, `ingest_draft`, the analysis ingest of the tail, `persist_*`, `load_*`, bootstrap | `lake`, `blobs` per process; `rows`, `file`, `blobRows` on disk; one job per syncing thread. Implements `CaptureLog` |
| `SupplementalStore` | the supplemental store as a value | `Added`, `Upserted`, `Updated`, `ConsentUpdated`, `RolledBack`, `Pinned` |
| `StoreInHand` | a store in use: its value and the token of an upsert not yet kept or rolled back | what `SupplementalRecords` and `SupplementalCache` share |
| `SupplementalRecords` | one store under any calls | one action per method; a roll-back token in hand |
| `SupplementalCache` | the analysis batch in the tail of `sync_all`, the supplementals table, bootstrap | `store`, `batch`, `token` in memory; `table`, `durable` on disk |
| `SlackSync` | the channel loop of `sync_all`, `sync_thread_replies`, `known_thread_roots` | the channel (external), what is captured, both cursors, one job per syncing thread |
| `NotionWriteback` | `find_existing`, `delete_record`, `write_record`, the review command's trash-then-write, people typing into pages | `page`s of the database with their blocks; one job per writer, one step per API call |
| `CapturedRevisions` | what a sync leaves behind of a presentation, and what has to hold of it | `captured`, `cursor`, `finished` (history) |
| `GoogleSync` | the presentation loop of `sync_all`, revision listing, fetch, render, cursor; edits and purges by Google | the presentation (external), what is captured of it, the cursor, one job per syncing thread |
| `SnapshotFreshness` | the phases of `sync_all` with the core mutex, the slide-analysis tail, `rebuild_snapshot` | `lake`, `rows`, `analysed`, `view` (the snapshot), `beaten` (heartbeats of the minute), `core` (holder of the mutex), one job per syncing thread |
| `SlideAnalysis` | ranking and scoring of slides, extraction with its fallback, normalisation, merging of continuation slides, `needs_analysis` | operators over decks, used by `SupplementalCache` |
| `Registry` | `RegistryStore` as a value, `seed_registry` | `MayRegister...` (what is not refused) and `...Registered` (the result) |
| `IngestionGate` | the five steps of `ingest`, what the adapters and the projector map to drafts, their idempotency keys | `registry`, `lake`, `blobs`, `clock`; one action per registration, `StoreBlob`, `Ingest` |
| `ProjectionCatalog` | `ProjectionCatalog`, `SpecValidator`, `HealthAggregator` as values | `Registrable`, `Registered`, `TopologicalOrder`, `Dependents`, `Overall` |
| `Propagation` | `PropagationScheduler` and `WatermarkStore` over the catalogue and a growing lake | `Prepare`, `CommitSuccess`, `CommitPanics`, `CommitFailure`, `PropagateUpstreamFailure`, `PropagateAll`, registrations and edits |
| `IdentityResolution` | `IdentityProjector`: candidates, exact and cross-source matches, union-find, persons | operators; `Merged` is one union |
| `PersonPage` | `PersonPageProjector`: whose a slide or a message is, the introducing profile, activity | operators over persons, lake and records |
| `Governance` | `PolicyEngine::evaluate`, `FilteringGate` | operators every answer passes through |
| `ReadApi` | the snapshot rebuild (one union after the other) and the five person endpoints, with a reader that goes through the pages; composes `IdentityResolution`, `PersonPage`, `Governance` | `lake`, `records`, `building`, `snapshot`, `reader` |
| `MC*` | values of the constants for TLC | |
| `*Proofs` | lemmas and theorems, see section 6 | |

The operators and the actions are translated from the code; the
`map` of PROJECT.json names the lines. Abstractions shared by the modules:

- An observation is what the module at hand reads of it: its key, attachments and
  route in `DurableIngest`; observer, schema, authority, capture model and times at
  the gate; user, addresses, names and editors in `IdentityResolution`. A thread
  root's reply count is kept, the text of a message never is.
- An idempotency key is the tuple of the parts its string is made of. What lowers
  the case of an address, finds one in a text or takes a text for a name is a
  constant of the module (`LowerCase`, `AddressIn`, `NameLike`), as is what
  Gemini answers (`GeminiReads`, with slides it misses).
- An attachment is its hash: two contents with one hash do not occur.
- Recorded time is a logical clock and never goes back; ids are UUIDv7 and
  follow it.
- The core mutex makes a stretch of code atomic towards other threads of the
  process, never towards the other process, a crash or a failing call; where a
  stretch touches disk in between it is split at that point.

## 3. Runs

Passing runs:

- `shared_disk`: the server with two syncing threads (interchangeable, so they are
  a symmetry set) and the review command with one, on one database; a draft with an
  attachment, one published ahead of the clock (refused, later admitted), an
  analysis. Three recorded times suffice for: two processes or two threads holding
  one key in hand, the loser being refused by the UNIQUE index or told Duplicate, a
  retry after a roll-back, the early draft's admission, a crash before,
  inside and after each write, and a restart. Checks that captured observations
  are durable, that every bootstrap succeeds, that attachments can only be lost
  to a torn file, that nothing durable is lost, and the refinement of
  `CaptureLog`: each key once, nobody told of a key that is not durable.
- `supplemental_records`: two ids, each built as managed and as append-only, with
  missing or no inputs; five versions. Histories stay gap-free; a version once
  readable reads the same for ever, and an append-only record keeps all but its
  consent, except where a caller still holds the roll-back of its upsert.
- `supplemental_cache`: a deck of three slides (an introduction, its continuation,
  an agenda) that somebody edits so that the continuation comes first, and another
  deck with a copy of the continuation. The analyser may miss a slide, the model
  changes at restarts, writes fail, the process crashes inside a batch. Where
  two decks have a record of one slide id, either may be the one the listing gives.
  Between tails memory is the table; every bootstrap accepts it; and
  `AnalysesSettle`: what an analysis got through is not read again by the next
  one. A history of five
  versions.
- `slack_sync`: the start-up sync and the polling one, one failure, three messages in
  pages of one: enough for two pages with a reply between, for a thread with two
  replies, for a later cursor overwritten by an earlier one, and for a sync that
  dies after its first page. Neither kind of cursor ever passes something not
  captured, whichever sync saves last; a sync that finishes has everything that was
  there when it began; under the polling sync's fairness every message gets captured,
  and so does every reply in a thread whose root was captured with one.
- `notion_writeback`: a sync and a second writer, which may be the review command (it
  trashes a page before it writes the new one), four write-backs, two versions of a profile,
  people typing into the page, a call failing between any two block deletions; the newer
  version has a picture and has lost a field. People's notes survive; a write-back that
  finishes without another beside it shows what it wrote, in every field it fills; nobody
  has two pages unless two write-backs of the same person overlapped. Overlapping ones can
  create two (nobody holds a lock between look-up and creation, and no document says
  otherwise): `crowded`, a history variable, names those persons. One person is enough:
  pages of different persons are never touched by the same record.
- `google_sync`: two syncs, a presentation edited and its old revisions purged at any
  moment, revision pages of one, a failure at any call. A sync that finishes, with nothing
  to capture or with its cursor saved, has the newest revision there was when it began, or a
  newer one, captured, also when the other sync moved the cursor or a revision was purged
  while it listed them; no revision is filed with content older than itself; the cursor
  never passes an uncaptured revision; once the editing stops the newest revision is
  captured with its own content. That the newest captured revision always has the newest
  content is not claimed: a slow sync can file newer content under an older revision
  (section 7).
- `snapshot_freshness`: a polling and a manual sync, one message and one slide, which is
  analysed and once more refreshed, one failure, one restart. A sync that reaches the
  write-back has what it ingested and analysed in the snapshot it writes from. What a failed
  sync ingested is no reason for a later one to rebuild, as it is a Duplicate by then; the
  snapshot becomes current all the same because the heartbeat of a new minute counts as
  ingested. With a heartbeat window that never changes (the mutant) it stays behind.
- `propagation`: three projections registered in any order from five specs (one with
  two versions of a source, two that can close a cycle, one that waits for itself,
  one that mixes two kinds of source), one spec edited afterwards, a worker whose build
  overlaps `propagate_all` and may fail. One observation suffices for a build that was
  prepared before it and commits after another (the assertion of the watermark fires).
- `ingestion_gate`: a message, the same with replies and edited without an event, two
  events of its edits, its deletion and a file; a revision fetched before and after
  people typed; a slide read by two models; channel snapshots and heartbeats of two
  minutes; another team that
  registers an entity type, a system, schemas, observers and versions of its own, some
  of them under names that are taken, and hands in drafts. Two observations in the lake
  are what a wrong Duplicate needs. Checks that definitions resolve, that no
  registration turns a crawler's draft away or takes back a verdict, and that whoever
  was told Ingested or Duplicate finds one observation of what he reported: keys keep
  apart what is reported, the posting of a message, each event of an edit and a
  deletion, and bring together the ways of listing it. That a Duplicate says the same is
  not claimed (section 7). One assumption is made of others, `OwnKeysAssumption`:
  they keep their keys out of the adapters' namespaces.
- `read_api`: four observations (two posts of one user, one of a user without an
  address, a deck edited under another spelling of the first one's address), slides
  read as rich, equally rich or poor introductions and a continuation, analyses recorded in the lake
  or not, rebuilds union by union in any order, a reader asking for three items at
  a time where a page has two, and asking for a mode that is refused. Four
  observations are the fewest with two persons, an address shared across sources and
  somebody without one.

Runs that show a disagreement between code and documentation:

- `analysis_leak`: README.md:152 promises the roll-back of an append whose
  persistence failed; the analysis tail (app.rs:796) returns without it. The
  observation stays in memory, later syncs answer Duplicate and never store it.
- `same_email`: identity-resolution.md:216 says that the same address resolves to the
  same person; `cross_source_match` joins only candidates of different sources, so two
  Slack users with one address (or two editors) stay two persons.

Deadlock is checked except in `notion_writeback`, where every writer is a single
sync or command and really stops.

Bounds: `MaxId`, `MaxClock` (recorded times, so also appends), `MaxHistory`, `MaxBatch`,
`MaxTs` (messages posted), `MaxFailures` (failing syncs), `MaxStarts` (start-up and manual
syncs), `MaxPage` and `MaxBlock` (ids given by Notion), `MaxNotes` (things people type),
`MaxRevision` (edits), `MaxReboots`, `MaxAnalyses` (readings of one slide), `MaxMisses`
(slides the analyser misses), `MaxLake`, `MaxEdits` (specs edited in place), each in the
guard of the actions it bounds.

What the Notion model leaves out: children of the archive toggle, pages of more
blocks than one answer lists, a database without an e-mail property; people
type text only, since a divider or an image of theirs would be taken for the
bot's. `GoogleSync` leaves out revisions with equal modification times.

## 4. Fairness

The liveness properties assume weak fairness of the polling task's steps and of
nothing that people, Google, Slack or Notion do: in `SlackSync` and `GoogleSync`
of the polling worker's steps, in `SnapshotFreshness` of the clock, of the polling
task's next sync and of the steps of any sync under way, since a manual one holds
the mutex the polling one waits for and always gives it back. `spawn_polling_task` loops
for ever, sleeping between syncs, and a sync takes its next step whenever the
calls it waits for return; nothing else it needs is held for ever. Nobody has
to start a manual sync. Failures (API errors, failing downloads, crashes) are
bounded by `MaxFailures`: the liveness properties say what happens once they
stop. A message that fails every time keeps the sync from ever finishing, which
is the code's behaviour and is outside these properties.

## 5. What each hazard is checked by

PROJECT.json lists the hazards at their lines with the properties that would
catch them. Those that no property covers, or not entirely, have a note; section 7
says what the code does there.

## 6. Proofs

Each `*Proofs` module proves, for every value of the constants, what the run of its
component checks on one. The pattern is the same everywhere: an inductive invariant `IInv`,
whose parts are named for what they say (TLC found no state of the run's instance that
breaks it before it was proved); then one lemma per action shows that it is preserved, a
theorem concludes `Spec => []IInv`, and the properties follow from it. Every invariant and
action property of every passing run is stated by such a theorem. What a step reads of data
(a page of a channel, a store after an upsert, Kahn's algorithm) is a lemma of its own that
the step lemmas cite.

| Module | Theorems | Strengthening |
|---|---|---|
| `DurableIngestProofs` | `IngestTypeCorrect`, `IngestLakesWellFormed`, `IngestCapturedIsDurable`, `IngestCanRestart`, `IngestAttachmentsKept`, `IngestNoDurableLoss`, `IngestImplementsCaptureLog` | what a live thread may have in hand that the table lacks |
| `SlackSyncProofs` | `SlackCursorsCover`, `SlackFinishedSyncIsComplete` | what a job has left to fetch and to ingest |
| `NotionWritebackProofs` | `NotionOnePagePerEntity`, `NotionLastWriteIsShown`, `NotionNotesKept` | who knows not to be alone, what a lone writer read |
| `SnapshotFreshnessProofs` | `SnapshotTypeCorrect`, `SnapshotSyncIsProjected` | what the rebuild is decided on |
| same, of the instance `Google` | `GoogleTypeCorrect`, `GoogleFinishedSyncIsCurrent`, `GoogleContentNeverOlder`, `GoogleCursorCaptured` | what a job has picked and fetched |
| `SupplementalProofs` | `SupplementalHistoryMatchesRecords`, `SupplementalPinnedReadsStable`, `SupplementalAppendOnlyFrozen`; `SupplementalCacheMatchesTable`, `SupplementalCanRestart`, `SupplementalAnalysesSettle` | what the token in hand undoes; which slides are settled or awaited |
| `IngestionGateProofs` | `GateDefinitionsResolve`, `GateCrawlersAdmitted`, `GateToldIsKept`, `GateAcceptedStaysAccepted` | what no registration can take back |
| `PropagationProofs` | `PropagationNothingSkipped`, `PropagationFailureIsVisible`, `PropagationOrderIsRight`, `PropagationRegisterKeepsAcyclic` | which positions the prepared builds hold |
| `ReadApiProofs` | `ReadApiBuilt`, `ReadApiIdentitiesHidden`, `ReadApiReplayGivesSamePersons`, `ReadApiNothingLost`, `ReadApiListingIsComplete`, `ReadApiRichestIntroduces` | what the forest of a rebuild under way connects; what the snapshot was made of |

**Lake and durable ingest.** The lemmas on `LakeStore` say, for lakes over any set of
observations, that `append`, `rollback_last_append` and the replay keep the index exact
(`AppendWellFormed`, `RollbackWellFormed`, `ReplayedWellFormed`), and that a
roll-back undoes an accepted append (`RollbackUndoesAppend`): the
index's domain is the set of keys held, and every keyed position is the entry of
its key, so no key is held twice; appending adds one position and one key,
rolling back removes the last position, whose key no other position has. The only
assumption is that `NoKey` is no key.
`CapturedIsDurable` is not
inductive: between the append and the insert the newest observation of a lake
is in no row. `IInv` adds what confines that: the index of every lake is exact,
ids are unique and below the clock, a process that is down has nothing in
memory (`LakesInv`); rows have distinct keys and come from the drafts
(`RowsInv`); a pending observation is the newest of its process's lake, not
durable, and the only one of its process (`PendingInv`), which the core mutex
makes true; a registered blob has a file and a durable observation's attachment
is registered (`BlobsInv`); a job knows of a key only what is in the table
(`RoutesInv`). The refinement of `CaptureLog` is shown step by step. Assumptions: the
constants are typed as the code
builds them (an instance is of one process, a draft has one route, the clock is
a natural number).

**Google sync.** The second part of `SnapshotFreshnessProofs`, about the instance `Google ==
INSTANCE GoogleSync`, with the assumption of that module as hypothesis; the three invariants
are definitions of `CapturedRevisions`, which both modules extend. The strengthening says of
a job that content it has fetched is at least as new as the revision it picked, and that the
revision it is about to save as cursor is captured; edits only raise the content's version,
and purges take nothing from what is captured. For `GoogleFinishedSyncIsCurrent` it says too
that the cursor a job read names a captured revision and that what it picked is no older
than its beginning: the newest revision is never purged, so a listing that came to its last
page ends at or above it, and nothing after the cursor means that the cursor is no older
either.

**Slack sync.** A cursor is right because the job that saves it has seen every
message up to it, so `IInv` says of every job, at every point of the channel loop,
that what is at most its newest timestamp is captured, still in the page at hand, or on
a page it has yet to fetch; likewise of the thread it is in, whose cursor is the
newest of the replies listed. Nothing of that refers to other jobs: captured messages
stay captured, so a job's claim survives any step of another, and a cursor
overwritten by an earlier one is still right. `FinishedSyncIsComplete` is the same claim at the last
page. The page lemmas say that a page taken newest first holds whatever is
newer than all it leaves.

**Notion write-back.** A writer holds a page over many calls, and what it does then is
decided by what it read before. `CrowdInv` says that two writers at work on one person
both know it: the person is in `crowded` and neither is alone. So a step on a page
concerns, besides its own writer, only writers that claim nothing of the page any more.
What is claimed (`JobInv`): the page a writer holds is its person's; one that is alone
finds its text in the fields it filled, and no marker but those in its delete queue; and no
queue, of whichever writer, has the block of a note typed above the section, since the
queue begins at the thumbnail or the marker, a note above the section has only notes
above it, and ids are never shared (`BodyInv`). What follows for the last append is
that it puts the only marker below a body without one (`WrittenInv`). `PagesInv` says that
a page is about to be created only where there is none, which two lookers-up at once would
break. `CrowdInv` is needed for each of them, as otherwise another writer's step between the
read and the deletion changes the page under the first. The lemmas on bodies say what
prepending, appending, deleting a block and adding a section do to markers and notes;
that ids handed out are new and differ from each other is proved from the definition of
`FreshIds` as the least four unknown ones.

**Snapshot.** A sync skips the rebuild when nothing it did was new, so `IInv` says of
every job what it carries (`Carries`): what it ingested is in the lake, and is counted as
ingested unless it has analyses to show for it; of the slides it analysed, those no
longer to do are in the store; at the write-back all of it is in the snapshot. A restart
empties the jobs of the one process and takes the lake back to its table, which has
every item (`DataInv`); the mutex keeps a second tail out (`MutexInv`).

**Supplemental store.** Pushing the next version keeps a history complete. A roll-back cuts
the history at a length noted earlier, which is right only while nothing was pushed since:
the invariant says of a token in hand that rolling back with it gives a store with a
complete history, exactly one entry shorter, the entry being the token's (`TokenInv`). Both
action properties follow, since only that entry can go. The second part of the module is
about the analyses of the server (`Spec` of `SupplementalCache`, over the same `store` and
`token`): with a token in hand, rolling back gives the records the table has, and the record
whose row is still to be written derives from durable observations (`CacheInv`). Nothing is
assumed of what a batch consists of, so these two theorems hold whatever is read off the
slides.

`AnalysesSettle` is the opposite: it is about what is read. Its invariant (`AnalysisInv`)
says that a record is of the slide its id names, in memory and in the table, and that every
slide which ranking picks from a deck as a finished analysis last saw it is settled, or is
awaited in the batch at hand. To get there a slide is followed through the whole analysis:
ranking gives the slides worth reading, each once (`RankedIs`); extraction, its fallback and
normalisation keep the slide's id (`ExtractedIs`, `NormalizedIs`), and so does merging a
continuation into the slide before it (`MergedIs`, `CompanionIs`); each ranked slide is
analysed, was consumed by an analysed one, or needs no analysis (`AnalysesOfIs`,
`AnalysesAre`). These are claims about recursive functions and folds, proved by the least
place at which they would fail. They rest on `SlideAssumption`, which says of the constants
what their Rust types and origin say: decks are sequences of slides, the ids of slides are
those Google gives to page objects and so never the placeholders the code itself makes up,
keyword scores are numbers, and what Gemini answers is parsed into a `StudentProfile`, whose
lists are finite.

**Ingestion gate.** A registry only grows: no registration replaces an observer or changes a
schema's contracts (`Extends`). So what was authorised stays so, which gives
`AcceptedStaysAccepted`, and what `seed_registry` registered for the adapters is there as it
was (`Seeded`), which gives `CrawlersAdmitted`. `ToldIsKept` needs that keys are equal
exactly when the same thing is reported (`KeysAreReports`), also across all minutes past:
the lake holds drafts and requests only, one of a key (`LakeInv`), and the key lemmas take
the adapters' key formats apart. Of what the sources list nothing is assumed, of others
`OwnKeysAssumption` (section 3).

**Propagation.** A build that was prepared before another's commit may commit after it. The
invariant says of a prepared build that it starts where what was read so far ends, or
earlier (`JobsInv`), so that no commit leaves a gap, and of a failed projection that the
catalogue knows (`HealthInv`). The catalogue's algorithms are recursive
functions, about which the provers know nothing: the lemmas on them use the least number
principle in set form (`WFMin` of the library, for the less-than relation on `Nat`), from
which `LeastNumber` and `NatInduct` follow for sets, and `Iterates` unfolds a function
defined by iteration. With it: the depth-first search of `would_create_cycle` is closed
under dependencies after as many rounds as there are entries, so that a registration that is let
through closes no cycle; and Kahn's algorithm keeps the degree of every projection
equal to its sources not yet listed, lists none twice and none before its sources,
so that it falls short exactly when some set of projections depends on itself or on something
unregistered. Only the assumption that a spec has finitely many sources is needed (`IsSpec`).

**Read API.** A rebuild merges candidates one pair at a time in an order nobody controls,
and the pages of a listing may be of several snapshots. `BuiltInv` has three parts.
`LakeInv`: the lake is a sequence of drafts and the records are of decks in it. `BuildInv`:
the parent array of a rebuild under way is a forest whose trees are what the pairs merged so
far connect (`Resolving`): no such pair has two roots (`Connects`), and no part of a tree is
without a pair that leads out of it. Merging one more pair keeps that, in whatever order, so
that at the end any order has left the same partition. `ShotInv`: the snapshot is what a
finished rebuild makes of the first `upTo` observations (`MadeOf`), although the lake has
grown since. From it follow that a rebuild from the same observations gives the same persons
(`ReplayGivesSamePersons`), that every observation that names somebody is on somebody's page
(`NothingLost`), that the profile shown is a richest one (`RichestIntroduces`), and that an
answer shows nothing the filter should have removed (`IdentitiesHidden`).
`ListingIsComplete` needs one more part (`ReaderInv`): as long as all answers were of the
present snapshot, what a reader has seen is the beginning of its list, which has each person
once (`Begins`, `ArePages`). Resolution, the scan for addresses and the choice of profiles
are recursive functions and folds; a fold is entered one record at a time, and a claim about
it is proved by the least place at which it would fail. `DraftAssumption` says what the
crawlers make sure of before a draft exists: editors without an address are dropped
(`self_host/google.rs:159-167`), a profile has an address, if need be one made from its
slide (`app.rs:1581`), and richness is a count (`slide_analysis/types.rs:95`).

**What stays with TLC.** Liveness only (`SnapshotCatchesUp`, `MessagesGetCaptured`,
`KnownThreadsGetCaptured`, `LatestGetsCaptured`), as TLAPS has neither ENABLED nor the
rules of fairness; and the two runs that show a disagreement.

## 7. Not modelled, known disagreements, and the plan

### What the code does against its documents, beyond the two runs

The models contain these behaviours, and the properties are stated so that they
hold beside them; each was found while writing a model.

- *A torn blob is for good* (`persistence.rs:120`): `persist_blob` writes in place and
  trusts `exists()`, so after a torn write the retry registers the torn file and the
  reference resolves to nothing from the next start, where observation-lake.md:229
  promises that it can be had. `AttachmentsKept` exempts files that were torn.
- *Late replies* (`app.rs:1344`): a root captured before its first reply is never
  revisited; slack-adapter.md:238 promises every message of a thread.
  `KnownThreadsGetCaptured` is about the threads the lake knows.
- *Edits* (`slack.rs:424`, `:455`): an edited message that is listed without a subtype
  keeps the key of the original and is answered Duplicate, where slack-adapter.md:174
  and :262 want an edit to be an observation of its own. So is a message with more
  replies than before, and a slide that is read again, by another model or because its
  profile was poor (`app.rs:804`, `:1457`; `slide_analysis/projector.rs:199`): the
  record is replaced, the lake keeps the first reading. `IngestionGate` has these, and
  `ToldIsKept` holds beside them: a Duplicate reports the same thing, not the same content.
- *Emptied fields* (`client.rs:508`): a field that a newer profile lacks is left out of
  the PATCH, so the Notion page keeps the text an earlier write put there.
  `LastWriteIsShown` is about the fields a version fills.
- *An analysis that fails* (`app.rs:1222`): README.md:159 says that failures of the
  slide analysis are not swallowed; a failing Gemini call is printed and the slide read
  heuristically. `SlideAnalysis` has the fallback.
- *Stale bot blocks* (`client.rs:444`): the old marker is deleted first; when a later
  call fails, the retry does not recognise the text below it. bug_audit_report.md:113
  calls that fixed.
- *A revision with newer content* (`app.rs:511`): the presentation is fetched after its
  revision was picked; README.md:160 excludes it. Older content under a newer
  revision, the worse of the two, is excluded (`ContentNeverOlder`, proved).
- *Versions start again* (`app.rs:169`): a restart replays the table through `upsert`,
  so versions count from 1; supplemental-store.md:158 wants them monotone.
- *Upstream failure reaches direct dependents only* (`scheduler.rs:107`), where
  dag-propagation.md:131 speaks of everything downstream.
- *Person ids are renumbered* when persons merge; identity-resolution.md:220 wants
  results that stay the same as observations come in; `ReadApi` numbers them as the code does.
- *Limits in a query string* (`server.rs:33`): the numbers of a page are flattened into
  the query, whose values the parser hands on as text; `ListPersons` of `ReadApi` has
  them as the handler gets them once parsed.
- *The echoed limit* (`pagination.rs:58`) is the one asked for and not the one the page
  was cut at; a reader stepping by it skips people (api-serving.md:222 has a limit of at most 100).
- *Copied slides* (`app.rs:1604`): records are looked up by the slide's id alone, and a
  copied deck keeps the ids of its slides. Of two records either may be found, so a slide
  can be read again by every sync. `AnalysesSettle` exempts slides with two records.
- *A continuation already read* (`app.rs:680`): the slide after the one being read is
  taken as its continuation without asking whether it was consumed.
- *The recording of an analysis* (`app.rs:787`) is lost when the call after its upsert
  fails: later syncs find the slide analysed.
- *A second process* that inserted a key first leaves this one failing at that key until
  it restarts (`app.rs:1111`).
- Slides, messages and timeline of an unknown person answer 200 with an empty list.

### Not modelled

The audit log and the lineage, which the server never fills; the retry policy, the heartbeat
monitor and the build runner, which it never calls; the OAuth token cache of the Google
client; identity candidates accepted by hand (the server loads none; the operator takes them
as a parameter); HTTP routing, environment parsing, the rendering of pages and profiles; the
query methods of the stores, which change nothing. The propagation scheduler, the
catalogue's order and edits, and registrations after the seed are modelled, but they are
library code: the server calls none of them. `SupplementalCache` has one process, although
`lethe-notion-review` writes the same table. Poisoned mutexes: the core mutex is taken
before the persistence one everywhere, so no cycle can form, but a panic while one is held
would fail every later request.

### Next

1. A Slack sync of two processes on one database, with a lake each.
2. Liveness of the Notion write-back under repeated syncs.
