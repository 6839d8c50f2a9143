-------------------------- MODULE SupplementalCache --------------------------
(***************************************************************************)
(* The slide-analysis records of the server: the tail of sync_all reads    *)
(* the slides of the configured decks (module SlideAnalysis), upserts a    *)
(* record for each into the supplemental store, writes it to the           *)
(* supplementals table, and rolls the store back when that fails           *)
(* (src/self_host/app.rs).  The core mutex is held meanwhile; people edit  *)
(* the decks between two syncs.  A restart replays the table through       *)
(* upsert, against the replayed lake (AppCore::new), with whatever         *)
(* analysis model is configured by then.                                   *)
(***************************************************************************)
EXTENDS StoreInHand, SlideAnalysis

CONSTANTS Decks,       \* the configured decks, a sequence
          Slides,      \* what each deck may consist of at some time
          Titles,      \* the title of each deck
          Limit,       \* slide_analysis_limit
          Model,       \* analysis models, the heuristic fallback among them
          Heuristic,   \* the model when no analyser is configured
          MaxMisses    \* bound on extractions the analyser misses in a tail

(* A snapshot in the lake is [deck, published]; an id names deck and slide.  No
   slide is called what stands for nothing, as no identifier made of its id is. *)
ASSUME SlideAssumption ==
  /\ Heuristic \in Model /\ Limit \in Nat /\ Decks \in Seq(DOMAIN Slides)
  /\ \A deck \in DOMAIN Slides : \A slides \in Slides[deck] :
       /\ slides \in Seq(Range(slides))
       /\ \A i \in DOMAIN slides :
            /\ [deck |-> deck, slide |-> slides[i].id] \in Id
            /\ slides[i].id \notin Placeholders \cup {Unset}
            /\ slides[i].keywords \in Int
            /\ IsProfile(GeminiReads[slides[i].content])

VARIABLES up,          \* the process runs
          model,       \* the model it is configured with
          observed,    \* the slide snapshots in AppCore.lake
          batch,       \* the analysis results still to be upserted
          seen,        \* the decks as last analysed, unless that failed
          table,       \* the supplementals table, by id
          durable      \* the slide snapshots in the observations table

vars == <<up, model, store, observed, batch, seen, token, table, durable>>

(* build_supplemental: derived from the snapshot and the slide's thumbnail. *)
Built(analysis) ==
  LET result == analysis.result
  IN  [id |-> result.id, mutability |-> "ManagedCache",
       derivedFrom |-> {analysis.source} \cup (IF result.thumbnail THEN OtherInput ELSE {}),
       payload |-> [model |-> model, profile |-> result.profile],
       recordVersion |-> 1, consent |-> NoConsent]

(* The newest snapshot of a deck. *)
Snapshots(deck) == {o \in observed : o.deck = deck}
Newest(deck) == CHOOSE o \in Snapshots(deck) : \A p \in Snapshots(deck) : p.published <= o.published

(* A HashMap lists the records in any order, and of those of one slide only the
   first is looked at: any choice of one of each. *)
Claims(slide) == {id \in Known(store) : store.records[id].record.payload.profile.slide = slide}
Claimed == {slide \in {id.slide : id \in Id} : Claims(slide) # {}}
Listings ==
  {listed \in SUBSET Known(store) :
     \A slide \in Claimed : Cardinality(listed \cap Claims(slide)) = 1}
Payloads(listed) == {store.records[id].record.payload : id \in listed}

(* What reading the decks results in, deck after deck; those without a snapshot
   are passed over. *)
Sourced(source, results) ==
  [n \in DOMAIN results |-> [source |-> source, result |-> results[n]]]

Analyses(slides, listed, answered) ==
  LET Of(deck) ==
        IF deck \notin DOMAIN slides THEN <<>>
        ELSE Sourced(Newest(deck),
                     AnalysesOf(deck, Titles[deck], slides[deck], Limit, Payloads(listed),
                                model, model # Heuristic, answered))
  IN  FlattenSeq([n \in DOMAIN Decks |-> Of(Decks[n])])

(* The extractions the analyser may answer: none, or all but a few. *)
Answers ==
  LET all == (1..Max({Len(d) : d \in UNION Range(Slides)})) \X {"own", "next"}
      misses == UNION {kSubset(n, all) : n \in 0..MaxMisses}
  IN  IF model = Heuristic THEN {{}} ELSE {{}} \cup {all \ missed : missed \in misses}

Stored == DOMAIN table

(* The core mutex is free. *)
CoreFree == up /\ batch = <<>> /\ token = NoToken

-----------------------------------------------------------------------------
(* Plausible faults, swapped in one at a time by the mutant runs. *)
CaptureInMemoryOnly(source) ==
  /\ CoreFree
  /\ observed' = observed \cup {source}
  /\ UNCHANGED <<up, model, store, batch, seen, token, table, durable>>

-----------------------------------------------------------------------------
Init ==
  /\ up = TRUE
  /\ model \in Model
  /\ store = EmptyStore
  /\ observed = {}
  /\ batch = <<>>
  /\ seen = <<>>
  /\ token = NoToken
  /\ table = <<>>
  /\ durable = {}

(* ingest_draft of a slide snapshot (module DurableIngest has the detail). *)
CaptureSource(source) ==
  /\ CoreFree
  /\ observed' = observed \cup {source}
  /\ durable' = durable \cup {source}
  /\ UNCHANGED <<up, model, store, batch, seen, token, table>>

(* The tail of sync_all takes the core mutex and reads the decks as they are.  It
   does when the sync ingested anything, from Slack too, or a first look at the
   decks finds a slide to analyse; a tail that does not changes nothing here. *)
AnalyseSlides ==
  LET captured == {deck \in Range(Decks) : Snapshots(deck) # {}}
  IN  /\ CoreFree /\ captured # {}
      /\ \E slides \in [captured -> UNION Range(Slides)] :
           /\ \A deck \in captured : slides[deck] \in Slides[deck]
           /\ seen' = slides
           /\ \E listed \in Listings, answered \in Answers :
                batch' = Analyses(slides, listed, answered)
      /\ Len(store.history) + Len(batch') <= MaxHistory
      /\ UNCHANGED <<up, model, store, observed, token, table, durable>>

(* upsert_supplemental of the next result. *)
UpsertAnalysis ==
  /\ batch # <<>>
  /\ token = NoToken
  /\ LET rec == Built(Head(batch))
     IN  /\ Valid(rec, observed)
         /\ UpsertAccepts(store, rec)
         /\ store' = Upserted(store, rec)
         /\ token' = RollbackToken(store, rec.id)
  /\ batch' = Tail(batch)
  /\ UNCHANGED <<up, model, observed, seen, table, durable>>

(* persist_supplemental: inserts or updates the row with what the store now holds. *)
WriteRow ==
  /\ token # NoToken
  /\ table' = Put(table, token.id, store.records[token.id].record)
  /\ UNCHANGED durable

PersistSupplemental ==
  /\ WriteRow
  /\ token' = NoToken
  /\ UNCHANGED <<up, model, store, observed, batch, seen>>

(* It fails: rollback_supplemental, and the sync returns the error; what   *)
(* the batch upserted before stays.                                        *)
PersistFails ==
  /\ token # NoToken
  /\ store' = RolledBack(store, token)
  /\ token' = NoToken
  /\ batch' = <<>>
  /\ seen' = <<>>
  /\ UNCHANGED <<up, model, observed, table, durable>>

Down ==
  /\ up
  /\ up' = FALSE
  /\ store' = EmptyStore
  /\ observed' = {}
  /\ batch' = <<>>
  /\ seen' = <<>>
  /\ token' = NoToken
  /\ UNCHANGED model

Crash ==
  /\ Down
  /\ UNCHANGED <<table, durable>>

CrashAfterWrite ==
  /\ WriteRow
  /\ Down

(* AppCore::new refuses a record whose observations are not in the lake.   *)
BootstrapAccepts == \A id \in Stored : Valid(table[id], durable)

(* Every row is a new id to the empty store: its version starts at 1 again *)
(* (the order, by created_at, makes no difference to the store's answers). *)
Restart ==
  /\ ~up
  /\ BootstrapAccepts
  /\ up' = TRUE
  /\ model' \in Model
  /\ observed' = durable
  /\ \E order \in [1..Cardinality(Stored) -> Stored] :
       /\ \A id \in Stored : \E n \in DOMAIN order : order[n] = id
       /\ store' = [records |-> [id \in Stored |-> [version |-> 1, record |-> table[id]]],
                    history |-> [n \in DOMAIN order |->
                                   [version |-> 1, record |-> table[order[n]]]]]
  /\ UNCHANGED <<batch, seen, token, table, durable>>

Next ==
  \/ \E source \in Observation : CaptureSource(source)
  \/ AnalyseSlides
  \/ UpsertAnalysis
  \/ PersistSupplemental
  \/ PersistFails
  \/ Crash
  \/ CrashAfterWrite
  \/ Restart

Spec == Init /\ [][Next]_vars

-----------------------------------------------------------------------------
(* Whenever the core mutex is free, every record in memory is the row the  *)
(* table holds and conversely, whatever upserts failed or crashed before.  *)
CacheMatchesTable ==
  CoreFree =>
    /\ Known(store) = Stored
    /\ \A id \in Stored : store.records[id].record = table[id]

(* The next bootstrap accepts what is in the table: a record is never      *)
(* durable before the observation it derives from.                         *)
CanRestart == BootstrapAccepts

(* An analysis that got through leaves nothing to be read again: every slide    *)
(* worth reading in the decks as it saw them, continuations included, has a     *)
(* record of the model in use, in whatever order the store lists its records.   *)
(* Slides that decks share, as a copied deck does, are exempt once two have     *)
(* records of them: the listing may put the stale one first for ever.           *)
AnalysesSettle ==
  CoreFree =>
    \A deck \in DOMAIN seen : \A i \in Range(RankedSlides(seen[deck], Limit)) :
      LET slide == seen[deck][i].id
      IN  \/ Cardinality(Claims(slide)) > 1
          \/ \A listed \in Listings :
               ~ NeedsAnalysis(Payloads(listed), slide, model, model # Heuristic)
=============================================================================
