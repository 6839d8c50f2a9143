--------------------------- MODULE SnapshotFreshness ---------------------------
(***************************************************************************)
(* The projection snapshot and the phases of sync_all                      *)
(* (src/self_host/app.rs:416-852; rebuild_snapshot :192).                  *)
(*                                                                         *)
(* A sync ingests what Slack and Google have, each followed by a heartbeat *)
(* keyed by the minute; then it takes the core mutex and keeps it while it *)
(* asks Google and Gemini, stores analyses, records them in the lake and   *)
(* rebuilds the snapshot, the last only if it ingested or analysed         *)
(* anything.  Every call on the way may fail and ends the sync.            *)
(*                                                                         *)
(* An ingest is one step: append, insert and roll-back happen under the    *)
(* mutex (DurableIngest has them apart).  Heartbeats are no part of what   *)
(* the snapshot shows, and are left out of lake.                           *)
(***************************************************************************)
EXTENDS Naturals, FiniteSets

CONSTANTS Syncer,       \* threads that run sync_all
          Polling,      \* the one that syncs again and again
          Item,         \* what Slack and Google have to offer
          Slide,        \* those of them that are slides to analyse
          MaxAnalyses,  \* bound on the analyses of one slide
          NoOne,        \* the holder of a free mutex
          MaxStarts,    \* bound on syncs other than Polling's
          MaxFailures,  \* bound on failing syncs
          MaxReboots    \* bound on restarts of the process

ASSUME SyncerAssumption ==
  Polling \in Syncer /\ NoOne \notin Syncer /\ Slide \subseteq Item /\ MaxAnalyses \in Nat

VARIABLES lake,      \* observations in memory: <<"item", i>>, <<"analysis", i>>
          rows,      \* observations in the database
          analysed,  \* analyses upserted as slide-analysis records: <<slide, which>>
          view,      \* the snapshot: the observations and records it was built of
          beaten,    \* sources whose heartbeat of this minute is in the lake
          core,      \* holder of the core mutex beyond one step
          job,       \* what each syncer is doing
          starts, failures, reboots

vars == <<lake, rows, analysed, view, beaten, core, job, starts, failures, reboots>>

Observed(i) == <<"item", i>>
Recorded(i) == <<"analysis", i>>
Analysis == Slide \X (1..MaxAnalyses)
Sources == {"slack", "google"}

Free == core = NoOne
Idle == [at |-> "idle", mine |-> {}, results |-> {}, todo |-> {}, ingested |-> FALSE]
Tail == {"analyse", "upsert", "record"}

Built == [obs |-> lake, supp |-> analysed]

-----------------------------------------------------------------------------
(* Plausible faults, swapped in one at a time by the mutant runs. *)
TickKeepsWindow ==
  beaten = Sources /\ UNCHANGED vars
WorthRebuilding(t) == job[t].results # {}
UpsertShown(t) ==
  /\ job[t].at = "upsert"
  /\ \E a \in job[t].todo :
       /\ analysed' = analysed \cup {a}
       /\ view' = [view EXCEPT !.supp = @ \cup {a}]
       /\ job' = [job EXCEPT ![t].todo = @ \ {a}]
  /\ UNCHANGED <<lake, rows, beaten, core, starts, failures, reboots>>

-----------------------------------------------------------------------------
(* The process starts with an empty database. *)
Init ==
  /\ lake = {} /\ rows = {}
  /\ analysed = {}
  /\ view = [obs |-> {}, supp |-> {}]
  /\ beaten = {}
  /\ core = NoOne
  /\ job = [t \in Syncer |-> Idle]
  /\ starts = 0 /\ failures = 0 /\ reboots = 0

(* A new minute: a new heartbeat key. *)
Tick ==
  /\ beaten' = {}
  /\ UNCHANGED <<lake, rows, analysed, view, core, job, starts, failures, reboots>>

StartSync(t) ==
  /\ job[t].at = "idle"
  /\ IF t = Polling THEN UNCHANGED starts ELSE starts < MaxStarts /\ starts' = starts + 1
  /\ job' = [job EXCEPT ![t] = [Idle EXCEPT !.at = "slack"]]
  /\ UNCHANGED <<lake, rows, analysed, view, beaten, core, failures, reboots>>

(* ingest_draft of something new; a Duplicate changes nothing. *)
IngestItem(t, i) ==
  /\ job[t].at \in Sources
  /\ Free
  /\ Observed(i) \notin lake
  /\ lake' = lake \cup {Observed(i)}
  /\ rows' = rows \cup {Observed(i)}
  /\ job' = [job EXCEPT ![t].ingested = TRUE, ![t].mine = @ \cup {Observed(i)}]
  /\ UNCHANGED <<analysed, view, beaten, core, starts, failures, reboots>>

(* The heartbeat after each source, a Duplicate within the minute. *)
Heartbeat(t) ==
  /\ job[t].at \in Sources
  /\ Free
  /\ beaten' = beaten \cup {job[t].at}
  /\ job' = [job EXCEPT ![t].at = IF @ = "slack" THEN "google" ELSE "lock",
                        ![t].ingested = @ \/ job[t].at \notin beaten]
  /\ UNCHANGED <<lake, rows, analysed, view, core, starts, failures, reboots>>

EnterTail(t) ==
  /\ job[t].at = "lock"
  /\ Free
  /\ core' = t
  /\ job' = [job EXCEPT ![t].at = "analyse"]
  /\ UNCHANGED <<lake, rows, analysed, view, beaten, starts, failures, reboots>>

(* Slides without a record, or with one that needs a refresh, being poor or another
   model's, of which a profile can be made: any of those in the lake. *)
DueAnalyses ==
  {a \in Analysis : /\ Observed(a[1]) \in lake
                    /\ \A n \in 1..MaxAnalyses : <<a[1], n>> \in analysed <=> n < a[2]}

Analyse(t) ==
  /\ job[t].at = "analyse"
  /\ \E results \in SUBSET DueAnalyses :
       job' = [job EXCEPT ![t].at = "upsert", ![t].results = results, ![t].todo = results]
  /\ UNCHANGED <<lake, rows, analysed, view, beaten, core, starts, failures, reboots>>

(* A slide's record is replaced by that of its next analysis. *)
UpsertAnalysis(t) ==
  /\ job[t].at = "upsert"
  /\ \E a \in job[t].todo :
       /\ analysed' = analysed \cup {a}
       /\ job' = [job EXCEPT ![t].todo = @ \ {a}]
  /\ UNCHANGED <<lake, rows, view, beaten, core, starts, failures, reboots>>

AllUpserted(t) ==
  /\ job[t].at = "upsert"
  /\ job[t].todo = {}
  /\ job' = [job EXCEPT ![t].at = "record", ![t].todo = job[t].results]
  /\ UNCHANGED <<lake, rows, analysed, view, beaten, core, starts, failures, reboots>>

(* Keyed by the slide, a Duplicate for the refresh of an analysis. *)
RecordAnalysis(t) ==
  /\ job[t].at = "record"
  /\ \E a \in job[t].todo : LET o == Recorded(a[1]) IN
       /\ lake' = lake \cup {o}
       /\ rows' = IF o \in lake THEN rows ELSE rows \cup {o}
       /\ job' = [job EXCEPT ![t].todo = @ \ {a}, ![t].mine = @ \cup {o}]
  /\ UNCHANGED <<analysed, view, beaten, core, starts, failures, reboots>>

(* Inserting the row fails: the sync returns and the lake keeps the entry. *)
LeakAnalysis(t) ==
  /\ job[t].at = "record"
  /\ failures < MaxFailures
  /\ \E a \in job[t].todo :
       Recorded(a[1]) \notin lake /\ lake' = lake \cup {Recorded(a[1])}
  /\ core' = NoOne
  /\ job' = [job EXCEPT ![t] = Idle]
  /\ failures' = failures + 1
  /\ UNCHANGED <<rows, analysed, view, beaten, starts, reboots>>

(* should_rebuild_snapshot || slide_analyses > 0 *)
ShouldRebuild(t) == job[t].ingested \/ job[t].results # {}

RebuildSnapshot(t) ==
  /\ job[t].at = "record"
  /\ job[t].todo = {}
  /\ view' = IF ShouldRebuild(t) THEN Built ELSE view
  /\ core' = NoOne
  /\ job' = [job EXCEPT ![t].at = "notion"]
  /\ UNCHANGED <<lake, rows, analysed, beaten, starts, failures, reboots>>

(* The write-back, without the mutex, and the report. *)
WriteBack(t) ==
  /\ job[t].at = "notion"
  /\ job' = [job EXCEPT ![t] = Idle]
  /\ UNCHANGED <<lake, rows, analysed, view, beaten, core, starts, failures, reboots>>

(* Any call fails and the sync returns, giving the mutex back. *)
Fail(t) ==
  /\ job[t].at # "idle"
  /\ failures < MaxFailures
  /\ core' = IF core = t THEN NoOne ELSE core
  /\ job' = [job EXCEPT ![t] = Idle]
  /\ failures' = failures + 1
  /\ UNCHANGED <<lake, rows, analysed, view, beaten, starts, reboots>>

(* The process dies and starts again: AppCore::new replays and rebuilds.   *)
Reboot ==
  /\ reboots < MaxReboots
  /\ lake' = rows
  /\ view' = [obs |-> rows, supp |-> analysed]
  /\ core' = NoOne
  /\ job' = [t \in Syncer |-> Idle]
  /\ reboots' = reboots + 1
  /\ UNCHANGED <<rows, analysed, beaten, starts, failures>>

Work(t) ==
  \/ \E i \in Item : IngestItem(t, i)
  \/ Heartbeat(t) \/ EnterTail(t) \/ Analyse(t)
  \/ UpsertAnalysis(t) \/ AllUpserted(t) \/ RecordAnalysis(t)
  \/ RebuildSnapshot(t) \/ WriteBack(t)

Next ==
  \/ Tick \/ Reboot
  \/ \E t \in Syncer : StartSync(t) \/ Work(t) \/ LeakAnalysis(t) \/ Fail(t)

Spec == Init /\ [][Next]_vars

(* Minutes pass, calls return, and the polling task syncs again and again. *)
FairSpec ==
  /\ Spec
  /\ WF_vars(Tick)
  /\ WF_vars(StartSync(Polling))
  /\ \A t \in Syncer : WF_vars(Work(t))

-----------------------------------------------------------------------------
(* The mutex is held exactly by the thread in its tail; the snapshot shows *)
(* nothing the lake and the store do not have, and no analysis of a slide  *)
(* it does not show.                                                       *)
TypeOK ==
  /\ rows \subseteq lake
  /\ lake \subseteq {Observed(i) : i \in Item} \cup {Recorded(i) : i \in Slide}
  /\ \A a \in analysed : Observed(a[1]) \in rows
  /\ view.obs \subseteq lake /\ view.supp \subseteq analysed
  /\ \A a \in view.supp : Observed(a[1]) \in view.obs
  /\ beaten \subseteq Sources
  /\ \A t \in Syncer : job[t].at \in Tail <=> core = t

(* A sync that gets to its write-back has everything it ingested, recorded *)
(* and analysed in the snapshot it writes from, whoever else was syncing.  *)
SyncIsProjected ==
  \A t \in Syncer :
    job[t].at = "notion" => job[t].mine \subseteq view.obs /\ job[t].results \subseteq view.supp

(* Once nothing new arrives, no analysis is due and calls stop failing the *)
(* snapshot is current for good, though what a failed sync ingested is no reason for any later *)
(* one to rebuild: the heartbeat of a new minute is.                       *)
SnapshotCatchesUp == <>[](view = Built)

=============================================================================
