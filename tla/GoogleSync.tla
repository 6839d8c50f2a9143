------------------------------- MODULE GoogleSync -------------------------------
(***************************************************************************)
(* Capturing a Google Slides presentation (the presentation loop of        *)
(* sync_all, src/self_host/app.rs:482-536).                                *)
(*                                                                         *)
(* A sync lists the revisions Drive still keeps, page by page, picks the   *)
(* newest one after its cursor, fetches the presentation and renders its   *)
(* first slide, both as they are at that moment, files them under the      *)
(* revision it picked, and saves that revision as the cursor.  People edit *)
(* and Drive purges revisions meanwhile; several syncs may run, and any of *)
(* them may fail between two calls.                                        *)
(*                                                                         *)
(* Revisions are numbered in the order of their modified times; the        *)
(* content at a moment is named by the newest revision.                    *)
(***************************************************************************)
EXTENDS FiniteSets, CapturedRevisions

CONSTANTS Syncer,       \* threads that run sync_all
          Polling,      \* the one that syncs again and again
          PageSize,     \* revisions per page of the listing
          MaxRevision,  \* bound on revisions
          MaxFailures,  \* bound on failing syncs
          MaxStarts     \* bound on syncs other than Polling's

ASSUME SyncerAssumption ==
  /\ Polling \in Syncer
  /\ PageSize \in Nat \ {0}
  /\ MaxRevision \in Nat \ {0}

VARIABLES head,      \* newest revision of the presentation
          kept,      \* the revisions Drive lists
          job,       \* what each syncer is doing
          failures, starts

vars == <<head, kept, captured, cursor, finished, job, failures, starts>>

Revision == 1..MaxRevision

Idle == [at |-> "idle", began |-> NoRevision, last |-> NoRevision, seen |-> {},
         rev |-> NoRevision, native |-> NoRevision, rendered |-> NoRevision]

-----------------------------------------------------------------------------
(* Plausible faults, swapped in one at a time by the mutant runs. *)
AfterKeptCursor(revisions, last) == {r \in revisions : last \in revisions /\ r > last}
FirstPageIsLast(seen) == TRUE
GetPresentationOnce(s) ==
  /\ job[s].at = "get"
  /\ \E native \in IF captured = {} THEN {head} ELSE {o.native : o \in captured} :
       job' = [job EXCEPT ![s].at = "render", ![s].native = native]
  /\ UNCHANGED <<head, kept, captured, cursor, finished, failures, starts>>
SkipUnrendered(s) ==
  /\ job[s].at = "render"
  /\ \E at \in {"ingest", "save"} :
       job' = [job EXCEPT ![s].at = at, ![s].rendered = head]
  /\ UNCHANGED <<head, kept, captured, cursor, finished, failures, starts>>

-----------------------------------------------------------------------------
(* revisions_after_cursor; all of them without a cursor, or with one Drive *)
(* does not list any more (should_reset).                                  *)
AfterCursor(revisions, last) ==
  IF last \in revisions THEN {r \in revisions : r > last} ELSE revisions

LatestToCapture(r, revisions) == r \in revisions /\ \A q \in revisions : q <= r

(* The page of the listing that follows the revisions already seen.        *)
Page(seen) ==
  LET rest == {r \in kept : \A q \in seen : r > q}
  IN  {r \in rest : Cardinality({q \in rest : q < r}) < PageSize}
IsLastPage(seen) == \A r \in kept : \E q \in seen \cup Page(seen) : r <= q

-----------------------------------------------------------------------------
Init ==
  /\ head = 1
  /\ kept = {1}
  /\ captured = {}
  /\ cursor = NoRevision
  /\ finished = NoRevision
  /\ job = [s \in Syncer |-> Idle]
  /\ failures = 0
  /\ starts = 0

Edit ==
  /\ head < MaxRevision
  /\ head' = head + 1
  /\ kept' = kept \cup {head + 1}
  /\ UNCHANGED <<captured, cursor, finished, job, failures, starts>>

Purge(r) ==
  /\ r \in kept \ {head}
  /\ kept' = kept \ {r}
  /\ UNCHANGED <<head, captured, cursor, finished, job, failures, starts>>

(* The sync reaches the presentation and reads its cursor. *)
StartSync(s) ==
  /\ job[s].at = "idle"
  /\ IF s = Polling THEN UNCHANGED starts ELSE starts < MaxStarts /\ starts' = starts + 1
  /\ job' = [job EXCEPT ![s] = [Idle EXCEPT !.at = "list", !.began = head, !.last = cursor]]
  /\ UNCHANGED <<head, kept, captured, cursor, finished, failures>>

(* The sync is through with the presentation. *)
Finish(s) ==
  /\ finished' = IF finished < job[s].began THEN job[s].began ELSE finished
  /\ job' = [job EXCEPT ![s] = Idle]

(* One page of revisions; after the last one, the revision to capture, or  *)
(* nothing: the presentation is skipped.                                   *)
ListRevisions(s) ==
  /\ job[s].at = "list"
  /\ LET seen == job[s].seen \cup Page(job[s].seen)
         fresh == AfterCursor(seen, job[s].last)
     IN  \/ /\ ~ IsLastPage(job[s].seen)
            /\ job' = [job EXCEPT ![s].seen = seen]
            /\ UNCHANGED finished
         \/ /\ IsLastPage(job[s].seen)
            /\ fresh = {}
            /\ Finish(s)
         \/ /\ IsLastPage(job[s].seen)
            /\ \E r \in fresh :
                 /\ LatestToCapture(r, fresh)
                 /\ job' = [job EXCEPT ![s] = [Idle EXCEPT !.at = "get", !.began = job[s].began,
                                                           !.rev = r]]
            /\ UNCHANGED finished
  /\ UNCHANGED <<head, kept, captured, cursor, failures, starts>>

GetPresentation(s) ==
  /\ job[s].at = "get"
  /\ job' = [job EXCEPT ![s].at = "render", ![s].native = head]
  /\ UNCHANGED <<head, kept, captured, cursor, finished, failures, starts>>

RenderSlide(s) ==
  /\ job[s].at = "render"
  /\ job' = [job EXCEPT ![s].at = "ingest", ![s].rendered = head]
  /\ UNCHANGED <<head, kept, captured, cursor, finished, failures, starts>>

(* ingest_draft(map_revision): keyed by the revision, once. *)
Ingest(s) ==
  /\ job[s].at = "ingest"
  /\ captured' = IF \E o \in captured : o.rev = job[s].rev THEN captured
                 ELSE captured \cup {Snapshot(job[s].rev, job[s].native, job[s].rendered)}
  /\ job' = [job EXCEPT ![s].at = "save"]
  /\ UNCHANGED <<head, kept, cursor, finished, failures, starts>>

SaveCursor(s) ==
  /\ job[s].at = "save"
  /\ cursor' = job[s].rev
  /\ Finish(s)
  /\ UNCHANGED <<head, kept, captured, failures, starts>>

(* A call fails, or the process dies: the sync ends where it is. *)
Fail(s) ==
  /\ job[s].at # "idle"
  /\ failures < MaxFailures
  /\ job' = [job EXCEPT ![s] = Idle]
  /\ failures' = failures + 1
  /\ UNCHANGED <<head, kept, captured, cursor, finished, starts>>

Step(s) ==
  \/ StartSync(s)
  \/ ListRevisions(s)
  \/ GetPresentation(s)
  \/ RenderSlide(s)
  \/ Ingest(s)
  \/ SaveCursor(s)

Next ==
  \/ Edit
  \/ \E r \in Revision : Purge(r)
  \/ \E s \in Syncer : Step(s) \/ Fail(s)

Spec == Init /\ [][Next]_vars

(* spawn_polling_task syncs again and again. *)
FairSpec == Spec /\ WF_vars(Step(Polling))

-----------------------------------------------------------------------------
(* What is captured, and what a sync has seen, is of revisions there are.   *)
TypeOK ==
  /\ head \in Revision
  /\ kept \subseteq 1..head /\ head \in kept
  /\ captured \subseteq [rev : Revision, native : Revision, rendered : Revision]
  /\ cursor \in 0..head /\ finished \in 0..head
  /\ \A s \in Syncer :
       /\ job[s].at \in {"idle", "list", "get", "render", "ingest", "save"}
       /\ job[s].at \in {"get", "render", "ingest", "save"} <=> job[s].rev # NoRevision
       /\ job[s].began \in 0..head /\ job[s].last \in 0..head /\ job[s].seen \subseteq 1..head
       /\ job[s].rev \in 0..head
       /\ job[s].native \in 0..head /\ job[s].rendered \in 0..head

(* Once editing stops, polling captures the newest revision with its own   *)
(* content.                                                                *)
LatestGetsCaptured ==
  head = MaxRevision ~>
    \E o \in captured : o = Snapshot(MaxRevision, MaxRevision, MaxRevision)
=============================================================================
