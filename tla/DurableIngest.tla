---------------------------- MODULE DurableIngest ----------------------------
(***************************************************************************)
(* How an observation becomes durable (src/self_host/app.rs: store_blob,   *)
(* ingest_draft and the analysis tail of sync_all; persistence.rs; the     *)
(* bootstrap in AppCore::new).  Every running process (the server and the  *)
(* lethe-notion-review command are two) keeps its own lake and blob store  *)
(* in memory; all of them share one SQLite file and one blob directory.    *)
(*                                                                         *)
(* A worker is a thread running sync_all; its job is the draft it is       *)
(* turning into an observation, the attachments it still has to store, and *)
(* the id of the observation it has appended to the lake but not yet       *)
(* inserted in the table (0: none).  In between it holds the core mutex of *)
(* its process, which keeps out the process's other threads, not the other *)
(* processes.  store_blob is one step with one disjunct per outcome: what  *)
(* the other process could do in the middle of it, it can do before it.    *)
(*                                                                         *)
(* Recorded time is a logical clock that moves with every append, and the  *)
(* id of an observation (UUID v7, time ordered) is its recorded time: so   *)
(* ORDER BY recorded_at, id is the order of the ids.                       *)
(***************************************************************************)
EXTENDS LakeStore

CONSTANTS Instance,      \* processes that open the database
          Worker,        \* threads that sync
          InstanceOf,    \* the process a worker runs in
          Blob,          \* attachment contents, named by their hash
          Draft,         \* the observation drafts the adapters build
          NoDraft,       \* a worker has no draft in hand
          MaxClockSkew,  \* MAX_CLOCK_SKEW
          MaxClock       \* bound on the clock

Route == {"crawler", "analysis"}

ASSUME InstanceOfAssumption == InstanceOf \in [Worker -> Instance]
ASSUME DraftAssumption ==
  /\ Draft \subseteq
       [key : Key, blobs : SUBSET Blob, published : Nat, route : Route]
  /\ NoDraft \notin Draft
ASSUME RouteAssumption ==      \* the adapters' key formats never collide
  \A d, e \in Draft : d.key = e.key => d.route = e.route
ASSUME ClockAssumption == MaxClockSkew \in Nat /\ MaxClock \in Nat \ {0}

VARIABLES up,        \* the processes that run
          lake,      \* AppCore.lake of each process
          blobs,     \* AppCore.blobs of each process: the contents it holds
          rows,      \* the observations table
          file,      \* the blob directory: none, torn or whole, per content
          blobRows,  \* the blobs table
          job,       \* what each worker is doing
          told,      \* keys an ingest call reported Ingested or Duplicate
          clock

memory == <<up, lake, blobs>>
disk == <<rows, file, blobRows>>
vars == <<memory, disk, job, told, clock>>

Observation == [id : Nat, key : Key, blobs : SUBSET Blob, route : Route]

Idle == [draft |-> NoDraft, todo |-> {}, pending |-> 0]

RowSet == {rows[n] : n \in 1..Len(rows)}

KeysOfRoute(r) == {d.key : d \in {e \in Draft : e.route = r}}

Pending(w) == job[w].pending # 0

(* The core mutex of the process is free. *)
CoreFree(i) == \A w \in Worker : InstanceOf[w] = i => ~Pending(w)

(* w has a draft in hand and can take the core mutex. *)
Busy(w) ==
  /\ InstanceOf[w] \in up
  /\ job[w].draft # NoDraft
  /\ CoreFree(InstanceOf[w])

Done(w) == job' = [job EXCEPT ![w] = Idle]

-----------------------------------------------------------------------------
(* Plausible faults, swapped in one at a time by the mutant runs. *)
BuiltWithoutKey(d) ==
  [id |-> clock, key |-> NoKey, blobs |-> d.blobs, route |-> d.route]
NoUniqueIndex(k) == TRUE
InsertOrReplace(w) ==
  LET obs == CHOOSE o \in Contents(lake[InstanceOf[w]]) : o.id = job[w].pending
  IN  /\ Pending(w)
      /\ rows' = Append(SelectSeq(rows, LAMBDA r : r.key # obs.key), obs)
      /\ UNCHANGED <<file, blobRows, clock>>
StoreBlobUnregistered(w, b) ==
  /\ Busy(w) /\ b \in job[w].todo
  /\ blobs' = [blobs EXCEPT ![InstanceOf[w]] = @ \cup {b}]
  /\ file' = [file EXCEPT ![b] = IF @ = "none" THEN "whole" ELSE @]
  /\ job' = [job EXCEPT ![w].todo = @ \ {b}]
  /\ UNCHANGED <<up, lake, rows, blobRows, told, clock>>
RollBackNothing(w) ==
  /\ Pending(w) /\ job[w].draft.route = "crawler"
  /\ Done(w)
  /\ UNCHANGED <<memory, disk, told, clock>>
RollBackAndTell(w) ==
  /\ Pending(w) /\ job[w].draft.route = "crawler"
  /\ lake' = [lake EXCEPT ![InstanceOf[w]] = RollbackLastAppend(@, job[w].pending)]
  /\ told' = told \cup {job[w].draft.key}
  /\ Done(w)
  /\ UNCHANGED <<up, blobs, disk, clock>>

-----------------------------------------------------------------------------
(* IngestionGate::ingest: the checks an adapter's draft can fail (those on *)
(* the registry are module IngestionGate's subject).                       *)
Admits(i, d) ==
  /\ d.blobs \subseteq blobs[i]
  /\ d.published <= clock + MaxClockSkew

Built(d) == [id |-> clock, key |-> d.key, blobs |-> d.blobs, route |-> d.route]

(* The result of lake.append inside the gate. *)
Appended(w) == LakeAppend(lake[InstanceOf[w]], Built(job[w].draft))

(* Ready to call ingest: every attachment is stored. *)
Ready(w) == Busy(w) /\ job[w].todo = {}

(* The observation w appended and has to persist. *)
InHand(w) ==
  CHOOSE o \in Contents(lake[InstanceOf[w]]) : o.id = job[w].pending

(* The UNIQUE constraint on idempotency_key lets this key in. *)
KeyFree(k) == \A n \in 1..Len(rows) : rows[n].key # k

(* The table as SELECT ... ORDER BY recorded_at, id lists it (id is its     *)
(* primary key).                                                           *)
IsListing(s) ==
  /\ {s[n] : n \in 1..Len(rows)} = RowSet
  /\ \A m, n \in 1..Len(rows) : m < n => s[m].id < s[n].id

(* load_blobs: a torn file is read too, under the hash of what is left.    *)
Readable == {b \in blobRows : file[b] = "whole"}

-----------------------------------------------------------------------------
Init ==
  /\ up = Instance
  /\ lake = [i \in Instance |-> EmptyLake]
  /\ blobs = [i \in Instance |-> {}]
  /\ rows = <<>>
  /\ file = [b \in Blob |-> "none"]
  /\ blobRows = {}
  /\ job = [w \in Worker |-> Idle]
  /\ told = {}
  /\ clock = 1

(* A sync has fetched something and mapped it to a draft. *)
Begin(w, d) ==
  /\ InstanceOf[w] \in up
  /\ job[w] = Idle
  /\ job' = [job EXCEPT ![w] = [draft |-> d, todo |-> d.blobs, pending |-> 0]]
  /\ UNCHANGED <<memory, disk, told, clock>>

(* blobs.put, which store_blob does before it asks the disk. *)
PutInMemory(w, b) ==
  /\ Busy(w)
  /\ b \in job[w].todo
  /\ blobs' = [blobs EXCEPT ![InstanceOf[w]] = @ \cup {b}]
  /\ UNCHANGED <<up, lake, rows, told, clock>>

(* fs::write, when there is no such file: it ends as one of these states. *)
WriteFile(b, outcomes) ==
  \E f \in IF file[b] = "none" THEN outcomes ELSE {file[b]} :
    file' = [file EXCEPT ![b] = f]

(* store_blob succeeds. *)
StoreBlob(w, b) ==
  /\ PutInMemory(w, b)
  /\ WriteFile(b, {"whole"})
  /\ blobRows' = blobRows \cup {b}
  /\ job' = [job EXCEPT ![w].todo = @ \ {b}]

(* store_blob fails, at the write or at the row, and the sync with it. *)
StoreBlobFails(w, b) ==
  /\ PutInMemory(w, b)
  /\ WriteFile(b, {"none", "torn", "whole"})
  /\ Done(w)
  /\ UNCHANGED blobRows

(* Rejected or Quarantined: the sync ends with an error. *)
RefuseDraft(w) ==
  /\ Ready(w)
  /\ ~Admits(InstanceOf[w], job[w].draft)
  /\ Done(w)
  /\ UNCHANGED <<memory, disk, told, clock>>

(* Duplicate: reported as success, nothing is persisted. *)
IngestDuplicate(w) ==
  /\ Ready(w)
  /\ Admits(InstanceOf[w], job[w].draft)
  /\ ~Appended(w).appended
  /\ told' = told \cup {job[w].draft.key}
  /\ Done(w)
  /\ UNCHANGED <<memory, disk, clock>>

(* The gate appends; from here to the database's answer w holds the core.  *)
AppendToLake(w) ==
  /\ Ready(w)
  /\ clock < MaxClock
  /\ Admits(InstanceOf[w], job[w].draft)
  /\ Appended(w).appended
  /\ lake' = [lake EXCEPT ![InstanceOf[w]] = Appended(w).lake]
  /\ job' = [job EXCEPT ![w].pending = clock]
  /\ clock' = clock + 1
  /\ UNCHANGED <<up, blobs, disk, told>>

(* persist_observation inserts the row. *)
InsertRow(w) ==
  /\ Pending(w)
  /\ KeyFree(InHand(w).key)
  /\ rows' = Append(rows, InHand(w))
  /\ UNCHANGED <<file, blobRows, clock>>

Persist(w) ==
  /\ InsertRow(w)
  /\ told' = told \cup {job[w].draft.key}
  /\ Done(w)
  /\ UNCHANGED memory

(* persist_observation fails: the key is taken, or the database is.  The   *)
(* crawler's route, ingest_draft, takes the append back ...                *)
RollBack(w) ==
  /\ Pending(w)
  /\ job[w].draft.route = "crawler"
  /\ lake' = [lake EXCEPT ![InstanceOf[w]] = RollbackLastAppend(@, job[w].pending)]
  /\ Done(w)
  /\ UNCHANGED <<up, blobs, disk, told, clock>>

(* ... the analysis tail of sync_all only returns the error. *)
LeaveAppended(w) ==
  /\ Pending(w)
  /\ job[w].draft.route = "analysis"
  /\ Done(w)
  /\ UNCHANGED <<memory, disk, told, clock>>

(* The process dies: its memory and its threads are gone. *)
Down(i) ==
  /\ i \in up
  /\ up' = up \ {i}
  /\ lake' = [lake EXCEPT ![i] = EmptyLake]
  /\ blobs' = [blobs EXCEPT ![i] = {}]
  /\ job' = [w \in Worker |-> IF InstanceOf[w] = i THEN Idle ELSE job[w]]

Crash(i) ==
  /\ Down(i)
  /\ UNCHANGED <<disk, told, clock>>

(* It dies after the row is committed and before anybody is told ... *)
CrashAfterCommit(w) ==
  /\ InsertRow(w)
  /\ Down(InstanceOf[w])
  /\ UNCHANGED told

(* ... or inside store_blob, with part or all of the file written. *)
CrashInStoreBlob(w, b) ==
  /\ Busy(w)
  /\ b \in job[w].todo
  /\ file[b] = "none"
  /\ WriteFile(b, {"torn", "whole"})
  /\ Down(InstanceOf[w])
  /\ UNCHANGED <<rows, blobRows, told, clock>>

(* AppCore::new fails on a repeated key, and load_blobs on a missing file. *)
BootstrapAccepts ==
  /\ \A m, n \in 1..Len(rows) : rows[m].key = rows[n].key => m = n
  /\ \A b \in blobRows : file[b] # "none"

(* AppService::bootstrap *)
Restart(i) ==
  /\ i \notin up
  /\ BootstrapAccepts
  /\ \E s \in [1..Len(rows) -> RowSet] :
       IsListing(s) /\ lake' = [lake EXCEPT ![i] = Replayed(s)]
  /\ blobs' = [blobs EXCEPT ![i] = Readable]
  /\ up' = up \cup {i}
  /\ UNCHANGED <<disk, job, told, clock>>

(* Time passes. *)
Tick ==
  /\ clock < MaxClock
  /\ clock' = clock + 1
  /\ UNCHANGED <<memory, disk, job, told>>

WorkerStep(w) ==
  \/ \E d \in Draft : Begin(w, d)
  \/ \E b \in Blob : StoreBlob(w, b) \/ StoreBlobFails(w, b) \/ CrashInStoreBlob(w, b)
  \/ RefuseDraft(w)
  \/ IngestDuplicate(w)
  \/ AppendToLake(w)
  \/ Persist(w)
  \/ RollBack(w)
  \/ LeaveAppended(w)
  \/ CrashAfterCommit(w)

Next ==
  \/ \E w \in Worker : WorkerStep(w)
  \/ \E i \in Instance : Crash(i) \/ Restart(i)
  \/ Tick

Spec == Init /\ [][Next]_vars

-----------------------------------------------------------------------------
Job ==
  [draft : Draft \cup {NoDraft}, todo : SUBSET Blob, pending : Nat]

(* Crash, every crash inside a handler included, takes all of a process.   *)
DownIsEmpty ==
  /\ \A i \in Instance \ up : lake[i] = EmptyLake /\ blobs[i] = {}
  /\ \A w \in Worker : InstanceOf[w] \notin up => job[w] = Idle

(* Processes hold lakes and blobs, the database rows and files; a process  *)
(* that is down holds nothing and runs no job.                             *)
TypeOK ==
  /\ up \subseteq Instance
  /\ DOMAIN lake = Instance
  /\ \A i \in Instance : lake[i].observations \in Seq(Observation)
  /\ blobs \in [Instance -> SUBSET Blob]
  /\ rows \in Seq(Observation)
  /\ file \in [Blob -> {"none", "torn", "whole"}]
  /\ blobRows \subseteq Blob
  /\ job \in [Worker -> Job]
  /\ told \subseteq Key
  /\ clock \in 1..MaxClock
  /\ DownIsEmpty

(* The dedup index of every lake stays exact through appends, roll-backs   *)
(* and replays, so deduplication in memory never misses and never invents. *)
LakesWellFormed == \A i \in Instance : WellFormed(lake[i])

(* What the adapters captured is durable: an observation of theirs in any  *)
(* process's lake has its row, unless its thread is just persisting it.    *)
(* So no roll-back is lost, and answering Duplicate from memory is safe.   *)
CapturedIsDurable ==
  \A i \in Instance : \A o \in Contents(lake[i]) :
    \/ o.route = "analysis"
    \/ o \in RowSet
    \/ \E w \in Worker : InstanceOf[w] = i /\ job[w].pending = o.id

(* A crash at any moment leaves a database that the next bootstrap takes:  *)
(* it never finds a repeated key or a registered blob without its file.    *)
CanRestart == BootstrapAccepts

(* An attachment of an observation held in memory or in the database can   *)
(* only be missing because its file was torn: store_blob completes before  *)
(* the observation that refers to it exists, in whichever process that is. *)
AttachmentsKept ==
  /\ \A i \in Instance : \A o \in Contents(lake[i]) : \A b \in o.blobs :
       b \in blobs[i] \/ (b \in blobRows /\ file[b] = "torn")
  /\ \A o \in RowSet : o.blobs \subseteq blobRows

(* Durable observations are never changed or removed, and a running        *)
(* process never drops one from its lake: what RollBack pops is its own.   *)
NoDurableLoss ==
  [][/\ RowSet \subseteq RowSet'
     /\ \A i \in up \cap up' :
          Contents(lake[i]) \cap RowSet \subseteq Contents(lake'[i])]_vars

(* Every run is one of the log of keys that CaptureLog promises: a key is  *)
(* captured once, and a sync counts it as ingested or duplicate only then. *)
Capture == INSTANCE CaptureLog WITH
  log <- [n \in 1..Len(rows) |-> rows[n].key],
  told <- told \cap KeysOfRoute("crawler")
ImplementsCaptureLog == Capture!Spec

(* README.md:152: when persisting fails after the append, the append is    *)
(* rolled back and no difference between RAM and database remains (seen    *)
(* whenever the core mutex is free; for one process, alone on its files).  *)
RamMatchesDisk ==
  \A i \in up : CoreFree(i) => Contents(lake[i]) = RowSet
=============================================================================
