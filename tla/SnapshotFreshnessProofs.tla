------------------------ MODULE SnapshotFreshnessProofs ------------------------
(***************************************************************************)
(* Safety of SnapshotFreshness for any syncers, items, slides and bounds.  *)
(*                                                                         *)
(* SyncIsProjected speaks of syncs at their write-back; it is inductive    *)
(* only with what they carry there: what a sync calls its own is in the    *)
(* lake, is a reason to rebuild, and its results are analysed by the time  *)
(* it records them.  The items of the lake are in the table, which is why  *)
(* a restart takes nothing from under an analysis.                         *)
(***************************************************************************)
EXTENDS SnapshotFreshness, CapturedRevisions, TLAPS

Observations == {Observed(i) : i \in Item} \cup {Recorded(i) : i \in Slide}

Jobs ==
  [at : {"idle", "slack", "google", "lock", "analyse", "upsert", "record", "notion"},
   mine : SUBSET Observations, results : SUBSET Analysis, todo : SUBSET Analysis, ingested : BOOLEAN]

(* What a sync carries with it, given the lake l, the analyses s and the
   snapshot v. *)
Carries(j, l, s, v) ==
  /\ j.mine \subseteq l
  /\ j.mine # {} => j.ingested \/ j.results # {}
  /\ j.todo \subseteq j.results
  /\ j.results # {} => j.at \in {"upsert", "record", "notion"}
  /\ \A a \in j.results : Observed(a[1]) \in l
  /\ j.at = "upsert" => j.results \ j.todo \subseteq s
  /\ j.at \in {"record", "notion"} => j.results \subseteq s
  /\ j.at = "notion" => j.mine \subseteq v.obs /\ j.results \subseteq v.supp

(* The lake, the table, the records and the snapshot: every item of the lake is in
   the table. *)
DataInv ==
  /\ rows \subseteq lake /\ lake \subseteq Observations
  /\ \A i \in Item : Observed(i) \in lake => Observed(i) \in rows
  /\ analysed \subseteq Analysis /\ \A a \in analysed : Observed(a[1]) \in rows
  /\ view \in [obs : SUBSET lake, supp : SUBSET analysed]
  /\ \A a \in view.supp : Observed(a[1]) \in view.obs

MutexInv == \A t \in Syncer : job[t].at \in Tail <=> core = t

JobsInv == job \in [Syncer -> Jobs] /\ \A t \in Syncer : Carries(job[t], lake, analysed, view)

IInv == DataInv /\ beaten \subseteq Sources /\ MutexInv /\ JobsInv

USE SyncerAssumption

LEMMA IdleFits ==
  /\ Idle \in Jobs /\ Idle.at \notin Tail
  /\ \A l, a, v : Carries(Idle, l, a, v)
  BY DEF Idle, Jobs, Carries, Tail

LEMMA InitInv == Init => IInv
<1> SUFFICES ASSUME Init PROVE IInv
  OBVIOUS
<1>1. DataInv /\ beaten \subseteq Sources
  BY DEF Init, DataInv
<1>2. \A t \in Syncer : job[t] = Idle
  BY DEF Init
<1>3. MutexInv
  BY <1>2, IdleFits DEF Init, MutexInv
<1>4. JobsInv
  BY <1>2, IdleFits DEF Init, JobsInv
<1> QED
  BY <1>1, <1>3, <1>4 DEF IInv

(* Nothing a sync carries is lost while the lake, the records and the snapshot
   only grow. *)
LEMMA CarriesGrows ==
  ASSUME NEW j, NEW l, NEW a, NEW v, NEW m, NEW b, NEW w, Carries(j, l, a, v),
         l \subseteq m, a \subseteq b, v.obs \subseteq w.obs, v.supp \subseteq w.supp
  PROVE  Carries(j, m, b, w)
  BY DEF Carries

(* A step of t that moves the mutex with t's phase and makes the data only grow. *)
Grows == /\ lake \subseteq lake' /\ analysed \subseteq analysed'
         /\ view.obs \subseteq view'.obs /\ view.supp \subseteq view'.supp

LEMMA JobStep ==
  ASSUME IInv, NEW t \in Syncer, NEW j \in Jobs, Grows,
         Carries(j, lake', analysed', view'),
         job' = [job EXCEPT ![t] = j],
         \/ j.at \in Tail /\ core' = t /\ (core = t \/ Free)
         \/ j.at \notin Tail /\ core' = IF core = t THEN NoOne ELSE core
  PROVE  JobsInv' /\ MutexInv'
<1>1. \A s \in Syncer : job'[s] = IF s = t THEN j ELSE job[s]
  BY DEF IInv, JobsInv
<1>2. job' \in [Syncer -> Jobs]
  BY DEF IInv, JobsInv
<1>3. ASSUME NEW s \in Syncer PROVE Carries(job'[s], lake', analysed', view')
  <2>1. CASE s = t
    BY <1>1, <2>1
  <2>2. CASE s # t
    <3>1. Carries(job[s], lake, analysed, view) /\ job'[s] = job[s]
      BY <1>1, <2>2 DEF IInv, JobsInv
    <3> QED
      BY <3>1, CarriesGrows DEF Grows
  <2> QED
    BY <2>1, <2>2
<1>4. MutexInv'
  <2>1. \A s \in Syncer : job[s].at \in Tail <=> core = s
    BY DEF IInv, MutexInv
  <2>2. ASSUME NEW s \in Syncer PROVE job'[s].at \in Tail <=> core' = s
    BY <1>1, <2>1 DEF Free
  <2> QED
    BY <2>2 DEF MutexInv
<1> QED
  BY <1>2, <1>3, <1>4 DEF JobsInv

-----------------------------------------------------------------------------
LEMMA StartSyncInv ==
  ASSUME IInv, NEW t \in Syncer, StartSync(t)
  PROVE  IInv'
<1> DEFINE j == [Idle EXCEPT !.at = "slack"]
<1>1. j \in Jobs /\ j.at \notin Tail /\ Carries(j, lake', analysed', view')
  BY DEF Idle, Jobs, Tail, Carries
<1>2. core # t
  BY DEF IInv, MutexInv, StartSync, Tail
<1>3. JobsInv' /\ MutexInv'
  <2>1. job' = [job EXCEPT ![t] = j] /\ Grows /\ core' = core
    BY DEF StartSync, Grows
  <2> HIDE DEF j
  <2> QED
    BY <1>1, <1>2, <2>1, JobStep
<1>4. DataInv' /\ (beaten \subseteq Sources)'
  BY DEF StartSync, IInv, DataInv
<1> QED
  BY <1>3, <1>4 DEF IInv

LEMMA IngestItemInv ==
  ASSUME IInv, NEW t \in Syncer, NEW i \in Item, IngestItem(t, i)
  PROVE  IInv'
<1> DEFINE j == [job[t] EXCEPT !.ingested = TRUE, !.mine = @ \cup {Observed(i)}]
<1>1. job[t] \in Jobs /\ Carries(job[t], lake, analysed, view)
  BY DEF IInv, JobsInv
<1>2. lake' = lake \cup {Observed(i)} /\ rows' = rows \cup {Observed(i)}
        /\ UNCHANGED <<analysed, view, beaten, core>> /\ Grows
  BY DEF IngestItem, Grows
<1>3. /\ j \in Jobs /\ j.at = job[t].at /\ j.ingested = TRUE
      /\ j.mine = job[t].mine \cup {Observed(i)}
      /\ j.results = job[t].results /\ j.todo = job[t].todo
  BY <1>1 DEF Jobs, Observations
<1>4. j.at \notin Tail /\ job[t].at \in Sources /\ core # t
  BY <1>3 DEF IngestItem, Sources, Tail, IInv, MutexInv
<1>5. job' = [job EXCEPT ![t] = j]
  BY <1>1 DEF IngestItem, IInv, JobsInv, Jobs
<1> HIDE DEF j
<1>6. Carries(j, lake', analysed', view')
  BY <1>1, <1>2, <1>3, <1>4 DEF Carries, Sources
<1>7. JobsInv' /\ MutexInv'
  BY <1>2, <1>3, <1>4, <1>5, <1>6, JobStep
<1>8. DataInv'
  BY <1>2 DEF IInv, DataInv, Observations, Observed
<1> QED
  BY <1>2, <1>7, <1>8 DEF IInv

LEMMA HeartbeatInv ==
  ASSUME IInv, NEW t \in Syncer, Heartbeat(t)
  PROVE  IInv'
<1> DEFINE j == [job[t] EXCEPT !.at = IF @ = "slack" THEN "google" ELSE "lock",
                               !.ingested = @ \/ job[t].at \notin beaten]
<1>1. job[t] \in Jobs /\ Carries(job[t], lake, analysed, view) /\ job[t].at \in Sources
  BY DEF IInv, JobsInv, Heartbeat
<1>2. /\ j \in Jobs /\ j.at \in {"google", "lock"} /\ j.mine = job[t].mine
      /\ j.results = job[t].results /\ j.todo = job[t].todo
      /\ job[t].ingested => j.ingested
  BY <1>1 DEF Jobs, Sources
<1>3. job' = [job EXCEPT ![t] = j]
  BY <1>1 DEF Heartbeat, IInv, JobsInv, Jobs
<1> HIDE DEF j
<1>4. UNCHANGED <<lake, rows, analysed, view, core>> /\ Grows /\ beaten' \subseteq Sources
  BY <1>1 DEF Heartbeat, Grows, IInv
<1>5. Carries(j, lake', analysed', view') /\ core # t /\ j.at \notin Tail
  BY <1>1, <1>2, <1>4 DEF Carries, Sources, Tail, IInv, MutexInv
<1>6. JobsInv' /\ MutexInv'
  BY <1>2, <1>3, <1>4, <1>5, JobStep
<1> QED
  BY <1>4, <1>6 DEF IInv, DataInv

LEMMA EnterTailInv ==
  ASSUME IInv, NEW t \in Syncer, EnterTail(t)
  PROVE  IInv'
<1> DEFINE j == [job[t] EXCEPT !.at = "analyse"]
<1>1. job[t] \in Jobs /\ Carries(job[t], lake, analysed, view) /\ job[t].at = "lock"
  BY DEF IInv, JobsInv, EnterTail
<1>2. /\ j \in Jobs /\ j.at = "analyse" /\ j.mine = job[t].mine
      /\ j.results = job[t].results /\ j.todo = job[t].todo /\ j.ingested = job[t].ingested
  BY <1>1 DEF Jobs
<1>3. job' = [job EXCEPT ![t] = j]
  BY DEF EnterTail
<1> HIDE DEF j
<1>4. UNCHANGED <<lake, rows, analysed, view, beaten>> /\ Grows /\ core' = t /\ Free
  BY DEF EnterTail, Grows
<1>5. Carries(j, lake', analysed', view') /\ j.at \in Tail
  BY <1>1, <1>2, <1>4 DEF Carries, Tail
<1>6. JobsInv' /\ MutexInv'
  BY <1>2, <1>3, <1>4, <1>5, JobStep
<1> QED
  BY <1>4, <1>6 DEF IInv, DataInv

LEMMA AnalyseInv ==
  ASSUME IInv, NEW t \in Syncer, Analyse(t)
  PROVE  IInv'
<1>1. job[t] \in Jobs /\ Carries(job[t], lake, analysed, view) /\ job[t].at = "analyse"
  BY DEF IInv, JobsInv, Analyse
<1>2. PICK results \in SUBSET DueAnalyses :
        job' = [job EXCEPT ![t].at = "upsert", ![t].results = results, ![t].todo = results]
  BY DEF Analyse
<1>a. results \subseteq Analysis /\ \A a \in results : Observed(a[1]) \in lake
  BY DEF DueAnalyses
<1> DEFINE j == [job[t] EXCEPT !.at = "upsert", !.results = results, !.todo = results]
<1>3. /\ j \in Jobs /\ j.at = "upsert" /\ j.mine = job[t].mine
      /\ j.results = results /\ j.todo = results /\ j.ingested = job[t].ingested
  BY <1>1, <1>a DEF Jobs
<1>4. job' = [job EXCEPT ![t] = j]
  BY <1>1, <1>2 DEF IInv, JobsInv, Jobs
<1> HIDE DEF j
<1>5. UNCHANGED <<lake, rows, analysed, view, beaten, core>> /\ Grows /\ core = t
  BY <1>1 DEF Analyse, Grows, IInv, MutexInv, Tail
<1>6. Carries(j, lake', analysed', view') /\ j.at \in Tail
  BY <1>1, <1>3, <1>5, <1>a DEF Carries, Tail
<1>7. JobsInv' /\ MutexInv'
  BY <1>3, <1>4, <1>5, <1>6, JobStep
<1> QED
  BY <1>5, <1>7 DEF IInv, DataInv

LEMMA UpsertAnalysisInv ==
  ASSUME IInv, NEW t \in Syncer, UpsertAnalysis(t)
  PROVE  IInv'
<1>1. job[t] \in Jobs /\ Carries(job[t], lake, analysed, view) /\ job[t].at = "upsert"
  BY DEF IInv, JobsInv, UpsertAnalysis
<1>2. PICK a \in job[t].todo :
        analysed' = analysed \cup {a} /\ job' = [job EXCEPT ![t].todo = @ \ {a}]
  BY DEF UpsertAnalysis
<1> DEFINE j == [job[t] EXCEPT !.todo = @ \ {a}]
<1>3. /\ j \in Jobs /\ j.at = "upsert" /\ j.mine = job[t].mine
      /\ j.results = job[t].results /\ j.todo = job[t].todo \ {a}
      /\ j.ingested = job[t].ingested
  BY <1>1 DEF Jobs
<1>4. job' = [job EXCEPT ![t] = j]
  BY <1>1, <1>2 DEF IInv, JobsInv, Jobs
<1> HIDE DEF j
<1>5. UNCHANGED <<lake, rows, view, beaten, core>> /\ Grows /\ core = t
  BY <1>1, <1>2 DEF UpsertAnalysis, Grows, IInv, MutexInv, Tail
<1>6. Carries(j, lake', analysed', view') /\ j.at \in Tail
  BY <1>1, <1>2, <1>3, <1>5 DEF Carries, Tail
<1>7. JobsInv' /\ MutexInv'
  BY <1>3, <1>4, <1>5, <1>6, JobStep
<1>8. a \in Analysis /\ a[1] \in Item /\ Observed(a[1]) \in rows
  BY <1>1, <1>2 DEF Jobs, Carries, IInv, DataInv, Analysis
<1> QED
  BY <1>2, <1>5, <1>7, <1>8 DEF IInv, DataInv

LEMMA AllUpsertedInv ==
  ASSUME IInv, NEW t \in Syncer, AllUpserted(t)
  PROVE  IInv'
<1> DEFINE j == [job[t] EXCEPT !.at = "record", !.todo = job[t].results]
<1>1. /\ job[t] \in Jobs /\ Carries(job[t], lake, analysed, view)
      /\ job[t].at = "upsert" /\ job[t].todo = {}
  BY DEF IInv, JobsInv, AllUpserted
<1>2. /\ j \in Jobs /\ j.at = "record" /\ j.mine = job[t].mine
      /\ j.results = job[t].results /\ j.todo = job[t].results /\ j.ingested = job[t].ingested
  BY <1>1 DEF Jobs
<1>3. job' = [job EXCEPT ![t] = j]
  BY <1>1 DEF AllUpserted, IInv, JobsInv, Jobs
<1> HIDE DEF j
<1>4. UNCHANGED <<lake, rows, analysed, view, beaten, core>> /\ Grows /\ core = t
  BY <1>1 DEF AllUpserted, Grows, IInv, MutexInv, Tail
<1>5. Carries(j, lake', analysed', view') /\ j.at \in Tail
  BY <1>1, <1>2, <1>4 DEF Carries, Tail
<1>6. JobsInv' /\ MutexInv'
  BY <1>2, <1>3, <1>4, <1>5, JobStep
<1> QED
  BY <1>4, <1>6 DEF IInv, DataInv

LEMMA RecordAnalysisInv ==
  ASSUME IInv, NEW t \in Syncer, RecordAnalysis(t)
  PROVE  IInv'
<1>1. job[t] \in Jobs /\ Carries(job[t], lake, analysed, view) /\ job[t].at = "record"
  BY DEF IInv, JobsInv, RecordAnalysis
<1>2. PICK a \in job[t].todo :
        /\ lake' = lake \cup {Recorded(a[1])}
        /\ rows' = IF Recorded(a[1]) \in lake THEN rows ELSE rows \cup {Recorded(a[1])}
        /\ job' = [job EXCEPT ![t].todo = @ \ {a}, ![t].mine = @ \cup {Recorded(a[1])}]
  BY DEF RecordAnalysis
<1> DEFINE i == a[1]
           j == [job[t] EXCEPT !.todo = @ \ {a}, !.mine = @ \cup {Recorded(i)}]
<1>3. i \in Slide /\ a \in job[t].results
  BY <1>1, <1>2 DEF Jobs, Carries, Analysis
<1>4. /\ j \in Jobs /\ j.at = "record" /\ j.mine = job[t].mine \cup {Recorded(i)}
      /\ j.results = job[t].results /\ j.todo = job[t].todo \ {a}
      /\ j.ingested = job[t].ingested
  BY <1>1, <1>3 DEF Jobs, Observations
<1>5. job' = [job EXCEPT ![t] = j]
  BY <1>1, <1>2 DEF IInv, JobsInv, Jobs
<1> HIDE DEF j, i
<1>6. UNCHANGED <<analysed, view, beaten, core>> /\ Grows /\ core = t
  BY <1>1, <1>2 DEF RecordAnalysis, Grows, IInv, MutexInv, Tail
<1>7. Carries(j, lake', analysed', view') /\ j.at \in Tail
  BY <1>1, <1>2, <1>3, <1>4, <1>6 DEF i, Carries, Tail
<1>8. JobsInv' /\ MutexInv'
  BY <1>4, <1>5, <1>6, <1>7, JobStep
<1>9. DataInv'
  BY <1>2, <1>3, <1>6 DEF i, IInv, DataInv, Observations, Observed, Recorded
<1> QED
  BY <1>6, <1>8, <1>9 DEF IInv

LEMMA LeakAnalysisInv ==
  ASSUME IInv, NEW t \in Syncer, LeakAnalysis(t)
  PROVE  IInv'
<1>1. job[t] \in Jobs /\ job[t].at = "record" /\ core = t
  BY DEF IInv, JobsInv, MutexInv, LeakAnalysis, Tail
<1>2. PICK a \in job[t].todo : lake' = lake \cup {Recorded(a[1])}
  BY DEF LeakAnalysis
<1>3. /\ UNCHANGED <<rows, analysed, view, beaten>> /\ Grows /\ core' = NoOne
      /\ job' = [job EXCEPT ![t] = Idle]
  BY <1>2 DEF LeakAnalysis, Grows
<1>4. JobsInv' /\ MutexInv'
  BY <1>1, <1>3, IdleFits, JobStep
<1>5. a[1] \in Slide
  BY <1>1, <1>2 DEF Jobs, Analysis
<1>6. DataInv'
  BY <1>2, <1>3, <1>5 DEF IInv, DataInv, Observations, Observed, Recorded
<1> QED
  BY <1>3, <1>4, <1>6 DEF IInv

(* The step SyncIsProjected rests on: a sync that has anything of its own rebuilds. *)
LEMMA RebuildSnapshotInv ==
  ASSUME IInv, NEW t \in Syncer, RebuildSnapshot(t)
  PROVE  IInv'
<1> DEFINE j == [job[t] EXCEPT !.at = "notion"]
<1>1. /\ job[t] \in Jobs /\ Carries(job[t], lake, analysed, view)
      /\ job[t].at = "record" /\ job[t].todo = {} /\ core = t
  BY DEF IInv, JobsInv, MutexInv, RebuildSnapshot, Tail
<1>2. /\ j \in Jobs /\ j.at = "notion" /\ j.mine = job[t].mine
      /\ j.results = job[t].results /\ j.todo = {} /\ j.ingested = job[t].ingested
  BY <1>1 DEF Jobs
<1>3. job' = [job EXCEPT ![t] = j]
  BY DEF RebuildSnapshot
<1> HIDE DEF j
<1>4. UNCHANGED <<lake, rows, analysed, beaten>> /\ core' = NoOne
  BY DEF RebuildSnapshot
<1>5. DataInv
  BY DEF IInv
<1>6. /\ view' \in [obs : SUBSET lake, supp : SUBSET analysed]
      /\ view.obs \subseteq view'.obs /\ view.supp \subseteq view'.supp
      /\ \A a \in view'.supp : Observed(a[1]) \in view'.obs
      /\ ShouldRebuild(t) => view'.obs = lake /\ view'.supp = analysed
  BY <1>5 DEF RebuildSnapshot, Built, DataInv
<1>7. Carries(j, lake', analysed', view') /\ j.at \notin Tail
  BY <1>1, <1>2, <1>4, <1>6 DEF Carries, Tail, ShouldRebuild
<1>8. JobsInv' /\ MutexInv'
  BY <1>1, <1>2, <1>3, <1>4, <1>6, <1>7, JobStep DEF Grows
<1> QED
  BY <1>4, <1>5, <1>6, <1>8 DEF IInv, DataInv

(* A sync ends, with its report or with an error: it gives back what it held. *)
LEMMA EndInv ==
  ASSUME IInv, NEW t \in Syncer, WriteBack(t) \/ Fail(t)
  PROVE  IInv'
<1>1. /\ UNCHANGED <<lake, rows, analysed, view, beaten>> /\ Grows
      /\ job' = [job EXCEPT ![t] = Idle]
  BY DEF WriteBack, Fail, Grows
<1>2. core' = IF core = t THEN NoOne ELSE core
  BY DEF WriteBack, Fail, IInv, MutexInv, Tail
<1>3. JobsInv' /\ MutexInv'
  BY <1>1, <1>2, IdleFits, JobStep
<1> QED
  BY <1>1, <1>3 DEF IInv, DataInv

LEMMA RebootInv ==
  ASSUME IInv, Reboot
  PROVE  IInv'
<1>1. /\ lake' = rows /\ view' = [obs |-> rows, supp |-> analysed]
      /\ core' = NoOne /\ UNCHANGED <<rows, analysed, beaten>>
      /\ \A t \in Syncer : job'[t] = Idle
  BY DEF Reboot
<1>2. DataInv'
  BY <1>1 DEF IInv, DataInv
<1>3. MutexInv'
  BY <1>1, IdleFits DEF MutexInv
<1>4. JobsInv'
  BY <1>1, IdleFits DEF JobsInv, Reboot
<1> QED
  BY <1>1, <1>2, <1>3, <1>4 DEF IInv

LEMMA NextInv == IInv /\ [Next]_vars => IInv'
<1> SUFFICES ASSUME IInv, [Next]_vars PROVE IInv'
  OBVIOUS
<1>1. CASE Tick
  BY <1>1 DEF Tick, IInv, DataInv, MutexInv, JobsInv
<1>2. CASE Reboot
  BY <1>2, RebootInv
<1>3. ASSUME NEW t \in Syncer, StartSync(t) \/ Work(t) \/ LeakAnalysis(t) \/ Fail(t)
      PROVE  IInv'
  BY <1>3, StartSyncInv, IngestItemInv, HeartbeatInv, EnterTailInv, AnalyseInv, UpsertAnalysisInv,
     AllUpsertedInv, RecordAnalysisInv, LeakAnalysisInv, RebuildSnapshotInv, EndInv DEF Work
<1>4. CASE UNCHANGED vars
  BY <1>4 DEF vars, IInv, DataInv, MutexInv, JobsInv
<1> QED
  BY <1>1, <1>2, <1>3, <1>4 DEF Next

LEMMA Invariance == Spec => []IInv
  BY InitInv, NextInv, PTL DEF Spec

-----------------------------------------------------------------------------
(* The snapshot shows nothing that the lake and the store do not have, and the
   mutex is held exactly by the sync in its tail. *)
THEOREM SnapshotTypeCorrect == Spec => []TypeOK
<1>1. IInv => TypeOK
  BY DEF IInv, DataInv, MutexInv, TypeOK, Observations
<1> QED
  BY <1>1, Invariance, PTL

(* What a sync ingested, analysed and recorded is in the snapshot by its write-back. *)
THEOREM SnapshotSyncIsProjected == Spec => []SyncIsProjected
<1>1. IInv => SyncIsProjected
  BY DEF IInv, JobsInv, Carries, SyncIsProjected
<1> QED
  BY <1>1, Invariance, PTL

-----------------------------------------------------------------------------
(***************************************************************************)
(* The presentation loop of the same sync_all: GoogleSync, for any         *)
(* syncers, page size and bounds.  Where the two modules name something    *)
(* alike, it is GoogleSync's from here on.                                 *)
(*                                                                         *)
(* The invariant adds to TypeOK what a sync in progress knows: content it  *)
(* fetched is no older than the revision it picked, the revision it is     *)
(* about to save as the cursor is captured, and so is the cursor it began  *)
(* with; and what it picked is no older than when it began.                *)
(***************************************************************************)
CONSTANTS PageSize, MaxRevision
VARIABLES head, kept

Google == INSTANCE GoogleSync

Fetched ==
  \A s \in Syncer :
    /\ job[s].at \in {"render", "ingest"} => job[s].rev <= job[s].native
    /\ job[s].at = "ingest" => job[s].native <= job[s].rendered
    /\ job[s].at = "save" => \E o \in captured : o.rev = job[s].rev
    /\ job[s].at = "list" /\ job[s].last # 0 => \E o \in captured : o.rev = job[s].last
    /\ job[s].at \in {"get", "render", "ingest", "save"} => job[s].began <= job[s].rev

CaptureJobs ==
  [at : {"idle", "list", "get", "render", "ingest", "save"},
   began : 0..MaxRevision, last : 0..MaxRevision, seen : SUBSET Google!Revision, rev : 0..MaxRevision,
   native : 0..MaxRevision, rendered : 0..MaxRevision]

CaptureInv ==
  /\ Google!TypeOK /\ job \in [Syncer -> CaptureJobs] /\ Fetched
  /\ Google!ContentNeverOlder /\ Google!CursorCaptured /\ Google!FinishedSyncIsCurrent

USE DEF Google!Revision, Google!NoRevision

LEMMA IdleInCaptureJobs ==
  ASSUME MaxRevision \in Nat \ {0}
  PROVE  Google!Idle \in CaptureJobs
  BY DEF Google!Idle, CaptureJobs

(* A job updated field by field stays a job.                               *)
LEMMA CaptureJobsUpdate ==
  ASSUME NEW j \in CaptureJobs, NEW n \in 0..MaxRevision,
         NEW at \in {"idle", "list", "get", "render", "ingest", "save"}
  PROVE  /\ [j EXCEPT !.at = at, !.last = n] \in CaptureJobs
         /\ [j EXCEPT !.at = at, !.rev = n] \in CaptureJobs
         /\ [j EXCEPT !.at = at, !.native = n] \in CaptureJobs
         /\ [j EXCEPT !.at = at, !.rendered = n] \in CaptureJobs
<1> DEFINE k == [j EXCEPT !.at = at]
<1>1. k \in CaptureJobs
  BY DEF CaptureJobs
<1> HIDE DEF k
<1>2. /\ [k EXCEPT !.last = n] \in CaptureJobs
      /\ [k EXCEPT !.rev = n] \in CaptureJobs
      /\ [k EXCEPT !.native = n] \in CaptureJobs
      /\ [k EXCEPT !.rendered = n] \in CaptureJobs
  BY <1>1 DEF CaptureJobs
<1> QED
  BY <1>2 DEF k

LEMMA CaptureInitInv ==
  ASSUME MaxRevision \in Nat \ {0}, Google!Init
  PROVE  CaptureInv
  BY IdleInCaptureJobs
     DEF Google!Init, CaptureInv, Google!TypeOK, Fetched, Google!ContentNeverOlder,
         Google!CursorCaptured, Google!FinishedSyncIsCurrent, Google!Idle

(* Only the editor and Drive: what is captured and the jobs stay.          *)
LEMMA WorldInv ==
  ASSUME MaxRevision \in Nat \ {0}, CaptureInv,
         Google!Edit \/ \E r \in Google!Revision : Google!Purge(r)
  PROVE  CaptureInv'
<1>1. CASE Google!Edit
  <2> USE <1>1
  <2>1. head' \in Google!Revision /\ head' = head + 1 /\ kept' \subseteq 1..head' /\ head' \in kept'
    <3>1. head \in 1..MaxRevision /\ kept \subseteq 1..head
      BY DEF CaptureInv, Google!TypeOK
    <3>2. head < MaxRevision /\ head' = head + 1 /\ kept' = kept \cup {head + 1}
      BY DEF Google!Edit
    <3> QED
      BY <3>1, <3>2
  <2>2. UNCHANGED <<captured, cursor, finished, job>>
    BY DEF Google!Edit
  <2>3. Google!TypeOK'
    BY <2>1, <2>2 DEF CaptureInv, Google!TypeOK
  <2> QED
    BY <2>2, <2>3 DEF CaptureInv, Fetched, Google!ContentNeverOlder, Google!CursorCaptured,
                         Google!FinishedSyncIsCurrent
<1>2. CASE \E r \in Google!Revision : Google!Purge(r)
  <2>1. UNCHANGED <<head, captured, cursor, finished, job>> /\ kept' \subseteq kept /\ head \in kept'
    BY <1>2 DEF CaptureInv, Google!TypeOK, Google!Purge
  <2> QED
    BY <2>1 DEF CaptureInv, Google!TypeOK, Fetched, Google!ContentNeverOlder,
                Google!CursorCaptured, Google!FinishedSyncIsCurrent
<1> QED
  BY <1>1, <1>2

(* What TypeOK and Fetched ask of a job that is not saving.                *)
CaptureFits(j) ==
  /\ j.at \in {"idle", "list", "get", "render", "ingest"}
  /\ j.at \in {"get", "render", "ingest"} <=> j.rev # 0
  /\ j.began \in 0..head /\ j.last \in 0..head /\ j.seen \subseteq 1..head
  /\ j.rev \in 0..head /\ j.native \in 0..head /\ j.rendered \in 0..head
  /\ j.at \in {"render", "ingest"} => j.rev <= j.native
  /\ j.at = "ingest" => j.native <= j.rendered
  /\ j.at = "list" /\ j.last # 0 => \E o \in captured : o.rev = j.last
  /\ j.at \in {"get", "render", "ingest"} => j.began <= j.rev

LakeSame == head' = head /\ kept' = kept /\ captured' = captured /\ cursor' = cursor

(* Only syncs whose beginning was captured have finished.                  *)
FinishedFits == finished' \in 0..head' /\ Google!FinishedSyncIsCurrent'

LEMMA FinishedSame ==
  ASSUME CaptureInv, finished' = finished, LakeSame
  PROVE  FinishedFits
  BY DEF FinishedFits, LakeSame, CaptureInv, Google!TypeOK, Google!FinishedSyncIsCurrent

LEMMA FinishIs ==
  ASSUME MaxRevision \in Nat \ {0}, CaptureInv, NEW s \in Syncer, Google!Finish(s),
         head' = head, captured' = captured,
         \E o \in captured : o.rev >= job[s].began
  PROVE  FinishedFits /\ job' = [job EXCEPT ![s] = Google!Idle]
<1>1. /\ finished \in 0..head /\ job[s].began \in 0..head
      /\ finished # 0 => \E o \in captured : o.rev >= finished
  BY DEF CaptureInv, Google!TypeOK, Google!FinishedSyncIsCurrent
<1>2. finished' \in {finished, job[s].began} /\ job' = [job EXCEPT ![s] = Google!Idle]
  BY DEF Google!Finish
<1>3. finished' \in 0..head'
  BY <1>1, <1>2
<1>4. Google!FinishedSyncIsCurrent'
  BY <1>1, <1>2 DEF Google!FinishedSyncIsCurrent
<1> QED
  BY <1>2, <1>3, <1>4 DEF FinishedFits

LEMMA CaptureIdleFits ==
  ASSUME MaxRevision \in Nat \ {0}, CaptureInv
  PROVE  CaptureFits(Google!Idle)
  BY DEF CaptureFits, Google!Idle, CaptureInv, Google!TypeOK

(* A step of s that leaves the lake and the cursor alone keeps the         *)
(* invariant if the new job of s fits it.                                  *)
LEMMA CaptureJobStep ==
  ASSUME MaxRevision \in Nat \ {0}, CaptureInv,
         NEW s \in Syncer, NEW j \in CaptureJobs, CaptureFits(j),
         LakeSame, FinishedFits,
         job' = [job EXCEPT ![s] = j]
  PROVE  CaptureInv'
<1> USE DEF LakeSame, FinishedFits
<1>1. job' \in [Syncer -> CaptureJobs]
  BY DEF CaptureInv
<1>2. \A t \in Syncer : job'[t] = IF t = s THEN j ELSE job[t]
  BY DEF CaptureInv
<1>3. ASSUME NEW t \in Syncer
      PROVE  /\ job'[t].at \in {"idle", "list", "get", "render", "ingest", "save"}
             /\ job'[t].at \in {"get", "render", "ingest", "save"} <=> job'[t].rev # Google!NoRevision
             /\ job'[t].began \in 0..head /\ job'[t].last \in 0..head /\ job'[t].seen \subseteq 1..head
             /\ job'[t].rev \in 0..head
             /\ job'[t].native \in 0..head /\ job'[t].rendered \in 0..head
  <2>1. CASE t = s
    <3>1. job'[t] = j
      BY <1>2, <2>1
    <3> QED
      BY <3>1 DEF CaptureFits
  <2>2. CASE t # s
    <3>1. job'[t] = job[t]
      BY <1>2, <2>2
    <3> QED
      BY <3>1 DEF CaptureInv, Google!TypeOK
  <2> QED
    BY <2>1, <2>2
<1>4. Google!TypeOK'
  BY <1>3 DEF CaptureInv, Google!TypeOK
<1>5. Fetched'
  BY <1>2 DEF CaptureInv, Fetched, CaptureFits
<1> QED
  BY <1>1, <1>4, <1>5 DEF CaptureInv, Google!ContentNeverOlder, Google!CursorCaptured

LEMMA StartCaptureInv ==
  ASSUME MaxRevision \in Nat \ {0}, CaptureInv, NEW s \in Syncer, Google!StartSync(s)
  PROVE  CaptureInv'
<1> DEFINE j == [Google!Idle EXCEPT !.at = "list", !.began = head, !.last = cursor]
<1>1. j \in CaptureJobs
  <2>1. cursor \in 0..MaxRevision /\ head \in 0..MaxRevision
    BY DEF CaptureInv, Google!TypeOK
  <2> QED
    BY <2>1, IdleInCaptureJobs DEF CaptureJobs
<1>2. j.at = "list" /\ j.began = head /\ j.last = cursor /\ j.seen = {} /\ j.rev = 0 /\ j.native = 0 /\ j.rendered = 0
  BY DEF Google!Idle
<1>3. LakeSame /\ finished' = finished /\ job' = [job EXCEPT ![s] = j]
  BY DEF Google!StartSync, LakeSame
<1>4. CaptureFits(j)
  BY <1>2 DEF CaptureFits, CaptureInv, Google!TypeOK, Google!CursorCaptured
<1> HIDE DEF j
<1> QED
  BY <1>1, <1>3, <1>4, FinishedSame, CaptureJobStep

(* The last page reaches the newest revision, which Drive never purges; so *)
(* what is picked is the newest, and nothing only if the cursor is.        *)
LEMMA ListedIs ==
  ASSUME MaxRevision \in Nat \ {0}, CaptureInv, NEW s \in Syncer, job[s].at = "list",
         Google!IsLastPage(job[s].seen), NEW fresh,
         fresh = Google!AfterCursor(job[s].seen \cup Google!Page(job[s].seen), job[s].last)
  PROVE  /\ fresh = {} => \E o \in captured : o.rev >= job[s].began
         /\ \A r \in fresh : Google!LatestToCapture(r, fresh) => job[s].began <= r
<1> DEFINE seen == job[s].seen \cup Google!Page(job[s].seen)
           last == job[s].last
<1>1. /\ head \in Nat /\ kept \subseteq 1..head /\ head \in kept /\ job[s].began \in 0..head
      /\ last \in 0..head /\ job[s].seen \subseteq 1..head
      /\ last # 0 => \E o \in captured : o.rev = last
  BY DEF CaptureInv, Google!TypeOK, Fetched
<1>2. seen \subseteq 1..head
  BY <1>1 DEF Google!Page
<1>3. head \in seen
  <2>1. PICK q \in seen : head <= q
    BY <1>1 DEF Google!IsLastPage
  <2> HIDE DEF seen
  <2> QED
    BY <1>1, <1>2, <2>1
<1>4. fresh = IF last \in seen THEN {r \in seen : r > last} ELSE seen
  BY DEF Google!AfterCursor
<1> HIDE DEF seen, last
<1>5. ASSUME fresh = {} PROVE \E o \in captured : o.rev >= job[s].began
  <2>1. last \in seen /\ ~ (head > last)
    BY <1>3, <1>4, <1>5
  <2>2. last = head
    BY <1>1, <1>2, <2>1
  <2> QED
    BY <1>1, <1>2, <2>1, <2>2
<1>6. ASSUME NEW r \in fresh, Google!LatestToCapture(r, fresh) PROVE job[s].began <= r
  <2>1. r \in seen /\ \A q \in fresh : q <= r
    BY <1>4, <1>6 DEF Google!LatestToCapture
  <2>2. r \in 1..head
    BY <1>2, <2>1
  <2>3. CASE last \in seen
    <3>1. r > last
      BY <1>4, <2>3
    <3>2. head > last
      BY <1>1, <2>2, <3>1
    <3>3. head \in fresh
      BY <1>3, <1>4, <2>3, <3>2
    <3> QED
      BY <1>1, <2>1, <2>2, <3>3
  <2>4. CASE last \notin seen
    BY <1>1, <1>3, <1>4, <2>1, <2>2, <2>4
  <2> QED
    BY <2>3, <2>4
<1> QED
  BY <1>5, <1>6

LEMMA ListRevisionsInv ==
  ASSUME MaxRevision \in Nat \ {0}, CaptureInv, NEW s \in Syncer, Google!ListRevisions(s)
  PROVE  CaptureInv'
<1> DEFINE seen == job[s].seen \cup Google!Page(job[s].seen)
           fresh == Google!AfterCursor(seen, job[s].last)
<1>1. seen \subseteq 1..head /\ fresh \subseteq 1..head /\ job[s] \in CaptureJobs /\ head \in Google!Revision
  BY DEF CaptureInv, Google!TypeOK, Google!Page, Google!AfterCursor
<1>2. LakeSame /\ job[s].at = "list"
  BY DEF Google!ListRevisions, LakeSame
<1>3. CASE job' = [job EXCEPT ![s].seen = seen] /\ finished' = finished
  <2> DEFINE j == [job[s] EXCEPT !.seen = seen]
  <2>1. j \in CaptureJobs
    BY <1>1 DEF CaptureJobs
  <2>2. /\ j.at = "list" /\ j.began = job[s].began /\ j.last = job[s].last /\ j.seen = seen
        /\ j.rev = job[s].rev /\ j.native = job[s].native /\ j.rendered = job[s].rendered
    BY <1>1, <1>2 DEF CaptureJobs
  <2>3. job' = [job EXCEPT ![s] = j]
    BY <1>3
  <2>4. /\ job[s].rev = 0 /\ job[s].last \in 0..head /\ job[s].began \in 0..head
        /\ job[s].native \in 0..head /\ job[s].rendered \in 0..head
        /\ job[s].last # 0 => \E o \in captured : o.rev = job[s].last
    BY <1>2 DEF CaptureInv, Google!TypeOK, Fetched
  <2> HIDE DEF j, seen
  <2>5. CaptureFits(j)
    BY <1>1, <2>2, <2>4 DEF CaptureFits
  <2> QED
    BY <1>2, <1>3, <2>1, <2>3, <2>5, FinishedSame, CaptureJobStep
<1>4. CASE Google!IsLastPage(job[s].seen) /\ fresh = {} /\ Google!Finish(s)
  <2>1. \E o \in captured : o.rev >= job[s].began
    BY <1>2, <1>4, ListedIs
  <2>2. FinishedFits /\ job' = [job EXCEPT ![s] = Google!Idle]
    BY <1>2, <1>4, <2>1, FinishIs DEF LakeSame
  <2> QED
    BY <1>2, <2>2, IdleInCaptureJobs, CaptureIdleFits, CaptureJobStep
<1>5. ASSUME NEW r \in fresh, Google!IsLastPage(job[s].seen), Google!LatestToCapture(r, fresh),
             job' = [job EXCEPT ![s] = [Google!Idle EXCEPT !.at = "get", !.began = job[s].began,
                                                           !.rev = r]],
             finished' = finished
      PROVE  CaptureInv'
  <2> DEFINE j == [Google!Idle EXCEPT !.at = "get", !.began = job[s].began, !.rev = r]
  <2>a. job[s].began <= r
    BY <1>2, <1>5, ListedIs
  <2>0. r \in 1..head /\ r \in Google!Revision
    BY <1>1
  <2>1. j \in CaptureJobs
    <3>1. r \in 0..MaxRevision /\ job[s].began \in 0..MaxRevision
      BY <1>1, <2>0 DEF CaptureJobs
    <3> HIDE DEF fresh
    <3> QED
      BY <3>1, IdleInCaptureJobs DEF CaptureJobs
  <2>2. /\ j.at = "get" /\ j.began = job[s].began /\ j.last = 0 /\ j.seen = {} /\ j.rev = r
        /\ j.native = 0 /\ j.rendered = 0
    BY DEF Google!Idle
  <2>3. job' = [job EXCEPT ![s] = j]
    BY <1>5
  <2>b. job[s].began \in 0..head
    BY DEF CaptureInv, Google!TypeOK
  <2>4. CaptureFits(j)
    BY <1>1, <2>0, <2>2, <2>a, <2>b DEF CaptureFits
  <2> HIDE DEF j, fresh
  <2> QED
    BY <1>2, <1>5, <2>1, <2>3, <2>4, FinishedSame, CaptureJobStep
<1> QED
  BY <1>3, <1>4, <1>5 DEF Google!ListRevisions

LEMMA FetchInv ==
  ASSUME MaxRevision \in Nat \ {0}, CaptureInv, NEW s \in Syncer,
         Google!GetPresentation(s) \/ Google!RenderSlide(s)
  PROVE  CaptureInv'
<1>1. job[s] \in CaptureJobs /\ head \in Google!Revision
  BY DEF CaptureInv, Google!TypeOK
<1>2. CASE Google!GetPresentation(s)
  <2> DEFINE j == [job[s] EXCEPT !.at = "render", !.native = head]
  <2>1. j \in CaptureJobs
    <3>1. head \in 0..MaxRevision
      BY <1>1
    <3> QED
      BY <1>1, <3>1, CaptureJobsUpdate
  <2>2. /\ j.at = "render" /\ j.began = job[s].began /\ j.last = job[s].last /\ j.seen = job[s].seen
        /\ j.rev = job[s].rev /\ j.native = head /\ j.rendered = job[s].rendered
    BY <1>1 DEF CaptureJobs
  <2>3. LakeSame /\ finished' = finished /\ job[s].at = "get"
        /\ job' = [job EXCEPT ![s] = j]
    BY <1>2 DEF Google!GetPresentation, LakeSame
  <2>4. /\ job[s].rev # 0 /\ job[s].rev \in 0..head /\ job[s].last \in 0..head
        /\ job[s].seen \subseteq 1..head /\ job[s].rendered \in 0..head
        /\ job[s].began \in 0..head /\ job[s].began <= job[s].rev
    BY <2>3 DEF CaptureInv, Google!TypeOK, Fetched
  <2>5. CaptureFits(j)
    BY <1>1, <2>2, <2>4 DEF CaptureFits
  <2> HIDE DEF j
  <2> QED
    BY <2>1, <2>3, <2>5, FinishedSame, CaptureJobStep
<1>3. CASE Google!RenderSlide(s)
  <2> DEFINE j == [job[s] EXCEPT !.at = "ingest", !.rendered = head]
  <2>1. j \in CaptureJobs
    <3>1. head \in 0..MaxRevision
      BY <1>1
    <3> QED
      BY <1>1, <3>1, CaptureJobsUpdate
  <2>2. /\ j.at = "ingest" /\ j.began = job[s].began /\ j.last = job[s].last /\ j.seen = job[s].seen
        /\ j.rev = job[s].rev /\ j.native = job[s].native /\ j.rendered = head
    BY <1>1 DEF CaptureJobs
  <2>3. LakeSame /\ finished' = finished /\ job[s].at = "render"
        /\ job' = [job EXCEPT ![s] = j]
    BY <1>3 DEF Google!RenderSlide, LakeSame
  <2>4. /\ job[s].rev # 0 /\ job[s].rev \in 0..head /\ job[s].last \in 0..head
        /\ job[s].seen \subseteq 1..head /\ job[s].native \in 0..head
        /\ job[s].rev <= job[s].native
        /\ job[s].began \in 0..head /\ job[s].began <= job[s].rev
    BY <2>3 DEF CaptureInv, Google!TypeOK, Fetched
  <2>5. CaptureFits(j)
    BY <1>1, <2>2, <2>4 DEF CaptureFits
  <2> HIDE DEF j
  <2> QED
    BY <2>1, <2>3, <2>5, FinishedSame, CaptureJobStep
<1> QED
  BY <1>2, <1>3

(* The snapshot a sync files has the content it fetched after it picked    *)
(* the revision; a revision that is captured already keeps its snapshot.   *)
LEMMA CaptureIngestInv ==
  ASSUME MaxRevision \in Nat \ {0}, CaptureInv, NEW s \in Syncer, Google!Ingest(s)
  PROVE  CaptureInv'
<1> DEFINE snap == Google!Snapshot(job[s].rev, job[s].native, job[s].rendered)
<1>1. /\ UNCHANGED <<head, kept, cursor, finished>> /\ job[s].at = "ingest"
      /\ job' = [job EXCEPT ![s].at = "save"]
  BY DEF Google!Ingest
<1>2. /\ job[s] \in CaptureJobs /\ job[s].rev \in Google!Revision
      /\ job[s].rev <= job[s].native /\ job[s].native <= job[s].rendered
      /\ job[s].native \in Google!Revision /\ job[s].rendered \in Google!Revision
      /\ job[s].began <= job[s].rev
  BY <1>1 DEF CaptureInv, Google!TypeOK, Fetched
<1>3. snap \in [rev : Google!Revision, native : Google!Revision, rendered : Google!Revision]
      /\ snap.rev = job[s].rev /\ snap.native = job[s].native /\ snap.rendered = job[s].rendered
  BY <1>2 DEF Google!Snapshot
<1>4. /\ captured \subseteq captured' /\ captured' \subseteq captured \cup {snap}
      /\ \E o \in captured' : o.rev = job[s].rev
      /\ snap \in captured' \ captured => \A o \in captured : o.rev # job[s].rev
  BY <1>3 DEF Google!Ingest
<1>5. /\ job' \in [Syncer -> CaptureJobs]
      /\ \A t \in Syncer : t # s => job'[t] = job[t]
      /\ job'[s] = [job[s] EXCEPT !.at = "save"]
  BY <1>1, <1>2 DEF CaptureInv, CaptureJobs
<1>6. /\ job'[s].at = "save" /\ job'[s].last = job[s].last /\ job'[s].seen = job[s].seen
      /\ job'[s].rev = job[s].rev /\ job'[s].native = job[s].native
      /\ job'[s].began = job[s].began /\ job'[s].rendered = job[s].rendered
  BY <1>2, <1>5 DEF CaptureJobs
<1> HIDE DEF snap
<1>7. captured' \subseteq [rev : Google!Revision, native : Google!Revision, rendered : Google!Revision]
  BY <1>3, <1>4 DEF CaptureInv, Google!TypeOK
<1>8. \A t \in Syncer :
        /\ job'[t].at \in {"idle", "list", "get", "render", "ingest", "save"}
        /\ job'[t].at \in {"get", "render", "ingest", "save"} <=> job'[t].rev # Google!NoRevision
        /\ job'[t].began \in 0..head /\ job'[t].last \in 0..head /\ job'[t].seen \subseteq 1..head
        /\ job'[t].rev \in 0..head
        /\ job'[t].native \in 0..head /\ job'[t].rendered \in 0..head
  BY <1>1, <1>5, <1>6 DEF CaptureInv, Google!TypeOK
<1>9. Google!TypeOK'
  BY <1>1, <1>7, <1>8 DEF CaptureInv, Google!TypeOK
<1>10. Fetched'
  <2>1. Fetched
    BY DEF CaptureInv
  <2>2. ASSUME NEW t \in Syncer, t # s
        PROVE  /\ job'[t].at \in {"render", "ingest"} => job'[t].rev <= job'[t].native
               /\ job'[t].at = "ingest" => job'[t].native <= job'[t].rendered
               /\ job'[t].at = "save" => \E o \in captured' : o.rev = job'[t].rev
               /\ job'[t].at = "list" /\ job'[t].last # 0 =>
                    \E o \in captured' : o.rev = job'[t].last
               /\ job'[t].at \in {"get", "render", "ingest", "save"} => job'[t].began <= job'[t].rev
    BY <1>4, <1>5, <2>1, <2>2 DEF Fetched
  <2> QED
    BY <1>2, <1>4, <1>6, <2>2 DEF Fetched
<1>11. Google!ContentNeverOlder' /\ Google!CursorCaptured' /\ Google!FinishedSyncIsCurrent'
  BY <1>1, <1>2, <1>3, <1>4
     DEF CaptureInv, Google!ContentNeverOlder, Google!CursorCaptured, Google!FinishedSyncIsCurrent
<1> QED
  BY <1>5, <1>9, <1>10, <1>11 DEF CaptureInv

LEMMA SaveCursorInv ==
  ASSUME MaxRevision \in Nat \ {0}, CaptureInv, NEW s \in Syncer, Google!SaveCursor(s)
  PROVE  CaptureInv'
<1>1. /\ UNCHANGED <<head, kept, captured>> /\ job[s].at = "save" /\ cursor' = job[s].rev
      /\ Google!Finish(s)
  BY DEF Google!SaveCursor
<1>a. \E o \in captured : o.rev >= job[s].began
  <2>1. PICK o \in captured : o.rev = job[s].rev /\ job[s].began <= job[s].rev
    BY <1>1 DEF CaptureInv, Fetched
  <2>2. job[s].rev \in Nat /\ job[s].began \in Nat
    BY DEF CaptureInv, CaptureJobs
  <2> QED
    BY <2>1, <2>2
<1>b. FinishedFits /\ job' = [job EXCEPT ![s] = Google!Idle]
  BY <1>1, <1>a, FinishIs
<1>2. /\ job' \in [Syncer -> CaptureJobs]
      /\ \A t \in Syncer : job'[t] = IF t = s THEN Google!Idle ELSE job[t]
  BY <1>b, IdleInCaptureJobs DEF CaptureInv
<1>3. Google!TypeOK'
  BY <1>1, <1>2, <1>b DEF CaptureInv, FinishedFits, Google!TypeOK, Google!Idle
<1>4. Fetched'
  BY <1>1, <1>2 DEF CaptureInv, Fetched, Google!Idle
<1>5. Google!CursorCaptured' /\ Google!ContentNeverOlder'
  BY <1>1 DEF CaptureInv, Fetched, Google!CursorCaptured, Google!ContentNeverOlder
<1> QED
  BY <1>2, <1>3, <1>4, <1>5, <1>b DEF CaptureInv, FinishedFits

LEMMA CaptureFailInv ==
  ASSUME MaxRevision \in Nat \ {0}, CaptureInv, NEW s \in Syncer, Google!Fail(s)
  PROVE  CaptureInv'
<1>1. LakeSame /\ finished' = finished /\ job' = [job EXCEPT ![s] = Google!Idle]
  BY DEF Google!Fail, LakeSame
<1> QED
  BY <1>1, IdleInCaptureJobs, CaptureIdleFits, FinishedSame, CaptureJobStep

LEMMA CaptureStepInv ==
  ASSUME MaxRevision \in Nat \ {0}, CaptureInv, [Google!Next]_Google!vars
  PROVE  CaptureInv'
<1>1. CASE UNCHANGED Google!vars
  BY <1>1
     DEF Google!vars, CaptureInv, Google!TypeOK, Fetched, Google!ContentNeverOlder,
         Google!CursorCaptured, Google!FinishedSyncIsCurrent
<1>2. CASE Google!Next
  BY <1>2, WorldInv, StartCaptureInv, ListRevisionsInv, FetchInv, CaptureIngestInv,
     SaveCursorInv, CaptureFailInv
     DEF Google!Next, Google!Step
<1> QED
  BY <1>1, <1>2

LEMMA CaptureInvariance ==
  ASSUME Google!SyncerAssumption
  PROVE  Google!Spec => []CaptureInv
<1>1. MaxRevision \in Nat \ {0}
  BY DEF Google!SyncerAssumption
<1>2. Google!Init => CaptureInv
  BY <1>1, CaptureInitInv
<1>3. CaptureInv /\ [Google!Next]_Google!vars => CaptureInv'
  BY <1>1, CaptureStepInv
<1> QED
  BY <1>2, <1>3, PTL DEF Google!Spec

(* What is captured, and a sync's state, is of revisions there are.        *)
THEOREM GoogleTypeCorrect ==
  ASSUME Google!SyncerAssumption
  PROVE  Google!Spec => []Google!TypeOK
<1>1. CaptureInv => Google!TypeOK
  BY DEF CaptureInv
<1> QED
  BY <1>1, CaptureInvariance, PTL

(* A sync that finished has captured the newest revision there was when it *)
(* began, or a newer one, or found it captured.                            *)
THEOREM GoogleFinishedSyncIsCurrent ==
  ASSUME Google!SyncerAssumption
  PROVE  Google!Spec => []FinishedSyncIsCurrent
<1>1. CaptureInv => FinishedSyncIsCurrent
  BY DEF CaptureInv, FinishedSyncIsCurrent, Google!FinishedSyncIsCurrent, NoRevision
<1> QED
  BY <1>1, CaptureInvariance, PTL

(* No revision is ever filed with content older than itself.               *)
THEOREM GoogleContentNeverOlder ==
  ASSUME Google!SyncerAssumption
  PROVE  Google!Spec => []ContentNeverOlder
<1>1. CaptureInv => ContentNeverOlder
  BY DEF CaptureInv, ContentNeverOlder, Google!ContentNeverOlder
<1> QED
  BY <1>1, CaptureInvariance, PTL

(* The cursor never passes a revision that was not captured.               *)
THEOREM GoogleCursorCaptured ==
  ASSUME Google!SyncerAssumption
  PROVE  Google!Spec => []CursorCaptured
<1>1. CaptureInv => CursorCaptured
  BY DEF CaptureInv, CursorCaptured, Google!CursorCaptured, NoRevision
<1> QED
  BY <1>1, CaptureInvariance, PTL
=============================================================================
