------------------------------ MODULE Propagation ------------------------------
(***************************************************************************)
(* Incremental propagation (src/propagation/scheduler.rs, watermark.rs)    *)
(* over the projection catalogue and the lake.                             *)
(*                                                                         *)
(* The library leaves the projector to its caller: a worker prepares a     *)
(* projection (check_and_prepare), builds it from the observations between *)
(* the two positions it was given, and commits success or failure, the     *)
(* latter followed by the news to the dependents.  Meanwhile the lake      *)
(* grows, other workers build, propagate_all runs, and specs are edited    *)
(* in place through get_mut, as the scheduler's own test does.             *)
(*                                                                         *)
(* Only watermark positions and the status of the last build are kept:     *)
(* nobody reads the times, the pending counts or what set_status stores.   *)
(* A watermark that was never asked for reads as a new one.                *)
(***************************************************************************)
EXTENDS ProjectionCatalog

CONSTANTS Projection,  \* ids, numbers in the order of the strings
          Worker,      \* callers that build projections
          ProjectionSpec,  \* what Projections may be registered with
          MaxLake,     \* bound on observations
          MaxEdits     \* bound on specs edited in place

ASSUME PropagationAssumption ==
  /\ Projection \subseteq Nat /\ MaxLake \in Nat /\ MaxEdits \in Nat
  /\ \A spec \in ProjectionSpec : IsSpec(spec)

VARIABLES catalog,    \* the projection catalogue
          lake,       \* number of observations in the lake
          watermark,  \* position and last build status of each projection
          job,        \* what each worker is building
          applied,    \* records 1..applied[p] were read by successful builds of p (history)
          edits

vars == <<catalog, lake, watermark, job, applied, edits>>

NewWatermark == [position |-> 0, last |-> "success"]
Idle == [at |-> "idle"]
Building(p, from, to) == [at |-> "build", id |-> p, from |-> from, to |-> to]
Failed(p) == [at |-> "failed", id |-> p]

(* A successful build of p read the records from+1..to. *)
Reads(read, p, from, to) ==
  IF from <= read[p] /\ to > read[p] THEN [read EXCEPT ![p] = to] ELSE read

-----------------------------------------------------------------------------
(* Plausible faults, swapped in one at a time by the mutant runs. *)
FailAndAdvance(w, p) == [w EXCEPT ![p] = [position |-> lake, last |-> "failed"]]
AllHealthy(c, w, order) == SetHealthOf(c, DOMAIN c, "healthy")

-----------------------------------------------------------------------------
Init ==
  /\ catalog = EmptyCatalog
  /\ lake = 0
  /\ watermark = [p \in Projection |-> NewWatermark]
  /\ job = [w \in Worker |-> Idle]
  /\ applied = [p \in Projection |-> 0]
  /\ edits = 0

Register ==
  \E p \in Projection, spec \in ProjectionSpec :
    /\ Registrable(catalog, p, spec)
    /\ catalog' = Registered(catalog, p, spec)
    /\ UNCHANGED <<lake, watermark, job, applied, edits>>

(* A spec edited through get_mut, which checks nothing: a dependency comes or goes. *)
EditSpec ==
  \E p \in DOMAIN catalog, q \in Projection :
    LET s == Projected(q, 1)
        old == catalog[p].spec.sources
    IN  /\ edits < MaxEdits
        /\ edits' = edits + 1
        /\ catalog' = [catalog EXCEPT
             ![p].spec.sources = IF s \in old THEN old \ {s} ELSE old \cup {s},
             ![p].spec.reconciliation = "lake-first"]
        /\ UNCHANGED <<lake, watermark, job, applied>>

AppendObservation ==
  /\ lake < MaxLake
  /\ lake' = lake + 1
  /\ UNCHANGED <<catalog, watermark, job, applied, edits>>

-----------------------------------------------------------------------------
(* check_and_prepare: the positions to build from and to. *)
Prepare(w) ==
  /\ job[w] = Idle
  /\ \E p \in DOMAIN catalog :
       job' = [job EXCEPT ![w] = Building(p, watermark[p].position, lake)]
  /\ UNCHANGED <<catalog, lake, watermark, applied, edits>>

(* WatermarkStore::update asserts that the position does not decrease. *)
Advances(w, p, position) == position >= w[p].position
Advanced(w, p, position) == [w EXCEPT ![p] = [position |-> position, last |-> "success"]]

CommitSuccess(w) ==
  /\ job[w].at = "build"
  /\ LET p == job[w].id
         to == job[w].to
     IN  /\ Advances(watermark, p, to)
         /\ watermark' = Advanced(watermark, p, to)
         /\ catalog' = SetHealthOf(catalog, {p}, "healthy")
         /\ applied' = Reads(applied, p, job[w].from, to)
  /\ job' = [job EXCEPT ![w] = Idle]
  /\ UNCHANGED <<lake, edits>>

(* The assertion fails: the caller's commit panics and nothing is changed. *)
CommitPanics(w) ==
  /\ job[w].at = "build"
  /\ ~ Advances(watermark, job[w].id, job[w].to)
  /\ job' = [job EXCEPT ![w] = Idle]
  /\ UNCHANGED <<catalog, lake, watermark, applied, edits>>

FailureRecorded(w, p) == [w EXCEPT ![p].last = "failed"]

CommitFailure(w) ==
  /\ job[w].at = "build"
  /\ LET p == job[w].id
     IN  /\ watermark' = FailureRecorded(watermark, p)
         /\ catalog' = SetHealthOf(catalog, {p}, "broken")
         /\ job' = [job EXCEPT ![w] = Failed(p)]
  /\ UNCHANGED <<lake, applied, edits>>

PropagateUpstreamFailure(w) ==
  /\ job[w].at = "failed"
  /\ catalog' = SetHealthOf(catalog, Dependents(catalog, job[w].id), "degraded")
  /\ job' = [job EXCEPT ![w] = Idle]
  /\ UNCHANGED <<lake, watermark, applied, edits>>

-----------------------------------------------------------------------------
UpToDate(w, p) == w[p].position >= lake

HealthAfter(c, w, ps) == SetHealthOf(c, {p \in ps : ~ UpToDate(w, p)}, "healthy")

(* propagate_all, whose projector only advances the watermark. *)
PropagateAll ==
  LET topological == TopologicalOrder(catalog)
      order == {topological.order[i] : i \in DOMAIN topological.order}
      behind == {p \in order : ~ UpToDate(watermark, p)}
  IN  /\ UNCHANGED <<lake, job, edits>>
      /\ \/ /\ ~ topological.ok
            /\ catalog' = SetHealthOf(catalog, DOMAIN catalog, "broken")
            /\ UNCHANGED <<watermark, applied>>
         \/ /\ topological.ok
            /\ catalog' = HealthAfter(catalog, watermark, order)
            /\ watermark' = [p \in Projection |->
                 IF p \in behind THEN [position |-> lake, last |-> "success"] ELSE watermark[p]]
            /\ applied' = [p \in Projection |->
                 IF p \in behind THEN Reads(applied, p, watermark[p].position, lake)[p] ELSE applied[p]]

Work(w) == Prepare(w) \/ CommitSuccess(w) \/ CommitPanics(w) \/ CommitFailure(w)
             \/ PropagateUpstreamFailure(w)

Next ==
  \/ Register \/ EditSpec \/ AppendObservation
  \/ \E w \in Worker : Work(w)
  \/ PropagateAll

Spec == Init /\ [][Next]_vars

-----------------------------------------------------------------------------
(* No set of projections depends on itself. *)
Acyclic(c) ==
  ~ \E ps \in (SUBSET DOMAIN c) \ {{}} : \A p \in ps : Deps(c, p) \cap ps # {}

(* topological_order answers exactly when every dependency is registered and
   none is circular, and then lists each projection once, after all it depends
   on, however many versions of a source it declares. *)
OrderIsRight ==
  LET t == TopologicalOrder(catalog)
  IN  /\ t.ok <=> Acyclic(catalog) /\ \A p \in DOMAIN catalog : Deps(catalog, p) \subseteq DOMAIN catalog
      /\ \A i, j \in DOMAIN t.order :
           /\ t.order[i] = t.order[j] => i = j
           /\ t.order[j] \in Deps(catalog, t.order[i]) => j < i
      /\ t.ok => {t.order[i] : i \in DOMAIN t.order} = DOMAIN catalog

(* Registering a projection never closes a cycle, not even through a spec that
   was edited to wait for it. *)
RegisterKeepsAcyclic ==
  [][DOMAIN catalog' # DOMAIN catalog /\ Acyclic(catalog) => Acyclic(catalog')]_vars

(* A watermark covers only observations that successful builds of its projection
   have read: none is skipped, whatever was appended, failed or built meanwhile. *)
NothingSkipped == \A p \in Projection : watermark[p].position <= applied[p]

(* While the last build of a projection failed the service does not call itself ok. *)
FailureIsVisible ==
  \A components \in SUBSET {"ok", "degraded", "unhealthy"} :
    (\E p \in Projection : watermark[p].last = "failed") => Overall(components, catalog) # "ok"
=============================================================================
