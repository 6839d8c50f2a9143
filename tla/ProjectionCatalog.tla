--------------------------- MODULE ProjectionCatalog ---------------------------
(***************************************************************************)
(* The projection catalogue (src/projection/catalog.rs) as a value: a      *)
(* function from the ids of the registered projections, which are numbers  *)
(* in the order of the strings they stand for, to their entries; with the  *)
(* spec it validates (src/projection/spec.rs) and the health it feeds      *)
(* (src/runtime/health.rs).                                                *)
(*                                                                         *)
(* A spec declares a set of sources; two version pins of one projection    *)
(* are two declarations, and so two edges of the graph.                    *)
(***************************************************************************)
EXTENDS Integers, Sequences, FiniteSets, FiniteSetsExt

Lake == [type |-> "lake"]
SourceNative == [type |-> "source-native"]
Projected(p, version) == [type |-> "projection", id |-> p, version |-> version]

Projections(spec) == {s \in spec.sources : s.type = "projection"}
DepsOf(spec) == {s.id : s \in Projections(spec)}

ValidSpec(spec) ==
  /\ spec.sources # {} /\ spec.readModes # {} /\ spec.outputs # {}
  /\ Cardinality(spec.sources) > 1 => spec.reconciliation # "none"
  /\ "academic-pinned" \in spec.deterministicIn => SourceNative \notin spec.sources

IsSpec(spec) ==
  /\ spec = [sources |-> spec.sources, readModes |-> spec.readModes, outputs |-> spec.outputs,
             reconciliation |-> spec.reconciliation, deterministicIn |-> spec.deterministicIn]
  /\ IsFiniteSet(spec.sources)

Entry(spec) == [spec |-> spec, health |-> "healthy"]
EmptyCatalog == [p \in {} |-> Entry(p)]

Deps(catalog, p) == DepsOf(catalog[p].spec)
Dependents(catalog, p) == {q \in DOMAIN catalog : p \in Deps(catalog, q)}

-----------------------------------------------------------------------------
(* Plausible faults, swapped in one at a time by the mutant runs. *)
DirectCycle(catalog, new, deps) ==
  new \in deps \cup UNION {Deps(catalog, p) : p \in deps \cap DOMAIN catalog}
EdgesOnce(catalog, p, q) == IF p \in Deps(catalog, q) THEN 1 ELSE 0

-----------------------------------------------------------------------------
(* What a depth-first search from deps visits, in at most as many rounds as
   there are entries. *)
Upstream(catalog, deps) ==
  LET visited[n \in Nat] ==
        IF n = 0 THEN deps
        ELSE LET seen == visited[n - 1]
             IN  seen \cup UNION {Deps(catalog, p) : p \in seen \cap DOMAIN catalog}
  IN  visited[Cardinality(DOMAIN catalog)]

WouldCreateCycle(catalog, new, deps) == new \in Upstream(catalog, deps)

Registrable(catalog, p, spec) ==
  /\ ValidSpec(spec)
  /\ p \notin DOMAIN catalog
  /\ DepsOf(spec) \subseteq DOMAIN catalog
  /\ ~ WouldCreateCycle(catalog, p, DepsOf(spec))

Registered(catalog, p, spec) ==
  [q \in DOMAIN catalog \cup {p} |-> IF q = p THEN Entry(spec) ELSE catalog[q]]

SetHealthOf(catalog, ps, health) ==
  [q \in DOMAIN catalog |->
     IF q \in ps THEN [catalog[q] EXCEPT !.health = health] ELSE catalog[q]]

-----------------------------------------------------------------------------
(* Kahn's algorithm; the queue is a sorted vector popped at its end. *)
Edges(catalog, p, q) == Cardinality({s \in Projections(catalog[q].spec) : s.id = p})

Started(catalog) ==
  LET degree == [q \in DOMAIN catalog |-> Cardinality(Projections(catalog[q].spec))]
  IN  [order |-> <<>>, degree |-> degree,
       queue |-> {q \in DOMAIN catalog : degree[q] = 0}]

Popped(catalog, k, node) ==
  LET degree == [q \in DOMAIN catalog |-> k.degree[q] - Edges(catalog, node, q)]
  IN  [order  |-> Append(k.order, node), degree |-> degree,
       queue  |-> (k.queue \ {node}) \cup
                    {q \in DOMAIN catalog : k.degree[q] > 0 /\ degree[q] = 0}]

TopologicalOrder(catalog) ==
  LET kahn[n \in Nat] ==
        IF n = 0 THEN Started(catalog)
        ELSE LET k == kahn[n - 1]
             IN  IF k.queue = {} THEN k ELSE Popped(catalog, k, Max(k.queue))
      size == Cardinality(DOMAIN catalog)
      order == kahn[size].order
  IN  [ok |-> Len(order) = size, order |-> order]

-----------------------------------------------------------------------------
(* compute_overall: the health of the service, of its components' and its projections'. *)
Overall(components, catalog) ==
  IF "unhealthy" \in components THEN "unhealthy"
  ELSE IF \/ "degraded" \in components
          \/ \E p \in DOMAIN catalog : catalog[p].health \in {"degraded", "broken"}
       THEN "degraded"
       ELSE "ok"

=============================================================================
