--------------------------- MODULE IdentityResolution ---------------------------
(***************************************************************************)
(* The identity projector (src/identity/projector.rs) as operators: who an *)
(* observation names, which namings of different sources are the same      *)
(* person, and the union-find that puts them together.                     *)
(*                                                                         *)
(* An observation is what the projectors read of it: [schema, user, email, *)
(* name, editors, owner, at], Unset where the payload has no such field.   *)
(* LowerCase is to_lowercase on addresses and names.                       *)
(***************************************************************************)
EXTENDS Naturals, Sequences, FiniteSets, SequencesExt, FiniteSetsExt

CONSTANT LowerCase

Unset == "unset"
Indices(n) == [i \in 1..n |-> i]

(* The elements of S in the order R: first the one that none comes before. *)
Sorted(S, R) ==
  [i \in 1..Cardinality(S) |-> CHOOSE x \in S : Cardinality({y \in S : <<y, x>> \in R}) = i - 1]
Ascending(S) == Sorted(S, {p \in S \X S : p[1] < p[2]})

-----------------------------------------------------------------------------
(* Plausible faults, swapped in one at a time by the mutant runs. *)
MergedWithoutRoots(parent, a, b) == [parent EXCEPT ![b] = a]

-----------------------------------------------------------------------------
(* Phase 1: the persons an observation names, as its source knows them. *)
Identifiers(source, type, value) ==
  IF value = Unset THEN {} ELSE {[source |-> source, type |-> type, value |-> value]}

Candidate(source, identifiers, name, at) ==
  [source |-> source, identifiers |-> identifiers, name |-> name, at |-> at]

SlackCandidates(o) ==
  IF o.user = Unset THEN <<>>
  ELSE <<Candidate("slack",
                   Identifiers("slack", "user", o.user) \cup Identifiers("slack", "email", o.email)
                     \cup Identifiers("slack", "name", o.name),
                   o.name, o.at)>>

(* The editors, then the owner, every address once whatever its case. *)
DeckCandidates(o) ==
  LET named == o.editors \o (IF o.owner = Unset THEN <<>> ELSE <<o.owner>>)
      New(i) == \A j \in 1..(i - 1) : LowerCase[named[j]] # LowerCase[named[i]]
      kept == Ascending({i \in DOMAIN named : New(i)})
  IN  [k \in DOMAIN kept |->
         Candidate("google", Identifiers("google", "email", named[kept[k]]), Unset, o.at)]

AnalysisCandidates(o) ==
  LET identifiers == Identifiers("slide-analysis", "email", o.email)
                       \cup Identifiers("slide-analysis", "name", o.name)
  IN  IF identifiers = {} THEN <<>>
      ELSE <<Candidate("slide-analysis", identifiers, o.name, o.at)>>

CandidatesOf(o) ==
  CASE o.schema = "slack-message"             -> SlackCandidates(o)
    [] o.schema = "workspace-object-snapshot" -> DeckCandidates(o)
    [] o.schema = "slide-analysis-result"     -> AnalysisCandidates(o)
    [] OTHER                                  -> <<>>

Candidates(observations) ==
  FlattenSeq([i \in DOMAIN observations |-> CandidatesOf(observations[i])])

-----------------------------------------------------------------------------
(* Phase 2: pairs of different sources that share an address or a name. *)
Called(candidate, type) ==
  {LowerCase[i.value] : i \in {i \in candidate.identifiers : i.type = type}}

PairsSharing(cands, type) ==
  {p \in (DOMAIN cands) \X (DOMAIN cands) :
     /\ p[1] < p[2]
     /\ cands[p[1]].source # cands[p[2]].source
     /\ Called(cands[p[1]], type) \cap Called(cands[p[2]], type) # {}}

HighMatches(cands) == PairsSharing(cands, "email")

(* What resolve merges: the sure matches, and whatever pairs of candidates a
   reviewer accepted.  Those that share a name are only reported to him. *)
Merges(cands, accepted) ==
  HighMatches(cands) \cup (accepted \cap ((DOMAIN cands) \X (DOMAIN cands)))

-----------------------------------------------------------------------------
(* Phase 3: union-find, the path halved on the way to the root. *)
Halved(at) ==
  LET p == at.parent
      grandparent == p[p[at.root]]
  IN  [parent |-> [p EXCEPT ![at.root] = grandparent], root |-> grandparent]

Find(parent, x) ==
  LET n == Len(parent)
      walk[at \in [parent : [1..n -> 1..n], root : 1..n]] ==
        IF at.parent[at.root] = at.root THEN at ELSE walk[Halved(at)]
  IN  walk[[parent |-> parent, root |-> x]]

Merged(parent, a, b) ==
  LET left == Find(parent, a)
      right == Find(left.parent, b)
  IN  IF left.root = right.root THEN right.parent
      ELSE [right.parent EXCEPT ![right.root] = left.root]

MembersOf(parent, i) ==
  {j \in DOMAIN parent : Find(parent, j).root = Find(parent, i).root}

(* The groups in the order of their first members, one person each; a person's
   id is its place in that order. *)
ResolvedPerson(cands, id, members) ==
  LET named == {i \in members : cands[i].name # Unset}
  IN  [id |-> id,
       members |-> members,
       name |-> IF named = {} THEN Unset ELSE cands[Min(named)].name,
       aliases |-> {cands[i].name : i \in named},
       identifiers |-> UNION {cands[i].identifiers : i \in members},
       sources |-> {cands[i].source : i \in members},
       at |-> Max({cands[i].at : i \in members})]

ResolvedPersons(cands, parent) ==
  LET First(i) == i = Min(MembersOf(parent, i))
      firsts == Ascending({i \in DOMAIN parent : First(i)})
  IN  [id \in DOMAIN firsts |-> ResolvedPerson(cands, id, MembersOf(parent, firsts[id]))]
=============================================================================
