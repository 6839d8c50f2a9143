-------------------------------- MODULE ReadApi --------------------------------
(***************************************************************************)
(* The read path of the self-host server: what the crawlers captured is    *)
(* projected into a snapshot (AppCore::rebuild_snapshot) and served to     *)
(* readers (AppService::persons_response and its kin, src/src/api,         *)
(* self_host/server.rs).                                                   *)
(*                                                                         *)
(* The core mutex is held through a rebuild, so nothing is captured or     *)
(* read in the middle of one; but the projector goes through its matches   *)
(* and through the slide analyses in the order a HashMap gives them, so    *)
(* a rebuild takes one merge at a time here, in whatever order.            *)
(*                                                                         *)
(* One reader pages through the list; every page is a request of its own,  *)
(* and syncs may rebuild the snapshot between two of them.                 *)
(***************************************************************************)
EXTENDS PersonPage, Governance

CONSTANTS Observed,     \* what the crawlers may capture
          Profiles,     \* what an analysis may read off a slide: [slide, email, name, richness, companion]
          Modes,        \* what a reader may ask for: [mode, pinned]
          Limits,       \* page sizes a reader may ask for
          MaxPageSize,  \* 100 in the code
          MaxLake,      \* bound on observations
          MaxClock      \* bound on analyses and rebuilds

ASSUME ReadApiAssumption ==
  MaxPageSize \in Nat \ {0} /\ Limits \subseteq Nat /\ MaxLake \in Nat /\ MaxClock \in Nat

(* The crawlers drop what has no address before they write it into a draft; a
   profile without one gets one made from the slide (ensure_profile_identifier). *)
ASSUME DraftAssumption ==
  /\ \A o \in Observed :
       /\ o.schema \in {"slack-message", "workspace-object-snapshot"} /\ o.at \in Nat
       /\ o.editors \in Seq((DOMAIN LowerCase) \ {Unset})
  /\ \A p \in Profiles :
       p.email # Unset /\ p.richness \in Nat /\ p.companion \in BOOLEAN

VARIABLES lake, records, now,
          building,   \* the rebuild under way
          snapshot,   \* what it last left, and how much of the lake it is of (history)
          reader      \* where the reader's listing is, and what it has seen

vars == <<lake, records, now, building, snapshot, reader>>

Idle == [on |-> FALSE, cands |-> <<>>, left |-> {}, parent |-> <<>>]
NotListing == [on |-> FALSE, offset |-> 0, seen |-> <<>>, built |-> {}, total |-> 0]

-----------------------------------------------------------------------------
(* Plausible faults, swapped in one at a time by the mutant runs. *)
StampKept(before, clock) == before

-----------------------------------------------------------------------------
(* ReadModeResolver::resolve for proj:person-page, which declares one mode. *)
Supported == {"operational-latest"}
DefaultMode == "operational-latest"

ResolvedMode(asked) ==
  LET mode == IF asked.mode = Unset THEN DefaultMode ELSE asked.mode
  IN  IF mode \notin Supported \/ (mode = "academic-pinned" /\ ~ asked.pinned) THEN "bad-request"
      ELSE mode

MayRead ==
  Evaluate([role |-> "researcher", op |-> [kind |-> "read"], scope |-> "internal",
            consent |-> "unrestricted", environment |-> "production"]) = "allow"

Identities == [field |-> "identities", level |-> "restricted"]

Answer(asked, found, payload) ==
  CASE ResolvedMode(asked) = "bad-request" -> [status |-> "bad-request"]
    [] ~ MayRead -> [status |-> "forbidden"]
    [] ~ found -> [status |-> "not-found"]
    [] OTHER -> [status |-> "ok", mode |-> ResolvedMode(asked), built |-> snapshot.built,
                 stale |-> FALSE, payload |-> Filtered(payload, "internal", Identities)]

-----------------------------------------------------------------------------
(* persons_response: latest activity first, cut to a page. *)
Listed(pages) ==
  LET Later(p, q) == p.last > q.last \/ (p.last = q.last /\ p.id < q.id)
      later == {pair \in ToSet(pages) \X ToSet(pages) : Later(pair[1], pair[2])}
      listed == Sorted(ToSet(pages), later)
  IN  [i \in DOMAIN listed |-> ListItem(listed[i])]

Validated(limit) == Min({limit, MaxPageSize})

Paginate(list, offset, limit) ==
  LET start == Min({offset, Len(list)})
  IN  SubSeq(list, start + 1, Min({start + Validated(limit), Len(list)}))

ListAnswer(asked, offset, limit) ==
  Answer(asked, TRUE, [data |-> Paginate(Listed(snapshot.pages), offset, limit),
                       total |-> Len(snapshot.pages), offset |-> offset, limit |-> limit])

(* person_detail_response. *)
DetailAnswer(asked, id) ==
  Answer(asked, id \in DOMAIN snapshot.pages, Detail(snapshot.pages[id]))

(* person_slides_response and person_messages_response; those of nobody are
   empty lists, not errors. *)
ShownOf(id, part) == IF id \in DOMAIN snapshot.pages THEN snapshot.pages[id][part] ELSE <<>>
RelatedAnswer(asked, id, part) == Answer(asked, TRUE, [events |-> ShownOf(id, part)])

(* person_timeline_response: slides, then messages, sorted by time, latest first. *)
TimelineAnswer(asked, id) ==
  LET events == ShownOf(id, "slides") \o ShownOf(id, "messages")
      At(i) == lake[events[i]].at
      Later(i, j) == At(i) > At(j) \/ (At(i) = At(j) /\ i < j)
      later == {p \in (DOMAIN events) \X (DOMAIN events) : Later(p[1], p[2])}
      order == Sorted(DOMAIN events, later)
  IN  Answer(asked, TRUE, [events |-> [i \in DOMAIN order |-> events[order[i]]]])

-----------------------------------------------------------------------------
BuiltAt(before, clock) == clock

(* The server gives the projector no accepted candidates. *)
Accepted == {}

Init ==
  /\ lake = <<>> /\ records = {} /\ now = 0
  /\ building = Idle
  /\ snapshot = [built |-> 0, upTo |-> 0, records |-> {}, persons |-> <<>>, pages |-> <<>>]
  /\ reader = NotListing

Capture ==
  \E o \in Observed \ ToSet(lake) :
    /\ ~ building.on /\ Len(lake) < MaxLake
    /\ lake' = Append(lake, o)
    /\ UNCHANGED <<records, now, building, snapshot, reader>>

(* The tail upserts a record per slide and then records it in the lake, unless
   it stops in between; the lake takes one observation of a slide. *)
AnalysisOf(p) ==
  [schema |-> "slide-analysis-result", user |-> Unset, email |-> p.email, name |-> p.name,
   editors |-> <<>>, owner |-> Unset, at |-> now]

Analyse ==
  \E p \in Profiles, deck \in DOMAIN lake, recorded \in BOOLEAN :
    /\ ~ building.on /\ now < MaxClock
    /\ lake[deck].schema = "workspace-object-snapshot"
    /\ records' = {r \in records : r.slide # p.slide}
                    \cup {[slide |-> p.slide, source |-> deck, email |-> p.email,
                           richness |-> p.richness, companion |-> p.companion, at |-> now]}
    /\ recorded => Len(lake) < MaxLake
    /\ lake' = IF recorded THEN Append(lake, AnalysisOf(p)) ELSE lake
    /\ now' = now + 1
    /\ UNCHANGED <<building, snapshot, reader>>

(* A sync's tail, or the bootstrap of a restarted server. *)
StartRebuild ==
  LET cands == Candidates(lake)
  IN  /\ ~ building.on /\ now < MaxClock
      /\ building' = [on |-> TRUE, cands |-> cands, left |-> Merges(cands, Accepted),
                      parent |-> Indices(Len(cands))]
      /\ UNCHANGED <<lake, records, now, snapshot, reader>>

MergeOne ==
  \E p \in building.left :
    /\ building' = [building EXCEPT !.left = @ \ {p}, !.parent = Merged(@, p[1], p[2])]
    /\ UNCHANGED <<lake, records, now, snapshot, reader>>

FinishRebuild ==
  \E listed \in SetToSeqs(records) :
    /\ building.on /\ building.left = {}
    /\ LET persons == ResolvedPersons(building.cands, building.parent)
       IN  snapshot' = [built |-> BuiltAt(snapshot.built, now + 1), upTo |-> Len(lake),
                        records |-> records, persons |-> persons,
                        pages |-> Pages(persons, lake, listed)]
    /\ building' = Idle
    /\ now' = now + 1
    /\ UNCHANGED <<lake, records, reader>>

-----------------------------------------------------------------------------
(* The reader asks for the first page, then for what comes after the items it
   got; limit and offset are as the handler has them, once parsed.  The other
   requests leave everything as it is. *)
ListPersons ==
  \E asked \in Modes, limit \in Limits :
    LET before == IF reader.on THEN reader ELSE NotListing
        got == ListAnswer(asked, before.offset, limit)
        data == got.payload.data
        next == before.offset + Len(data)
    IN  /\ ~ building.on /\ got.status = "ok"
        /\ reader' = [on |-> next < got.payload.total,
                      offset |-> next,
                      seen |-> before.seen \o [i \in DOMAIN data |-> data[i].id],
                      built |-> before.built \cup {got.built},
                      total |-> got.payload.total]
        /\ UNCHANGED <<lake, records, now, building, snapshot>>

Next ==
  Capture \/ Analyse \/ StartRebuild \/ MergeOne \/ FinishRebuild \/ ListPersons

Spec == Init /\ [][Next]_vars

-----------------------------------------------------------------------------
(* Candidates are one person when addresses shared across sources lead from one
   to the other: no link leaves their set, and no part of it is without one. *)
Links(cands) ==
  {p \in (DOMAIN cands) \X (DOMAIN cands) :
     /\ cands[p[1]].source # cands[p[2]].source
     /\ Called(cands[p[1]], "email") \cap Called(cands[p[2]], "email") # {}}

LeadsOut(links, part) == \E p \in links : p[1] \in part /\ p[2] \notin part

Whole(links, members) ==
  /\ ~ LeadsOut(links, members)
  /\ \A part \in (SUBSET members) \ {{}, members} : LeadsOut(links, part)

(* In whatever order the matches are merged, a snapshot has the persons that the
   lake it was built from has: those links and no others, numbered by first
   appearance.  Replaying the lake gives the same persons again. *)
ReplayGivesSamePersons ==
  LET cands == Candidates(SubSeq(lake, 1, snapshot.upTo))
      links == Links(cands)
      persons == snapshot.persons
  IN  /\ UNION {persons[k].members : k \in DOMAIN persons} = DOMAIN cands
      /\ \A k \in DOMAIN persons : Whole(links, persons[k].members)
      /\ \A k, l \in DOMAIN persons :
           k < l => Min(persons[k].members) < Min(persons[l].members)

(* Whatever names somebody is on somebody's page, also when a person changed
   address or an address is written in two ways. *)
NothingLost ==
  \A i \in 1..snapshot.upTo :
    Candidates(<<lake[i]>>) # <<>>
      => \E page \in ToSet(snapshot.pages) : i \in ToSet(page.slides) \cup ToSet(page.messages)

(* A page introduces its person by the richest of the slides read as theirs, the
   newest of equals, in whatever order the store lists its records. *)
RichestIntroduces ==
  LET personOf == PersonOf(snapshot.persons)
      Theirs(k) == {r \in snapshot.records : ~ r.companion /\ Subject(r, lake, personOf) = k}
  IN  \A k \in DOMAIN snapshot.pages :
        /\ Theirs(k) # {} => snapshot.pages[k].profile # {}
        /\ \A shown \in snapshot.pages[k].profile, r \in Theirs(k) :
             /\ shown \in Theirs(k)
             /\ r.richness <= shown.richness
             /\ r.richness = shown.richness => r.at <= shown.at

(* A reader that got to the end of the list and found one built_at on all its
   pages has seen every person of that snapshot once, though syncs captured and
   rebuilt in between and it asked for more than a page may have. *)
ListingIsComplete ==
  (~ reader.on /\ Cardinality(reader.built) = 1)
    => /\ Len(reader.seen) = reader.total
       /\ ToSet(reader.seen) = 1..reader.total

(* No answer shows the identities of a person, whoever is asked for and however. *)
Shows(payload) ==
  \/ "identities" \in DOMAIN payload
  \/ "data" \in DOMAIN payload
       /\ \E i \in DOMAIN payload.data : "identities" \in DOMAIN payload.data[i]

IdentitiesHidden ==
  \A asked \in Modes :
    LET answers == {ListAnswer(asked, 0, limit) : limit \in Limits}
                     \cup {DetailAnswer(asked, id) : id \in 1..(MaxLake + 1)}
                     \cup {TimelineAnswer(asked, id) : id \in 1..(MaxLake + 1)}
                     \cup {RelatedAnswer(asked, id, part) :
                             id \in 1..(MaxLake + 1), part \in {"slides", "messages"}}
    IN  \A a \in answers : a.status = "ok" => ~ Shows(a.payload)

(* identity-resolution.md, invariant 2: the same address is the same person. *)
SameEmailSamePerson ==
  LET Addresses(p) == {LowerCase[i.value] : i \in {i \in p.identifiers : i.type = "email"}}
  IN  \A p, q \in ToSet(snapshot.persons) : Addresses(p) \cap Addresses(q) # {} => p = q
=============================================================================
