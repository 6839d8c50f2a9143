------------------------------- MODULE PersonPage -------------------------------
(***************************************************************************)
(* The person page projector (src/person_page/projector.rs) as operators   *)
(* on the resolved persons, the observations and the slide analyses.  An   *)
(* observation on a page is kept as its position in the lake.              *)
(*                                                                         *)
(* A slide analysis is [source, email, richness, at, companion]: the       *)
(* position of the deck it was read from, the address on the slide (or the *)
(* one made up for it), its score, its time, and whether it is the         *)
(* continuation of another slide.                                          *)
(***************************************************************************)
EXTENDS IdentityResolution

-----------------------------------------------------------------------------
(* Plausible faults, swapped in one at a time by the mutant runs. *)
ByAddressOnly(o) == ({o.email} \cup {o.editors[i] : i \in DOMAIN o.editors}) \ {Unset}
NewestWins(current, record) == current.at >= record.at

-----------------------------------------------------------------------------
(* Persons are entered one after the other: of two that share a value, the later has it. *)
PersonOf(persons) ==
  LET Values(p) == {i.value : i \in p.identifiers}
      all == UNION {Values(persons[k]) : k \in DOMAIN persons}
  IN  [v \in all |-> Max({k \in DOMAIN persons : v \in Values(persons[k])})]

(* What an observation may belong to a person by: user_id, email, person_email,
   the editors, the owner. *)
Mentions(o) ==
  ({o.user, o.email, o.owner} \cup {o.editors[i] : i \in DOMAIN o.editors}) \ {Unset}

BelongsTo(o, k, personOf) ==
  \E v \in Mentions(o) \cap DOMAIN personOf : personOf[v] = k

Related(k, observations, personOf, schemas) ==
  LET Theirs(i) == observations[i].schema \in schemas /\ BelongsTo(observations[i], k, personOf)
  IN  Ascending({i \in DOMAIN observations : Theirs(i)})

Slides(k, observations, personOf) ==
  Related(k, observations, personOf, {"workspace-object-snapshot", "slide-analysis-result"})
Messages(k, observations, personOf) ==
  Related(k, observations, personOf, {"slack-message"})

(* Whose profile an analysis is: the address on the slide, or else the owner of
   the deck, or else its first editor.  Nobody's is 0. *)
FirstKnown(values, personOf) ==
  LET known == {i \in DOMAIN values : values[i] \in DOMAIN personOf}
  IN  IF known = {} THEN 0 ELSE personOf[values[Min(known)]]

Subject(record, observations, personOf) ==
  LET deck == observations[record.source]
      editor == IF deck.editors = <<>> THEN Unset ELSE deck.editors[1]
  IN  FirstKnown(<<LowerCase[record.email], deck.owner, editor>>, personOf)

(* The records are gone through in whatever order the store lists them; a later
   one takes the place of one that is poorer, or as rich and older. *)
Keeps(current, record) ==
  \/ current.richness > record.richness
  \/ current.richness = record.richness /\ current.at >= record.at

FrontendProfiles(n, records, observations, personOf) ==
  LET None == [k \in 1..n |-> {}]
      Enter(shown, record) ==
        LET k == Subject(record, observations, personOf)
        IN  IF \/ record.companion \/ record.source \notin DOMAIN observations
               \/ k = 0
               \/ \E current \in shown[k] : Keeps(current, record)
            THEN shown
            ELSE [shown EXCEPT ![k] = {record}]
  IN  FoldLeft(Enter, None, records)

(* The first and the last thing a person was seen doing; 0 is never. *)
Activity(shown, observations) ==
  LET times == {observations[i].at : i \in shown}
  IN  IF times = {} THEN [first |-> 0, last |-> 0] ELSE [first |-> Min(times), last |-> Max(times)]

(* A person's page.  Its times come from what it shows, never from the clock. *)
Page(person, observations, personOf, profile) ==
  LET slides == Slides(person.id, observations, personOf)
      messages == Messages(person.id, observations, personOf)
      activity == Activity(ToSet(slides) \cup ToSet(messages), observations)
  IN  [id |-> person.id, name |-> person.name,
       identities |-> {i \in person.identifiers : i.type # "name"},
       slides |-> slides, messages |-> messages, profile |-> profile,
       first |-> activity.first, last |-> activity.last,
       updated |-> Max({activity.last} \cup {r.at : r \in profile})]

Pages(persons, observations, records) ==
  LET personOf == PersonOf(persons)
      profiles == FrontendProfiles(Len(persons), records, observations, personOf)
  IN  [k \in DOMAIN persons |-> Page(persons[k], observations, personOf, profiles[k])]

-----------------------------------------------------------------------------
(* What the API makes of a page. *)
ListItem(page) ==
  [id |-> page.id, name |-> page.name, slides |-> Len(page.slides),
   messages |-> Len(page.messages), last |-> page.last]

Detail(page) ==
  [id |-> page.id, name |-> page.name, identities |-> page.identities,
   introduction |-> page.profile, slides |-> page.slides, messages |-> page.messages]
=============================================================================
