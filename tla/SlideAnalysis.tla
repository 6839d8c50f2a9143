----------------------------- MODULE SlideAnalysis -----------------------------
(***************************************************************************)
(* What the tail of sync_all reads off the slides of a presentation        *)
(* (src/self_host/app.rs, src/slide_analysis/types.rs), as operators: the  *)
(* profile of a slide, the continuation of one slide on the next, which    *)
(* slides are worth reading, and which of them have been read.             *)
(*                                                                         *)
(* A slide is [id, content, texts, keywords, image, url]: the texts of its *)
(* elements as they come, what its keywords add to its score, and whether  *)
(* it has an image.  Of the many fields of a profile one stands for those  *)
(* that are treated alike: property for the thirteen scalars, tags for the *)
(* five lists.                                                             *)
(* Names are compared without spaces and case, and are kept that way.      *)
(***************************************************************************)
EXTENDS Integers, Sequences, FiniteSets, SequencesExt, FiniteSetsExt

CONSTANTS Placeholders,  \* "null", "n/a", ... : what stands for nothing
          AddressIn,     \* the address in a text, or Unset
          NameLike,      \* texts that may be a name: short, no address, no heading
          GeminiReads    \* what Gemini makes of a slide's content: a profile

Unset == "unset"
Unnamed == ""

NoProfile ==
  [email |-> Unset, generated |-> Unset, name |-> Unnamed, bio |-> {}, pic |-> Unset,
   gallery |-> {}, property |-> Unset, tags |-> {}, url |-> Unset, slide |-> Unset,
   companionTo |-> Unset]

(* StudentProfile: its fields, and lists that are finite. *)
IsProfile(p) ==
  /\ DOMAIN p = DOMAIN NoProfile
  /\ IsFiniteSet(p.gallery) /\ IsFiniteSet(p.tags)

-----------------------------------------------------------------------------
(* normalize_in_place: what stands for nothing is dropped, and an address made
   up for a profile that has one. *)
Text(v) == IF v \in Placeholders THEN Unset ELSE v

Normalized(p) ==
  [p EXCEPT !.email = Text(@), !.generated = IF Text(p.email) = Unset THEN Text(@) ELSE Unset,
            !.bio = @ \ Placeholders, !.pic = Text(@), !.gallery = @ \ Placeholders,
            !.property = Text(@), !.tags = @ \ Placeholders, !.url = Text(@)]

Richness(p) ==
  LET Worth(holds, points) == IF holds THEN points ELSE 0
  IN  Worth(p.email # Unset, 10) + Worth(p.generated # Unset, 4) + Worth(p.name # Unnamed, 4)
        + Worth(p.bio # {}, 12) + Worth(p.pic # Unset, 6) + 2 * Cardinality(p.gallery)
        + Cardinality(p.tags) + Worth(p.property # Unset, 3)

(* has_meaningful_content, and for a continuation an image of it. *)
HasContent(p) == Richness(p) > 0 \/ p.url # Unset

(* extract_slide_text_fragments: every text once. *)
Fragments(slide) ==
  LET Add(texts, t) == IF Contains(texts, t) THEN texts ELSE Append(texts, t)
  IN  FoldLeft(Add, <<>>, slide.texts)

FirstEmail(texts) ==
  LET i == SelectInSeq(texts, LAMBDA t : AddressIn[t] # Unset)
  IN  IF i = 0 THEN Unset ELSE AddressIn[texts[i]]

InferredName(texts) ==
  LET i == SelectInSeq(texts, LAMBDA t : t \in NameLike)
  IN  IF i = 0 THEN Unset ELSE texts[i]

(* heuristic_profile_for_slide: a slide without a name has the deck's title, and
   the next six texts are its biography. *)
Or(mine, theirs) == IF mine = Unset THEN theirs ELSE mine

About(email, name, texts) ==
  LET rest == SelectSeq(texts, LAMBDA t : t \notin {email, name})
  IN  [NoProfile EXCEPT !.email = email, !.name = name,
                        !.bio = {rest[n] : n \in 1..Min({6, Len(rest)})}]

Heuristically(title, texts) == About(FirstEmail(texts), Or(InferredName(texts), title), texts)

(* The analyser's answer if there is one, or else the heuristic. *)
Extracted(title, slide, answered) ==
  [Normalized(IF answered THEN GeminiReads[slide.content] ELSE Heuristically(title, Fragments(slide)))
     EXCEPT !.slide = slide.id, !.url = slide.url]

-----------------------------------------------------------------------------
(* The next slide continues this one: it has something, no address of its own,
   and no name but the deck's or the same. *)
ShouldMerge(primary, companion, title) ==
  /\ HasContent(companion)
  /\ companion.email = Unset
  /\ companion.name \in {Unnamed, title} \/ companion.name = primary.name

MergedCompanion(p, c) ==
  [p EXCEPT !.gallery = @ \cup c.gallery \cup ({c.url} \ {Unset}),
            !.bio = @ \cup c.bio, !.pic = Or(@, c.pic),
            !.property = Or(@, c.property), !.tags = @ \cup c.tags]

(* ensure_profile_identifier: slide-<id>@hlab.college, here the id. *)
WithIdentifier(p) ==
  IF p.email = Unset /\ p.generated = Unset THEN [p EXCEPT !.generated = p.slide] ELSE p

-----------------------------------------------------------------------------
(* ranked_self_intro_slide_indices: the slides worth reading, best first; early
   slides get a bonus, and if none has a score the first ones are taken. *)
Score(slides, i) ==
  LET texts == Fragments(slides[i])
      Worth(holds, points) == IF holds THEN points ELSE 0
  IN  IF texts = <<>> THEN 0
      ELSE Worth(FirstEmail(texts) # Unset, 8) + slides[i].keywords
             + Worth(Len(texts) >= 3, 2) + Worth(slides[i].image, 2)
             + Min({Len(slides) - i + 1, 3})

RankedSlides(slides, limit) ==
  LET scored == {<<Score(slides, i), i>> : i \in DOMAIN slides}
      Better(a, b) == a[1] > b[1] \/ (a[1] = b[1] /\ a[2] < b[2])
      Ahead(s) == {t \in scored : Better(t, s)}
      best == [n \in DOMAIN slides |-> (CHOOSE s \in scored : Cardinality(Ahead(s)) = n - 1)[2]]
      positive == Cardinality({s \in scored : s[1] > 0})
      worth == IF positive = 0 THEN Len(slides) ELSE positive
  IN  SubSeq(best, 1, Min({limit, worth}))

-----------------------------------------------------------------------------
(* A slide is found in the records [model, profile] by its id alone, in whatever
   deck it was read; records has, of those of one slide, the first that is listed. *)
FindRecord(records, id) == {r \in records : r.profile.slide = id}

NeedsRefresh(record, model) == Richness(Normalized(record.profile)) = 0 \/ record.model # model

NeedsAnalysis(records, id, model, analyser) ==
  LET found == FindRecord(records, id)
  IN  found = {} \/ (analyser /\ \E r \in found : NeedsRefresh(r, model))

-----------------------------------------------------------------------------
(* Plausible faults, swapped in one at a time by the mutant runs. *)
SameResult(result, next) ==
  [result EXCEPT !.profile.slide = next.id, !.profile.companionTo = result.profile.slide,
                 !.profile.pic = Unset, !.thumbnail = FALSE]

(* A merged slide gets a result of its own: the same profile, without the picture. *)
CompanionResult(result, next) ==
  [result EXCEPT !.id.slide = next.id, !.profile.slide = next.id,
                 !.profile.companionTo = result.profile.slide,
                 !.profile.pic = Unset, !.thumbnail = FALSE]

Result(deck, slide, profile) ==
  [id |-> [deck |-> deck, slide |-> slide.id], thumbnail |-> TRUE,
   profile |-> Normalized(WithIdentifier(profile))]

WithContinuation(result, next) == <<result, CompanionResult(result, next)>>

Joined(deck, title, slide, next, primary, companion) ==
  IF ShouldMerge(primary, companion, title)
  THEN WithContinuation(Result(deck, slide, MergedCompanion(primary, companion)), next)
  ELSE <<Result(deck, slide, primary)>>

(* The results of reading one slide; answered says which extractions, of slides
   read for themselves or as the next one, the analyser answered. *)
Results(deck, title, slides, i, answered) ==
  LET Profile(n, as) == Extracted(title, slides[n], <<n, as>> \in answered)
  IN  IF i = Len(slides) THEN <<Result(deck, slides[i], Profile(i, "own"))>>
      ELSE Joined(deck, title, slides[i], slides[i + 1], Profile(i, "own"), Profile(i + 1, "next"))

(* The slides of a deck, the best first; one read as a continuation is done with. *)
AnalysesOf(deck, title, slides, limit, records, model, analyser, answered) ==
  LET ranked == RankedSlides(slides, limit)
      nothing == [consumed |-> {}, results |-> <<>>]
      Add(soFar, i, results) ==
        [consumed |-> soFar.consumed \cup (i..(i + Len(results) - 1)),
         results |-> soFar.results \o results]
      Read(soFar, i) ==
        IF i \in soFar.consumed \/ ~ NeedsAnalysis(records, slides[i].id, model, analyser)
        THEN soFar
        ELSE Add(soFar, i, Results(deck, title, slides, i, answered))
      read[n \in 0..Len(ranked)] == IF n = 0 THEN nothing ELSE Read(read[n - 1], ranked[n])
  IN  read[Len(ranked)].results
=============================================================================
