------------------------- MODULE MCSupplementalCache -------------------------
(***************************************************************************)
(* An instance of SupplementalCache for TLC: a deck with Tanaka's slide,   *)
(* its continuation and an agenda, which somebody edits, and a copy of its *)
(* continuation in another deck.                                           *)
(***************************************************************************)
EXTENDS SupplementalCache

CONSTANTS heuristic, gemini, thumbnail

SlideOf(id, texts, keywords, image) ==
  [id |-> id, content |-> id, texts |-> texts, keywords |-> keywords, image |-> image,
   url |-> Unset]

Intro == SlideOf("s1", <<"tanaka@h", "tanaka", "I climb", "tanaka">>, 4, TRUE)
More == SlideOf("s2", <<"and since I was six years old I have swum">>, 0, FALSE)
Agenda == SlideOf("s3", <<"agenda", "n/a">>, 0 - 4, FALSE)

Texts == UNION {ToSet(slide.texts) : slide \in {Intro, More, Agenda}}
MCAddressIn == [t \in Texts |-> IF t = "tanaka@h" THEN t ELSE Unset]
MCNameLike == {"tanaka", "I climb", "agenda", "n/a"}

MCDecks == <<"retreat", "copy">>
MCSlides ==
  [deck \in {"retreat", "copy"} |->
     IF deck = "retreat" THEN {<<Intro, More, Agenda>>, <<More, Intro>>}
     ELSE {<<More>>}]
MCTitles == [deck \in {"retreat", "copy"} |-> deck]

MCGeminiReads ==
  [content \in {"s1", "s2", "s3"} |->
     CASE content = "s1" -> [NoProfile EXCEPT !.email = "tanaka@h", !.name = "tanaka", !.pic = "face"]
       [] content = "s2" -> [NoProfile EXCEPT !.generated = "n/a", !.tags = {"swimming", "none"}]
       [] OTHER          -> NoProfile]

MCId == [deck : {"retreat", "copy"}, slide : {"s1", "s2", "s3"}]
MCPayload == {}
MCObservation == [deck : {"retreat", "copy"}, published : {1}]
MCModel == {heuristic, gemini}
MCOtherInput == {thumbnail}
=============================================================================
