------------------------------- MODULE MCReadApi -------------------------------
(* Tanaka posts twice and edits a deck of Sato's under another spelling of the
   address; Sato posts without one; a slide of the deck introduces Tanaka. *)
EXTENDS ReadApi

MCLowerCase ==
  [v \in {"Tanaka@h", "tanaka@h", "sato@h", "Tanaka", "Sato"} |->
     CASE v = "Tanaka@h" -> "tanaka@h" [] v = "Tanaka" -> "tanaka" [] v = "Sato" -> "sato"
       [] OTHER -> v]

Posted(user, email, name, at) ==
  [schema |-> "slack-message", user |-> user, email |-> email, name |-> name,
   editors |-> <<>>, owner |-> Unset, at |-> at]
Deck(editors, owner, at) ==
  [schema |-> "workspace-object-snapshot", user |-> Unset, email |-> Unset, name |-> Unset,
   editors |-> editors, owner |-> owner, at |-> at]

MCObserved ==
  {Posted("U1", "Tanaka@h", "Tanaka", 1), Posted("U1", "Tanaka@h", "Tanaka", 2),
   Posted("U2", Unset, "Sato", 2), Deck(<<"tanaka@h", "Tanaka@h">>, "sato@h", 3)}

Slide(slide, richness, companion) ==
  [slide |-> slide, email |-> "tanaka@h", name |-> "Tanaka", richness |-> richness,
   companion |-> companion]
MCProfiles ==
  {Slide("s1", 2, FALSE), Slide("s2", 1, FALSE), Slide("s2", 2, FALSE), Slide("s2", 3, TRUE)}

MCModes == {[mode |-> Unset, pinned |-> FALSE], [mode |-> "academic-pinned", pinned |-> TRUE]}
=============================================================================
