--------------------------- MODULE MCNotionWriteback ---------------------------
(* NotionWriteback on small instances: poll is the polling sync, manual a manual   *)
(* one or the review command.                                              *)
EXTENDS NotionWriteback

CONSTANTS poll, manual, alice, bob, sns, mbti

(* The second version of a profile has lost the field the first one filled. *)
ProfileFields == [version \in 1..2 |-> IF version = 1 THEN {sns, mbti} ELSE {sns}]
=============================================================================
