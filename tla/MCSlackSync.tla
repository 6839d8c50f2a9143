---------------------------- MODULE MCSlackSync ----------------------------
(***************************************************************************)
(* Instances of SlackSync for TLC: the polling sync alone, or with the one *)
(* that the server runs at start-up.                                       *)
(***************************************************************************)
EXTENDS SlackSync

CONSTANTS startup, poll

MCWorker == {startup, poll}
=============================================================================
