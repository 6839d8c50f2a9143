----------------------------- MODULE MCGoogleSync -----------------------------
(* GoogleSync on small instances: poll polls, manual is a manual sync. *)
EXTENDS GoogleSync

CONSTANTS poll, manual
=============================================================================
