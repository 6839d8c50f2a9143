------------------------- MODULE MCSnapshotFreshness -------------------------
(* SnapshotFreshness on small instances: poll polls, manual is a manual sync. *)
EXTENDS SnapshotFreshness

CONSTANTS poll, manual, message, slide
=============================================================================
