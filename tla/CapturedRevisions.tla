--------------------------- MODULE CapturedRevisions ---------------------------
(***************************************************************************)
(* What a sync leaves behind of a Google Slides presentation: the snapshots*)
(* in the lake and the cursor in sync_state, and what has to hold of them  *)
(* however they came there (module GoogleSync).                            *)
(***************************************************************************)
EXTENDS Naturals

VARIABLES captured,  \* workspace-object snapshots in the lake
          cursor,    \* sync_state gslides:<presentation>:revision
          finished   \* newest revision there was when a sync that finished began (history)

NoRevision == 0

Snapshot(rev, native, rendered) == [rev |-> rev, native |-> native, rendered |-> rendered]

(* A sync that finished, skipping the presentation or saving its cursor,   *)
(* leaves the newest revision there was when it began captured, or a newer *)
(* one: however many pages the listing had, whatever was purged while it   *)
(* was read, and wherever an overlapping sync moved the cursor meanwhile.  *)
FinishedSyncIsCurrent ==
  finished # NoRevision => \E o \in captured : o.rev >= finished

(* A revision is never filed with content older than itself, and its       *)
(* rendering is never older than its native structure: content is fetched  *)
(* after the revision was listed, whatever is edited or captured meanwhile.*)
ContentNeverOlder ==
  \A o \in captured : o.rev <= o.native /\ o.native <= o.rendered

(* The cursor names a revision that was captured: a failing sync, an       *)
(* overlapping one or a purge never makes it skip one.                     *)
CursorCaptured == cursor # NoRevision => \E o \in captured : o.rev = cursor
=============================================================================
