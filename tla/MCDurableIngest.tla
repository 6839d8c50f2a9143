--------------------------- MODULE MCDurableIngest ---------------------------
(***************************************************************************)
(* Instances of DurableIngest for TLC.                                     *)
(***************************************************************************)
EXTENDS DurableIngest, TLC

CONSTANTS server, review,   \* the two programs that open the database
          sync, poll, batch, \* the server's start-up and polling syncs; review's
          k1, k2, k3, b1

MCKey == {k1, k2, k3}
MCBlob == {b1}

(* A message with a file, one without, one published ahead of the clock,   *)
(* one analysis.                                                           *)
WithFile == [key |-> k1, blobs |-> {b1}, published |-> 0, route |-> "crawler"]
Plain    == [key |-> k2, blobs |-> {}, published |-> 0, route |-> "crawler"]
Early    == [key |-> k2, blobs |-> {}, published |-> 3, route |-> "crawler"]
Analysis == [key |-> k3, blobs |-> {}, published |-> 0, route |-> "analysis"]

MCSharedDrafts == {WithFile, Early, Analysis}
MCAnalysisDrafts == {Plain, Analysis}

(* The two threads of the server may change places. *)
MCSymmetry == Permutations({sync, poll})

MCBoth == {server, review}
MCServer == {server}
MCAllWorkers == {sync, poll, batch}
MCServerAndReview == [w \in MCAllWorkers |-> IF w = batch THEN review ELSE server]
MCServerWorkers == {sync, poll}
MCOneServer == [w \in MCServerWorkers |-> server]
=============================================================================
