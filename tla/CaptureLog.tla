------------------------------ MODULE CaptureLog ------------------------------
(***************************************************************************)
(* What capturing promises, whatever crashes, failures and concurrent      *)
(* syncs happen underneath: an append-only log in which a key occurs at    *)
(* most once, and a caller is only told that a key is captured (Ingested   *)
(* or Duplicate) when the log holds it, from where it never disappears.    *)
(***************************************************************************)
EXTENDS Naturals, Sequences

CONSTANT Key

VARIABLES log,      \* the keys captured, in capture order
          told      \* the keys some caller was told are captured

Held == {log[n] : n \in 1..Len(log)}

Init == log = <<>> /\ told = {}

(* A key is captured, and the caller may or may not live to hear of it. *)
Capture(k) ==
  /\ k \notin Held
  /\ log' = Append(log, k)
  /\ told' \in {told, told \cup {k}}

(* A caller is told of a key captured earlier. *)
Tell(k) ==
  /\ k \in Held
  /\ told' = told \cup {k}
  /\ UNCHANGED log

Next == \E k \in Key : Capture(k) \/ Tell(k)

Spec == Init /\ [][Next]_<<log, told>>
=============================================================================
