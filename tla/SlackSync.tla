------------------------------ MODULE SlackSync ------------------------------
(***************************************************************************)
(* Capturing one Slack channel: the channel loop of sync_all and           *)
(* sync_thread_replies (src/self_host/app.rs), against a channel people    *)
(* keep posting to.  A message is its timestamp; conversations.history lists the *)
(* top-level messages newest first, page by page, replies are had thread   *)
(* by thread.  The channel cursor and one cursor per thread persist.       *)
(*                                                                         *)
(* Several syncs run at once (start-up, polling, POST /admin/sync) and     *)
(* share the cursors and the lake.  ingest_draft is atomic and durable     *)
(* here (module DurableIngest), so a crash ends the syncs under way just   *)
(* as a failure does: at any step, nothing but their progress being lost.  *)
(***************************************************************************)
EXTENDS Naturals, Sequences, FiniteSets, FiniteSetsExt

CONSTANTS Worker,       \* threads that sync
          Poller,       \* the one of spawn_polling_task, which syncs for ever
          PageSize,     \* messages in a page of history
          MaxTs,        \* bound on the messages posted
          MaxFailures   \* bound on the syncs that fail

ASSUME SyncAssumption ==
  /\ Poller \in Worker
  /\ PageSize \in Nat \ {0} /\ MaxTs \in Nat /\ MaxFailures \in Nat

VARIABLES clock,        \* the timestamp of the newest message; 0: none
          root,         \* the root a message replies to; 0: it is top-level
          captured,     \* the messages in the lake: had they replies by then?
          cursor,       \* slack:{channel}:oldest_ts; 0: none
          threadCursor, \* slack:{channel}:thread:{ts}:oldest_ts; 0: none
          job,          \* the sync of each worker
          failures

slack == <<clock, root>>
state == <<captured, cursor, threadCursor>>
vars == <<slack, state, job, failures>>

Ts == 1..MaxTs
Posted == 1..clock
TopLevel == {t \in Posted : root[t] = 0}
RepliesTo(t) == {r \in Posted : root[r] = t}
Captured == DOMAIN captured

Larger(a, b) == IF a > b THEN a ELSE b

(* A job's latest is latest_ts, or latest_reply_ts while in a thread; its  *)
(* since is a history variable: the newest message when the sync began.    *)
Idle == [pc |-> "idle", oldest |-> 0, latest |-> 0, before |-> 0, batch |-> <<>>,
         more |-> FALSE, roots |-> {}, thread |-> 0, threadLatest |-> 0, since |-> 0]

(* What conversations.history lists, newest first, from an older bound     *)
(* (exclusive) to the position of the page cursor.                         *)
History(oldest, before) == {t \in TopLevel : oldest < t /\ t < before}

NewestOf(S) == {t \in S : Cardinality({u \in S : u > t}) < PageSize}

(* The members of a set of timestamps, newest first or oldest first. *)
NewestFirst(S) == [n \in 1..Cardinality(S) |->
                     CHOOSE t \in S : Cardinality({u \in S : u > t}) = n - 1]
OldestFirst(S) == [n \in 1..Cardinality(S) |->
                     CHOOSE t \in S : Cardinality({u \in S : u < t}) = n - 1]

-----------------------------------------------------------------------------
(* Plausible faults, swapped in one at a time by the mutant runs. *)
NoKnownRoots == {}
StartSyncWithoutRoots(w) ==
  /\ job[w].pc = "idle"
  /\ job' = [job EXCEPT ![w] =
               [Idle EXCEPT !.pc = "fetch", !.oldest = cursor, !.latest = cursor,
                            !.before = MaxTs + 1, !.since = clock]]
  /\ UNCHANGED <<slack, state, failures>>
EndPageWithoutNext(w) ==
  /\ job[w].pc = "page" /\ job[w].batch = <<>>
  /\ job' = [job EXCEPT ![w].pc = "threads"]
  /\ UNCHANGED <<slack, state, failures>>
FailButSaveCursor(w) ==
  /\ job[w].pc # "idle" /\ failures < MaxFailures
  /\ failures' = failures + 1
  /\ cursor' = job[w].latest
  /\ job' = [job EXCEPT ![w] = Idle]
  /\ UNCHANGED <<slack, captured, threadCursor>>

-----------------------------------------------------------------------------
(* known_thread_roots_from_observations: messages captured with replies.   *)
KnownRoots == {t \in Captured : root[t] = 0 /\ captured[t]}

Init ==
  /\ clock = 0
  /\ root = [t \in Ts |-> 0]
  /\ captured = [t \in {} |-> FALSE]
  /\ cursor = 0
  /\ threadCursor = [t \in Ts |-> 0]
  /\ job = [w \in Worker |-> Idle]
  /\ failures = 0

(* Somebody posts a message, or a reply to a top-level message. *)
Post(r) ==
  /\ clock < MaxTs
  /\ r = 0 \/ r \in TopLevel
  /\ clock' = clock + 1
  /\ root' = [root EXCEPT ![clock + 1] = r]
  /\ UNCHANGED <<state, job, failures>>

(* A sync reads the cursor, and the threads the lake knows. *)
StartSync(w) ==
  /\ job[w].pc = "idle"
  /\ job' = [job EXCEPT ![w] =
               [Idle EXCEPT !.pc = "fetch", !.oldest = cursor, !.latest = cursor,
                            !.before = MaxTs + 1, !.roots = KnownRoots, !.since = clock]]
  /\ UNCHANGED <<slack, state, failures>>

(* conversations_history; a root is a message that has replies by now. *)
FetchPage(w) ==
  /\ job[w].pc = "fetch"
  /\ LET all == History(job[w].oldest, job[w].before)
         page == NewestOf(all)
     IN  job' = [job EXCEPT ![w].pc = "page",
                            ![w].batch = [n \in DOMAIN NewestFirst(page) |->
                               [ts |-> NewestFirst(page)[n],
                                replied |-> RepliesTo(NewestFirst(page)[n]) # {}]],
                            ![w].before = IF page = {} THEN @ ELSE Min(page),
                            ![w].more = page # all]
  /\ UNCHANGED <<slack, state, failures>>

(* ingest_draft of the mapped message: Ingested or Duplicate. *)
Ingest(m) ==
  captured' = [t \in Captured \cup {m.ts} |->
                 IF t \in Captured THEN captured[t] ELSE m.replied]

(* thread_root_ts: of a message that has replies. *)
ThreadRoot(m) == IF m.replied THEN {m.ts} ELSE {}

(* ingest_slack_message for the next message of the page. *)
IngestMessage(w) ==
  /\ job[w].pc = "page"
  /\ job[w].batch # <<>>
  /\ LET m == Head(job[w].batch)
     IN  /\ Ingest(m)
         /\ job' = [job EXCEPT ![w].batch = Tail(@),
                               ![w].latest = Larger(@, m.ts),
                               ![w].roots = @ \cup ThreadRoot(m)]
  /\ UNCHANGED <<slack, cursor, threadCursor, failures>>

EndPage(w) ==
  /\ job[w].pc = "page"
  /\ job[w].batch = <<>>
  /\ job' = [job EXCEPT ![w].pc = IF job[w].more THEN "fetch" ELSE "threads"]
  /\ UNCHANGED <<slack, state, failures>>

(* sync_thread_replies of the next root, in timestamp order: reads the     *)
(* thread's cursor, which starts at the root, and fetches what is newer.   *)
FetchThread(w) ==
  /\ job[w].pc = "threads"
  /\ job[w].roots # {}
  /\ LET thread == Min(job[w].roots)
         oldest == IF threadCursor[thread] = 0 THEN thread ELSE threadCursor[thread]
         replies == OldestFirst({r \in RepliesTo(thread) : r > oldest})
     IN  job' = [job EXCEPT ![w].pc = "thread",
                            ![w].roots = @ \ {thread},
                            ![w].thread = thread,
                            ![w].threadLatest = oldest,
                            ![w].batch = [n \in DOMAIN replies |->
                                            [ts |-> replies[n], replied |-> FALSE]]]
  /\ UNCHANGED <<slack, state, failures>>

(* ingest_slack_message for the next reply. *)
IngestReply(w) ==
  /\ job[w].pc = "thread"
  /\ job[w].batch # <<>>
  /\ LET m == Head(job[w].batch)
     IN  /\ Ingest(m)
         /\ job' = [job EXCEPT ![w].batch = Tail(@),
                               ![w].threadLatest = Larger(@, m.ts)]
  /\ UNCHANGED <<slack, cursor, threadCursor, failures>>

EndThread(w) ==
  /\ job[w].pc = "thread"
  /\ job[w].batch = <<>>
  /\ threadCursor' = [threadCursor EXCEPT ![job[w].thread] = job[w].threadLatest]
  /\ job' = [job EXCEPT ![w].pc = "threads"]
  /\ UNCHANGED <<slack, captured, cursor, failures>>

(* All threads are done, and the channel snapshot: the cursor is saved     *)
(* (set_state), even where another sync has saved a later one.             *)
Finish(w) ==
  /\ job[w].pc = "threads"
  /\ job[w].roots = {}
  /\ cursor' = IF job[w].latest = 0 THEN cursor ELSE job[w].latest
  /\ job' = [job EXCEPT ![w] = Idle]
  /\ UNCHANGED <<slack, captured, threadCursor, failures>>

(* An API call, a file download, an ingest or the process fails. *)
Fail(w) ==
  /\ job[w].pc # "idle"
  /\ failures < MaxFailures
  /\ failures' = failures + 1
  /\ job' = [job EXCEPT ![w] = Idle]
  /\ UNCHANGED <<slack, state>>

Progress(w) ==
  \/ StartSync(w)
  \/ FetchPage(w)
  \/ IngestMessage(w)
  \/ EndPage(w)
  \/ FetchThread(w)
  \/ IngestReply(w)
  \/ EndThread(w)
  \/ Finish(w)

Next ==
  \/ \E r \in 0..MaxTs : Post(r)
  \/ \E w \in Worker : Progress(w) \/ Fail(w)

Spec == Init /\ [][Next]_vars

(* spawn_polling_task starts one sync after the other, for ever. *)
FairSpec == Spec /\ WF_vars(Progress(Poller))

-----------------------------------------------------------------------------
(* Nothing older than a cursor is missing, no top-level message of the     *)
(* channel and no reply of the thread: a sync that fails, or saves its     *)
(* cursor over a later one, never makes the next skip one.                 *)
CursorsCover ==
  /\ \A t \in TopLevel : t <= cursor => t \in Captured
  /\ \A t \in TopLevel : \A r \in RepliesTo(t) : r <= threadCursor[t] => r \in Captured

(* A sync that ends well has captured what was posted before it began: all *)
(* top-level messages, and all replies in threads that had replies when    *)
(* their root was captured.                                                *)
FinishedSyncIsComplete ==
  [][\A w \in Worker : Finish(w) =>
       \A t \in 1..job[w].since :
         \/ t \in Captured
         \/ root[t] # 0 /\ root[t] \in Captured /\ ~captured[root[t]]]_vars

(* Once failures stop, the polling syncs capture every top-level message.  *)
MessagesGetCaptured ==
  \A t \in Ts : (t \in Posted /\ root[t] = 0) ~> t \in Captured

(* ... and every reply of a thread that is known to be one.                *)
KnownThreadsGetCaptured ==
  \A t \in Ts : (t \in Posted /\ root[t] \in KnownRoots) ~> t \in Captured
=============================================================================
